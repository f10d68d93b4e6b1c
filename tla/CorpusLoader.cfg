SPECIFICATION FairSpec
CONSTANTS
  Component <- MCComponent
  IndexBase <- MCIndexBase
  Series <- MCSeries
  Release <- MCRelease
  NoHint = NoHint
  BufferClass <- MCBufferClass
  MaxMember = 8
  MaxTotal = 11
  Archives <- MCArchives
  Worker = {w1, w2}
  MaxInflightBytes = 6
INVARIANTS
  BudgetExact
  BudgetBound
  BuffersUnshared
  ArenaBounded
  PreparedFaithfully
  NoLostWakeup
  CleanReturn
PROPERTIES
  ImplementsLoad
  Terminates
