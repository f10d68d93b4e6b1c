SPECIFICATION Spec
CONSTANTS
  Texts <- MCTexts
  ReadInstruction <- Instruction
INVARIANTS
  BlocksClosed
  TokensKept
  ReadsAsWritten
CHECK_DEADLOCK FALSE
