SPECIFICATION FairSpec
CONSTANTS
  a = a
  b = b
  c = c
  Instr <- MCInstr
  IFormFile <- MCIFormFile
  Worker = {w1, w2}
  NoJob = NoJob
  Inputs <- MCInputs
INVARIANTS
  FullGenerationComplete
  ErrorsRefuseCodegen
  EveryJobAnswered
  FormsReused
  SuccessIsValid
PROPERTIES
  IRFrozen
  RunReturns
