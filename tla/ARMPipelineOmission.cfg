SPECIFICATION Spec
CONSTANTS
  a = a
  b = b
  c = c
  Instr <- MCInstr
  IFormFile <- MCIFormFile
  Worker = {w1, w2}
  NoJob = NoJob
  Inputs <- LimitInputs
INVARIANTS
  NoSilentOmission
