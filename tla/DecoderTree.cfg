SPECIFICATION Spec
CONSTANTS
  Width = 4
  MaxDepth = 2
  Instr <- MCInstr
  Catalogs <- MCCatalogs
INVARIANTS
  DecodeIsFlat
  MatchIsComplete
  Narrowing
  ReplicationBounded
