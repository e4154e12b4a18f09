CONSTANTS
  Calls <- MCCalls
  SrcBank = 192
  AtBankStart = FALSE
  LiteralEdges = {1, 2, 3, 17, 18, 255, 256, 300}
  MatchEdges = {2, 8, 9, 23, 24, 255, 256, 300}
  OffsetEdges = {1, 2, 31, 32, 33, 34, 256, 512, 513, 768, 8705}
SPECIFICATION FairSpec
INVARIANTS
  TypeOK
PROPERTIES
  Implements
  Returns
