CONSTANTS
  Calls <- MCCalls
  SrcBank = 192
  AtBankStart = TRUE
  LiteralEdges = {1, 2, 3, 17, 18, 255, 256, 300}
  MatchEdges = {2, 8, 9, 23, 24, 255, 256, 300}
  OffsetEdges = {1, 2, 31, 32, 33, 34, 256, 257, 511, 512, 513, 767, 768, 1024}
SPECIFICATION FairSpec
PROPERTIES
  Implements
