CONSTANTS
  Calls <- MCCalls
  RETLEN = TRUE
  INLINE = 2
  CodeBanks = {128, 192}
  SrcBank = 192
  LiteralEdges = {256, 300}
  MatchEdges = {2}
  OffsetEdges = {1}
SPECIFICATION FairSpec
INVARIANTS
  ReturnsLength
