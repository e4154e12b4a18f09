CONSTANTS
  Calls <- MCCalls
  RETLEN = TRUE
  LongLiterals = TRUE
SPECIFICATION FairSpec
INVARIANTS
  ReturnsLength
