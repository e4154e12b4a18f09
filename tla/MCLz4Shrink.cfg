CONSTANTS
  Inputs <- MCInputs
  Longest = 7
  Starts = {0, 2}
  Patterns = 8
  MIN_MATCH_SIZE = 3
  LCP_MAX = 5
  POS = 32
  MAX_OFFSET = 6
  LAST_MATCH_OFFSET = 5
  LAST_LITERALS = 1
  LITERALS_RUN_LEN = 2
  MATCH_RUN_LEN = 2
  LEAVE_ALONE_MATCH_SIZE = 5
  SHORT = 5
  BYTE = 3
  Flags <- MCFlags
  MaxOut <- MCMaxOut
SPECIFICATION Spec
INVARIANTS
  TypeOK
  LongestAndNearest
  RoundTrip
  NeverGrows
  EndsInLiterals
