CONSTANTS
  Datas <- MCDatas
  Dictionaries <- MCNoDictionary
  FlagSets <- MCLegacy
  Codes = {1, 2}
  HISTORY_SIZE = 2
  MAX_OFFSET = 2
  BlockSize <- MCBlockSize
  LEGACY_BLOCK_SIZE = 2
  MIN_CODE = 1
  MAX_CODE = 2
  RAW_MAX = 3
  SomeUncompressible = TRUE
  WritesFail = FALSE
  STDIO_BUFFER = 5
  FilesCut = FALSE
  Longest = 5
SPECIFICATION Spec
INVARIANTS
  RoundTrip
