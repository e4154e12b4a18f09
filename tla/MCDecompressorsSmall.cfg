CONSTANTS
  Calls <- MCCalls
  RETLEN = FALSE
  Lzsa2Inline = 1
  Zx0Inline = 0
  CodeBanks = {128, 192}
  Leftovers = {43691}
  Lzsa2Literals = {1, 2, 3, 17, 18, 255}
  Lzsa2Matches = {2, 8, 9, 23, 24, 255, 256, 300}
  Lzsa2Offsets = {1, 2, 31, 32, 33, 34, 256, 257, 511, 512, 513, 767, 768, 1024, 8705}
  Zx0Literals = {1, 2, 15, 257}
  Zx0Matches = {2, 9, 257}
  Zx0Offsets = {1, 128, 129, 1920, 1921}
SPECIFICATION FairSpec
INVARIANTS
  CallerRestored
PROPERTIES
  Implements
