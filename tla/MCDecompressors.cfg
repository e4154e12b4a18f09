CONSTANTS
  Calls <- MCCalls
  RETLEN = TRUE
  Lzsa2Inline = 2
  Zx0Inline = 1
  CodeBanks = {128, 192}
  Leftovers = {43691}
  Lzsa2Literals = {1, 2, 3, 17, 18, 255}
  Lzsa2Matches = {2, 8, 9, 23, 24, 255, 256, 300}
  Lzsa2Offsets = {1, 2, 31, 32, 33, 34, 256, 257, 511, 512, 513, 767, 768, 1024}
  Zx0Literals = {1, 2, 3, 4, 16, 256}
  Zx0Matches = {2, 3, 4, 5, 17, 255, 256}
  Zx0Offsets = {1, 2, 128, 129, 256, 257, 384, 385}
SPECIFICATION FairSpec
INVARIANTS
  TypeOK
  CarryClearForLength
  InStepEverywhere
  LoadsFromBlockBank
  OutputContiguous
  MatchInsideOutput
  PortInStep
  MarkerShiftedOut
  TypeBitThere
  CarrySetAtDone
  CallerRestored
  ReturnsIn8Bit
PROPERTIES
  Implements
  Returns
