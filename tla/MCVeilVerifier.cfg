SPECIFICATION VerifierSpec
CONSTANTS
  empty = empty  cut = cut  short = short  long = long  huge = huge
  Blank = Blank
  NoEvent = NoEvent
  KeyFiles = {empty, cut, short, long, huge}
  Tags = {0, 1, 2}
  VkLen <- MCVkLen
  MaxVkUnits = 10
  MaxU64 = 1
INVARIANTS
  VerifyIsExact
  VerifiedUnderLatestKey
