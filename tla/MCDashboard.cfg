SPECIFICATION Spec
CONSTANTS
  short = short  long = long
  Circuits = {"auth"}
  Listed = {"auth", "completion", "poolNote"}
  Numbered = {"auth", "completion"}
  KeyFiles = {short, long}
  Blank = Blank
  NoEvent = NoEvent
  NoHash = NoHash
  VkLen <- MCVkLen
  Published <- MCPublished
  MaxVkUnits = 2
  MaxU64 = 1
  MaxSlot = 1
  MaxLoads = 2
  MaxMounts = 2
  MaxFailures = 2
INVARIANTS
  LoadsNeverGoBack
  StatusIsTrue
PROPERTY PanelCatchesUp
CHECK_DEADLOCK FALSE
