SPECIFICATION Spec
CONSTANTS
  Stale = 3
  RespawnAfter = 4
  HungRetry = 5
  Retry = 6
  WrapperSleep = 1
  StartMax = 1
  ScriptMax = 1
  QuietMax = 1
  QueueDepth = 1
  WireCap = 1
  Sizes = {small, large}
  None = None
  MaxTarget = 2
  MaxEvents = 2
INVARIANTS KeptFrameFits
PROPERTIES WorkingIsLeftAlone Recovers GapHeals TargetReached
