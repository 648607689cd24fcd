SPECIFICATION MovingSpec
CONSTANTS
  narrow = narrow
  wide = wide
  short = short
  tall = tall
  slow = slow
  fast = fast
  low = low
  high = high
  CliTarget <- MCCliTarget
  Scenarios <- MCScenarios
  Widths = {narrow, wide}
  Heights = {short, tall}
  Fps = {slow, fast}
  Kbps = {low, high}
  OutDepth = 1
  RequestIdr = RequestIdr
  None = None
INVARIANTS NotStarved
PROPERTIES IdrAnswered FollowsTarget FallsBackUnlessTexture
