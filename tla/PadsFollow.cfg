\* Every source; two connections, two frames on the channel, two faults of any kind.
SPECIFICATION Spec
CONSTANTS
  Sources = {"pad", "keys", "web"}
  Conns = {1, 2}
  Preallocated = 3
  MaxAir = 2
  MaxQueue = 1
  MaxFaults = 2
INVARIANTS OneController
PROPERTIES SeatKept PressFollows ReleaseFollows
