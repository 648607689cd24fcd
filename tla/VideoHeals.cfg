\* One viewer of each kind in turn, with up to three things going wrong.
CONSTANTS
  Viewers = {v}
  Kinds = {"chrome", "safari", "native"}
  Coalesce = 1
  Dual = 2
  Interval = 2
  Burst = 2
  Sources = {"gpu", "raw"}
  Hazards = {"lost", "cut", "jam", "rebuild"}
  MaxFaults = 3
SPECIFICATION FairSpec
INVARIANTS HealsInTime
PROPERTY WarmsUp
