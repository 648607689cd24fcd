\* The 60 fps production preset and one player's reports.
SPECIFICATION FairSpec
CONSTANTS
  BaseFps = 60
  BaseKbps = 10000
  WindowFrames = {300}
  WindowSheds = {0, 33, 60}
  DropDeltas = {0, 15}
  MaxReports = 3
INVARIANTS
  BitrateHeld
PROPERTIES
  FallsOnlyWhenBad
  RisesOnlyWhenClean
  RecoversUnlessWedged
  DrainsUnlessWedged
