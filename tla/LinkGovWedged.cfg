\* Mild shed, then a report, then a clean link.
SPECIFICATION FairSpec
CONSTANTS
  BaseFps = 90
  BaseKbps = 10000
  WindowFrames = {450}
  WindowSheds = {0, 50, 90}
  DropDeltas = {0}
  MaxReports = 1
PROPERTY Recovers
