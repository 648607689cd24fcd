CONSTANTS
  Base = 16
  Lengths = {2, 3, 15, 20, 33, 300}
  Formats = {"long", "short", "avcc"}
  Blobs = {"sets", "avcc", "none"}
  NewBlobs = {"sets", "avcc", "none"}
  MaxChanges = 1
  MaxSamples = 3
SPECIFICATION NalSpec
INVARIANTS Unchanged JoinsAtKeyframe
