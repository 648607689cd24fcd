CONSTANTS
  Chunk = 2
  Pictures <- MCPictures
  Units = 2
  MaxLost = 1
SPECIFICATION Spec
INVARIANTS EnoughIsEnough
PROPERTIES ImplementsFrameChannel
