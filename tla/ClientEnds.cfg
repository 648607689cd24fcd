\* Two units may wait for the decoder; two processes.
SPECIFICATION Spec
CONSTANTS
  MaxBacklog = 2
  MaxStarts = 2
INVARIANTS OneClient NeverOrphans DelayBounded
PROPERTIES LastWord CloseEnds
CHECK_DEADLOCK FALSE
