\* Two players, two seats, three registrations, one departure, a broken link or a
\* restart.
SPECIFICATION FairSpec
CONSTANTS
  Players = {p1, p2}
  None = None
  MaxPlayers = 2
  MaxJoins = 3
  MaxLeaves = 1
  MaxFaults = 1
INVARIANTS Served
PROPERTY Connects
CHECK_DEADLOCK FALSE
