\* Two hosts, two players, two seats, two PINs with a lockout, one expiry with
\* the re-creation of the session: every order of the handlers' locked steps; the
\* epoch saturates at 3.
SPECIFICATION Spec
CONSTANTS
  HostSocks = {h1, h2}
  PlayerSocks = {p1, p2}
  None = None
  Pins = {right, wrong}
  MaxPlayers = 2
  MaxPinFailures = 2
  MaxEpoch = 3
  MaxSweeps = 1
SYMMETRY Symmetry
INVARIANTS TypeOK SeatAgreement NobodyStranded EpochsDistinct
PROPERTIES HostRoleKept
CHECK_DEADLOCK FALSE
