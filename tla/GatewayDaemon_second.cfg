\* Three starts, and nobody stops anything.
SPECIFICATION Spec
CONSTANTS
  Daemons = {d1, d2, d3}
  Stops = {}
  NoPid = none
SYMMETRY DaemonSymm
INVARIANTS
  NoSecondDaemon
CHECK_DEADLOCK FALSE
