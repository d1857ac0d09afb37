\* Three starts and two stop commands.
SPECIFICATION Spec
CONSTANTS
  Daemons = {d1, d2, d3}
  Stops = {t1, t2}
  NoPid = none
SYMMETRY DaemonSymm
INVARIANTS
  TypeOK
  RecordHonest
  PidFileHonest
  Guarded
PROPERTIES
  StopRecovers
CHECK_DEADLOCK FALSE
