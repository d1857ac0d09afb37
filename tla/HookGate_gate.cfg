\* Two parallel calls, two deciders; no symmetry, because of the liveness.
SPECIFICATION MCSpec
CONSTANTS
  Calls = {c1, c2}
  Stdin = stdin
  Ops = {p1}
  NoCall = none
  MaxReceipts = 2
INVARIANTS
  TypeOK
  RanIsExplained
  NoOrphanWait
PROPERTIES
  GateAnswers
  TeardownEnds
  NearsItsAnswer
CHECK_DEADLOCK FALSE
