\* Two executors, two overlapping runs, operators who leave a driven run alone.
SPECIFICATION Spec
CONSTANTS
  NSteps = 2
  TokenBudget = 1
  t1 = t1
  t2 = t2
  Tasks <- MCTasks
  NoTask = NoTask
  Execs = {e1, e2}
  Conflicts <- MCConflicts
  Limits = {2}
  MaxDelta = 1
  MaxCalls = 1
  TimeBudget = FALSE
  Exclusive = TRUE
SYMMETRY Symm
INVARIANTS
  TypeOK
  OverlapExcluded
  NoRecordedStepDriven
  TokensBounded
  RecordedMeansFinished
  FreshRunFinishes
PROPERTIES
  LifecycleSpec
