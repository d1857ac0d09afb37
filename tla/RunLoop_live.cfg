\* One fair executor with both budgets, retries of its tool calls, an operator
\* who may cancel the run at any moment, from a stale copy too, and crashes.
SPECIFICATION FairSpec
CONSTANTS
  NSteps = 2
  TokenBudget = 2
  t1 = t1
  t2 = t2
  Tasks = {t1}
  NoTask = NoTask
  Execs = {e1}
  Conflicts = {}
  Limits = {3}
  MaxDelta = 1
  MaxCalls = 1
  TimeBudget = TRUE
  Exclusive = FALSE
INVARIANTS
  DoneCaptured
  CompletedCaptured
PROPERTIES
  ExecutionEnds
  NearsItsEnd
