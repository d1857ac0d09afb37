\* One executor, resumed after its iteration limit.
SPECIFICATION Spec
CONSTANTS
  NSteps = 2
  TokenBudget <- MCNoBudget
  t1 = t1
  t2 = t2
  Tasks = {t1}
  NoTask = NoTask
  Execs = {e1}
  Conflicts = {}
  Limits = {1, 2}
  MaxDelta = 0
  MaxCalls = 1
  TimeBudget = FALSE
  Exclusive = TRUE
INVARIANT CompletedMeansFinished
