\* An operator answers a run's scope-change request and another resumes the run.
SPECIFICATION Spec
CONSTANTS
  NSteps = 1
  TokenBudget <- MCNoBudget
  Items <- MCItems
  Overlaps <- MCOverlaps
  InScope <- MCInScope
  OutOfScope = {}
  Discovered <- MCDiscovered
  Ops = {p1}
  MaxExpansions = 1
  DecideOnce = TRUE
INVARIANT AdjacentWorkLeaves
