\* An operator pauses a run for a human and another resumes it.
SPECIFICATION Spec
CONSTANTS
  NSteps = 1
  TokenBudget <- MCNoBudget
  Items <- MCItems
  Overlaps <- MCOverlaps
  InScope <- MCInScope
  OutOfScope = {}
  Discovered <- MCDiscovered
  Ops = {p1}
  MaxExpansions = 1
  DecideOnce = TRUE
PROPERTY OpenDelegationBlocks
