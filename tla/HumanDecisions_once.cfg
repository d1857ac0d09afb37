\* Two operators who leave decided requests alone.
SPECIFICATION Spec
CONSTANTS
  NSteps = 1
  TokenBudget <- MCNoBudget
  Items <- MCItems
  Overlaps <- MCOverlaps
  InScope <- MCInScope
  OutOfScope = {}
  Discovered <- MCDiscovered
  Ops = {p1, p2}
  MaxExpansions = 2
  DecideOnce = TRUE
SYMMETRY OpSymm
INVARIANTS
  TypeOK
  ExpansionsDecided
  OutsideWorkAccepted
  NoRequestForGranted
  DecisionsAgree
  DoneCaptured
PROPERTIES
  ScopeProtocol
