SPECIFICATION FairSpec
CONSTANTS
  T = 2
  N = 5
  MaxItr = 5
  LooseEta = FALSE
  Orthant = FALSE
INVARIANTS
  LatticeIntact
  GradientExact
PROPERTIES
  Implements
  Terminates
