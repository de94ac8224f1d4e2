SPECIFICATION MiraFairSpec
CONSTANTS
  N = 3
  Sizes = {2, 5}
  Wrap = 4
  C = 2
  MaxItr = 7
INVARIANTS
  ConvergedOnAll
  WithinBudget
  ShrinksAfterH
PROPERTIES
  Terminates
