SPECIFICATION Spec
CONSTANTS
  M = 5
  MaxFev = 20
  MaxIter = 13
INVARIANTS
  RecursionReads
  StepAndGradient
