SPECIFICATION Spec
CONSTANTS
  K = 4
  Unigram <- MCUnigram
  Y = 2
  Freq = 2
  MaxRows = 3
  MaxFires = 3
INVARIANTS
  WeightsTiled
  RowsCurrent
  FrequentKept
