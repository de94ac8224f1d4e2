SPECIFICATION Spec
CONSTANTS
  Y = 2
  Lengths <- MCLengths
  Costs <- MCCosts
INVARIANTS
  MarginalsExact
  ViterbiOptimal
  NbestOrdered
  NothingLost
  CollinsDirection
