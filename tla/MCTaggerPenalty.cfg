SPECIFICATION Spec
CONSTANTS
  Token = {a, b}
  Model = {"m"}
  Size <- MCSize
  MaxLen = 2
  MaxOwned = 2
  MaxPenalized = 2
  Liberties = {{"penalty"}}
SYMMETRY Either
INVARIANTS
  PenaltiesOfThisSentence
