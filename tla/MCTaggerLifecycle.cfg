SPECIFICATION Spec
CONSTANTS
  Token = {a, b}
  Model = {"m"}
  Size <- MCSize
  MaxLen = 2
  MaxOwned = 2
  MaxPenalized = 2
  Liberties <- MCClients
SYMMETRY Either
INVARIANTS
  UndefinedEarned
  AnswerCurrent
  OwnedOnce
