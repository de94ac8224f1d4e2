CONSTANTS
  Languages = {"Python", "Perl", "Ruby", "Java"}
  Liberties <- MCLiberties
  Threads = {t1, t2}
  MaxHandles = 3
  MaxNatives = 3
SPECIFICATION Spec
INVARIANTS
  FreedOnce
  FaultsEarned
  NoLeak
PROPERTIES
  SameObject
SYMMETRY AnyThread
CHECK_DEADLOCK FALSE
