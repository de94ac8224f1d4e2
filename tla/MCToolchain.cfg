SPECIFICATION Spec
CONSTANTS
  Training <- MCTraining
  Job <- MCJob
  Found = {1, 3}
  Junk = {0, 1}
  MaxRuns = 2
  MaxJobs = 1
  Liberties = {}
INVARIANTS
  DeletedOnce
  SentencesRead
  OwnLists
  AnswersInOrder
PROPERTIES
  Implements
CHECK_DEADLOCK FALSE
