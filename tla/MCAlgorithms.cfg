SPECIFICATION CasesSpec
CONSTANTS
  Alphabet = 2
  Cells = 64
  KeySets <- MCKeySets
  Words <- MCWords
  Models <- MCModels
  PieceLists <- MCPieceLists
  Strings <- MCStrings
  Sentences <- MCSentences
  Settings <- MCTable
  CommandLines <- MCCommandLines
  TaggedFiles <- MCFiles
  Labels <- MCLabels
  SizeBits = 4
  UnsignedBits = 3
  MaxFloat = 6
  Calls <- MCCalls
INVARIANTS
  DartsExact
  TextAgrees
  TemplateExact
  CommandLineMeans
  EntitiesListed
  ChunksExact
  CallsAsDeclared
