SPECIFICATION Spec
CONSTANTS
  Type = {"LOC", "PER"}
  MaxLines = 4
INVARIANTS
  ChunksCounted
