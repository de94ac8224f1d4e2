SPECIFICATION CellsSpec
CONSTANTS
  Size = 5
  Lens <- MCLens
  MaxBlocks = 3
INVARIANTS
  RegionsSound
