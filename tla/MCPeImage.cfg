SPECIFICATION PeSpec
CONSTANTS
  MaxAddr = 5
  PeFiles <- MCFiles
INVARIANTS
  SectionsAreWhole
  StructuresAreMarked
