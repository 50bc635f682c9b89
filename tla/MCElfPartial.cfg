SPECIFICATION ElfSpec
CONSTANTS
  ElfFiles <- PartialFiles
INVARIANTS
  BytesAreTheLastLoaded
