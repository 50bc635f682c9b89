SPECIFICATION ElfSpec
CONSTANTS
  ElfFiles <- MCFiles
INVARIANTS
  Disjoint
  BytesAreTheLastLoaded
  AgreesWithKernel
