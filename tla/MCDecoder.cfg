CONSTANTS
  SyscallMin = 2
  Image <- MCImage
  Inputs <- MCInputs
SPECIFICATION Spec
INVARIANTS
  TypeOK
  FunctionsOwnBlocks
  EdgesInFunction
  EntryHasNoPredecessor
  OneTerminator
  BlocksInOrder
  LookupsAgree
  NoByteDecodedTwice
  DecodedLeavesRanges
PROPERTIES
  FallThroughKept
  TargetsDecoded
  LoadedDataStaysData
  Termination
