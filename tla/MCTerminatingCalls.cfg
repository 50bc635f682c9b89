SPECIFICATION Spec
CONSTANTS
  Image <- MCImage
  Programs <- MCPrograms
INVARIANTS
  FoundNeverReturn
  FlowStops
  FlowIsKept
  BranchesInFunction
PROPERTY
  Termination
