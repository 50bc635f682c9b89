SPECIFICATION Spec
CONSTANTS
  SyscallMin = 2
  Image <- SplitImage
  Inputs <- SplitInputs
INVARIANT
  SuccessorsInFunction
