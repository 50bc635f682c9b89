SPECIFICATION Spec
CONSTANTS
  InsnAlign = 2
  MinSequence = 4
  Margin = 1
  Inputs <- MCInputs
INVARIANTS
  EntryPointIsDecodable
  StartsOnInstruction
  RemovesTheSlotsAsked
  ZeroRemovalKeepsCode
