SPECIFICATION Spec
CONSTANTS
  Inputs <- MCInputs
  Slots = {4, 6, 8, 10, 12, 14}
  Places = {4}
  Kinds = {"push", "none"}
  Ops = {"blx"}
  Conds = {FALSE}
  Targets = {12, 13}
  Imports = {}
INVARIANT ExchangeIsSeen
