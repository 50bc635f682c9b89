SPECIFICATION Spec
CONSTANTS
  Inputs <- MCInputs
  Slots = {4, 6, 8, 10, 12}
  Places = {4, 8}
  Kinds = {"push", "code", "nops", "none"}
  Ops = {"bad", "ret", "ldr", "ldrpc", "bl", "bx", "blx"}
  Conds = {FALSE, TRUE}
  Targets = {7, 10, 12}
  Imports = {12}
INVARIANTS TranslatesInProvenMode InOneMode
PROPERTY Termination
