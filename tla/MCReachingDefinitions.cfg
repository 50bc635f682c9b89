SPECIFICATION Spec
CONSTANTS
  Blocks <- MCBlocks
  Variables = {"x", "y"}
  Programs <- MCPrograms
INVARIANTS
  DefsAreThoseThatReach
  OnDemandAgrees
PROPERTY
  Termination
