CONSTANT
  MaxElem = 7
SPECIFICATION RangeSpec
INVARIANTS
  Canonical
  GetRangeFindsTheRun
PROPERTY ImplementsAddressSet
