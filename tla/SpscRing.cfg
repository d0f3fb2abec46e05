CONSTANTS
  N = 4
  Wrap = 8
  Items = {a, b}
  Torn = Torn
  Nothing = Nothing
SPECIFICATION Spec
INVARIANTS RingTypeOK SlotsExclusive
PROPERTY ImplementsFifo
