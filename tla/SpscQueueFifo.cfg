CONSTANTS
  a = a
  b = b
  Capacity = 3
  IndexRange = 6
  Values = {a, b}
SPECIFICATION Spec
INVARIANTS
  NoSlotRace
PROPERTIES
  ImplementsFifo
