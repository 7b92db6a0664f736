SPECIFICATION Spec
CONSTANTS
  PAGE_SIZE = 4
  RamStart = 1
  RamPages = 4
  HeapEnd = 16
  CoherentPages = 3
  CoherentOrder = 1
  Size = {0, 1, 5}
  Order = {0, 1}
  Reservation <- TwoPages
INVARIANT NullIsNoPage
