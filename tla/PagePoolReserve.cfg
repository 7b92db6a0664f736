SPECIFICATION Spec
CONSTANTS
  PAGE_SIZE = 4
  RamStart = 1
  RamPages = 9
  HeapEnd = 36
  CoherentPages = 2
  CoherentOrder = 1
  Size = {0, 1, 5}
  Order = {0, 1}
  Reservation <- TwoPages
INVARIANT ReserveTakesRegion
