SPECIFICATION Spec
CONSTANTS
  PAGE_SIZE = 4
  RamStart = 1
  RamPages = 11
  HeapEnd = 40
  CoherentPages = 2
  CoherentOrder = 1
  Size = {0, 1, 5, 9}
  Order = {0, 1, 2}
  Reservation <- TwoPages
INVARIANTS TypeOK Exclusive CoherentLent UsedIsTaken StacksKept
PROPERTY NothingLost
