SPECIFICATION Spec
CONSTANTS
  Thread = {t1, t2}
  Run = {r1, r2}
  Pages = 3
  PageSize = 32
  MinSize = 16
  Orders = 2
  Overhead = 8
  Sizes = {8, 9, 30}
  Null = Null
  Magic = Magic
  Nobody = Nobody
SYMMETRY Symmetry
CHECK_DEADLOCK FALSE
INVARIANTS FreeListExact Exclusive Fits PagesBalanced
PROPERTIES DoubleFreePanics
