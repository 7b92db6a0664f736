SPECIFICATION Spec
CONSTANTS
  KERNEL = k
  Process = {k, c}
  Handle = {h1, h2}
  NULL = NULL
  NFD = 5
  Opener = {k, c}
  Closable = {1, 3, 4}
  Streams = {0, 1}
  Destroyable = {c}
  EarlyChild = TRUE
SYMMETRY Symmetry
INVARIANTS TypeOK CountsKept NoneDangles LowestFree
CHECK_DEADLOCK FALSE
