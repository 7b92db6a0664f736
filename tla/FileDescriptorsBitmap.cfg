SPECIFICATION Spec
CONSTANTS
  KERNEL = k
  Process = {k, c}
  Handle = {h1, h2, h3}
  NULL = NULL
  NFD = 5
  Opener = {k}
  Closable = {3, 4}
  Streams = {0, 1, 2}
  Destroyable = {}
  EarlyChild = FALSE
SYMMETRY Symmetry
INVARIANT UsedAreMarked
