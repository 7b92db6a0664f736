SPECIFICATION Spec
CONSTANTS
  KERNEL = k
  Process = {k, c}
  Handle = {h1, h2, h3}
  NULL = NULL
  NFD = 5
  Opener = {k, c}
  Closable = {3, 4}
  Streams = {}
  Destroyable = {}
  EarlyChild = FALSE
SYMMETRY Symmetry
INVARIANT DescriptorsAlive
