SPECIFICATION FairSpec
CONSTANTS
  Caller = {c1, c2}
  Addr = {a1}
  Data = {d1, d2}
  HEAD = HEAD
  NoResult = NoResult
  MaxNotified = 1
INVARIANTS TypeOK IInv ListIntact CursorAlive
PROPERTIES LinearizableIO RequestsServed
