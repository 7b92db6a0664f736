SPECIFICATION FairSpec
CONSTANTS
  Caller = {c1, c2}
  Addr = {a1}
  Data = {d1}
  HEAD = HEAD
  NoResult = NoResult
  MaxNotified = 1
PROPERTY CallsReturn
