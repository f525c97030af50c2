SPECIFICATION PipeSpec
CONSTANTS
  Core = {c1, c2}
  Client = {p1, p2, p3}
  FirstCore = c1
  FirstProc = p1
  Value = {a, b}
  Size = 1
  Null = Null
  Unmapped = {p2, p3}
  Handlers = {p3}
CHECK_DEADLOCK FALSE
INVARIANT FaultsOwn
