SPECIFICATION Spec
CONSTANTS
  Core = {c1, c2}
  Proc = {p1, p2}
  FirstProc = p1
  Sem = {}
  Slots = 1
  Value = {7}
  Ops <- SignalOps
  MaxCount = 1
  MaxRef = 0
  MaxImage = 0
  Null = Null
SYMMETRY Symmetry
VIEW View
CHECK_DEADLOCK FALSE
INVARIANTS HandlerState ExitFuture
PROPERTIES ContextKept
