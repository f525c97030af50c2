SPECIFICATION FairSpec
CONSTANTS
  Core = {c1}
  Proc = {p1, p2, p3}
  FirstProc = p1
  Sem = {}
  Slots = 1
  Value = {7}
  Ops <- ExecOps
  MaxCount = 1
  MaxRef = 0
  MaxImage = 1
  Null = Null
CHECK_DEADLOCK FALSE
INVARIANTS ImageContext
PROPERTY ReadyRuns
