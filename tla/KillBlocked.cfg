SPECIFICATION FairSpec
CONSTANTS
  Core = {c1}
  Proc = {p1, p2}
  FirstProc = p1
  Sem = {s1}
  Slots = 1
  Value = {7}
  Ops <- BlockOps
  MaxCount = 0
  MaxRef = 3
  MaxImage = 0
  Null = Null
CHECK_DEADLOCK FALSE
PROPERTY KilledBlockedExits
