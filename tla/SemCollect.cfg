SPECIFICATION FairSpec
CONSTANTS
  Core = {c1}
  Proc = {p1}
  FirstProc = p1
  Sem = {s1}
  Slots = 1
  Value = {7}
  Ops <- SemOps
  MaxCount = 1
  MaxRef = 3
  MaxImage = 0
  Null = Null
CHECK_DEADLOCK FALSE
PROPERTY SemaphoreCollected
