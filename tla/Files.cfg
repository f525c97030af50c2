SPECIFICATION Spec
CONSTANTS
  Null = Null
  Proc = {p1, p2}
  FirstProc = p1
  NFD = 5
  Desc = {o1, o2, o3, o4, o5}
  File = "f"
  FileSize = 3
  BlockSize = 2
  W = 5
  Counts = {2}
  Nodes = {"f"}
  Args = {3}
  Unmapped = {p2}
  Handlers = {p2}
CHECK_DEADLOCK FALSE
INVARIANTS OvershotShared NoDangling ReadsExact
PROPERTIES DriveReleased
