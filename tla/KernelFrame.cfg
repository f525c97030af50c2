SPECIFICATION Spec
CONSTANTS
  Core = {c1}
  Proc = {p1}
  FirstProc = p1
  Sem = {}
  Slots = 1
  Value = {7}
  Ops <- PointerOps
  MaxCount = 1
  MaxRef = 0
  MaxImage = 0
  Null = Null
SYMMETRY Symmetry
VIEW View
CHECK_DEADLOCK FALSE
PROPERTY SigreturnResumes
