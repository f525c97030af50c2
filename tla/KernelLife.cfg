SPECIFICATION Spec
CONSTANTS
  Core = {c1, c2}
  Proc = {p1, p2, p3}
  FirstProc = p1
  Sem = {s1}
  Slots = 1
  Value = {7}
  Ops <- LifeOps
  MaxCount = 1
  MaxRef = 5
  MaxImage = 0
  Null = Null
SYMMETRY Symmetry
VIEW View
CHECK_DEADLOCK FALSE
INVARIANTS OnePlace OwnSpace JoinsYoungest NoDangling
