CONSTANTS
  Core = {c1, c2, c3}
  Node = {n1, n2, n3}
  Null = Null
SPECIFICATION Spec
INVARIANTS NoMissedWakeup
PROPERTIES RefinesQueue
