SPECIFICATION FairSpec
CONSTANTS
  Core = {c1, c2, c3}
  Event = {e1, e2, e3}
  NoEvent = NoEvent
  InitCount = 1
  MaxBalance = 2
INVARIANTS Conservation
PROPERTIES RefinesAtomic LockReleased
