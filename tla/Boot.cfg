SPECIFICATION Spec
CONSTANTS
  Core = {0, 1, 2}
  Event = {e1, e2}
  Delays = {0, 1}
  W = 4
  None = None
  Sectors = {1, 2, 4, 6}
  Base = 3
  Seg = 8
  Word = 16
  Diffs = {1, 5}
  hz = 2
  EventCores = 2
  Tables <- MCTables
INVARIANTS SectorsPlaced CoresApart AllStarted OnTime DeletedOnce
PROPERTIES BootEnds EventsRun
CHECK_DEADLOCK FALSE
