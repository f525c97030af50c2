SPECIFICATION Spec
CONSTANTS
  W = 16
  Lo = 8
  Hi = 12
  T = 2
  Stack = 1
  Words = 8
  Limit = 10
  Proc = {1, 2}
  FirstProc = 1
  Elf <- MCElf
  FileSize = 1
  Regions <- MCRegions
  MaxRegions = 3
VIEW View
CHECK_DEADLOCK FALSE
INVARIANT MmapAsDocumented
