SPECIFICATION Spec
CONSTANTS
  len = 28
  Tries = 2
  SizeT = 64
  Bytes = {1, 9, 21}
VIEW View
INVARIANT FirstFits
