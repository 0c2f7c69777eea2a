SPECIFICATION Spec
CONSTANTS
  Formats <- MCFormats
  Args <- MCArgs
  Junk = {0, 15}
  IntValues = 64
  LongValues = 1024
  Sizes = {0, 1, 3}
  SizeMax = 255
  StreamBuf = 16
INVARIANTS
  Truncated
  AsMeant
