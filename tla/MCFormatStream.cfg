SPECIFICATION Spec
CONSTANTS
  Formats <- LongFormats
  Args <- MCArgs
  Junk = {0, 15}
  IntValues = 64
  LongValues = 1024
  Sizes = {1}
  SizeMax = 255
  StreamBuf = 4
INVARIANT SendsText
