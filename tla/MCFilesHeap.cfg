SPECIFICATION SpecAll
CONSTANTS
  HeapSize = 192
  SizeMax = 65535
  Requests <- MCRequests
  Counts = {}
  Fds = {3, 4}
  FileSize = 48
INVARIANTS
  BlocksAccounted
PROPERTIES
  ImplementsStreams
  FilesReturn
