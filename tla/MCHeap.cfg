SPECIFICATION FairSpec
CONSTANTS
  HeapSize = 176
  SizeMax = 65535
  Requests <- MCRequests
  Counts <- MCCounts
INVARIANTS
  TypeOK
  Tiling
  Ownership
  Capacity
  Coalesced
PROPERTIES
  KeptBlocksUntouched
  Returns
  ImplementsContract
