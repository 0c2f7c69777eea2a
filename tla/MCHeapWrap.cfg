SPECIFICATION Spec
CONSTANTS
  HeapSize = 224
  SizeMax = 65535
  Requests <- WrapRequests
  Counts <- WrapCounts
INVARIANT OversizeRefused
