SPECIFICATION Spec
CONSTANTS
  Size = 4
  Texts <- MCTexts
  HandlerTexts <- MCHandlerTexts
  MaxCalls = 2
  MaxSignals = 2
  MaxNest = 1
  MaxShort = 1
INVARIANTS
  InBounds
  HeldBackNothing
  InOrder
  LostBound
PROPERTY WholeCalls
