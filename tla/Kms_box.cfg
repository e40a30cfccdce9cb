CONSTANTS
  Full = 1
  DeviceMayFail = FALSE
  Steps = 2
  MaxUnread = 2
SPECIFICATION Spec
INVARIANT LoopsAlive
INVARIANT ActiveOnlyEnabled
INVARIANT MouseMoves
INVARIANT EventsTold
PROPERTY BlocksEnd
