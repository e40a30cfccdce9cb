SPECIFICATION Spec
CONSTANTS
  MaxQueueSize = 2
  Packets = {p1, p2}
  NoPacket = NoPacket
CHECK_DEADLOCK FALSE
INVARIANTS
  QueueNotUsedAfterDestroy
