SPECIFICATION FairSpec
CONSTANTS
  MaxQueueSize = 3
  Packets = {p1, p2}
  NoPacket = NoPacket
CHECK_DEADLOCK FALSE
INVARIANTS
  SlirpExclusive
  StoppedMeansGone
PROPERTIES
  FifoSpec
  GuestPolls
