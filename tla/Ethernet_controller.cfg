SPECIFICATION LiveSpec
CONSTANTS
  Packets = {p1, p2}
  Lengths = {1, 3}
  NoPacket = NoPacket
  Machines = {FALSE, TRUE}
  Cable = "thinwire"
  MaxMemory = 4
  TxMasks = {{}, {"READY", "TX_RECVD", "UNDERFLOW", "16COLLS"}}
  RxMasks = {{}, {"PKT_OK", "OVERFLOW"}}
  Regimes = {{}, {"hard", "midpacket"}}
CHECK_DEADLOCK FALSE
INVARIANT PacketsIntact
INVARIANT BusyIffHeld
INVARIANT InterruptsFollow
INVARIANT HostPolledOnlyWhenStarted
INVARIANT AliveWhenEnabled
PROPERTY ReceptionEnds
