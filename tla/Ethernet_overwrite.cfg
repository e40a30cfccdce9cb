SPECIFICATION Spec
CONSTANTS
  Packets = {p1, p2}
  Lengths = {2}
  NoPacket = NoPacket
  Machines = {FALSE}
  Cable = "thinwire"
  MaxMemory = 3
  TxMasks = {{}}
  RxMasks = {{}}
  Regimes = {{"midpacket"}}
CHECK_DEADLOCK FALSE
INVARIANT OnePacket
