------------------------------ MODULE Ethernet ------------------------------
(***************************************************************************)
(* The Ethernet controller (ethernet.c): its registers, the periodic       *)
(* handler that receives and sends packets, the receive buffer it shares   *)
(* with the loopback of the transmitter, and its starting and stopping of  *)
(* the host interface (modules EnetSlirp and Queue).                       *)
(*                                                                         *)
(* A packet is its identity and a number of units; a unit is at least the  *)
(* minimum frame, which enet_receive pads to, so that the branch for short *)
(* packets is never taken. The DMA channel moves any number of the units   *)
(* that are left, none when it is disabled or at its limit. What the       *)
(* address filter and the turbo transmitter's enable bit say is arbitrary. *)
(***************************************************************************)
EXTENDS Integers, Sequences

CONSTANTS
  Packets,     \* the identities of packets
  Lengths,     \* their lengths, in units
  NoPacket,    \* an empty receive buffer
  Cable,       \* "thinwire" or "twistedpair": ConfigureParams.Ethernet.bTwistedPair
  MaxMemory,   \* how many units of a reception are remembered: a bound
  TxMasks,     \* the interrupt masks that the driver writes
  RxMasks,
  Machines,    \* the kinds of machine: ConfigureParams.System.bTurbo or not
  Regimes      \* which resets come at any time: sets of "hard", "midpacket"

ASSUME LengthAssumption == Lengths \subseteq Nat \ {0}
ASSUME MemoryAssumption == MaxMemory \in Nat /\ \A n \in Lengths : n < MaxMemory
ASSUME MaskAssumption == /\ TxMasks \subseteq SUBSET {"READY", "TX_RECVD", "UNDERFLOW", "16COLLS"}
                         /\ RxMasks \subseteq SUBSET {"PKT_OK", "OVERFLOW"}
ASSUME MachineAssumption == Machines \subseteq BOOLEAN
ASSUME ResetAssumption == Regimes \subseteq SUBSET {"hard", "midpacket"}

VARIABLES
  enet,            \* registers: tx_status, tx_mask, rx_status, rx_mask, reset
  wire,            \* what tx_mode and bmap_tpe_select choose
  connected,       \* ConfigureParams.Ethernet.bEthernetConnected
  rx,              \* enet_rx_buffer: packet, limit and the size that is left
  tx,              \* enet_tx_buffer: "empty", "short" (15 bytes or less), "long"
  receiver_state,  \* "WAITING" or "RECEIVING"
  memory,          \* the units written to memory since the reception began
  line,            \* the interrupts INT_EN_TX and INT_EN_RX
  armed,           \* INTERRUPT_ENET_IO
  started,         \* the host interface: slirp_started, pcap_started
  turbo,           \* the kind of machine: the second controller
  resets           \* the resets that come at any time, in this behaviour

host == <<connected, started>>
receiver == <<rx, receiver_state, memory>>
setting == <<turbo, resets>>
vars == <<enet, wire, host, receiver, tx, line, armed, setting>>

TxBits == {"READY", "NET_BUSY", "TX_RECVD", "UNDERFLOW", "16COLLS"}
RxBits == {"PKT_OK", "OVERFLOW"}
Empty == [packet |-> NoPacket, limit |-> 0, size |-> 0]

ResetStatus == IF turbo THEN {} ELSE {"READY"}

\* After the cold reset at the start of the emulator.
Init == /\ turbo \in Machines /\ resets \in Regimes
        /\ enet = [tx_status |-> ResetStatus, tx_mask |-> {}, rx_status |-> {},
                   rx_mask |-> {}, reset |-> TRUE]
        /\ wire = "loopback"
        /\ connected \in BOOLEAN
        /\ rx = Empty /\ tx = "empty"
        /\ receiver_state = "WAITING" /\ memory = << >>
        /\ line = {} /\ armed = FALSE /\ started = FALSE

\* enet_state, new_enet_state: which network the controller is on (all machines
\* but the 68030 Cube, which has thin wire only).
EnetState == IF wire = "loopback" THEN "loopback"
             ELSE IF connected /\ wire = Cable THEN wire
             ELSE "disconnected"

-----------------------------------------------------------------------------
(***************************************************************************)
(* The registers.                                                          *)
(***************************************************************************)

\* A line that is raised when a status bit is enabled, as it was otherwise.
Raise(l, status, mask, intr) == IF status \cap mask # {} THEN l \cup {intr} ELSE l

\* A line that is dropped when no status bit is enabled, as it was otherwise.
Release(l, status, mask, intr) == IF status \cap mask = {} THEN l \ {intr} ELSE l

\* EN_TX_Status_Write, EN_RX_Status_Write: writing a one clears the bit. Only
\* the turbo controller lets TX_RECVD be cleared this way, none NET_BUSY.
TxStatusWrite(bits) ==
  /\ bits \subseteq (IF turbo THEN {"READY", "TX_RECVD"} ELSE {}) \cup {"UNDERFLOW", "16COLLS"}
  /\ enet' = [enet EXCEPT !.tx_status = @ \ bits]
  /\ line' = Release(line, enet.tx_status \ bits, enet.tx_mask, "TX")
  /\ UNCHANGED <<wire, host, receiver, tx, armed, setting>>

RxStatusWrite(bits) ==
  /\ enet' = [enet EXCEPT !.rx_status = @ \ bits]
  /\ line' = Release(line, enet.rx_status \ bits, enet.rx_mask, "RX")
  /\ UNCHANGED <<wire, host, receiver, tx, armed, setting>>

\* EN_TX_Mask_Write, EN_RX_Mask_Write: the line follows the new mask.
TxMaskWrite(bits) ==
  /\ enet' = [enet EXCEPT !.tx_mask = bits]
  /\ line' = Raise(Release(line, enet.tx_status, bits, "TX"),
                   enet.tx_status, bits, "TX")
  /\ UNCHANGED <<wire, host, receiver, tx, armed, setting>>

\* Mutant: the line is only ever raised by a packet.
RxMaskWriteNoSet(bits) ==
  /\ enet' = [enet EXCEPT !.rx_mask = bits]
  /\ line' = Release(line, enet.rx_status, bits, "RX")
  /\ UNCHANGED <<wire, host, receiver, tx, armed, setting>>

RxMaskWrite(bits) ==
  /\ enet' = [enet EXCEPT !.rx_mask = bits]
  /\ line' = Raise(Release(line, enet.rx_status, bits, "RX"),
                   enet.rx_status, bits, "RX")
  /\ UNCHANGED <<wire, host, receiver, tx, armed, setting>>

\* EN_TX_Mode_Write and the transceiver select of bmap.c.
ModeWrite == /\ wire' \in {"loopback", "thinwire", "twistedpair"}
             /\ UNCHANGED <<enet, host, receiver, tx, line, armed, setting>>

\* Mutant: the handler is started with the host interface only.
EnetResetUnplugged(e, plugged, running, ticking) ==
  IF e.reset
  THEN enet' = [e EXCEPT !.tx_status = ResetStatus] /\ started' = running /\ armed' = ticking
  ELSE enet' = e /\ started' = (running \/ plugged) /\ armed' = (ticking \/ plugged)

\* enet_reset: in reset the transmitter's status starts afresh; out of reset
\* the host interface and the handler are started, if they are not yet.
EnetReset(e, plugged, running, ticking) ==
  IF e.reset
  THEN /\ enet' = [e EXCEPT !.tx_status = ResetStatus]
       /\ started' = running /\ armed' = ticking
  ELSE /\ enet' = e
       /\ started' = (running \/ plugged)
       /\ armed' = TRUE

\* EN_Reset_Write.
ResetWrite(on) ==
  /\ on /\ "midpacket" \notin resets => rx.size = 0
  /\ EnetReset([enet EXCEPT !.reset = on], connected, started, armed)
  /\ UNCHANGED <<wire, connected, receiver, tx, line, setting>>

\* EN_NodeID5_Write: Ethernet_Reset(false) stops the interface first.
NodeIDWrite == /\ EnetReset(enet, connected, FALSE, armed)
               /\ UNCHANGED <<wire, connected, receiver, tx, line, setting>>

\* Mutant: the user's change does not reach the interface.
ConfigChangeNoReset ==
  /\ connected' = ~connected
  /\ UNCHANGED <<enet, started, armed, wire, receiver, tx, line, setting>>

\* Change_CopyChangedParamsToConfiguration: the user plugs or unplugs.
ConfigChange == /\ connected' = ~connected
                /\ EnetReset(enet, ~connected, FALSE, armed)
                /\ UNCHANGED <<wire, receiver, tx, line, setting>>

\* Reset_NeXT: CycInt_Reset, SCR_Reset and bmap first, then Ethernet_Reset(true),
\* which leaves receiver_state, rx_status and the masks alone.
HardReset ==
  /\ "hard" \in resets
  /\ connected' \in BOOLEAN
  /\ EnetReset([enet EXCEPT !.reset = TRUE], TRUE, FALSE, FALSE)
  /\ rx' = Empty /\ tx' = "empty"
  /\ line' = {}
  /\ UNCHANGED <<wire, receiver_state, memory, setting>>

-----------------------------------------------------------------------------
(***************************************************************************)
(* The periodic handler, as steps on a record of what it changes. Each     *)
(* part gives the set of outcomes the DMA channel and the network allow.   *)
(***************************************************************************)

Controller == [enet |-> enet, rx |-> rx, tx |-> tx, line |-> line,
               receiver_state |-> receiver_state, memory |-> memory]

\* enet_rx_interrupt, enet_tx_interrupt, enet_tx_release.
RxInterrupt(s, bit) ==
  [s EXCEPT !.enet.rx_status = @ \cup {bit},
            !.line = Raise(@, s.enet.rx_status \cup {bit}, s.enet.rx_mask, "RX")]

TxInterrupt(s, bit) ==
  [s EXCEPT !.enet.tx_status = @ \cup {bit},
            !.line = Raise(@, s.enet.tx_status \cup {bit}, s.enet.tx_mask, "TX")]

TxRelease(s, bit) ==
  [s EXCEPT !.enet.tx_status = @ \ {bit},
            !.line = Release(@, s.enet.tx_status \ {bit}, s.enet.tx_mask, "TX")]

\* A packet as it arrives.
Arrivals == {b \in [packet : Packets, limit : Lengths, size : Lengths] : b.size = b.limit}

\* enet_receive, of a packet that the filter may refuse.
EnetReceive(s) ==
  {s} \cup {[s EXCEPT !.rx = b, !.enet.tx_status = @ \cup {"NET_BUSY"}] : b \in Arrivals}

\* The receiver gives the packet up, done or not.
ToWaiting(s) == [s EXCEPT !.rx = Empty, !.receiver_state = "WAITING",
                          !.enet.tx_status = @ \ {"NET_BUSY"}]

\* Mutant: a receiver without DMA drops the packet but goes on receiving.
OverflowReceiving(s) ==
  [ToWaiting(RxInterrupt(s, "OVERFLOW")) EXCEPT !.receiver_state = "RECEIVING",
                                                !.memory = << >>]

Overflow(s) == [ToWaiting(RxInterrupt(s, "OVERFLOW")) EXCEPT !.memory = << >>]

\* Mutant: the network stays busy after a reception.
PacketDoneBusy(s) ==
  LET t == RxInterrupt(s, "PKT_OK")
  IN [t EXCEPT !.rx = Empty, !.receiver_state = "WAITING"]

PacketDone(s) ==
  LET t == RxInterrupt(s, "PKT_OK")
  IN ToWaiting(IF EnetState = "loopback" THEN TxInterrupt(t, "TX_RECVD") ELSE t)

\* Memory after more units, as far as it is remembered: bounds.
Written(old, new) == LET all == old \o new
                     IN IF "hard" \in resets THEN << >>
                        ELSE IF Len(all) > MaxMemory THEN SubSeq(all, 1, MaxMemory)
                        ELSE all

\* The next k units of the packet go to memory.
Transfer(s, k) ==
  [s EXCEPT !.rx.size = @ - k,
            !.memory = Written(@, [i \in 1..k |->
                       <<s.rx.packet, s.rx.limit, s.rx.limit - s.rx.size + i>>])]

\* dma_enet_write_memory moved k units.
AfterWrite(s, k) == IF k = 0 THEN Overflow(s)
                    ELSE IF k < s.rx.size THEN Transfer(s, k)
                    ELSE PacketDone(Transfer(s, k))

\* A reception begins in the same call that finds the packet.
Receiving(s) == IF s.receiver_state = "RECEIVING" THEN s
                ELSE [s EXCEPT !.receiver_state = "RECEIVING", !.memory = << >>]

\* The receive half of enet_io and new_enet_io.
ReceiveHalf(s) ==
  IF s.rx.size > 0 THEN {AfterWrite(Receiving(s), k) : k \in 0..s.rx.size}
  ELSE IF s.receiver_state = "WAITING" /\ EnetState \in {"thinwire", "twistedpair"}
       THEN EnetReceive(s)       \* enet_output
  ELSE {s}

\* enet_send: what is sent comes back on loopback and on thin wire.
EnetSend(s) == LET t == [s EXCEPT !.tx = "empty"]
               IN IF EnetState \in {"loopback", "thinwire"} THEN EnetReceive(t) ELSE {t}

\* dma_enet_read_memory: the buffer grows or not, the packet ends or not.
Reads(s) ==
  {r \in [tx : {"empty", "short", "long"}, grew : BOOLEAN, eop : BOOLEAN] :
     IF r.grew THEN r.tx # "empty" /\ (s.tx = "long" => r.tx = "long")
     ELSE r.tx = s.tx}

\* The end of enet_io, which drops the 15 bytes that follow each packet.
AfterRead(s, r) ==
  LET t == TxRelease(s, "TX_RECVD") IN
  CASE r.tx = "empty" -> IF r.eop THEN EnetSend(s) ELSE {s}
    [] r.tx # "empty" /\ ~r.grew /\ ~r.eop ->
         {[TxInterrupt(t, "UNDERFLOW") EXCEPT !.tx = "empty"]}
    [] r.tx # "empty" /\ (r.grew \/ r.eop) /\ EnetState = "disconnected" ->
         {[TxInterrupt(t, "16COLLS") EXCEPT !.tx = "empty"]}
    [] r.tx # "empty" /\ (r.grew \/ r.eop) /\ EnetState # "disconnected" ->
         IF r.eop THEN IF r.tx = "long" THEN EnetSend(t) ELSE {[t EXCEPT !.tx = "empty"]}
         ELSE {[t EXCEPT !.tx = left] : left \in IF r.tx = "long" THEN {"short", "long"}
                                                 ELSE {"short"}}

\* The end of new_enet_io, which sends what one buffer holds.
AfterTurboRead(s, r) ==
  LET sent == IF EnetState = "disconnected"
              THEN {[TxInterrupt(s, "16COLLS") EXCEPT !.tx = "empty"]}
              ELSE EnetSend(s)
  IN IF r.tx = "empty" THEN {s} ELSE {TxInterrupt(t, "READY") : t \in sent}

\* Mutant: the transmitter does not look whether the network is busy.
SendHalfBusy(s) ==
  IF turbo THEN {s} ELSE UNION {AfterRead(s, r) : r \in Reads(s)}

\* The send half of enet_io and new_enet_io.
SendHalf(s) ==
  LET busy == "NET_BUSY" \in s.enet.tx_status IN
  IF turbo
  THEN {s} \cup {[t EXCEPT !.enet.tx_status = @ \cup {"READY"}] :
                 t \in IF busy THEN {s} ELSE UNION {AfterTurboRead(s, r) : r \in Reads(s)}}
  ELSE IF "READY" \in s.enet.tx_status /\ ~busy
       THEN UNION {AfterRead(s, r) : r \in Reads(s)}
       ELSE {s}

\* ENET_IO_Handler of a controller in reset: it stops and is not armed again.
HandlerStop ==
  /\ armed /\ enet.reset
  /\ armed' = FALSE
  /\ started' = (started /\ ~connected)
  /\ UNCHANGED <<enet, wire, connected, receiver, tx, line, setting>>

\* ENET_IO_Handler: it receives, then sends, then is armed again.
HandlerIo ==
  /\ armed /\ ~enet.reset
  /\ \E r \in ReceiveHalf(Controller) : \E s \in SendHalf(r) :
       /\ enet' = s.enet /\ rx' = s.rx /\ tx' = s.tx /\ line' = s.line
       /\ receiver_state' = s.receiver_state /\ memory' = s.memory
  /\ UNCHANGED <<wire, host, armed, setting>>

-----------------------------------------------------------------------------
\* The guest that resets at any time does not use the interrupts: a bound.
Driver == /\ resets = {}
          /\ \/ \E bits \in SUBSET TxBits : TxStatusWrite(bits)
             \/ \E bits \in SUBSET RxBits : RxStatusWrite(bits)
             \/ \E bits \in TxMasks : TxMaskWrite(bits)
             \/ \E bits \in RxMasks : RxMaskWrite(bits)

Guest == \/ Driver
         \/ ModeWrite
         \/ \E on \in BOOLEAN : ResetWrite(on)
         \/ NodeIDWrite

Next == Guest \/ ConfigChange \/ HardReset \/ HandlerStop \/ HandlerIo

\* CycInt runs the handler of every armed event: TimersSpec of module CycInt.
Fairness == WF_vars(HandlerStop) /\ WF_vars(HandlerIo)

Spec == Init /\ [][Next]_vars
LiveSpec == Spec /\ Fairness

-----------------------------------------------------------------------------
\* The types of the registers, the buffers and what has been written.
TypeOK ==
  /\ enet \in [tx_status : SUBSET TxBits, tx_mask : SUBSET TxBits,
              rx_status : SUBSET RxBits, rx_mask : SUBSET RxBits, reset : BOOLEAN]
  /\ wire \in {"loopback", "thinwire", "twistedpair"}
  /\ connected \in BOOLEAN /\ started \in BOOLEAN /\ armed \in BOOLEAN
  /\ \/ rx = Empty
     \/ rx.packet \in Packets /\ rx.limit \in Lengths /\ rx.size \in 1..rx.limit
  /\ tx \in {"empty", "short", "long"}
  /\ receiver_state \in {"WAITING", "RECEIVING"}
  /\ line \subseteq {"TX", "RX"}
  /\ \A i \in DOMAIN memory : /\ memory[i][1] \in Packets /\ memory[i][2] \in Lengths
                             /\ memory[i][3] \in 1..memory[i][2]

\* What a reception writes to memory is the units of one packet in their
\* order, and all of them once the receiver waits for the next: the buffer is
\* not overwritten while the DMA channel empties it, however many calls of the
\* handler that takes and whatever is sent in between (ethernet.c:505-530).
OnePacket ==
  memory # << >> =>
    /\ \A i \in DOMAIN memory : memory[i] = <<memory[1][1], memory[1][2], i>>
    /\ receiver_state = "WAITING" => Len(memory) = memory[1][2]

PacketsIntact == resets = {} => OnePacket

\* The network is busy exactly as long as a packet is in the receive buffer,
\* which is what holds the transmitter back (ethernet.c:421, 539).
BusyIffHeld == resets = {} => ("NET_BUSY" \in enet.tx_status <=> rx.size > 0)

\* The receiver's interrupt follows its status and mask through every order of
\* register writes and packets; an enabled event of the transmitter is never
\* without its interrupt (ethernet.c:103-168, 268-287). The turbo controller
\* shows that it is ready also without an event.
InterruptsFollow ==
  "hard" \notin resets =>
    /\ enet.rx_status \cap enet.rx_mask # {} <=> "RX" \in line
    /\ (enet.tx_status \ {b \in {"READY"} : turbo}) \cap enet.tx_mask # {} => "TX" \in line

\* The handler polls the host's queue only while the host interface runs:
\* otherwise queue and mutex do not exist (ethernet.c:499, enet_slirp.c:132).
HostPolledOnlyWhenStarted ==
  ~enet.reset /\ EnetState \in {"thinwire", "twistedpair"} => started

\* A controller that is out of reset has its handler armed, whatever resets,
\* configuration changes and late handler calls came before (ethernet.c:739).
AliveWhenEnabled == ~enet.reset => armed

\* A reception that has begun comes to its end, whole or as an overflow: the
\* handler neither waits for a channel nor forgets that it is receiving.
ReceptionEnds ==
  receiver_state = "RECEIVING" /\ resets = {} ~> receiver_state = "WAITING"
=============================================================================
