--------------------------- MODULE EthernetProofs ---------------------------
(***************************************************************************)
(* Proofs about the Ethernet controller, for any set of packets, lengths,  *)
(* masks and machines, and every regime of resets.                         *)
(*                                                                         *)
(* The periodic handler is a composition of operators on a record of the   *)
(* controller's state. A lemma for each primitive says which fields it     *)
(* changes; the invariants are predicates of such records, kept by each    *)
(* part of the handler.                                                    *)
(***************************************************************************)
EXTENDS Ethernet, SequenceTheorems, TLAPS

\* The driver never enables NET_BUSY.
MaskBits == {"READY", "TX_RECVD", "UNDERFLOW", "16COLLS"}
Regs == [tx_status : SUBSET TxBits, tx_mask : SUBSET MaskBits,
         rx_status : SUBSET RxBits, rx_mask : SUBSET RxBits, reset : BOOLEAN]

Buffers == [packet : Packets \cup {NoPacket}, limit : Nat, size : Nat]
Filled(b) == b.packet \in Packets /\ b.limit \in Lengths /\ b.size \in 1..b.limit

Units == {u \in Packets \X Lengths \X Nat : u[3] \in 1..u[2]}

States == [enet : Regs, rx : Buffers, tx : {"empty", "short", "long"},
           line : SUBSET {"TX", "RX"}, receiver_state : {"WAITING", "RECEIVING"},
           memory : Seq(Units)]

\* A step that leaves everything but the registers and the lines.
SamePackets(s, t) == /\ t.rx = s.rx /\ t.tx = s.tx
                     /\ t.receiver_state = s.receiver_state /\ t.memory = s.memory

\* Reset and masks are the guest's: the handler never changes them.
SameControl(s, t) == /\ t.enet.reset = s.enet.reset
                     /\ t.enet.tx_mask = s.enet.tx_mask
                     /\ t.enet.rx_mask = s.enet.rx_mask

-----------------------------------------------------------------------------
(***************************************************************************)
(* The primitives.                                                         *)
(***************************************************************************)

LEMMA RegsUpdate ==
  ASSUME NEW e \in Regs
  PROVE  /\ \A b \in SUBSET TxBits : [e EXCEPT !.tx_status = b] \in Regs
         /\ \A b \in SUBSET RxBits : [e EXCEPT !.rx_status = b] \in Regs
         /\ \A b \in SUBSET MaskBits : [e EXCEPT !.tx_mask = b] \in Regs
         /\ \A b \in SUBSET RxBits : [e EXCEPT !.rx_mask = b] \in Regs
         /\ \A b \in BOOLEAN : [e EXCEPT !.reset = b] \in Regs
BY DEF Regs

LEMMA LineTypes ==
  ASSUME NEW l \in SUBSET {"TX", "RX"}, NEW status, NEW mask, NEW intr \in {"TX", "RX"}
  PROVE  /\ Raise(l, status, mask, intr) \in SUBSET {"TX", "RX"}
         /\ Release(l, status, mask, intr) \in SUBSET {"TX", "RX"}
BY DEF Raise, Release

LEMMA RxInterruptFields ==
  ASSUME NEW s \in States, NEW bit \in RxBits, NEW t, t = RxInterrupt(s, bit)
  PROVE  /\ t \in States /\ SamePackets(s, t) /\ SameControl(s, t)
         /\ t.enet.tx_status = s.enet.tx_status
         /\ t.enet.rx_status = s.enet.rx_status \cup {bit}
         /\ t.line = Raise(s.line, t.enet.rx_status, s.enet.rx_mask, "RX")
<1> DEFINE e == [s.enet EXCEPT !.rx_status = @ \cup {bit}]
           l == Raise(s.line, s.enet.rx_status \cup {bit}, s.enet.rx_mask, "RX")
<1>1. s.enet \in Regs /\ s.line \in SUBSET {"TX", "RX"} BY DEF States
<1>2. s.enet.rx_status \cup {bit} \in SUBSET RxBits BY <1>1 DEF Regs
<1>3. e \in Regs BY <1>1, <1>2, RegsUpdate
<1>4. /\ e.rx_status = s.enet.rx_status \cup {bit} /\ e.tx_status = s.enet.tx_status
      /\ e.reset = s.enet.reset /\ e.tx_mask = s.enet.tx_mask /\ e.rx_mask = s.enet.rx_mask
  BY <1>1 DEF Regs
<1>5. l \in SUBSET {"TX", "RX"} BY <1>1, LineTypes
<1>6. t = [s EXCEPT !.enet = e, !.line = l] BY DEF RxInterrupt, States
<1> HIDE DEF e, l
<1>7. /\ t \in States /\ t.enet = e /\ t.line = l /\ SamePackets(s, t)
  BY <1>3, <1>5, <1>6 DEF States, SamePackets
<1> QED BY <1>4, <1>7 DEF l, SameControl

LEMMA TxInterruptFields ==
  ASSUME NEW s \in States, NEW bit \in TxBits, NEW t, t = TxInterrupt(s, bit)
  PROVE  /\ t \in States /\ SamePackets(s, t) /\ SameControl(s, t)
         /\ t.enet.rx_status = s.enet.rx_status
         /\ t.enet.tx_status = s.enet.tx_status \cup {bit}
         /\ t.line = Raise(s.line, t.enet.tx_status, s.enet.tx_mask, "TX")
<1> DEFINE e == [s.enet EXCEPT !.tx_status = @ \cup {bit}]
           l == Raise(s.line, s.enet.tx_status \cup {bit}, s.enet.tx_mask, "TX")
<1>1. s.enet \in Regs /\ s.line \in SUBSET {"TX", "RX"} BY DEF States
<1>2. s.enet.tx_status \cup {bit} \in SUBSET TxBits BY <1>1 DEF Regs
<1>3. e \in Regs BY <1>1, <1>2, RegsUpdate
<1>4. /\ e.tx_status = s.enet.tx_status \cup {bit} /\ e.rx_status = s.enet.rx_status
      /\ e.reset = s.enet.reset /\ e.tx_mask = s.enet.tx_mask /\ e.rx_mask = s.enet.rx_mask
  BY <1>1 DEF Regs
<1>5. l \in SUBSET {"TX", "RX"} BY <1>1, LineTypes
<1>6. t = [s EXCEPT !.enet = e, !.line = l] BY DEF TxInterrupt, States
<1> HIDE DEF e, l
<1>7. /\ t \in States /\ t.enet = e /\ t.line = l /\ SamePackets(s, t)
  BY <1>3, <1>5, <1>6 DEF States, SamePackets
<1> QED BY <1>4, <1>7 DEF l, SameControl

LEMMA TxReleaseFields ==
  ASSUME NEW s \in States, NEW bit \in TxBits, NEW t, t = TxRelease(s, bit)
  PROVE  /\ t \in States /\ SamePackets(s, t) /\ SameControl(s, t)
         /\ t.enet.rx_status = s.enet.rx_status
         /\ t.enet.tx_status = s.enet.tx_status \ {bit}
         /\ t.line = Release(s.line, t.enet.tx_status, s.enet.tx_mask, "TX")
<1> DEFINE e == [s.enet EXCEPT !.tx_status = @ \ {bit}]
           l == Release(s.line, s.enet.tx_status \ {bit}, s.enet.tx_mask, "TX")
<1>1. s.enet \in Regs /\ s.line \in SUBSET {"TX", "RX"} BY DEF States
<1>2. s.enet.tx_status \ {bit} \in SUBSET TxBits BY <1>1 DEF Regs
<1>3. e \in Regs BY <1>1, <1>2, RegsUpdate
<1>4. /\ e.tx_status = s.enet.tx_status \ {bit} /\ e.rx_status = s.enet.rx_status
      /\ e.reset = s.enet.reset /\ e.tx_mask = s.enet.tx_mask /\ e.rx_mask = s.enet.rx_mask
  BY <1>1 DEF Regs
<1>5. l \in SUBSET {"TX", "RX"} BY <1>1, LineTypes
<1>6. t = [s EXCEPT !.enet = e, !.line = l] BY DEF TxRelease, States
<1> HIDE DEF e, l
<1>7. /\ t \in States /\ t.enet = e /\ t.line = l /\ SamePackets(s, t)
  BY <1>3, <1>5, <1>6 DEF States, SamePackets
<1> QED BY <1>4, <1>7 DEF l, SameControl

LEMMA ToWaitingFields ==
  ASSUME NEW s \in States, NEW t, t = ToWaiting(s)
  PROVE  /\ t \in States /\ SameControl(s, t)
         /\ t.rx = Empty /\ t.receiver_state = "WAITING"
         /\ t.enet.tx_status = s.enet.tx_status \ {"NET_BUSY"}
         /\ t.enet.rx_status = s.enet.rx_status
         /\ t.tx = s.tx /\ t.line = s.line /\ t.memory = s.memory
<1> DEFINE e == [s.enet EXCEPT !.tx_status = @ \ {"NET_BUSY"}]
<1>1. s.enet \in Regs BY DEF States
<1>2. s.enet.tx_status \ {"NET_BUSY"} \in SUBSET TxBits BY <1>1 DEF Regs
<1>3. e \in Regs BY <1>1, <1>2, RegsUpdate
<1>4. /\ e.tx_status = s.enet.tx_status \ {"NET_BUSY"} /\ e.rx_status = s.enet.rx_status
      /\ e.reset = s.enet.reset /\ e.tx_mask = s.enet.tx_mask /\ e.rx_mask = s.enet.rx_mask
  BY <1>1 DEF Regs
<1>5. Empty \in Buffers BY DEF Empty, Buffers
<1>6. t = [s EXCEPT !.rx = Empty, !.receiver_state = "WAITING", !.enet = e]
  BY DEF ToWaiting, States
<1> HIDE DEF e
<1>7. /\ t \in States /\ t.enet = e /\ t.rx = Empty /\ t.receiver_state = "WAITING"
      /\ t.tx = s.tx /\ t.line = s.line /\ t.memory = s.memory
  BY <1>3, <1>5, <1>6 DEF States
<1> QED BY <1>4, <1>7 DEF SameControl

LEMMA EnetReceiveFields ==
  ASSUME NEW s \in States, NEW t \in EnetReceive(s), t # s
  PROVE  /\ t \in States /\ SameControl(s, t)
         /\ Filled(t.rx) /\ t.rx.size = t.rx.limit
         /\ t.enet.tx_status = s.enet.tx_status \cup {"NET_BUSY"}
         /\ t.enet.rx_status = s.enet.rx_status
         /\ t.tx = s.tx /\ t.line = s.line /\ t.memory = s.memory
         /\ t.receiver_state = s.receiver_state
<1> DEFINE e == [s.enet EXCEPT !.tx_status = @ \cup {"NET_BUSY"}]
<1>1. s.enet \in Regs BY DEF States
<1>2. s.enet.tx_status \cup {"NET_BUSY"} \in SUBSET TxBits BY <1>1 DEF Regs, TxBits
<1>3. e \in Regs BY <1>1, <1>2, RegsUpdate
<1>4. /\ e.tx_status = s.enet.tx_status \cup {"NET_BUSY"} /\ e.rx_status = s.enet.rx_status
      /\ e.reset = s.enet.reset /\ e.tx_mask = s.enet.tx_mask /\ e.rx_mask = s.enet.rx_mask
  BY <1>1 DEF Regs
<1>5. PICK b \in Arrivals : t = [s EXCEPT !.rx = b, !.enet.tx_status = @ \cup {"NET_BUSY"}]
  BY DEF EnetReceive
<1>6. t = [s EXCEPT !.rx = b, !.enet = e] BY <1>5 DEF States
<1>7. \A n \in Lengths : n \in Nat \ {0} BY LengthAssumption
<1>8. b \in Buffers /\ Filled(b) /\ b.size = b.limit BY <1>7 DEF Buffers, Filled, Arrivals
<1> HIDE DEF e
<1>9. /\ t \in States /\ t.enet = e /\ t.rx = b /\ t.receiver_state = s.receiver_state
      /\ t.tx = s.tx /\ t.line = s.line /\ t.memory = s.memory
  BY <1>3, <1>6, <1>8 DEF States
<1> QED BY <1>4, <1>8, <1>9 DEF SameControl

\* A field that is not looked at by the invariants of the registers.
LEMMA TxFields ==
  ASSUME NEW s \in States, NEW x \in {"empty", "short", "long"}, NEW t, t = [s EXCEPT !.tx = x]
  PROVE  /\ t \in States /\ t.enet = s.enet /\ t.rx = s.rx /\ t.line = s.line
         /\ t.receiver_state = s.receiver_state /\ t.memory = s.memory
BY DEF States

-----------------------------------------------------------------------------
(***************************************************************************)
(* The interrupts, of a record of the controller's state.                  *)
(***************************************************************************)

\* InterruptsFollow. It lasts because the first controller is always ready.
Told(s) ==
  /\ s.enet.rx_status \cap s.enet.rx_mask # {} <=> "RX" \in s.line
  /\ (s.enet.tx_status \ {b \in {"READY"} : turbo}) \cap s.enet.tx_mask # {} => "TX" \in s.line
  /\ ~turbo => "READY" \in s.enet.tx_status

Keeps(s, t) == t \in States /\ SameControl(s, t) /\ (Told(s) => Told(t))

LEMMA KeepsTrans ==
  ASSUME NEW s, NEW t, NEW u, Keeps(s, t), Keeps(t, u) PROVE Keeps(s, u)
BY DEF Keeps, SameControl

LEMMA RxInterruptKeeps ==
  ASSUME NEW s \in States, NEW bit \in RxBits PROVE Keeps(s, RxInterrupt(s, bit))
<1> DEFINE t == RxInterrupt(s, bit)
<1>1. /\ t \in States /\ SameControl(s, t) /\ t.enet.tx_status = s.enet.tx_status
      /\ t.enet.rx_status = s.enet.rx_status \cup {bit}
      /\ t.line = Raise(s.line, t.enet.rx_status, s.enet.rx_mask, "RX")
  BY RxInterruptFields
<1> HIDE DEF t
<1>2. /\ t.enet.rx_status \cap s.enet.rx_mask # {} => t.line = s.line \cup {"RX"}
      /\ t.enet.rx_status \cap s.enet.rx_mask = {} =>
           t.line = s.line /\ s.enet.rx_status \cap s.enet.rx_mask = {}
  BY <1>1 DEF Raise
<1>3. Told(s) => Told(t) BY <1>1, <1>2 DEF Told, SameControl
<1> QED BY <1>1, <1>3 DEF Keeps, t

LEMMA TxInterruptKeeps ==
  ASSUME NEW s \in States, NEW bit \in TxBits PROVE Keeps(s, TxInterrupt(s, bit))
<1> DEFINE t == TxInterrupt(s, bit)
<1>1. /\ t \in States /\ SameControl(s, t) /\ t.enet.rx_status = s.enet.rx_status
      /\ t.enet.tx_status = s.enet.tx_status \cup {bit}
      /\ t.line = Raise(s.line, t.enet.tx_status, s.enet.tx_mask, "TX")
  BY TxInterruptFields
<1> HIDE DEF t
<1>2. /\ t.enet.tx_status \cap s.enet.tx_mask # {} => t.line = s.line \cup {"TX"}
      /\ t.enet.tx_status \cap s.enet.tx_mask = {} => t.line = s.line
  BY <1>1 DEF Raise
<1>3. "RX" \in t.line <=> "RX" \in s.line BY <1>2
<1>4. Told(s) => Told(t) BY <1>1, <1>2, <1>3 DEF Told, SameControl
<1> QED BY <1>1, <1>4 DEF Keeps, t

LEMMA TxReleaseKeeps ==
  ASSUME NEW s \in States PROVE Keeps(s, TxRelease(s, "TX_RECVD"))
<1> DEFINE t == TxRelease(s, "TX_RECVD")
<1>1. /\ t \in States /\ SameControl(s, t) /\ t.enet.rx_status = s.enet.rx_status
      /\ t.enet.tx_status = s.enet.tx_status \ {"TX_RECVD"}
      /\ t.line = Release(s.line, t.enet.tx_status, s.enet.tx_mask, "TX")
  BY TxReleaseFields DEF TxBits
<1> HIDE DEF t
<1>2. /\ t.enet.tx_status \cap s.enet.tx_mask # {} => t.line = s.line
      /\ t.enet.tx_status \cap s.enet.tx_mask = {} => t.line = s.line \ {"TX"}
  BY <1>1 DEF Release
<1>3. "RX" \in t.line <=> "RX" \in s.line BY <1>2
<1>4. Told(s) => Told(t) BY <1>1, <1>2, <1>3 DEF Told, SameControl
<1> QED BY <1>1, <1>4 DEF Keeps, t

LEMMA ToWaitingKeeps == ASSUME NEW s \in States PROVE Keeps(s, ToWaiting(s))
BY ToWaitingFields DEF Keeps, SameControl, Told

LEMMA EnetReceiveKeeps ==
  ASSUME NEW s \in States, NEW t \in EnetReceive(s) PROVE Keeps(s, t)
<1>1. CASE t = s BY <1>1 DEF Keeps, SameControl
<1>2. CASE t # s
  <2>1. s.enet.tx_mask \subseteq MaskBits BY DEF States, Regs
  <2> QED BY <1>2, <2>1, EnetReceiveFields DEF Keeps, SameControl, Told, MaskBits
<1> QED BY <1>1, <1>2

LEMMA TxKeeps ==
  ASSUME NEW s \in States, NEW x \in {"empty", "short", "long"} PROVE Keeps(s, [s EXCEPT !.tx = x])
BY TxFields DEF Keeps, SameControl, Told

-----------------------------------------------------------------------------
(***************************************************************************)
(* The transmitter: it keeps its hands off a receive buffer that is in     *)
(* use.                                                                    *)
(***************************************************************************)

Busy(s) == "NET_BUSY" \in s.enet.tx_status
Held(s) == Busy(s) <=> s.rx.size > 0

\* What a step of the transmitter may do to the receiver.
Sends(s, t) == /\ Keeps(s, t)
               /\ t.receiver_state = s.receiver_state /\ t.memory = s.memory
               /\ \/ t.rx = s.rx /\ (Busy(t) <=> Busy(s))
                  \/ Filled(t.rx) /\ t.rx.size = t.rx.limit /\ Busy(t)

\* As Sends, but the buffer is not touched.
Signals(s, t) == /\ Keeps(s, t)
                 /\ t.receiver_state = s.receiver_state /\ t.memory = s.memory
                 /\ t.rx = s.rx /\ (Busy(t) <=> Busy(s))

LEMMA SignalsTrans ==
  ASSUME NEW s, NEW t, NEW u, Signals(s, t), Signals(t, u) PROVE Signals(s, u)
BY KeepsTrans DEF Signals

LEMMA SignalsSends ==
  ASSUME NEW s, NEW t, NEW u, Signals(s, t), Sends(t, u) PROVE Sends(s, u)
BY KeepsTrans DEF Signals, Sends

LEMMA SendsSignals ==
  ASSUME NEW s, NEW t, NEW u, Sends(s, t), Signals(t, u) PROVE Sends(s, u)
BY KeepsTrans DEF Signals, Sends

LEMMA SignalsAreSends == ASSUME NEW s, NEW t, Signals(s, t) PROVE Sends(s, t)
BY DEF Signals, Sends

LEMMA TxInterruptSignals ==
  ASSUME NEW s \in States, NEW bit \in TxBits \ {"NET_BUSY"} PROVE Signals(s, TxInterrupt(s, bit))
BY TxInterruptKeeps, TxInterruptFields DEF Signals, SamePackets, Busy

LEMMA TxReleaseSignals ==
  ASSUME NEW s \in States PROVE Signals(s, TxRelease(s, "TX_RECVD"))
<1>1. "TX_RECVD" \in TxBits BY DEF TxBits
<1> DEFINE t == TxRelease(s, "TX_RECVD")
<1>2. SamePackets(s, t) /\ t.enet.tx_status = s.enet.tx_status \ {"TX_RECVD"}
  BY <1>1, TxReleaseFields
<1>3. Keeps(s, t) BY TxReleaseKeeps
<1> HIDE DEF t
<1>4. Signals(s, t) BY <1>2, <1>3 DEF Signals, SamePackets, Busy
<1> QED BY <1>4 DEF t

LEMMA TxSignals ==
  ASSUME NEW s \in States, NEW x \in {"empty", "short", "long"} PROVE Signals(s, [s EXCEPT !.tx = x])
BY TxKeeps, TxFields DEF Signals, Busy

LEMMA StaySignals == ASSUME NEW s \in States PROVE Signals(s, s)
BY DEF Signals, Keeps, SameControl

LEMMA EnetSendSends == ASSUME NEW s \in States, NEW t \in EnetSend(s) PROVE Sends(s, t)
<1> DEFINE u == [s EXCEPT !.tx = "empty"]
<1>1. Signals(s, u) BY TxSignals
<1>2. u \in States BY <1>1 DEF Signals, Keeps
<1>3. t \in EnetReceive(u) \/ t = u BY DEF EnetSend
<1> HIDE DEF u
<1>4. Signals(u, u) BY <1>2, StaySignals
<1>5. Sends(u, t)
  <2>1. CASE t = u BY <1>4, <2>1, SignalsAreSends
  <2>2. CASE t \in EnetReceive(u) /\ t # u
    <3>1. Keeps(u, t) BY <1>2, <2>2, EnetReceiveKeeps
    <3> QED BY <1>2, <2>2, <3>1, EnetReceiveFields DEF Sends, Busy
  <2> QED BY <1>3, <2>1, <2>2
<1> QED BY <1>1, <1>5, SignalsSends

LEMMA AfterReadSends ==
  ASSUME NEW s \in States, NEW r \in Reads(s), NEW t \in AfterRead(s, r) PROVE Sends(s, t)
<1> DEFINE u == TxRelease(s, "TX_RECVD")
<1>1. Signals(s, u) BY TxReleaseSignals
<1>2. u \in States BY <1>1 DEF Signals, Keeps
<1>3. r.tx \in {"empty", "short", "long"} /\ r.eop \in BOOLEAN /\ r.grew \in BOOLEAN
  BY DEF Reads
<1>4. AfterRead(s, r) =
  CASE r.tx = "empty" -> IF r.eop THEN EnetSend(s) ELSE {s}
    [] r.tx # "empty" /\ ~r.grew /\ ~r.eop ->
         {[TxInterrupt(u, "UNDERFLOW") EXCEPT !.tx = "empty"]}
    [] r.tx # "empty" /\ (r.grew \/ r.eop) /\ EnetState = "disconnected" ->
         {[TxInterrupt(u, "16COLLS") EXCEPT !.tx = "empty"]}
    [] r.tx # "empty" /\ (r.grew \/ r.eop) /\ EnetState # "disconnected" ->
         IF r.eop THEN IF r.tx = "long" THEN EnetSend(u) ELSE {[u EXCEPT !.tx = "empty"]}
         ELSE {[u EXCEPT !.tx = left] : left \in IF r.tx = "long" THEN {"short", "long"}
                                                 ELSE {"short"}}
  BY DEF AfterRead
<1> HIDE DEF u
<1>5. \A bit \in {"UNDERFLOW", "16COLLS"} :
        Signals(s, [TxInterrupt(u, bit) EXCEPT !.tx = "empty"])
  <2> SUFFICES ASSUME NEW bit \in {"UNDERFLOW", "16COLLS"}
               PROVE  Signals(s, [TxInterrupt(u, bit) EXCEPT !.tx = "empty"])
    OBVIOUS
  <2> DEFINE v == TxInterrupt(u, bit)
  <2>1. Signals(u, v) BY <1>2, TxInterruptSignals DEF TxBits
  <2> HIDE DEF v
  <2>2. v \in States BY <2>1 DEF Signals, Keeps
  <2>3. Signals(v, [v EXCEPT !.tx = "empty"]) BY <2>2, TxSignals
  <2> QED BY <1>1, <2>1, <2>3, SignalsTrans DEF v
<1>6. \A x \in {"empty", "short", "long"} : Signals(s, [u EXCEPT !.tx = x])
  BY <1>1, <1>2, TxSignals, SignalsTrans
<1>7. CASE t \in EnetSend(s) BY <1>7, EnetSendSends
<1>8. CASE t = s BY <1>8, StaySignals, SignalsAreSends
<1>9. CASE t \in EnetSend(u) BY <1>1, <1>2, <1>9, EnetSendSends, SignalsSends
<1>10. CASE \E bit \in {"UNDERFLOW", "16COLLS"} : t = [TxInterrupt(u, bit) EXCEPT !.tx = "empty"]
  BY <1>5, <1>10, SignalsAreSends
<1>11. CASE \E x \in {"empty", "short", "long"} : t = [u EXCEPT !.tx = x]
  BY <1>6, <1>11, SignalsAreSends
<1>12. CASE r.tx = "empty" BY <1>4, <1>7, <1>8, <1>12
<1>13. CASE r.tx # "empty" /\ ~r.grew /\ ~r.eop BY <1>4, <1>10, <1>13
<1>14. CASE r.tx # "empty" /\ (r.grew \/ r.eop) /\ EnetState = "disconnected"
  BY <1>4, <1>10, <1>14
<1>15. CASE r.tx # "empty" /\ (r.grew \/ r.eop) /\ EnetState # "disconnected"
  <2>1. t \in IF r.eop THEN IF r.tx = "long" THEN EnetSend(u) ELSE {[u EXCEPT !.tx = "empty"]}
              ELSE {[u EXCEPT !.tx = left] : left \in IF r.tx = "long" THEN {"short", "long"}
                                                      ELSE {"short"}}
    BY <1>4, <1>15
  <2> QED BY <1>9, <1>11, <2>1
<1> QED BY <1>3, <1>12, <1>13, <1>14, <1>15

LEMMA AfterTurboReadSends ==
  ASSUME NEW s \in States, NEW r \in Reads(s), NEW t \in AfterTurboRead(s, r) PROVE Sends(s, t)
<1> DEFINE sent == IF EnetState = "disconnected"
                   THEN {[TxInterrupt(s, "16COLLS") EXCEPT !.tx = "empty"]}
                   ELSE EnetSend(s)
<1>1. \A u \in sent : Sends(s, u)
  <2>1. CASE EnetState = "disconnected"
    <3> DEFINE v == TxInterrupt(s, "16COLLS")
    <3>1. Signals(s, v) BY TxInterruptSignals DEF TxBits
    <3> HIDE DEF v
    <3>2. Signals(v, [v EXCEPT !.tx = "empty"]) BY <3>1, TxSignals DEF Signals, Keeps
    <3>3. sent = {[v EXCEPT !.tx = "empty"]} BY <2>1 DEF v
    <3> QED BY <3>1, <3>2, <3>3, SignalsTrans, SignalsAreSends
  <2>2. CASE EnetState # "disconnected" BY <2>2, EnetSendSends
  <2> QED BY <2>1, <2>2
<1>2. t = s \/ \E u \in sent : t = TxInterrupt(u, "READY") BY DEF AfterTurboRead
<1> HIDE DEF sent
<1>3. CASE t = s BY <1>3, StaySignals, SignalsAreSends
<1>4. ASSUME NEW u \in sent, t = TxInterrupt(u, "READY") PROVE Sends(s, t)
  <2>1. u \in States BY <1>1 DEF Sends, Keeps
  <2>2. Signals(u, t) BY <1>4, <2>1, TxInterruptSignals DEF TxBits
  <2> QED BY <1>1, <2>2, SendsSignals
<1> QED BY <1>2, <1>3, <1>4

LEMMA SendHalfSends ==
  ASSUME NEW s \in States, NEW t \in SendHalf(s)
  PROVE  Sends(s, t) /\ (Busy(s) => Signals(s, t))
<1>1. Signals(s, s) /\ Sends(s, s) BY StaySignals, SignalsAreSends
<1>2. CASE ~turbo
  <2>1. t = s \/ (~Busy(s) /\ \E r \in Reads(s) : t \in AfterRead(s, r))
    <3>1. SendHalf(s) = IF "READY" \in s.enet.tx_status /\ ~Busy(s)
                        THEN UNION {AfterRead(s, r) : r \in Reads(s)} ELSE {s}
      BY <1>2 DEF SendHalf, Busy
    <3>2. CASE "READY" \in s.enet.tx_status /\ ~Busy(s) BY <3>1, <3>2
    <3>3. CASE ~("READY" \in s.enet.tx_status /\ ~Busy(s)) BY <3>1, <3>3
    <3> QED BY <3>2, <3>3
  <2> QED BY <1>1, <2>1, AfterReadSends
<1>3. CASE turbo
  <2> DEFINE ready(u) == [u EXCEPT !.enet.tx_status = @ \cup {"READY"}]
  <2>1. ASSUME NEW u \in States PROVE Signals(u, ready(u))
    <3> DEFINE e == [u.enet EXCEPT !.tx_status = @ \cup {"READY"}]
    <3>1. u.enet \in Regs BY DEF States
    <3>2. u.enet.tx_status \cup {"READY"} \in SUBSET TxBits BY <3>1 DEF Regs, TxBits
    <3>3. e \in Regs BY <3>1, <3>2, RegsUpdate
    <3>4. /\ e.tx_status = u.enet.tx_status \cup {"READY"} /\ e.rx_status = u.enet.rx_status
          /\ e.reset = u.enet.reset /\ e.tx_mask = u.enet.tx_mask /\ e.rx_mask = u.enet.rx_mask
      BY <3>1 DEF Regs
    <3>5. ready(u) = [u EXCEPT !.enet = e] BY DEF States
    <3> HIDE DEF e
    <3> DEFINE v == ready(u)
    <3>6. /\ v \in States /\ v.enet = e /\ v.rx = u.rx /\ v.line = u.line
          /\ v.receiver_state = u.receiver_state /\ v.memory = u.memory
      BY <3>3, <3>5 DEF States
    <3> HIDE DEF v
    <3>7. SameControl(u, v) /\ (Told(u) => Told(v)) BY <1>3, <3>4, <3>6 DEF SameControl, Told
    <3>8. Busy(v) <=> Busy(u) BY <3>4, <3>6 DEF Busy
    <3> QED BY <3>6, <3>7, <3>8 DEF Signals, Keeps, v
  <2>2. \/ t = s
        \/ Busy(s) /\ t = ready(s)
        \/ ~Busy(s) /\ \E r \in Reads(s) : \E u \in AfterTurboRead(s, r) : t = ready(u)
    <3> DEFINE starts == IF Busy(s) THEN {s} ELSE UNION {AfterTurboRead(s, r) : r \in Reads(s)}
    <3>1. SendHalf(s) = {s} \cup {ready(u) : u \in starts} BY <1>3 DEF SendHalf, Busy
    <3>2. t = s \/ \E u \in starts : t = ready(u)
      <4> HIDE DEF ready, starts
      <4> QED BY <3>1
    <3> HIDE DEF ready
    <3>3. CASE Busy(s) BY <3>2, <3>3
    <3>4. CASE ~Busy(s) BY <3>2, <3>4
    <3> QED BY <3>3, <3>4
  <2> HIDE DEF ready
  <2>3. ASSUME NEW r \in Reads(s), NEW u \in AfterTurboRead(s, r) PROVE Sends(s, ready(u))
    <3>1. Sends(s, u) BY AfterTurboReadSends
    <3>2. Signals(u, ready(u)) BY <2>1, <3>1 DEF Sends, Keeps
    <3> QED BY <3>1, <3>2, SendsSignals
  <2> QED BY <1>1, <2>1, <2>2, <2>3, SignalsAreSends
<1> QED BY <1>2, <1>3

-----------------------------------------------------------------------------
(***************************************************************************)
(* The receiver: what it has written is a prefix of the packet it holds.   *)
(***************************************************************************)

Whole(p, n, k) == [i \in 1..k |-> <<p, n, i>>]

Room(s) == s.rx = Empty \/ Filled(s.rx)

Intact(s) ==
  /\ s.receiver_state = "RECEIVING" =>
       s.rx.size > 0 /\ s.memory = Whole(s.rx.packet, s.rx.limit, s.rx.limit - s.rx.size)
  /\ s.receiver_state = "WAITING" =>
       /\ s.rx.size > 0 => s.rx.size = s.rx.limit
       /\ s.memory = << >> \/ \E p \in Packets, n \in Lengths : s.memory = Whole(p, n, n)

\* What each half of the handler does.
Serves(s, t) ==
  /\ Keeps(s, t) /\ Room(t)
  /\ resets = {} /\ Held(s) /\ Intact(s) => Held(t) /\ Intact(t)

LEMMA ServesTrans ==
  ASSUME NEW s, NEW t, NEW u, Serves(s, t), Serves(t, u) PROVE Serves(s, u)
BY KeepsTrans DEF Serves

\* More of the packet follows what is written of it.
LEMMA WholeGrows ==
  ASSUME NEW p, NEW n, NEW j \in Nat, NEW k \in Nat
  PROVE  Whole(p, n, j) \o [i \in 1..k |-> <<p, n, j + i>>] = Whole(p, n, j + k)
<1> DEFINE a == Whole(p, n, j)
           b == [i \in 1..k |-> <<p, n, j + i>>]
           c == Whole(p, n, j + k)
<1>1. a \in Seq({<<p, n, i>> : i \in Nat}) /\ Len(a) = j BY DEF Whole
<1>2. b \in Seq({<<p, n, i>> : i \in Nat}) /\ Len(b) = k OBVIOUS
<1>3. c \in Seq({<<p, n, i>> : i \in Nat}) /\ Len(c) = j + k BY DEF Whole
<1> DEFINE T == {<<p, n, i>> : i \in Nat}
<1>7. \A i \in 1..j : a[i] = <<p, n, i>> BY DEF Whole
<1>8. \A i \in 1..k : b[i] = <<p, n, j + i>> OBVIOUS
<1>9. \A i \in 1..(j + k) : c[i] = <<p, n, i>> BY DEF Whole
<1>0. a \in Seq(T) /\ b \in Seq(T) /\ c \in Seq(T) BY <1>1, <1>2, <1>3
<1> HIDE DEF a, b, c, T
<1>10. /\ a \o b \in Seq(T) /\ Len(a \o b) = Len(a) + Len(b)
       /\ \A i \in 1..Len(a) + Len(b) : (a \o b)[i] = IF i <= Len(a) THEN a[i] ELSE b[i - Len(a)]
  BY <1>0, ConcatProperties
<1>4. a \o b \in Seq(T) /\ Len(a \o b) = j + k
  BY <1>1, <1>2, <1>10
<1>5. \A i \in 1..(j + k) : (a \o b)[i] = c[i]
  <2> SUFFICES ASSUME NEW i \in 1..(j + k) PROVE (a \o b)[i] = c[i]
    OBVIOUS
  <2>5. i \in Int OBVIOUS
  <2>1. (a \o b)[i] = IF i <= j THEN a[i] ELSE b[i - j] BY <1>1, <1>2, <1>10
  <2>2. CASE i <= j BY <1>7, <1>9, <2>1, <2>2
  <2>3. CASE i > j
    <3>1. i - j \in 1..k /\ j + (i - j) = i BY <2>3
    <3>2. b[i - j] = <<p, n, i>> BY <1>8, <3>1
    <3> QED BY <1>9, <2>1, <2>3, <3>2
  <2>4. i <= j \/ i > j BY <2>5
  <2> QED BY <2>2, <2>3, <2>4
<1>6. a \o b = c BY <1>0, <1>3, <1>4, <1>5, SeqEqual
<1> QED BY <1>6 DEF a, b, c

LEMMA WrittenType ==
  ASSUME NEW old \in Seq(Units), NEW new \in Seq(Units) PROVE Written(old, new) \in Seq(Units)
<1>1. old \o new \in Seq(Units) BY ConcatProperties
<1>2. SubSeq(old \o new, 1, MaxMemory) \in Seq(Units) \/ Len(old \o new) <= MaxMemory
  BY <1>1, MemoryAssumption, SubSeqProperties
<1>3. Len(old \o new) \in Nat BY <1>1
<1>4. << >> \in Seq(Units) OBVIOUS
<1> QED BY <1>1, <1>2, <1>3, <1>4, MemoryAssumption DEF Written

LEMMA TransferFields ==
  ASSUME NEW s \in States, Filled(s.rx), NEW k \in 1..s.rx.size, NEW t, t = Transfer(s, k)
  PROVE  /\ t \in States /\ t.enet = s.enet /\ t.line = s.line /\ t.tx = s.tx
         /\ t.receiver_state = s.receiver_state
         /\ t.rx.packet = s.rx.packet /\ t.rx.limit = s.rx.limit /\ t.rx.size = s.rx.size - k
         /\ t.memory = Written(s.memory, [i \in 1..k |->
                          <<s.rx.packet, s.rx.limit, (s.rx.limit - s.rx.size) + i>>])
<1> DEFINE b == [s.rx EXCEPT !.size = @ - k]
           new == [i \in 1..k |-> <<s.rx.packet, s.rx.limit, (s.rx.limit - s.rx.size) + i>>]
           m == Written(s.memory, new)
<1>1. s.rx \in Buffers /\ s.memory \in Seq(Units) BY DEF States
<1>2. s.rx.limit \in Nat /\ s.rx.size \in Nat /\ s.rx.size <= s.rx.limit /\ k \in Nat /\ k <= s.rx.size
  BY <1>1 DEF Buffers, Filled
<1>3. /\ b \in Buffers /\ b.packet = s.rx.packet /\ b.limit = s.rx.limit /\ b.size = s.rx.size - k
  BY <1>1, <1>2 DEF Buffers
<1>4. new \in Seq(Units)
  <2>1. \A i \in 1..k : new[i] \in Units
    <3> SUFFICES ASSUME NEW i \in 1..k PROVE new[i] \in Units
      OBVIOUS
    <3>1. (s.rx.limit - s.rx.size) + i \in 1..s.rx.limit BY <1>2
    <3>2. s.rx.packet \in Packets /\ s.rx.limit \in Lengths BY DEF Filled
    <3> QED BY <3>1, <3>2 DEF Units
  <2> QED BY <1>2, <2>1
<1> HIDE DEF new
<1>5. m \in Seq(Units) BY <1>1, <1>4, WrittenType
<1>6. t = [s EXCEPT !.rx = b, !.memory = m] BY DEF Transfer, States, new
<1> HIDE DEF b, m
<1>7. /\ t \in States /\ t.enet = s.enet /\ t.line = s.line /\ t.tx = s.tx /\ t.rx = b
      /\ t.memory = m /\ t.receiver_state = s.receiver_state
  BY <1>3, <1>5, <1>6 DEF States
<1> QED BY <1>3, <1>7 DEF m, new

\* A transfer goes on where the last one stopped.
LEMMA TransferIntact ==
  ASSUME NEW s \in States, Filled(s.rx), NEW k \in 1..s.rx.size, resets = {},
         s.memory = Whole(s.rx.packet, s.rx.limit, s.rx.limit - s.rx.size)
  PROVE  Transfer(s, k).memory = Whole(s.rx.packet, s.rx.limit, (s.rx.limit - s.rx.size) + k)
<1> DEFINE j == s.rx.limit - s.rx.size
           new == [i \in 1..k |-> <<s.rx.packet, s.rx.limit, j + i>>]
           all == Whole(s.rx.packet, s.rx.limit, j + k)
<1>1. s.rx.limit \in Nat /\ s.rx.limit < MaxMemory /\ MaxMemory \in Nat
  BY LengthAssumption, MemoryAssumption DEF Filled
<1>2. s.rx.size \in Nat /\ j \in Nat /\ k \in Nat /\ j + k <= s.rx.limit
  BY <1>1 DEF Filled
<1>3. Transfer(s, k).memory = Written(s.memory, new) BY TransferFields
<1> HIDE DEF j
<1>7. s.memory = Whole(s.rx.packet, s.rx.limit, j) BY DEF j
<1>8. Whole(s.rx.packet, s.rx.limit, j) \o new = all BY <1>2, WholeGrows, Zenon
<1>4. s.memory \o new = all BY <1>7, <1>8
<1>5. Len(all) = j + k BY <1>2 DEF Whole
<1> HIDE DEF new, all
<1>6. Written(s.memory, new) = all BY <1>1, <1>2, <1>4, <1>5 DEF Written
<1> QED BY <1>3, <1>6 DEF all, j

LEMMA AfterWriteServes ==
  ASSUME NEW s \in States, Filled(s.rx), s.receiver_state = "RECEIVING",
         NEW k \in 0..s.rx.size
  PROVE  Serves(s, AfterWrite(s, k))
<1>0. s.rx.size \in Nat \ {0} /\ s.rx.limit \in Nat /\ s.rx.size <= s.rx.limit
  <2>1. s.rx.limit \in Nat \ {0} BY LengthAssumption DEF Filled
  <2>2. s.rx.size \in 1..s.rx.limit BY DEF Filled
  <2> QED BY <2>1, <2>2
<1>1. CASE k = 0
  <2> DEFINE u == RxInterrupt(s, "OVERFLOW")
             v == ToWaiting(u)
             w == [v EXCEPT !.memory = << >>]
  <2>1. Keeps(s, u) BY RxInterruptKeeps DEF RxBits
  <2>2. u \in States BY <2>1 DEF Keeps
  <2> HIDE DEF u
  <2>3. Keeps(u, v) BY <2>2, ToWaitingKeeps
  <2>4. v \in States /\ v.rx = Empty /\ v.receiver_state = "WAITING" /\ ~Busy(v)
    BY <2>2, ToWaitingFields DEF Busy
  <2> HIDE DEF v
  <2>5. /\ w \in States /\ w.rx = Empty /\ w.receiver_state = "WAITING" /\ w.enet = v.enet
        /\ w.line = v.line /\ w.memory = << >>
    <3>1. << >> \in Seq(Units) OBVIOUS
    <3>2. w = [v EXCEPT !.memory = << >>] OBVIOUS
    <3> HIDE DEF w
    <3> QED BY <2>4, <3>1, <3>2 DEF States
  <2>6. AfterWrite(s, k) = w BY <1>1 DEF AfterWrite, Overflow, u, v
  <2> HIDE DEF w
  <2>7. Keeps(v, w) BY <2>5 DEF Keeps, SameControl, Told
  <2>8. Keeps(s, w) BY <2>1, <2>3, <2>7, KeepsTrans
  <2>9. Held(w) /\ Intact(w) /\ Room(w) BY <2>4, <2>5 DEF Held, Intact, Room, Empty, Busy
  <2> QED BY <2>6, <2>8, <2>9 DEF Serves
<1>2. CASE k > 0 /\ k < s.rx.size
  <2> DEFINE t == Transfer(s, k)
  <2>1. /\ t \in States /\ t.enet = s.enet /\ t.line = s.line
        /\ t.receiver_state = s.receiver_state
        /\ t.rx.packet = s.rx.packet /\ t.rx.limit = s.rx.limit /\ t.rx.size = s.rx.size - k
    <3>1. k \in 1..s.rx.size BY <1>0, <1>2
    <3>2. t = Transfer(s, k) OBVIOUS
    <3> HIDE DEF t
    <3> QED BY <3>1, <3>2, TransferFields
  <2>2. resets = {} /\ Intact(s) =>
        t.memory = Whole(s.rx.packet, s.rx.limit, (s.rx.limit - s.rx.size) + k)
    BY <1>2, TransferIntact DEF Intact
  <2>3. AfterWrite(s, k) = t BY <1>2 DEF AfterWrite
  <2> HIDE DEF t
  <2>4. Keeps(s, t) BY <2>1 DEF Keeps, SameControl, Told
  <2>5. Filled(t.rx) BY <1>0, <1>2, <2>1 DEF Filled
  <2>6. Held(s) => Held(t) BY <1>0, <1>2, <2>1 DEF Held, Busy
  <2>7. (s.rx.limit - s.rx.size) + k = t.rx.limit - t.rx.size BY <1>0, <2>1
  <2>8. resets = {} /\ Intact(s) => Intact(t)
    BY <1>0, <1>2, <2>1, <2>2, <2>7 DEF Intact
  <2> QED BY <2>3, <2>4, <2>5, <2>6, <2>8 DEF Serves, Room
<1>3. CASE k = s.rx.size
  <2> DEFINE a == Transfer(s, k)
             b == RxInterrupt(a, "PKT_OK")
             c == IF EnetState = "loopback" THEN TxInterrupt(b, "TX_RECVD") ELSE b
             d == ToWaiting(c)
  <2>1. /\ a \in States /\ a.enet = s.enet /\ a.line = s.line
    <3>1. k \in 1..s.rx.size BY <1>0, <1>3
    <3>2. a = Transfer(s, k) OBVIOUS
    <3> HIDE DEF a
    <3> QED BY <3>1, <3>2, TransferFields
  <2>2. resets = {} /\ Intact(s) =>
        a.memory = Whole(s.rx.packet, s.rx.limit, (s.rx.limit - s.rx.size) + k)
    BY <1>0, <1>3, TransferIntact DEF Intact
  <2>3. AfterWrite(s, k) = d BY <1>0, <1>3 DEF AfterWrite, PacketDone
  <2> HIDE DEF a
  <2>4. Keeps(s, a) BY <2>1 DEF Keeps, SameControl, Told
  <2>5. Keeps(a, b) BY <2>1, RxInterruptKeeps DEF RxBits
  <2>6. b \in States /\ b.memory = a.memory BY <2>1, RxInterruptFields DEF RxBits, SamePackets
  <2> HIDE DEF b
  <2>7. Keeps(b, c) /\ c.memory = a.memory
    <3>1. CASE EnetState = "loopback"
      <4>1. c = TxInterrupt(b, "TX_RECVD") BY <3>1
      <4>2. "TX_RECVD" \in TxBits BY DEF TxBits
      <4> HIDE DEF c
      <4> QED BY <2>6, <4>1, <4>2, TxInterruptKeeps, TxInterruptFields DEF SamePackets
    <3>2. CASE EnetState # "loopback"
      <4>1. c = b BY <3>2
      <4> HIDE DEF c
      <4> QED BY <2>6, <4>1 DEF Keeps, SameControl
    <3> QED BY <3>1, <3>2
  <2> HIDE DEF c
  <2>8. c \in States BY <2>7 DEF Keeps
  <2>9. Keeps(c, d) BY <2>8, ToWaitingKeeps
  <2>10. /\ d.rx = Empty /\ d.receiver_state = "WAITING" /\ ~Busy(d) /\ d.memory = a.memory
    BY <2>7, <2>8, ToWaitingFields DEF Busy
  <2> HIDE DEF d
  <2>11. Keeps(s, d) BY <2>4, <2>5, <2>7, <2>9, KeepsTrans
  <2>12. Held(d) /\ Room(d) BY <2>10 DEF Held, Room, Empty
  <2>13. (s.rx.limit - s.rx.size) + k = s.rx.limit BY <1>0, <1>3
  <2>14. resets = {} /\ Intact(s) => Intact(d)
    <3> SUFFICES ASSUME resets = {}, Intact(s) PROVE Intact(d)
      OBVIOUS
    <3>1. d.memory = Whole(s.rx.packet, s.rx.limit, s.rx.limit) BY <2>2, <2>10, <2>13
    <3>2. s.rx.packet \in Packets /\ s.rx.limit \in Lengths BY DEF Filled
    <3>3. d.rx.size = 0 BY <2>10 DEF Empty
    <3> QED BY <2>10, <3>1, <3>2, <3>3 DEF Intact
  <2> QED BY <2>3, <2>11, <2>12, <2>14 DEF Serves
<1> QED BY <1>0, <1>1, <1>2, <1>3

LEMMA StayServes == ASSUME NEW s \in States, Room(s) PROVE Serves(s, s)
BY DEF Serves, Keeps, SameControl

LEMMA ReceivingServes ==
  ASSUME NEW s \in States, Filled(s.rx)
  PROVE  LET t == Receiving(s)
         IN Serves(s, t) /\ t.receiver_state = "RECEIVING" /\ t.rx = s.rx
<1>0. s.rx.size \in Nat \ {0} /\ s.rx.limit \in Nat /\ s.rx.size <= s.rx.limit
  <2>1. s.rx.limit \in Nat \ {0} BY LengthAssumption DEF Filled
  <2>2. s.rx.size \in 1..s.rx.limit BY DEF Filled
  <2> QED BY <2>1, <2>2
<1>1. CASE s.receiver_state = "RECEIVING" BY <1>1, StayServes DEF Receiving, Room
<1>2. CASE s.receiver_state # "RECEIVING"
  <2> DEFINE t == [s EXCEPT !.receiver_state = "RECEIVING", !.memory = << >>]
  <2>1. Receiving(s) = t BY <1>2 DEF Receiving
  <2>2. << >> \in Seq(Units) OBVIOUS
  <2>3. /\ t \in States /\ t.receiver_state = "RECEIVING" /\ t.memory = << >> /\ t.enet = s.enet
        /\ t.rx = s.rx /\ t.line = s.line
    BY <2>2 DEF States
  <2> HIDE DEF t
  <2>4. Keeps(s, t) BY <2>3 DEF Keeps, SameControl, Told
  <2>5. s.receiver_state = "WAITING" BY <1>2 DEF States
  <2>6. Whole(s.rx.packet, s.rx.limit, 0) = << >> BY DEF Whole
  <2>7. Held(s) => Held(t) BY <2>3 DEF Held, Busy
  <2>8. Intact(s) => Intact(t)
    <3> SUFFICES ASSUME Intact(s) PROVE Intact(t)
      OBVIOUS
    <3>1. s.rx.limit - s.rx.size = 0 BY <1>0, <2>5 DEF Intact
    <3> QED BY <1>0, <2>3, <2>6, <3>1 DEF Intact
  <2> QED BY <2>1, <2>3, <2>4, <2>7, <2>8 DEF Serves, Room
<1> QED BY <1>1, <1>2

LEMMA ReceiveHalfServes ==
  ASSUME NEW s \in States, Room(s), NEW t \in ReceiveHalf(s)
  PROVE  Serves(s, t)
<1>0. s.rx.size \in Nat BY DEF States, Buffers
<1>1. CASE s.rx.size > 0
  <2> DEFINE u == Receiving(s)
  <2>1. Filled(s.rx) BY <1>1 DEF Room, Empty
  <2>2. Serves(s, u) /\ u.receiver_state = "RECEIVING" /\ u.rx = s.rx BY <2>1, ReceivingServes
  <2>3. \E k \in 0..s.rx.size : t = AfterWrite(u, k) BY <1>1 DEF ReceiveHalf
  <2> HIDE DEF u
  <2>4. PICK k \in 0..u.rx.size : t = AfterWrite(u, k) BY <2>2, <2>3
  <2>5. u \in States /\ Filled(u.rx) BY <2>1, <2>2 DEF Serves, Keeps
  <2>6. Serves(u, t) BY <2>2, <2>4, <2>5, AfterWriteServes
  <2> QED BY <2>2, <2>6, ServesTrans
<1>2. CASE s.rx.size = 0
  <2>1. t = s \/ (s.receiver_state = "WAITING" /\ t \in EnetReceive(s))
    BY <1>2 DEF ReceiveHalf
  <2>2. CASE t = s BY <2>2, StayServes
  <2>3. CASE s.receiver_state = "WAITING" /\ t \in EnetReceive(s) /\ t # s
    <3>1. Keeps(s, t) BY <2>3, EnetReceiveKeeps
    <3>2. /\ Filled(t.rx) /\ t.rx.size = t.rx.limit /\ Busy(t)
          /\ t.memory = s.memory /\ t.receiver_state = "WAITING"
      BY <2>3, EnetReceiveFields DEF Busy
    <3>3. t.rx.size > 0 BY <3>2, LengthAssumption DEF Filled
    <3>4. Held(t) BY <3>2, <3>3 DEF Held
    <3>5. Intact(s) => Intact(t) BY <2>3, <3>2 DEF Intact
    <3> QED BY <3>1, <3>2, <3>4, <3>5 DEF Serves, Room
  <2> QED BY <2>1, <2>2, <2>3
<1> QED BY <1>0, <1>1, <1>2

LEMMA SendHalfServes ==
  ASSUME NEW s \in States, Room(s), NEW t \in SendHalf(s)
  PROVE  Serves(s, t)
<1>0. s.rx.size \in Nat BY DEF States, Buffers
<1>1. Sends(s, t) /\ (Busy(s) => Signals(s, t)) BY SendHalfSends
<1>2. CASE t.rx = s.rx /\ (Busy(t) <=> Busy(s))
  BY <1>1, <1>2 DEF Sends, Serves, Room, Held, Intact
<1>3. CASE ~(t.rx = s.rx /\ (Busy(t) <=> Busy(s)))
  <2>1. /\ Filled(t.rx) /\ t.rx.size = t.rx.limit /\ Busy(t) /\ Keeps(s, t)
        /\ t.receiver_state = s.receiver_state /\ t.memory = s.memory /\ ~Busy(s)
    BY <1>1, <1>3 DEF Sends, Signals
  <2>2. t.rx.size > 0 BY <2>1, LengthAssumption DEF Filled
  <2>3. Held(t) BY <2>1, <2>2 DEF Held
  <2>4. Held(s) /\ Intact(s) => Intact(t)
    <3> SUFFICES ASSUME Held(s), Intact(s) PROVE Intact(t)
      OBVIOUS
    <3>1. ~(s.rx.size > 0) BY <2>1 DEF Held
    <3>2. s.receiver_state = "WAITING" BY <3>1 DEF Intact, States
    <3> QED BY <2>1, <3>2 DEF Intact
  <2> QED BY <2>1, <2>3, <2>4 DEF Serves, Room
<1> QED BY <1>2, <1>3

-----------------------------------------------------------------------------
(***************************************************************************)
(* The invariant.                                                          *)
(***************************************************************************)

Typed == /\ Controller \in States /\ Room(Controller)
         /\ wire \in {"loopback", "thinwire", "twistedpair"}
         /\ connected \in BOOLEAN /\ started \in BOOLEAN /\ armed \in BOOLEAN
         /\ turbo \in BOOLEAN

Running == /\ ~enet.reset => armed
           /\ ~enet.reset /\ connected => started

\* A controller in reset holds no packet, when it is reset between packets.
Orderly == resets = {} => /\ Held(Controller) /\ Intact(Controller)
                          /\ enet.reset => rx.size = 0

Inv == /\ Typed
       /\ Running
       /\ "hard" \notin resets => Told(Controller)
       /\ Orderly

LEMMA ControllerFields ==
  /\ Controller.enet = enet /\ Controller.rx = rx /\ Controller.tx = tx /\ Controller.line = line
  /\ Controller.receiver_state = receiver_state /\ Controller.memory = memory
BY DEF Controller

LEMMA InitInv == Init => Inv
<1> SUFFICES ASSUME Init PROVE Inv
  OBVIOUS
<1>1. enet \in Regs BY DEF Init, Regs, ResetStatus, TxBits
<1>2. /\ rx = Empty /\ tx = "empty" /\ receiver_state = "WAITING" /\ memory = << >>
      /\ line = {} /\ enet.reset /\ enet.tx_mask = {} /\ enet.rx_mask = {}
      /\ "NET_BUSY" \notin enet.tx_status /\ (~turbo => "READY" \in enet.tx_status)
      /\ enet.rx_status = {}
  BY DEF Init, ResetStatus
<1>3. Empty \in Buffers /\ << >> \in Seq(Units) /\ Empty.size = 0 BY DEF Empty, Buffers
<1>4. Controller \in States BY <1>1, <1>2, <1>3 DEF Controller, States
<1>5. Typed BY <1>2, <1>4, ControllerFields, MachineAssumption DEF Init, Typed, Room
<1>6. Running BY <1>2 DEF Running
<1>7. Told(Controller) BY <1>2, ControllerFields DEF Told
<1>8. Held(Controller) /\ Intact(Controller)
  BY <1>2, <1>3, ControllerFields DEF Held, Busy, Intact
<1> QED BY <1>2, <1>3, <1>5, <1>6, <1>7, <1>8 DEF Inv, Orderly

LEMMA ControllerFieldsNext ==
  /\ Controller'.enet = enet' /\ Controller'.rx = rx' /\ Controller'.tx = tx'
  /\ Controller'.line = line' /\ Controller'.receiver_state = receiver_state'
  /\ Controller'.memory = memory'
BY DEF Controller

\* What a step of the guest does to the types.
LEMMA GuestTyped ==
  ASSUME Typed, enet' \in Regs, line' \in SUBSET {"TX", "RX"},
         wire' \in {"loopback", "thinwire", "twistedpair"},
         connected' \in BOOLEAN, started' \in BOOLEAN, armed' \in BOOLEAN,
         UNCHANGED <<receiver, tx, setting>>
  PROVE  Typed'
<1>1. /\ rx \in Buffers /\ tx \in {"empty", "short", "long"} /\ memory \in Seq(Units)
      /\ receiver_state \in {"WAITING", "RECEIVING"}
  BY ControllerFields DEF Typed, States
<1>2. rx' = rx /\ tx' = tx /\ memory' = memory /\ receiver_state' = receiver_state /\ turbo' = turbo
  BY DEF receiver, setting
<1>3. Controller' \in States BY <1>1, <1>2 DEF Controller, States
<1>4. Room(Controller)' BY <1>2, ControllerFields, ControllerFieldsNext DEF Typed, Room
<1> QED BY <1>2, <1>3, <1>4 DEF Typed

\* The receiver's part of the invariant rests on the buffer and NET_BUSY.
LEMMA GuestOrderly ==
  ASSUME Orderly, UNCHANGED <<receiver, setting>>,
         resets = {} => /\ "NET_BUSY" \in enet'.tx_status <=> rx.size > 0
                        /\ enet'.reset => rx.size = 0
  PROVE  Orderly'
<1>1. rx' = rx /\ memory' = memory /\ receiver_state' = receiver_state /\ resets' = resets
  BY DEF receiver, setting
<1>2. resets = {} => Held(Controller)' BY <1>1, ControllerFieldsNext DEF Held, Busy
<1>3. resets = {} => Intact(Controller)'
  BY <1>1, ControllerFields, ControllerFieldsNext DEF Orderly, Intact
<1> QED BY <1>1, <1>2, <1>3 DEF Orderly

LEMMA EnetResetFields ==
  ASSUME NEW e \in Regs, NEW plugged \in BOOLEAN, NEW running \in BOOLEAN, NEW ticking \in BOOLEAN,
         EnetReset(e, plugged, running, ticking)
  PROVE  /\ enet' \in Regs /\ enet'.reset = e.reset /\ enet'.rx_status = e.rx_status
         /\ enet'.tx_mask = e.tx_mask /\ enet'.rx_mask = e.rx_mask
         /\ enet'.tx_status = IF e.reset THEN ResetStatus ELSE e.tx_status
         /\ started' \in BOOLEAN /\ armed' \in BOOLEAN
         /\ ~enet'.reset => armed' /\ (plugged => started')
<1>1. CASE e.reset
  <2>1. ResetStatus \in SUBSET TxBits BY DEF ResetStatus, TxBits
  <2>2. enet' = [e EXCEPT !.tx_status = ResetStatus] /\ started' = running /\ armed' = ticking
    BY <1>1 DEF EnetReset
  <2>3. enet' \in Regs BY <2>1, <2>2, RegsUpdate
  <2> QED BY <1>1, <2>2, <2>3 DEF Regs
<1>2. CASE ~e.reset
  <2>1. enet' = e /\ started' = (running \/ plugged) /\ armed' = TRUE
    BY <1>2 DEF EnetReset
  <2> QED BY <1>2, <2>1
<1> QED BY <1>1, <1>2

\* The resets of the guest and of the user.
LEMMA SoftReset ==
  ASSUME Inv, NEW e \in Regs, NEW running \in BOOLEAN, connected' \in BOOLEAN,
         e.tx_status = enet.tx_status, e.rx_status = enet.rx_status,
         e.tx_mask = enet.tx_mask, e.rx_mask = enet.rx_mask,
         e.reset /\ resets = {} => rx.size = 0,
         EnetReset(e, connected', running, armed),
         UNCHANGED <<wire, receiver, tx, line, setting>>
  PROVE  Inv'
<1>1. /\ enet \in Regs /\ line \in SUBSET {"TX", "RX"} /\ armed \in BOOLEAN /\ turbo \in BOOLEAN
      /\ wire \in {"loopback", "thinwire", "twistedpair"}
  BY ControllerFields DEF Inv, Typed, States
<1>2. /\ enet' \in Regs /\ enet'.reset = e.reset /\ enet'.rx_status = e.rx_status
      /\ enet'.tx_mask = e.tx_mask /\ enet'.rx_mask = e.rx_mask
      /\ enet'.tx_status = IF e.reset THEN ResetStatus ELSE e.tx_status
      /\ started' \in BOOLEAN /\ armed' \in BOOLEAN
      /\ ~enet'.reset => armed' /\ (connected' => started')
  BY <1>1, EnetResetFields
<1>3. Typed' BY <1>1, <1>2, GuestTyped DEF Inv
<1>4. Running' BY <1>2 DEF Running
<1>5. Orderly'
  <2>1. resets = {} => ("NET_BUSY" \in enet.tx_status <=> rx.size > 0)
    BY ControllerFields DEF Inv, Orderly, Held, Busy
  <2>2. "NET_BUSY" \notin ResetStatus BY DEF ResetStatus
  <2>3. resets = {} => ("NET_BUSY" \in enet'.tx_status <=> rx.size > 0)
    BY <1>2, <2>1, <2>2
  <2> QED BY <1>2, <2>3, GuestOrderly DEF Inv
<1>6. ("hard" \notin resets => Told(Controller))'
  <2> SUFFICES ASSUME "hard" \notin resets' PROVE Told(Controller)'
    OBVIOUS
  <2>1. Told(Controller) /\ line' = line /\ turbo' = turbo BY DEF Inv, setting
  <2>2. "READY" \in enet'.tx_status \/ turbo
    BY <1>2, <2>1, ControllerFields DEF Told, ResetStatus
  <2>3. (enet'.tx_status \ {b \in {"READY"} : turbo}) \subseteq
        (enet.tx_status \ {b \in {"READY"} : turbo})
    BY <1>2, <2>1, ControllerFields DEF Told, ResetStatus
  <2> QED BY <1>2, <2>1, <2>2, <2>3, ControllerFields, ControllerFieldsNext DEF Told
<1> QED BY <1>3, <1>4, <1>5, <1>6 DEF Inv

LEMMA DriverInv == Inv /\ Driver => Inv'
<1> SUFFICES ASSUME Inv, Driver PROVE Inv'
  OBVIOUS
<1>1. /\ enet \in Regs /\ line \in SUBSET {"TX", "RX"} /\ armed \in BOOLEAN /\ turbo \in BOOLEAN
      /\ wire \in {"loopback", "thinwire", "twistedpair"}
      /\ started \in BOOLEAN /\ connected \in BOOLEAN
  BY ControllerFields DEF Inv, Typed, States
<1>2. resets = {} /\ Told(Controller) /\ Orderly BY DEF Driver, Inv
<1>3. /\ enet.rx_status \cap enet.rx_mask # {} <=> "RX" \in line
      /\ (enet.tx_status \ {b \in {"READY"} : turbo}) \cap enet.tx_mask # {} => "TX" \in line
      /\ ~turbo => "READY" \in enet.tx_status
      /\ "NET_BUSY" \in enet.tx_status <=> rx.size > 0
      /\ enet.reset => rx.size = 0
  BY <1>2, ControllerFields DEF Told, Orderly, Held, Busy
<1> SUFFICES /\ enet' \in Regs /\ line' \in SUBSET {"TX", "RX"} /\ enet'.reset = enet.reset
             /\ enet'.rx_status \cap enet'.rx_mask # {} <=> "RX" \in line'
             /\ (enet'.tx_status \ {b \in {"READY"} : turbo}) \cap enet'.tx_mask # {} => "TX" \in line'
             /\ ~turbo => "READY" \in enet'.tx_status
             /\ "NET_BUSY" \in enet'.tx_status <=> "NET_BUSY" \in enet.tx_status
  <2>1. UNCHANGED <<wire, host, receiver, tx, armed, setting>>
    BY DEF Driver, TxStatusWrite, RxStatusWrite, TxMaskWrite, RxMaskWrite
  <2>2. Typed' BY <1>1, <2>1, GuestTyped DEF Inv, host
  <2>3. Running' BY <2>1 DEF Inv, Running, host
  <2>4. Orderly' BY <1>2, <1>3, <2>1, GuestOrderly
  <2>5. Told(Controller)' BY <2>1, ControllerFieldsNext DEF Told, setting
  <2> QED BY <2>2, <2>3, <2>4, <2>5 DEF Inv
<1>4. CASE \E bits \in SUBSET TxBits : TxStatusWrite(bits)
  <2>1. PICK bits \in SUBSET TxBits : TxStatusWrite(bits) BY <1>4
  <2>2. enet.tx_status \ bits \in SUBSET TxBits BY <1>1 DEF Regs
  <2>3. enet' = [enet EXCEPT !.tx_status = enet.tx_status \ bits] BY <2>1 DEF TxStatusWrite
  <2>4. enet' \in Regs BY <1>1, <2>2, <2>3, RegsUpdate
  <2>5. /\ enet'.tx_status = enet.tx_status \ bits /\ enet'.rx_status = enet.rx_status
        /\ enet'.tx_mask = enet.tx_mask /\ enet'.rx_mask = enet.rx_mask /\ enet'.reset = enet.reset
    BY <1>1, <2>3 DEF Regs
  <2>6. "NET_BUSY" \notin bits /\ (~turbo => "READY" \notin bits) BY <2>1 DEF TxStatusWrite
  <2>7. line' = Release(line, enet'.tx_status, enet.tx_mask, "TX") BY <2>1, <2>5 DEF TxStatusWrite
  <2>8. /\ enet'.tx_status \cap enet.tx_mask # {} => line' = line
        /\ enet'.tx_status \cap enet.tx_mask = {} => line' = line \ {"TX"}
    BY <2>7 DEF Release
  <2>9. "RX" \in line' <=> "RX" \in line BY <2>8
  <2>10. (enet'.tx_status \ {b \in {"READY"} : turbo}) \cap enet'.tx_mask # {} => "TX" \in line'
    BY <1>3, <2>5, <2>8
  <2> QED BY <1>1, <1>3, <2>4, <2>5, <2>6, <2>8, <2>9, <2>10
<1>5. CASE \E bits \in SUBSET RxBits : RxStatusWrite(bits)
  <2>1. PICK bits \in SUBSET RxBits : RxStatusWrite(bits) BY <1>5
  <2>2. enet.rx_status \ bits \in SUBSET RxBits BY <1>1 DEF Regs
  <2>3. enet' = [enet EXCEPT !.rx_status = enet.rx_status \ bits] BY <2>1 DEF RxStatusWrite
  <2>4. enet' \in Regs BY <1>1, <2>2, <2>3, RegsUpdate
  <2>5. /\ enet'.rx_status = enet.rx_status \ bits /\ enet'.tx_status = enet.tx_status
        /\ enet'.tx_mask = enet.tx_mask /\ enet'.rx_mask = enet.rx_mask /\ enet'.reset = enet.reset
    BY <1>1, <2>3 DEF Regs
  <2>7. line' = Release(line, enet'.rx_status, enet.rx_mask, "RX") BY <2>1, <2>5 DEF RxStatusWrite
  <2>8. /\ enet'.rx_status \cap enet.rx_mask # {} => line' = line
        /\ enet'.rx_status \cap enet.rx_mask = {} => line' = line \ {"RX"}
    BY <2>7 DEF Release
  <2>9. "TX" \in line' <=> "TX" \in line BY <2>8
  <2>10. enet'.rx_status \cap enet'.rx_mask # {} <=> "RX" \in line'
    BY <1>3, <2>5, <2>8
  <2> QED BY <1>1, <1>3, <2>4, <2>5, <2>8, <2>9, <2>10
<1>6. CASE \E bits \in TxMasks : TxMaskWrite(bits)
  <2>1. PICK bits \in TxMasks : TxMaskWrite(bits) BY <1>6
  <2>2. bits \in SUBSET MaskBits BY <2>1, MaskAssumption DEF MaskBits
  <2>3. enet' = [enet EXCEPT !.tx_mask = bits] BY <2>1 DEF TxMaskWrite
  <2>4. enet' \in Regs BY <1>1, <2>2, <2>3, RegsUpdate
  <2>5. /\ enet'.tx_status = enet.tx_status /\ enet'.rx_status = enet.rx_status
        /\ enet'.tx_mask = bits /\ enet'.rx_mask = enet.rx_mask /\ enet'.reset = enet.reset
    BY <1>1, <2>3 DEF Regs
  <2>8. /\ enet.tx_status \cap bits # {} => line' = line \cup {"TX"}
        /\ enet.tx_status \cap bits = {} => line' = line \ {"TX"}
    BY <2>1 DEF TxMaskWrite, Raise, Release
  <2>9. "RX" \in line' <=> "RX" \in line BY <2>8
  <2>10. (enet'.tx_status \ {b \in {"READY"} : turbo}) \cap enet'.tx_mask # {} => "TX" \in line'
    BY <2>5, <2>8
  <2> QED BY <1>1, <1>3, <2>4, <2>5, <2>8, <2>9, <2>10
<1>7. CASE \E bits \in RxMasks : RxMaskWrite(bits)
  <2>1. PICK bits \in RxMasks : RxMaskWrite(bits) BY <1>7
  <2>2. bits \in SUBSET RxBits BY <2>1, MaskAssumption DEF RxBits
  <2>3. enet' = [enet EXCEPT !.rx_mask = bits] BY <2>1 DEF RxMaskWrite
  <2>4. enet' \in Regs BY <1>1, <2>2, <2>3, RegsUpdate
  <2>5. /\ enet'.tx_status = enet.tx_status /\ enet'.rx_status = enet.rx_status
        /\ enet'.rx_mask = bits /\ enet'.tx_mask = enet.tx_mask /\ enet'.reset = enet.reset
    BY <1>1, <2>3 DEF Regs
  <2>8. /\ enet.rx_status \cap bits # {} => line' = line \cup {"RX"}
        /\ enet.rx_status \cap bits = {} => line' = line \ {"RX"}
    BY <2>1 DEF RxMaskWrite, Raise, Release
  <2>9. "TX" \in line' <=> "TX" \in line BY <2>8
  <2>10. enet'.rx_status \cap enet'.rx_mask # {} <=> "RX" \in line'
    BY <2>5, <2>8
  <2> QED BY <1>1, <1>3, <2>4, <2>5, <2>8, <2>9, <2>10
<1> QED BY <1>4, <1>5, <1>6, <1>7 DEF Driver

LEMMA ResetsInv ==
  ASSUME Inv, (\E on \in BOOLEAN : ResetWrite(on)) \/ NodeIDWrite \/ ConfigChange
  PROVE  Inv'
<1>1. enet \in Regs /\ connected \in BOOLEAN /\ started \in BOOLEAN
  BY ControllerFields DEF Inv, Typed, States
<1>2. resets = {} /\ enet.reset => rx.size = 0 BY DEF Inv, Orderly
<1>3. CASE \E on \in BOOLEAN : ResetWrite(on)
  <2>1. PICK on \in BOOLEAN : ResetWrite(on) BY <1>3
  <2> DEFINE e == [enet EXCEPT !.reset = on]
  <2>2. e \in Regs BY <1>1, RegsUpdate
  <2>3. /\ e.tx_status = enet.tx_status /\ e.rx_status = enet.rx_status
        /\ e.tx_mask = enet.tx_mask /\ e.rx_mask = enet.rx_mask /\ e.reset = on
    BY <1>1 DEF Regs
  <2>4. /\ on /\ "midpacket" \notin resets => rx.size = 0
        /\ EnetReset(e, connected, started, armed)
        /\ UNCHANGED <<wire, connected, receiver, tx, line, setting>>
    BY <2>1 DEF ResetWrite
  <2> HIDE DEF e
  <2>5. e.reset /\ resets = {} => rx.size = 0 BY <2>3, <2>4
  <2> QED BY <1>1, <2>2, <2>3, <2>4, <2>5, SoftReset
<1>4. CASE NodeIDWrite
  <2>1. /\ EnetReset(enet, connected, FALSE, armed)
        /\ UNCHANGED <<wire, connected, receiver, tx, line, setting>>
    BY <1>4 DEF NodeIDWrite
  <2> QED BY <1>1, <1>2, <2>1, SoftReset
<1>5. CASE ConfigChange
  <2>1. /\ connected' = ~connected /\ EnetReset(enet, connected', FALSE, armed)
        /\ UNCHANGED <<wire, receiver, tx, line, setting>>
    BY <1>5 DEF ConfigChange
  <2> QED BY <1>1, <1>2, <2>1, SoftReset
<1> QED BY <1>3, <1>4, <1>5

LEMMA ModeWriteInv == Inv /\ ModeWrite => Inv'
<1> SUFFICES ASSUME Inv, ModeWrite PROVE Inv'
  OBVIOUS
<1>1. UNCHANGED <<enet, host, receiver, tx, line, armed, setting>>
  BY DEF ModeWrite
<1>2. /\ wire' \in {"loopback", "thinwire", "twistedpair"}
      /\ enet \in Regs /\ line \in SUBSET {"TX", "RX"}
      /\ connected \in BOOLEAN /\ started \in BOOLEAN /\ armed \in BOOLEAN
  BY ControllerFields DEF Inv, Typed, States, ModeWrite
<1>3. Typed' BY <1>1, <1>2, GuestTyped DEF Inv, host
<1>4. Running' BY <1>1 DEF Inv, Running, host
<1>5. resets = {} => /\ "NET_BUSY" \in enet.tx_status <=> rx.size > 0
                     /\ enet.reset => rx.size = 0
  BY ControllerFields DEF Inv, Orderly, Held, Busy
<1>6. Orderly' BY <1>1, <1>5, GuestOrderly DEF Inv
<1>7. ("hard" \notin resets => Told(Controller))'
  BY <1>1, ControllerFields, ControllerFieldsNext DEF Inv, Told, setting
<1> QED BY <1>3, <1>4, <1>6, <1>7 DEF Inv

LEMMA HardResetInv == Inv /\ HardReset => Inv'
<1> SUFFICES ASSUME Inv, HardReset PROVE Inv'
  OBVIOUS
<1> DEFINE e == [enet EXCEPT !.reset = TRUE]
<1>1. enet \in Regs /\ receiver_state \in {"WAITING", "RECEIVING"} /\ memory \in Seq(Units)
      /\ wire \in {"loopback", "thinwire", "twistedpair"} /\ turbo \in BOOLEAN
  BY ControllerFields DEF Inv, Typed, States
<1>2. e \in Regs /\ e.reset BY <1>1, RegsUpdate DEF Regs
<1>3. /\ "hard" \in resets /\ connected' \in BOOLEAN /\ EnetReset(e, TRUE, FALSE, FALSE)
      /\ rx' = Empty /\ tx' = "empty" /\ line' = {}
      /\ UNCHANGED <<wire, receiver_state, memory, setting>>
  BY DEF HardReset
<1> HIDE DEF e
<1>4. enet' \in Regs /\ enet'.reset /\ started' \in BOOLEAN /\ armed' \in BOOLEAN
  BY <1>2, <1>3, EnetResetFields
<1>5. Empty \in Buffers BY DEF Empty, Buffers
<1>6. resets' = resets /\ turbo' = turbo BY <1>3 DEF setting
<1>7. Controller' \in States BY <1>1, <1>3, <1>4, <1>5 DEF Controller, States
<1>8. Typed' BY <1>1, <1>3, <1>4, <1>6, <1>7, ControllerFieldsNext DEF Typed, Room
<1>9. Running' /\ Orderly' BY <1>3, <1>4, <1>6 DEF Running, Orderly
<1> QED BY <1>3, <1>6, <1>8, <1>9 DEF Inv

LEMMA HandlerStopInv == Inv /\ HandlerStop => Inv'
<1> SUFFICES ASSUME Inv, HandlerStop PROVE Inv'
  OBVIOUS
<1>1. /\ enet.reset /\ armed' = FALSE /\ started' = (started /\ ~connected)
      /\ UNCHANGED <<enet, wire, connected, receiver, tx, line, setting>>
  BY DEF HandlerStop
<1>2. /\ enet \in Regs /\ line \in SUBSET {"TX", "RX"} /\ connected \in BOOLEAN
      /\ wire \in {"loopback", "thinwire", "twistedpair"} /\ started \in BOOLEAN
  BY ControllerFields DEF Inv, Typed, States
<1>3. Typed' BY <1>1, <1>2, GuestTyped DEF Inv
<1>4. Running' BY <1>1 DEF Running
<1>5. resets = {} => /\ "NET_BUSY" \in enet.tx_status <=> rx.size > 0
                     /\ enet.reset => rx.size = 0
  BY ControllerFields DEF Inv, Orderly, Held, Busy
<1>6. Orderly' BY <1>1, <1>5, GuestOrderly DEF Inv
<1>7. ("hard" \notin resets => Told(Controller))'
  BY <1>1, ControllerFields, ControllerFieldsNext DEF Inv, Told, setting
<1> QED BY <1>3, <1>4, <1>6, <1>7 DEF Inv

\* The handler: what its two halves keep.
LEMMA HandlerIoInv == Inv /\ HandlerIo => Inv'
<1> SUFFICES ASSUME Inv, HandlerIo PROVE Inv'
  OBVIOUS
<1>1. PICK r \in ReceiveHalf(Controller) : \E s \in SendHalf(r) :
        /\ enet' = s.enet /\ rx' = s.rx /\ tx' = s.tx /\ line' = s.line
        /\ receiver_state' = s.receiver_state /\ memory' = s.memory
  BY DEF HandlerIo
<1>2. PICK s \in SendHalf(r) :
        /\ enet' = s.enet /\ rx' = s.rx /\ tx' = s.tx /\ line' = s.line
        /\ receiver_state' = s.receiver_state /\ memory' = s.memory
  BY <1>1
<1>3. ~enet.reset /\ UNCHANGED <<wire, host, armed, setting>> BY DEF HandlerIo
<1>4. Serves(Controller, r) BY ReceiveHalfServes DEF Inv, Typed
<1>5. r \in States /\ Room(r) BY <1>4 DEF Serves, Keeps
<1>6. Serves(r, s) BY <1>5, SendHalfServes
<1>7. Serves(Controller, s) BY <1>4, <1>6, ServesTrans
<1>8. s \in States /\ SameControl(Controller, s) BY <1>7 DEF Serves, Keeps
<1>9. Controller' = s BY <1>2, <1>8, ControllerFieldsNext DEF Controller, States
<1>10. Typed' BY <1>3, <1>7, <1>8, <1>9 DEF Inv, Typed, Serves, host, setting
<1>11. enet'.reset = enet.reset BY <1>2, <1>8, ControllerFields DEF SameControl
<1>12. Running' BY <1>3, <1>11 DEF Inv, Running, host
<1>13. ("hard" \notin resets => Told(Controller))'
  <2>1. resets' = resets /\ turbo' = turbo BY <1>3 DEF setting
  <2>2. Told(Controller) => Told(s) BY <1>7 DEF Serves, Keeps
  <2>3. Told(Controller)' <=> Told(s) BY <1>2, <2>1, ControllerFieldsNext DEF Told
  <2> QED BY <2>1, <2>2, <2>3 DEF Inv
<1>14. Orderly'
  <2>1. resets' = resets BY <1>3 DEF setting
  <2>2. resets = {} => Held(s) /\ Intact(s) BY <1>7 DEF Inv, Orderly, Serves
  <2>3. resets = {} => Held(Controller)' /\ Intact(Controller)'
    BY <1>2, <2>2, ControllerFieldsNext DEF Held, Busy, Intact
  <2> QED BY <1>3, <1>11, <2>1, <2>3 DEF Orderly
<1> QED BY <1>10, <1>12, <1>13, <1>14 DEF Inv

\* The invariant holds in every state.
THEOREM ControllerInvariant == Spec => []Inv
<1>1. Init => Inv BY InitInv
<1>2. Inv /\ [Next]_vars => Inv'
  <2> SUFFICES ASSUME Inv, [Next]_vars PROVE Inv'
    OBVIOUS
  <2>1. CASE Driver BY <2>1, DriverInv
  <2>2. CASE ModeWrite BY <2>2, ModeWriteInv
  <2>3. CASE (\E on \in BOOLEAN : ResetWrite(on)) \/ NodeIDWrite \/ ConfigChange
    BY <2>3, ResetsInv
  <2>4. CASE HardReset BY <2>4, HardResetInv
  <2>5. CASE HandlerStop BY <2>5, HandlerStopInv
  <2>6. CASE HandlerIo BY <2>6, HandlerIoInv
  <2>7. CASE UNCHANGED vars
    <3>1. /\ enet' = enet /\ wire' = wire /\ connected' = connected /\ started' = started
          /\ rx' = rx /\ receiver_state' = receiver_state /\ memory' = memory /\ tx' = tx
          /\ line' = line /\ armed' = armed /\ turbo' = turbo /\ resets' = resets
      BY <2>7 DEF vars, host, receiver, setting
    <3>2. Controller' = Controller BY <3>1 DEF Controller
    <3>3. Typed' /\ Running' BY <3>1, <3>2 DEF Inv, Typed, Running, Room
    <3>4. Orderly' BY <3>1, <3>2 DEF Inv, Orderly, Held, Busy, Intact
    <3>5. ("hard" \notin resets => Told(Controller))' BY <3>1, <3>2 DEF Inv, Told
    <3> QED BY <3>3, <3>4, <3>5 DEF Inv
  <2> QED BY <2>1, <2>2, <2>3, <2>4, <2>5, <2>6, <2>7 DEF Next, Guest
<1> QED BY <1>1, <1>2, PTL DEF Spec

\* Every variable keeps its type, in all regimes of resets: what is in memory
\* are units of packets, within their lengths (ethernet.c:505-530).
THEOREM TypeCorrect == Spec => []TypeOK
<1>1. Inv => TypeOK
  <2> SUFFICES ASSUME Inv PROVE TypeOK
    OBVIOUS
  <2>1. /\ enet \in Regs /\ tx \in {"empty", "short", "long"} /\ memory \in Seq(Units)
        /\ receiver_state \in {"WAITING", "RECEIVING"} /\ line \subseteq {"TX", "RX"}
        /\ rx = Empty \/ Filled(rx)
    BY ControllerFields DEF Inv, Typed, States, Room
  <2>2. enet \in [tx_status : SUBSET TxBits, tx_mask : SUBSET TxBits,
                  rx_status : SUBSET RxBits, rx_mask : SUBSET RxBits, reset : BOOLEAN]
    BY <2>1 DEF Regs, MaskBits, TxBits
  <2>3. \A i \in DOMAIN memory : memory[i] \in Units BY <2>1
  <2>4. \A u \in Units : u[1] \in Packets /\ u[2] \in Lengths /\ u[3] \in 1..u[2]
    BY DEF Units
  <2>5. \A i \in DOMAIN memory : /\ memory[i][1] \in Packets /\ memory[i][2] \in Lengths
                                 /\ memory[i][3] \in 1..memory[i][2]
    BY <2>3, <2>4
  <2> QED BY <2>1, <2>2, <2>5 DEF TypeOK, Inv, Typed, Filled
<1> QED BY <1>1, ControllerInvariant, PTL

\* A reception writes one packet in its order and whole, for packets of every
\* length, through all orders of register writes, sends and partial transfers
\* (ethernet.c:505-530).
THEOREM PacketsStayIntact == Spec => []PacketsIntact
<1>1. Inv => PacketsIntact
  <2> SUFFICES ASSUME Inv, resets = {}, memory # << >> PROVE
        /\ \A i \in DOMAIN memory : memory[i] = <<memory[1][1], memory[1][2], i>>
        /\ receiver_state = "WAITING" => Len(memory) = memory[1][2]
    BY DEF PacketsIntact, OnePacket
  <2>1. Intact(Controller) /\ memory \in Seq(Units) /\ receiver_state \in {"WAITING", "RECEIVING"}
        /\ Room(Controller)
    BY ControllerFields DEF Inv, Orderly, Typed, States
  <2>2. PICK p, n, k : /\ memory = Whole(p, n, k) /\ k \in Int
                       /\ receiver_state = "WAITING" => k = n
    <3>1. CASE receiver_state = "WAITING"
      <4>1. \A n \in Lengths : n \in Int BY LengthAssumption
      <4> QED BY <2>1, <3>1, <4>1, ControllerFields DEF Intact
    <3>2. CASE receiver_state = "RECEIVING"
      <4>1. rx \in Buffers BY ControllerFields DEF Inv, Typed, States
      <4>2. rx.limit - rx.size \in Int BY <4>1 DEF Buffers
      <4>3. memory = Whole(rx.packet, rx.limit, rx.limit - rx.size)
        BY <2>1, <3>2, ControllerFields DEF Intact
      <4> QED BY <3>2, <4>2, <4>3
    <3> QED BY <2>1, <3>1, <3>2
  <2>3. DOMAIN memory = 1..k /\ \A i \in 1..k : memory[i] = <<p, n, i>> BY <2>2 DEF Whole
  <2>4. Len(memory) \in Nat /\ DOMAIN memory = 1..Len(memory) /\ Len(memory) > 0 BY <2>1
  <2>5. k = Len(memory) BY <2>2, <2>3, <2>4
  <2>6. memory[1] = <<p, n, 1>> BY <2>3, <2>4, <2>5
  <2> QED BY <2>2, <2>3, <2>5, <2>6
<1> QED BY <1>1, ControllerInvariant, PTL

\* NET_BUSY marks exactly the states with a packet in the receive buffer
\* (ethernet.c:421, 539).
THEOREM BusyWhileHeld == Spec => []BusyIffHeld
<1>1. Inv => BusyIffHeld BY ControllerFields DEF Inv, Orderly, Held, Busy, BusyIffHeld
<1> QED BY <1>1, ControllerInvariant, PTL

\* No event is without its interrupt, whatever masks the driver writes and
\* whenever it writes them (ethernet.c:103-168, 268-287).
THEOREM InterruptsAreTold == Spec => []InterruptsFollow
<1>1. Inv => InterruptsFollow BY ControllerFields DEF Inv, Told, InterruptsFollow
<1> QED BY <1>1, ControllerInvariant, PTL

\* The handler never polls the queue of a host interface that is not started
\* (ethernet.c:499, enet_slirp.c:132).
THEOREM PollsOnlyStarted == Spec => []HostPolledOnlyWhenStarted
<1>1. Inv => HostPolledOnlyWhenStarted
  BY DEF Inv, Running, HostPolledOnlyWhenStarted, EnetState
<1> QED BY <1>1, ControllerInvariant, PTL

\* A controller out of reset stays alive (ethernet.c:739).
THEOREM StaysAlive == Spec => []AliveWhenEnabled
<1>1. Inv => AliveWhenEnabled BY DEF Inv, Running, AliveWhenEnabled
<1> QED BY <1>1, ControllerInvariant, PTL
=============================================================================
