-------------------------- MODULE EnetSlirpProofs --------------------------
(***************************************************************************)
(* Proofs about the packet queue and its two threads, for every size of    *)
(* the ring and every set of packets.                                      *)
(***************************************************************************)
EXTENDS EnetSlirp, SequenceTheorems, TLAPS

-----------------------------------------------------------------------------
(***************************************************************************)
(* The ring: indices wrap around at most once.                             *)
(***************************************************************************)

LEMMA WrapNot ==
  ASSUME NEW x \in 0..(MaxQueueSize - 1) PROVE x % MaxQueueSize = x
BY QueueAssumption

LEMMA WrapOnce ==
  ASSUME NEW x \in MaxQueueSize..(2 * MaxQueueSize - 1)
  PROVE  x % MaxQueueSize = x - MaxQueueSize
BY QueueAssumption, SMTT(20)

LEMMA WrapSum ==
  ASSUME NEW f \in Slots, NEW i \in 0..MaxQueueSize
  PROVE  (f + i) % MaxQueueSize =
           IF f + i < MaxQueueSize THEN f + i ELSE f + i - MaxQueueSize
<1>1. CASE f + i < MaxQueueSize
  BY <1>1, QueueAssumption, SMTT(20) DEF Slots
<1>2. CASE ~(f + i < MaxQueueSize)
  BY <1>2, QueueAssumption, SMTT(20) DEF Slots
<1> QED BY <1>1, <1>2

\* Two places of the ring less than MaxQueueSize apart are two slots.
LEMMA DistinctSlots ==
  ASSUME NEW f \in Slots, NEW i \in 0..MaxQueueSize, NEW j \in 0..MaxQueueSize,
         i < j, j - i < MaxQueueSize
  PROVE  /\ (f + i) % MaxQueueSize \in Slots /\ (f + j) % MaxQueueSize \in Slots
         /\ (f + i) % MaxQueueSize # (f + j) % MaxQueueSize
<1> DEFINE m == MaxQueueSize
           a == (f + i) % MaxQueueSize
           b == (f + j) % MaxQueueSize
<1>1. m \in Nat \ {0} /\ f \in 0..(m - 1) BY QueueAssumption DEF Slots
<1>2. a = IF f + i < m THEN f + i ELSE f + i - m BY WrapSum
<1>3. b = IF f + j < m THEN f + j ELSE f + j - m BY WrapSum
<1> HIDE DEF a, b
<1>4. a \in 0..(m - 1) /\ b \in 0..(m - 1) /\ a # b
  BY <1>1, <1>2, <1>3
<1> QED BY <1>4 DEF a, b, Slots

LEMMA ElementsType ==
  ASSUME NEW q \in QueueType
  PROVE  /\ Elements(q) \in Seq(Packets \cup {NoPacket})
         /\ Len(Elements(q)) = q.count
         /\ q.count \in Nat /\ q.front \in Slots
<1>1. /\ q.contents \in [Slots -> Packets \cup {NoPacket}]
      /\ q.front \in Slots /\ q.count \in 0..MaxQueueSize /\ q.count \in Nat
  BY QueueAssumption DEF QueueType
<1>2. ASSUME NEW i \in 1..q.count
      PROVE  q.contents[(q.front + i - 1) % MaxQueueSize] \in Packets \cup {NoPacket}
  <2>1. (q.front + i - 1) % MaxQueueSize \in Slots
    BY <1>1, QueueAssumption DEF Slots
  <2> QED BY <1>1, <2>1
<1>3. Elements(q) \in [1..q.count -> Packets \cup {NoPacket}]
  BY <1>2 DEF Elements
<1> HIDE DEF Elements
<1>4. Elements(q) \in Seq(Packets \cup {NoPacket})
  BY <1>1, <1>3, SeqDef
<1>5. DOMAIN Elements(q) = 1..q.count BY <1>3
<1>6. Len(Elements(q)) = q.count
  BY <1>1, <1>4, <1>5, LenProperties
<1> QED BY <1>1, <1>4, <1>6

\* QueueEnter appends, or leaves a full queue alone.
LEMMA EnterAppends ==
  ASSUME NEW q \in QueueType, NEW p \in Packets
  PROVE  /\ QueueEnter(q, p) \in QueueType
         /\ q.count < MaxQueueSize =>
              Elements(QueueEnter(q, p)) = Append(Elements(q), p)
         /\ ~(q.count < MaxQueueSize) => QueueEnter(q, p) = q
<1> DEFINE r == QueueEnter(q, p)
           new == (q.front + q.count) % MaxQueueSize
           S == Packets \cup {NoPacket}
<1>1. /\ q.contents \in [Slots -> S] /\ q.front \in Slots
      /\ q.count \in 0..MaxQueueSize /\ MaxQueueSize \in Nat \ {0}
  BY QueueAssumption DEF QueueType
<1>2. CASE ~(q.count < MaxQueueSize)
  BY <1>1, <1>2 DEF QueueEnter, QueueIsFull
<1>3. CASE q.count < MaxQueueSize
  <2>1. new \in Slots BY <1>1 DEF Slots
  <2>2. r = [q EXCEPT !.contents[new] = p, !.count = q.count + 1]
    BY <1>1, <1>3 DEF QueueEnter, QueueIsFull
  <2> DEFINE c == [q.contents EXCEPT ![new] = p]
             n == q.count + 1
  <2>3. c \in [Slots -> S] /\ n \in 0..MaxQueueSize
    BY <1>1, <1>3, <2>1
  <2>4. r = [q EXCEPT !.contents = c, !.count = n]
    BY <2>2 DEF QueueType
  <2> HIDE DEF c, n, r, new
  <2>5. r \in QueueType /\ r.contents = c /\ r.front = q.front /\ r.count = n
    BY <2>3, <2>4 DEF QueueType
  <2>6. /\ Elements(r) \in Seq(S) /\ Len(Elements(r)) = n
        /\ Elements(q) \in Seq(S) /\ Len(Elements(q)) = q.count
    BY <2>5, ElementsType
  <2>7. /\ Append(Elements(q), p) \in Seq(S)
        /\ Len(Append(Elements(q), p)) = n
        /\ \A i \in 1..q.count : Append(Elements(q), p)[i] = Elements(q)[i]
        /\ Append(Elements(q), p)[n] = p
    BY <2>6, AppendProperties DEF n
  <2>8. ASSUME NEW i \in 1..n PROVE Elements(r)[i] = Append(Elements(q), p)[i]
    <3>1. Elements(r)[i] = c[(q.front + i - 1) % MaxQueueSize]
      BY <2>5 DEF Elements
    <3>2. CASE i = n
      <4>1. (q.front + i - 1) % MaxQueueSize = new
        BY <3>2, <1>1 DEF n, new, Slots
      <4>2. c[new] = p BY <2>1, <1>1 DEF c
      <4> QED BY <3>1, <3>2, <4>1, <4>2, <2>7
    <3>3. CASE i # n
      <4>1. i \in 1..q.count /\ i - 1 < q.count /\ i - 1 \in 0..MaxQueueSize
        BY <3>3, <1>1 DEF n
      <4>2. q.front + i - 1 = q.front + (i - 1)
        BY <1>1, <4>1 DEF Slots
      <4>3. /\ (q.front + i - 1) % MaxQueueSize \in Slots
            /\ (q.front + i - 1) % MaxQueueSize # new
        BY <1>1, <1>3, <4>1, <4>2, DistinctSlots DEF new
      <4>4. Elements(r)[i] = q.contents[(q.front + i - 1) % MaxQueueSize]
        BY <3>1, <4>3, <1>1 DEF c
      <4>5. Elements(q)[i] = q.contents[(q.front + i - 1) % MaxQueueSize]
        BY <4>1 DEF Elements
      <4> QED BY <4>1, <4>4, <4>5, <2>7
    <3> QED BY <3>2, <3>3
  <2>9. Elements(r) = Append(Elements(q), p)
    BY <2>6, <2>7, <2>8, SeqEqual
  <2> QED BY <2>5, <2>9, <1>3 DEF r
<1> QED BY <1>2, <1>3

\* QueueDelete takes the oldest element and keeps the order of the others.
LEMMA DeleteTakesHead ==
  ASSUME NEW q \in QueueType, q.count > 0
  PROVE  /\ QueueDelete(q) \in QueueType
         /\ Oldest(q) \in Packets \cup {NoPacket}
         /\ Elements(q) # << >>
         /\ Oldest(q) = Head(Elements(q))
         /\ Elements(QueueDelete(q)) = Tail(Elements(q))
<1> DEFINE r == QueueDelete(q)
           f == (q.front + 1) % MaxQueueSize
           S == Packets \cup {NoPacket}
           n == q.count - 1
<1>1. /\ q.contents \in [Slots -> S] /\ q.front \in Slots
      /\ q.count \in 0..MaxQueueSize /\ MaxQueueSize \in Nat \ {0}
  BY QueueAssumption DEF QueueType
<1>2. f \in Slots /\ n \in 0..MaxQueueSize BY <1>1 DEF Slots
<1>3. r = [q EXCEPT !.front = f, !.count = n]
  BY <1>1 DEF QueueDelete
<1> HIDE DEF r, f, n
<1>4. r \in QueueType /\ r.contents = q.contents /\ r.front = f /\ r.count = n
  BY <1>2, <1>3 DEF QueueType
<1>5. /\ Elements(r) \in Seq(S) /\ Len(Elements(r)) = n
      /\ Elements(q) \in Seq(S) /\ Len(Elements(q)) = q.count
  BY <1>4, ElementsType
<1>6. Elements(q) # << >> BY <1>5, EmptySeq
<1>7. /\ Tail(Elements(q)) \in Seq(S) /\ Len(Tail(Elements(q))) = n
      /\ \A i \in 1..n : Tail(Elements(q))[i] = Elements(q)[i + 1]
  BY <1>5, <1>6, HeadTailProperties DEF n
<1>8. Head(Elements(q)) = Elements(q)[1]
  BY <1>5, <1>6
<1>9. Oldest(q) = Head(Elements(q)) /\ Oldest(q) \in S
  <2>1. Elements(q)[1] = q.contents[(q.front + 1 - 1) % MaxQueueSize]
    BY <1>1 DEF Elements
  <2>2. (q.front + 1 - 1) % MaxQueueSize = q.front
    BY <1>1, WrapNot DEF Slots
  <2>3. Oldest(q) = q.contents[q.front]
    BY <1>1 DEF Oldest
  <2> QED BY <1>1, <1>8, <2>1, <2>2, <2>3
<1>10. ASSUME NEW i \in 1..n PROVE Elements(r)[i] = Tail(Elements(q))[i]
  <2>1. Elements(r)[i] = q.contents[(f + i - 1) % MaxQueueSize]
    BY <1>4 DEF Elements
  <2>2. i + 1 \in 1..q.count BY <1>1 DEF n
  <2>3. Elements(q)[i + 1] = q.contents[(q.front + (i + 1) - 1) % MaxQueueSize]
    BY <2>2 DEF Elements
  <2>4. (f + i - 1) % MaxQueueSize = (q.front + (i + 1) - 1) % MaxQueueSize
    <3>1. CASE q.front = MaxQueueSize - 1
      <4>1. f = 0 /\ i - 1 \in 0..(MaxQueueSize - 1)
        <5>1. q.front + 1 = MaxQueueSize BY <3>1, <1>1
        <5>2. MaxQueueSize % MaxQueueSize = 0
          BY <1>1, WrapOnce
        <5> QED BY <5>1, <5>2, <1>1, <2>2 DEF f
      <4>2. (f + i - 1) % MaxQueueSize = i - 1
        BY <4>1, WrapNot
      <4>3. q.front + (i + 1) - 1 = MaxQueueSize + (i - 1)
        BY <3>1, <1>1, <2>2
      <4>4. (q.front + (i + 1) - 1) % MaxQueueSize = i - 1
        BY <4>1, <4>3, <1>1, WrapOnce
      <4> QED BY <4>2, <4>4
    <3>2. CASE q.front # MaxQueueSize - 1
      <4>1. f = q.front + 1
        BY <3>2, <1>1, WrapNot DEF f, Slots
      <4> QED BY <4>1, <1>1, <2>2 DEF Slots
    <3> QED BY <3>1, <3>2
  <2> QED BY <2>1, <2>3, <2>4, <1>7
<1>11. Elements(r) = Tail(Elements(q))
  BY <1>5, <1>7, <1>10, SeqEqual
<1> QED BY <1>4, <1>6, <1>9, <1>11 DEF r

-----------------------------------------------------------------------------
(***************************************************************************)
(* The threads. The invariant says who may hold the mutex where, and what  *)
(* of the interface exists at each step of starting and stopping it.       *)
(***************************************************************************)

Critical == {"fill", "poll", "ripOut"}
Stopping == {"destroyQueue", "destroyMutex", "wait"}

TickHolds == tick \in Critical /\ slirp_mutex = "live" => owner = "tick"
EmuHolds == emu \in {"poll", "input"} => slirp_started /\ owner = "emu"
StartedIsLive == slirp_started => queueState = "live" /\ slirp_mutex = "live"
StoppingIsStopped == emu \in Stopping => ~slirp_started

Inv == /\ TypeOK
       /\ TickHolds /\ EmuHolds
       /\ StartedIsLive /\ StoppingIsStopped
       /\ StoppedMeansGone

LEMMA CreateType == QueueCreate \in QueueType /\ Elements(QueueCreate) = << >>
<1>1. 0 \in Slots /\ 0 \in 0..MaxQueueSize BY QueueAssumption DEF Slots
<1>2. QueueCreate \in QueueType BY <1>1 DEF QueueCreate, QueueType
<1>3. QueueCreate.count = 0 BY DEF QueueCreate
<1>4. /\ Elements(QueueCreate) \in Seq(Packets \cup {NoPacket})
      /\ Len(Elements(QueueCreate)) = 0
  BY <1>2, <1>3, ElementsType
<1>5. \A s \in Seq(Packets \cup {NoPacket}) : s # << >> => Len(s) # 0
  BY EmptySeq
<1> QED BY <1>2, <1>4, <1>5

\* What slirp_output does to the queue, whoever calls it: the packet is
\* appended, or it meets a full queue, or there is no queue.
LEMMA OutputFacts ==
  ASSUME TypeOK, NEW p \in Packets, Output(p)
  PROVE  /\ slirpq' \in QueueType
         /\ misuse' \subseteq {"queue", "mutex", "full"}
         /\ output' \in [packet : Packets \cup {NoPacket}, parity : {0, 1}]
         /\ output' = [packet |-> p, parity |-> 1 - output.parity]
         /\ \/ /\ queueState = "live" /\ slirpq.count < MaxQueueSize
               /\ Elements(slirpq') = Append(Elements(slirpq), p)
               /\ misuse' = misuse
            \/ /\ queueState = "live" /\ slirpq.count = MaxQueueSize
               /\ slirpq' = slirpq
               /\ "full" \in misuse'
            \/ /\ queueState # "live"
               /\ slirpq' = slirpq
               /\ misuse' = misuse \cup {"queue"}
<1>1. /\ slirpq \in QueueType /\ misuse \subseteq {"queue", "mutex", "full"}
      /\ output \in [packet : Packets \cup {NoPacket}, parity : {0, 1}]
  BY DEF TypeOK
<1>2. output' = [packet |-> p, parity |-> 1 - output.parity]
  BY DEF Output
<1>3. output' \in [packet : Packets \cup {NoPacket}, parity : {0, 1}]
  BY <1>1, <1>2
<1>4. slirpq.count \in 0..MaxQueueSize /\ MaxQueueSize \in Nat
  BY <1>1, QueueAssumption DEF QueueType
<1>5. CASE queueState = "live"
  <2>1. /\ slirpq' = QueueEnter(slirpq, p)
        /\ misuse' = misuse \cup (IF slirpq.count >= MaxQueueSize
                                  THEN {"full"} ELSE {})
    BY <1>5 DEF Output, QueueIsFull
  <2>2. slirpq' \in QueueType
    BY <1>1, <2>1, EnterAppends
  <2>3. CASE slirpq.count < MaxQueueSize
    <3>1. Elements(slirpq') = Append(Elements(slirpq), p)
      BY <1>1, <2>1, <2>3, EnterAppends
    <3>2. misuse' = misuse
      BY <1>1, <1>4, <2>1, <2>3
    <3> QED BY <1>1, <1>2, <1>3, <1>5, <2>2, <2>3, <3>1, <3>2
  <2>4. CASE slirpq.count = MaxQueueSize
    <3>1. slirpq' = slirpq
      BY <1>1, <1>4, <2>1, <2>4, EnterAppends
    <3>2. misuse' = misuse \cup {"full"}
      BY <1>4, <2>1, <2>4
    <3> QED BY <1>1, <1>2, <1>3, <1>5, <2>2, <2>4, <3>1, <3>2
  <2> QED BY <1>4, <2>3, <2>4
<1>6. CASE queueState # "live"
  <2>1. slirpq' = slirpq /\ misuse' = misuse \cup {"queue"}
    BY <1>6 DEF Output
  <2> QED BY <1>1, <1>2, <1>3, <1>6, <2>1
<1> QED BY <1>5, <1>6

LEMMA TickLockStep ==
  ASSUME Inv, NEW at \in {"fillLock", "pollLock", "ripLock"},
         NEW next \in Critical, TickLock(at, next)
  PROVE  Inv'
BY DEF Inv, TypeOK, TickLock, net, TickHolds, EmuHolds, StartedIsLive,
       StoppingIsStopped, StoppedMeansGone, Critical, Stopping

LEMMA TickUnlockStep ==
  ASSUME Inv, NEW at \in Critical, NEW next \in {"select", "rip", "loop"},
         TickUnlock(at, next)
  PROVE  Inv'
BY DEF Inv, TypeOK, TickUnlock, net, TickHolds, EmuHolds, StartedIsLive,
       StoppingIsStopped, StoppedMeansGone, Critical, Stopping

LEMMA TickGotoStep ==
  ASSUME Inv, TickLoop \/ TickTest \/ TickSelect \/ TickRipTest
  PROVE  Inv'
<1> USE DEF Inv, TypeOK, TickGoto, net, TickHolds, EmuHolds, StartedIsLive,
            StoppingIsStopped, StoppedMeansGone, Critical, Stopping
<1>1. CASE TickLoop BY <1>1 DEF TickLoop
<1>2. CASE TickTest BY <1>2 DEF TickTest
<1>3. CASE TickSelect BY <1>3 DEF TickSelect
<1>4. CASE TickRipTest BY <1>4 DEF TickRipTest
<1> QED BY <1>1, <1>2, <1>3, <1>4

LEMMA OutputStep ==
  ASSUME Inv, NEW p \in Packets, TickOutput(p) \/ InputOutput(p)
  PROVE  Inv'
<1>1. /\ Output(p)
      /\ UNCHANGED <<slirp_started, queueState, slirp_mutex, owner, tick, emu,
                     received>>
  BY DEF TickOutput, InputOutput
<1>2. /\ slirpq' \in QueueType /\ misuse' \subseteq {"queue", "mutex", "full"}
      /\ output' \in [packet : Packets \cup {NoPacket}, parity : {0, 1}]
  BY <1>1, OutputFacts DEF Inv
<1> QED BY <1>1, <1>2
        DEF Inv, TypeOK, TickHolds, EmuHolds, StartedIsLive,
            StoppingIsStopped, StoppedMeansGone

LEMMA EmuStep == ASSUME Inv, Emu PROVE Inv'
<1> USE DEF Inv, TypeOK, net, TickHolds, EmuHolds, StartedIsLive,
            StoppingIsStopped, StoppedMeansGone, Critical, Stopping
<1>1. CASE PollLock
  BY <1>1 DEF PollLock, EmuLock
<1>2. CASE InputLock
  BY <1>2 DEF InputLock, EmuLock
<1>3. CASE Poll
  <2>1. slirpq' \in QueueType /\ received' \in Packets \cup {NoPacket}
    BY <1>3, DeleteTakesHead DEF Poll, QueuePeek
  <2> QED BY <2>1, <1>3 DEF Poll, EmuUnlock
<1>4. CASE Input
  BY <1>4 DEF Input, EmuUnlock
<1>5. CASE Start
  BY <1>5, CreateType DEF Start
<1>6. CASE StopBegin
  BY <1>6 DEF StopBegin
<1>7. CASE StopQueue
  BY <1>7 DEF StopQueue
<1>8. CASE StopMutex
  BY <1>8 DEF StopMutex
<1>9. CASE StopWait
  BY <1>9 DEF StopWait
<1> QED BY <1>1, <1>2, <1>3, <1>4, <1>5, <1>6, <1>7, <1>8, <1>9 DEF Emu

LEMMA Invariant == Spec => []Inv
<1>1. Init => Inv
  <2> SUFFICES ASSUME Init PROVE Inv
    OBVIOUS
  <2>1. output \in [packet : Packets \cup {NoPacket}, parity : {0, 1}]
    BY DEF Init
  <2>2. slirpq \in QueueType
    BY CreateType DEF Init
  <2>3. TypeOK
    BY <2>1, <2>2 DEF Init, TypeOK
  <2> QED BY <2>3 DEF Init, Inv, TickHolds, EmuHolds, StartedIsLive,
             StoppingIsStopped, StoppedMeansGone, Critical, Stopping
<1>2. Inv /\ [Next]_vars => Inv'
  <2> SUFFICES ASSUME Inv, [Next]_vars PROVE Inv'
    OBVIOUS
  <2>1. CASE Tick
    <3>1. CASE TickLoop \/ TickTest \/ TickSelect \/ TickRipTest
      BY <3>1, TickGotoStep
    <3>2. CASE TickFill
      BY <3>2, TickLockStep, TickUnlockStep DEF TickFill, Critical
    <3>3. CASE TickPoll
      BY <3>3, TickLockStep, TickUnlockStep DEF TickPoll, Critical
    <3>4. CASE TickRip
      BY <3>4, TickLockStep, TickUnlockStep DEF TickRip, Critical
    <3> QED BY <2>1, <3>1, <3>2, <3>3, <3>4 DEF Tick
  <2>2. CASE Emu
    BY <2>2, EmuStep
  <2>3. ASSUME NEW p \in Packets, TickOutput(p) \/ InputOutput(p) PROVE Inv'
    BY <2>3, OutputStep
  <2>4. CASE UNCHANGED vars
    BY <2>4 DEF vars, net, Inv, TypeOK, TickHolds, EmuHolds, StartedIsLive,
       StoppingIsStopped, StoppedMeansGone
  <2> QED BY <2>1, <2>2, <2>3, <2>4 DEF Next
<1> QED BY <1>1, <1>2, PTL DEF Spec

\* Any ring size: the state of the interface keeps its types; the ring's
\* indices stay inside the ring.
THEOREM SlirpTypeCorrect == Spec => []TypeOK
<1>1. Inv => TypeOK BY DEF Inv
<1> QED BY <1>1, Invariant, PTL

\* The two threads are never inside the SLiRP stack together.
THEOREM SlirpIsExclusive == Spec => []SlirpExclusive
<1>1. Inv => SlirpExclusive
  BY DEF Inv, TickHolds, EmuHolds, StartedIsLive, SlirpExclusive, Critical
<1> QED BY <1>1, Invariant, PTL

\* No tick thread outlives enet_slirp_stop.
THEOREM NoThreadLeft == Spec => []StoppedMeansGone
<1>1. Inv => StoppedMeansGone BY DEF Inv
<1> QED BY <1>1, Invariant, PTL

\* Any ring size, any packets: the queue and its threads implement the
\* bounded order-preserving channel of PacketFifo, which loses nothing but
\* what is put out after the teardown or as an overrun.
THEOREM ImplementsFifo == Spec => FifoSpec
<1>1. Init => Fifo!Init
  BY DEF Init, Fifo!Init
<1>2. Inv /\ [Next]_vars => [Fifo!Next]_(Fifo!vars)
  <2> SUFFICES ASSUME Inv, [Next]_vars PROVE [Fifo!Next]_(Fifo!vars)
    OBVIOUS
  <2>1. CASE /\ UNCHANGED <<slirp_started, slirpq, queueState, received, output>>
             /\ ("full" \in misuse') <=> ("full" \in misuse)
    BY <2>1 DEF Fifo!vars
  <2>2. ASSUME NEW p \in Packets, TickOutput(p) \/ InputOutput(p)
        PROVE  Fifo!Next
    <3>1. Output(p) /\ UNCHANGED <<slirp_started, queueState, received>>
      BY <2>2 DEF TickOutput, InputOutput
    <3>2. Fifo!PutOut(p)
      BY <3>1, OutputFacts DEF Inv, Fifo!PutOut
    <3>3. Len(Elements(slirpq)) = slirpq.count
      BY ElementsType DEF Inv, TypeOK
    <3>4. CASE /\ queueState = "live" /\ slirpq.count < MaxQueueSize
               /\ Elements(slirpq') = Append(Elements(slirpq), p)
               /\ misuse' = misuse
      <4>1. Fifo!Produce(p) BY <3>1, <3>2, <3>3, <3>4 DEF Fifo!Produce
      <4> QED BY <4>1 DEF Fifo!Next
    <3>5. CASE /\ queueState = "live" /\ slirpq.count = MaxQueueSize
               /\ slirpq' = slirpq
               /\ "full" \in misuse'
      <4>1. Fifo!Overrun(p) BY <3>1, <3>2, <3>3, <3>5 DEF Fifo!Overrun
      <4> QED BY <4>1 DEF Fifo!Next
    <3>6. CASE /\ queueState # "live"
               /\ slirpq' = slirpq
               /\ misuse' = misuse \cup {"queue"}
      <4>1. ~slirp_started
        BY <3>6 DEF Inv, StartedIsLive
      <4>2. Fifo!TooLate(p) BY <3>1, <3>2, <3>6, <4>1 DEF Fifo!TooLate
      <4> QED BY <4>2 DEF Fifo!Next
    <3> QED BY <3>1, <3>4, <3>5, <3>6, OutputFacts DEF Inv
  <2>3. CASE Poll
    <3>1. slirp_started /\ queueState = "live" /\ slirpq \in QueueType
      BY <2>3 DEF Poll, Inv, EmuHolds, StartedIsLive, TypeOK
    <3>2. CASE slirpq.count > 0
      <4>1. /\ received' = Oldest(slirpq) /\ slirpq' = QueueDelete(slirpq)
            /\ UNCHANGED <<slirp_started, queueState, output, misuse>>
        BY <2>3, <3>2 DEF Poll, QueuePeek
      <4>2. Fifo!Receive
        BY <3>1, <3>2, <4>1, DeleteTakesHead DEF Fifo!Receive
      <4> QED BY <4>2 DEF Fifo!Next
    <3>3. CASE ~(slirpq.count > 0)
      BY <2>1, <2>3, <3>3 DEF Poll, QueuePeek
    <3> QED BY <3>2, <3>3
  <2>4. CASE Start
    <3>1. Fifo!Start
      BY <2>4, CreateType DEF Start, Fifo!Start
    <3> QED BY <3>1 DEF Fifo!Next
  <2>5. CASE StopBegin
    <3>1. slirp_started' \in BOOLEAN /\ ~slirp_started'
          /\ UNCHANGED <<slirpq, queueState, received, output, misuse>>
          /\ slirp_started
      BY <2>5 DEF StopBegin, net
    <3>2. Fifo!Stop BY <3>1 DEF Fifo!Stop
    <3> QED BY <3>2 DEF Fifo!Next
  <2>6. CASE StopQueue
    <3>1. ~slirp_started
      BY <2>6 DEF StopQueue, Inv, StoppingIsStopped, Stopping
    <3>2. Fifo!Flush
      BY <2>6, <3>1 DEF StopQueue, Fifo!Flush
    <3> QED BY <3>2 DEF Fifo!Next
  <2> QED BY <2>1, <2>2, <2>3, <2>4, <2>5, <2>6
          DEF Next, Tick, Emu, TickLoop, TickTest, TickFill, TickSelect,
              TickPoll, TickRipTest, TickRip, TickLock, TickUnlock, TickGoto,
              PollLock, InputLock, EmuLock, Input, StopMutex, StopWait,
              vars, net
<1> QED BY <1>1, <1>2, Invariant, PTL DEF Spec, FifoSpec, Fifo!Spec
=============================================================================
