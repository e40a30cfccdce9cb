---------------------------- MODULE CycIntProofs ----------------------------
(***************************************************************************)
(* Proofs about CycInt for every number of timers, every set of delays and *)
(* every bound: what the scan of the table finds, the types, the latch of  *)
(* realtime mode, and that in cycle mode the scheduler implements Timers.  *)
(***************************************************************************)
EXTENDS CycInt, WellFoundedInduction, TLAPS

-----------------------------------------------------------------------------
(***************************************************************************)
(* Every non-empty set of natural numbers has a least element, and every   *)
(* non-empty set of timers an entry that comes before the others.          *)
(***************************************************************************)

LEMMA LessThanIsRelation == OpToRel(<, Nat) = {ss \in Nat \X Nat : ss[1] < ss[2]}
  BY DEF OpToRel

LEMMA LeastNatural ==
  ASSUME NEW S, S \subseteq Nat, S # {}
  PROVE  \E x \in S : \A y \in S : x <= y
<1> DEFINE R == {ss \in Nat \X Nat : ss[1] < ss[2]}
<1>1. IsWellFoundedOn(R, Nat)
  BY NatLessThanWellFounded, LessThanIsRelation
<1>2. \E x \in S : \A y \in S : ~ (<<y, x>> \in R)
  <2> HIDE DEF R
  <2> QED BY <1>1, WFMin
<1>3. PICK x \in S : \A y \in S : ~ (<<y, x>> \in R)
  BY <1>2
<1>4. ASSUME NEW y \in S PROVE x <= y
  <2>1. x \in Nat /\ y \in Nat OBVIOUS
  <2>2. ~ (<<y, x>> \in R) BY <1>3
  <2>3. ~ (y < x) BY <2>1, <2>2
  <2> QED BY <2>1, <2>3
<1>5. QED BY <1>4

\* By induction on n, through the least n for which the statement fails.
LEMMA FirstEntry ==
  ASSUME NEW handlers \in [0..N -> Entry], NEW n \in Nat, n <= N,
         NEW C, C \subseteq 1..n, C # {}
  PROVE  \E m \in C : \A k \in C : Before(handlers, m, k)
<1> DEFINE P(i) == i <= N => \A D \in SUBSET (1..i) :
                     D # {} => \E m \in D : \A k \in D : Before(handlers, m, k)
           Bad == {i \in Nat : ~P(i)}
<1>1. SUFFICES Bad = {}
  <2>1. P(n) BY <1>1
  <2> QED BY <2>1
<1>2. SUFFICES ASSUME Bad # {} PROVE FALSE
  OBVIOUS
<1>3. Bad \subseteq Nat
  OBVIOUS
<1>4. PICK i \in Bad : \A j \in Bad : i <= j
  <2> HIDE DEF Bad
  <2> QED BY <1>2, <1>3, LeastNatural
<1>5. i \in Nat /\ ~P(i) /\ i <= N
  OBVIOUS
<1>6. i > 0
  <2>1. SUFFICES ASSUME i = 0 PROVE FALSE BY <1>5
  <2>2. 1..0 = {} OBVIOUS
  <2>3. P(0) BY <2>2
  <2> QED BY <1>5, <2>1, <2>3
<1>7. P(i - 1)
  <2> HIDE DEF P
  <2>1. i - 1 \in Nat /\ ~(i <= i - 1) BY <1>5, <1>6
  <2>2. i - 1 \notin Bad BY <2>1, <1>4
  <2> QED BY <2>1, <2>2
<1>8. ASSUME NEW D \in SUBSET (1..i), D # {}
      PROVE  \E m \in D : \A k \in D : Before(handlers, m, k)
  <2>1. CASE i \notin D
    <3>1. D \in SUBSET (1..(i-1)) BY <2>1, <1>5
    <3> QED BY <3>1, <1>7, <1>8, <1>5, SizeAssumption
  <2>2. CASE D = {i}
    BY <2>2 DEF Before
  <2>3. CASE i \in D /\ D # {i}
    <3> DEFINE E == D \ {i}
    <3>1. E \in SUBSET (1..(i-1)) /\ E # {} BY <2>3, <1>5
    <3>2. PICK m \in E : \A k \in E : Before(handlers, m, k)
      <4>1. i - 1 <= N BY <1>5, SizeAssumption
      <4>2. \A D1 \in SUBSET (1..(i-1)) :
              D1 # {} => \E m \in D1 : \A k \in D1 : Before(handlers, m, k)
        BY <4>1, <1>7
      <4> HIDE DEF E
      <4> QED BY <4>2, <3>1
    <3>3. \A k \in D : k \in 1..i /\ handlers[k].time \in Int
      BY <1>5, SizeAssumption DEF Entry
    <3>4. m \in D /\ m < i BY <3>1, <1>5
    <3>5. CASE Before(handlers, m, i)
      BY <3>2, <3>4, <3>5
    <3>6. CASE ~Before(handlers, m, i)
      <4>1. handlers[i].time < handlers[m].time
        BY <3>6, <3>3, <3>4, <2>3, <1>5 DEF Before
      <4>2. ASSUME NEW k \in E PROVE Before(handlers, i, k)
        BY <4>1, <3>2, <3>3, <3>4, <2>3 DEF Before
      <4>3. Before(handlers, i, i)
        BY <3>3, <2>3 DEF Before
      <4> QED BY <4>2, <4>3, <2>3
    <3> QED BY <3>5, <3>6
  <2> QED BY <2>1, <2>2, <2>3
<1>9. P(i)
  BY <1>8
<1> QED BY <1>5, <1>9

\* What the scan of CycInt_SetNewInterrupt finds.
LEMMA LowestIsFirst ==
  ASSUME NEW handlers \in [0..N -> Entry]
  PROVE  /\ LowestInterrupt(handlers) \in 0..N
         /\ LowestInterrupt(handlers) = 0 <=> CpuTimers(handlers) = {}
         /\ CpuTimers(handlers) # {} =>
              /\ LowestInterrupt(handlers) \in CpuTimers(handlers)
              /\ \A g \in CpuTimers(handlers) :
                   Before(handlers, LowestInterrupt(handlers), g)
<1>1. CpuTimers(handlers) \subseteq 1..N /\ N \in Nat /\ N <= N
  BY SizeAssumption DEF CpuTimers, Ids
<1>2. CASE CpuTimers(handlers) = {}
  BY <1>2, <1>1 DEF LowestInterrupt
<1>3. CASE CpuTimers(handlers) # {}
  <2>1. \E h \in CpuTimers(handlers) :
          \A g \in CpuTimers(handlers) : Before(handlers, h, g)
    BY <1>1, <1>3, FirstEntry
  <2>2. /\ LowestInterrupt(handlers) \in CpuTimers(handlers)
        /\ \A g \in CpuTimers(handlers) :
             Before(handlers, LowestInterrupt(handlers), g)
    BY <2>1, <1>3 DEF LowestInterrupt
  <2> QED BY <2>2, <1>1, <1>3
<1> QED BY <1>2, <1>3

-----------------------------------------------------------------------------
(***************************************************************************)
(* Type correctness, in both modes.                                        *)
(***************************************************************************)

Typed(s) == s \in Sched /\ s.handlers[0] = None

LEMMA SetNewFacts ==
  ASSUME NEW s \in Sched
  PROVE  /\ SetNewInterrupt(s) \in Sched
         /\ SetNewInterrupt(s).handlers = s.handlers
         /\ SetNewInterrupt(s).over = s.over
         /\ SetNewInterrupt(s).active = LowestInterrupt(s.handlers)
         /\ SetNewInterrupt(s).pending =
              Pending(s.handlers, LowestInterrupt(s.handlers))
<1>1. s.handlers \in [0..N -> Entry]
  BY DEF Sched
<1>2. LowestInterrupt(s.handlers) \in 0..N
  BY <1>1, LowestIsFirst
<1>3. Pending(s.handlers, LowestInterrupt(s.handlers)) \in Copy
  BY <1>1, <1>2 DEF Pending, Entry, Copy
<1> QED BY <1>2, <1>3 DEF SetNewInterrupt, Sched

LEMMA UpdateFacts ==
  ASSUME NEW s \in Sched
  PROVE  /\ UpdateInterrupt(s) \in Sched
         /\ UpdateInterrupt(s).over = 0
         /\ UpdateInterrupt(s).handlers =
              [h \in 0..N |-> Elapsed(s.handlers[h], s.over)]
<1> DEFINE f == [h \in 0..N |-> Elapsed(s.handlers[h], s.over)]
<1>1. \A h \in 0..N : s.handlers[h] \in Entry /\ s.over \in Nat
  BY DEF Sched
<1>2. ASSUME NEW e \in Entry, NEW c \in Nat PROVE Elapsed(e, c) \in Entry
  BY DEF Elapsed, Entry, Types
<1>3. f \in [0..N -> Entry]
  BY <1>1, <1>2
<1>4. UpdateInterrupt(s) = [s EXCEPT !.handlers = f, !.over = 0]
  BY DEF UpdateInterrupt
<1> HIDE DEF f
<1>5. /\ [s EXCEPT !.handlers = f, !.over = 0] \in Sched
      /\ [s EXCEPT !.handlers = f, !.over = 0].handlers = f
      /\ [s EXCEPT !.handlers = f, !.over = 0].over = 0
  BY <1>3 DEF Sched
<1> QED BY <1>4, <1>5 DEF f

\* Every operation that writes one entry writes it after at most one update.
LEMMA WriteTyped ==
  ASSUME NEW s, Typed(s), NEW h \in Ids, NEW e \in Entry
  PROVE  /\ [s EXCEPT !.handlers[h] = e] \in Sched
         /\ [s EXCEPT !.handlers[h] = e].handlers = [s.handlers EXCEPT ![h] = e]
         /\ [s EXCEPT !.handlers[h] = e].over = s.over
         /\ Typed([s EXCEPT !.handlers[h] = e])
<1>1. s.handlers \in [0..N -> Entry] /\ h \in 0..N /\ h # 0
  BY SizeAssumption DEF Typed, Sched, Ids
<1>2. [s.handlers EXCEPT ![h] = e] \in [0..N -> Entry]
  BY <1>1
<1>3. [s.handlers EXCEPT ![h] = e][0] = s.handlers[0]
  BY <1>1, SizeAssumption
<1>4. [s EXCEPT !.handlers[h] = e] = [s EXCEPT !.handlers = [s.handlers EXCEPT ![h] = e]]
  BY DEF Typed, Sched
<1> DEFINE f == [s.handlers EXCEPT ![h] = e]
           w == [s EXCEPT !.handlers = f]
<1> HIDE DEF f
<1>5. w \in Sched /\ w.handlers = f /\ w.over = s.over
  BY <1>2 DEF Typed, Sched, f
<1> QED BY <1>3, <1>4, <1>5 DEF Typed, f

LEMMA UpdateTyped ==
  ASSUME NEW s, Typed(s)
  PROVE  Typed(UpdateInterrupt(s)) /\ Typed(UpdateIfActive(s))
<1>1. s \in Sched /\ s.handlers[0] = None /\ 0 \in 0..N
  BY SizeAssumption DEF Typed
<1>2. UpdateInterrupt(s).handlers[0] = Elapsed(None, s.over)
  BY <1>1, UpdateFacts
<1>3. Elapsed(None, s.over) = None
  BY DEF Elapsed, None
<1> QED BY <1>1, <1>2, <1>3, UpdateFacts DEF Typed, UpdateIfActive

LEMMA AddCyclesTimerTyped ==
  ASSUME NEW s, Typed(s), NEW h \in Ids, NEW d \in Int
  PROVE  Typed(AddRelativeInterruptCycles(s, d, h))
<1>1. Typed(UpdateIfActive(s)) BY UpdateTyped
<1>2. [type |-> "cpu", time |-> d] \in Entry BY DEF Entry, Types
<1> DEFINE w == [UpdateIfActive(s) EXCEPT
                    !.handlers[h] = [type |-> "cpu", time |-> d]]
<1>3. Typed(w) BY <1>1, <1>2, WriteTyped
<1>4. AddRelativeInterruptCycles(s, d, h) = SetNewInterrupt(w)
  BY DEF AddRelativeInterruptCycles
<1> HIDE DEF w
<1> QED BY <1>3, <1>4, SetNewFacts DEF Typed

LEMMA AddUsTimerTyped ==
  ASSUME NEW s, Typed(s), NEW h \in Ids, NEW t \in Int, NEW us \in Int,
         NEW usreal \in Int
  PROVE  Typed(AddRelativeInterruptUs(s, t, us, usreal, h))
<1>1. Typed(UpdateIfActive(s)) BY UpdateTyped
<1>2. t + (IF usreal > 0 THEN usreal ELSE us) \in Int OBVIOUS
<1>3. ASSUME NEW x \in Int
      PROVE  Typed(SetNewInterrupt([UpdateIfActive(s) EXCEPT
                     !.handlers[h] = [type |-> "us", time |-> x]]))
  <2>1. [type |-> "us", time |-> x] \in Entry BY DEF Entry, Types
  <2> DEFINE w == [UpdateIfActive(s) EXCEPT
                      !.handlers[h] = [type |-> "us", time |-> x]]
  <2>2. Typed(w) BY <1>1, <2>1, WriteTyped
  <2> HIDE DEF w
  <2>3. Typed(SetNewInterrupt(w)) BY <2>2, SetNewFacts DEF Typed
  <2> QED BY <2>3 DEF w
<1>4. us * Freq \in Int BY DelayAssumption
<1> QED BY <1>2, <1>3, <1>4, AddCyclesTimerTyped DEF AddRelativeInterruptUs

LEMMA DisableTyped ==
  ASSUME NEW s, Typed(s), NEW h \in 0..N
  PROVE  Typed(Disable(s, h))
<1> DEFINE u == UpdateInterrupt(s)
           w == [u EXCEPT !.handlers[h].type = "none"]
<1>1. Typed(u) BY UpdateTyped
<1>2. w \in Sched /\ w.handlers[0] = None
  <2> HIDE DEF u
  <2>1. \A i \in 0..N : u.handlers[i] \in Entry BY <1>1 DEF Typed, Sched
  <2>2. [u.handlers[h] EXCEPT !.type = "none"] \in Entry
    BY <2>1 DEF Entry, Types
  <2>3. w.handlers = [u.handlers EXCEPT ![h] = [@ EXCEPT !.type = "none"]]
    BY <1>1 DEF Typed, Sched
  <2>4. w \in Sched BY <1>1, <2>2, <2>3 DEF Typed, Sched
  <2>5. w.handlers[0] = None
    BY <1>1, <2>3, SizeAssumption DEF Typed, None, Sched
  <2> QED BY <2>4, <2>5
<1>3. Disable(s, h) = SetNewInterrupt(w) BY DEF Disable
<1> HIDE DEF w
<1> QED BY <1>2, <1>3, SetNewFacts DEF Typed

LEMMA ResetTyped ==
  ASSUME NEW s, s.pending \in Copy
  PROVE  Typed(Reset(s)) /\ Typed(ResetTable(s))
<1>1. None \in Entry BY DelayAssumption DEF None, Entry, Types
<1>2. Typed(ResetTable(s))
  BY <1>1, SizeAssumption DEF Typed, Sched, ResetTable, Copy
<1> QED BY <1>2, AddUsTimerTyped, IdsAssumption, DelayAssumption DEF Reset

LEMMA DeviceCallTyped ==
  ASSUME NEW s, Typed(s), NEW t \in Nat, NEW r \in DeviceCall(s, t)
  PROVE  Typed(r)
<1>1. /\ CycleTimers \subseteq Ids /\ UsTimers \subseteq Ids
      /\ Removable \subseteq Ids /\ CycleDelays \subseteq Int
      /\ UsDelays \cup {0} \subseteq Int /\ Ids \subseteq 0..N
  BY IdsAssumption, DelayAssumption, SizeAssumption DEF Devices, Ids
<1>2. CASE \E d \in CycleDelays, h \in CycleTimers :
             r = AddRelativeInterruptCycles(s, d, h)
  BY <1>1, <1>2, AddCyclesTimerTyped
<1>3. CASE \E us \in UsDelays, usreal \in UsDelays \cup {0}, h \in UsTimers :
             r = AddRelativeInterruptUs(s, t, us, usreal, h)
  BY <1>1, <1>3, AddUsTimerTyped
<1>4. CASE \E us \in UsDelays, usreal \in UsDelays \cup {0}, h \in CycleTimers :
             r = AddRelativeInterruptUsCycles(s, us, usreal, h)
  <2>1. PICK us \in UsDelays, usreal \in UsDelays \cup {0}, h \in CycleTimers :
             r = AddRelativeInterruptUsCycles(s, us, usreal, h)
    BY <1>4
  <2>2. (IF Realtime /\ usreal > 0 THEN usreal ELSE us) \in Int BY <1>1
  <2>3. (IF Realtime /\ usreal > 0 THEN usreal ELSE us) * Freq \in Int
    BY <2>2, DelayAssumption
  <2> QED BY <2>1, <2>3, <1>1, AddCyclesTimerTyped
          DEF AddRelativeInterruptUsCycles
<1>5. CASE \E h \in Removable : r = RemovePendingInterrupt(s, h)
  BY <1>1, <1>5, DisableTyped DEF RemovePendingInterrupt
<1> QED BY <1>2, <1>3, <1>4, <1>5 DEF DeviceCall

LEMMA DeviceCallsTyped ==
  ASSUME NEW s, Typed(s), NEW t \in Nat, NEW r \in DeviceCalls(s, t)
  PROVE  Typed(r)
BY DeviceCallTyped DEF DeviceCalls

LEMMA AddCyclesTyped ==
  ASSUME NEW s, Typed(s), NEW c \in Nat, NEW t \in Nat
  PROVE  Typed(AddCycles(s, c, t))
<1> DEFINE x == [s EXCEPT !.over = @ + c,
                          !.pending.time = IF s.pending.type = "cpu"
                                           THEN @ - c ELSE @]
<1>1. s \in Sched /\ s.over \in Nat /\ s.usCheck \in Int
      /\ s.pending \in Copy
  BY DEF Typed, Sched
<1>2. [s.pending EXCEPT !.time = IF s.pending.type = "cpu" THEN @ - c ELSE @] \in Copy
  BY <1>1 DEF Copy
<1> DEFINE p == [s.pending EXCEPT !.time = IF s.pending.type = "cpu"
                                          THEN @ - c ELSE @]
<1>7. x = [s EXCEPT !.over = s.over + c, !.pending = p]
  BY DEF Typed, Sched
<1>8. p \in Copy BY <1>2
<1> HIDE DEF p, x
<1>3. x \in Sched /\ x.handlers = s.handlers /\ x.usCheck = s.usCheck
  <2>1. s.over + c \in Nat BY <1>1
  <2> DEFINE o == s.over + c
  <2> HIDE DEF o
  <2>2. /\ [s EXCEPT !.over = o, !.pending = p] \in Sched
        /\ [s EXCEPT !.over = o, !.pending = p].handlers = s.handlers
        /\ [s EXCEPT !.over = o, !.pending = p].usCheck = s.usCheck
    BY <1>1, <1>8, <2>1 DEF Sched, o
  <2> QED BY <1>7, <2>2 DEF o
<1>4. Typed([x EXCEPT !.usCheck = @ - c]) /\ Typed([x EXCEPT !.usCheck = UsCheck])
  BY <1>1, <1>3, DelayAssumption DEF Typed, Sched
<1>5. ASSUME Expired(s, t) # {} PROVE Typed(SetNewInterruptUs(x, t))
  <2>1. Expired(x, t) # {} /\ Expired(x, t) \subseteq Nat
        /\ Expired(x, t) \subseteq 0..N
    BY <1>3, <1>5, SizeAssumption DEF Expired, Ids
  <2>2. \E h \in Expired(x, t) : \A g \in Expired(x, t) : h <= g
    BY <2>1, LeastNatural
  <2> DEFINE h == CHOOSE i \in Expired(x, t) : \A g \in Expired(x, t) : i <= g
  <2>3. h \in 0..N BY <2>1, <2>2
  <2>4. x.handlers[h] \in Entry BY <2>3, <1>3 DEF Sched
  <2>5. SetNewInterruptUs(x, t) =
          [x EXCEPT !.pending = [Pending(x.handlers, h) EXCEPT !.time = -1],
                    !.active = h]
    BY DEF SetNewInterruptUs
  <2> HIDE DEF h
  <2>6. [Pending(x.handlers, h) EXCEPT !.time = -1] \in Copy
    BY <2>3, <2>4 DEF Pending, Entry, Copy
  <2> QED BY <2>5, <2>6, <2>3, <1>3 DEF Typed, Sched
<1>6. AddCycles(s, c, t) =
        IF s.usCheck >= 0 THEN [x EXCEPT !.usCheck = @ - c]
        ELSE IF Realtime /\ Expired(s, t) # {} THEN SetNewInterruptUs(x, t)
        ELSE [x EXCEPT !.usCheck = UsCheck]
  BY DEF AddCycles, x
<1> QED BY <1>4, <1>5, <1>6, ModeAssumption

\* Both modes, for every number of timers: the scheduler's state keeps its
\* type through every operation and every handler of the devices.
THEOREM TypeCorrect == Spec => []TypeOK
<1>1. Init => TypeOK
  <2> SUFFICES ASSUME Init PROVE TypeOK OBVIOUS
  <2> DEFINE z == [pending |-> [type |-> "none", time |-> 0, pFunction |-> 0]]
  <2>1. z.pending \in Copy BY SizeAssumption DEF Copy, Types
  <2>2. Typed(Reset(z)) BY <2>1, ResetTyped
  <2>3. Typed(AddRelativeInterruptUs(Reset(z), 0, EventPeriod, 0, EventLoop))
    BY <2>2, AddUsTimerTyped, IdsAssumption, DelayAssumption
  <2> QED BY <2>3, SizeAssumption DEF Init, TypeOK, Typed
<1>2. TypeOK /\ [Next]_vars => TypeOK'
  <2> SUFFICES ASSUME TypeOK, [Next]_vars PROVE TypeOK'
    OBVIOUS
  <2>0. /\ Typed(sched) /\ now \in Nat
        /\ Ids \subseteq 0..N /\ 0 \in 0..N /\ Vbl \in Ids /\ EventLoop \in Ids
        /\ VblPeriod \in Int /\ EventPeriod \in Int
        /\ Quanta \subseteq Nat /\ sched.active \in 0..N
        /\ phase \in {"cpu", "dispatch"} /\ called \in 0..N
    BY SizeAssumption, IdsAssumption, DelayAssumption
       DEF TypeOK, Typed, Ids, Sched
  <2>a. Typed(AcknowledgeInterrupt(sched))
    BY <2>0, DisableTyped DEF AcknowledgeInterrupt
  <2>1. ASSUME NEW c \in Quanta, Instruction(c) PROVE TypeOK'
    BY <2>0, <2>1, AddCyclesTyped DEF Instruction, TypeOK, Typed
  <2>2. ASSUME NEW c \in Quanta, InnerCycles(c) PROVE TypeOK'
    BY <2>0, <2>2, AddCyclesTyped DEF InnerCycles, TypeOK, Typed
  <2>3. CASE RegisterAccess
    BY <2>0, <2>3, DeviceCallTyped DEF RegisterAccess, TypeOK, Typed
  <2>4. CASE VideoVbl
    <3>1. Typed(sched')
      BY <2>0, <2>a, <2>4, AddUsTimerTyped DEF VideoVbl
    <3> QED BY <3>1, <2>4, <2>0 DEF VideoVbl, Call, TypeOK, Typed
  <2>5. CASE EventHandler
    <3>1. PICK s \in {AcknowledgeInterrupt(sched)} :
            \E body \in DeviceCalls(s, now) :
              sched' = AddRelativeInterruptUs(body, now, EventPeriod, 0, EventLoop)
      BY <2>5 DEF EventHandler
    <3>2. PICK body \in DeviceCalls(s, now) :
              sched' = AddRelativeInterruptUs(body, now, EventPeriod, 0, EventLoop)
      BY <3>1
    <3>3. Typed(body) BY <2>a, <3>1, <3>2, <2>0, DeviceCallsTyped
    <3>4. Typed(sched') BY <3>2, <3>3, <2>0, AddUsTimerTyped
    <3> QED BY <3>4, <2>5, <2>0 DEF EventHandler, Call, TypeOK, Typed
  <2>6. CASE EventHandlerReset
    <3>1. AcknowledgeInterrupt(sched).pending \in Copy
      BY <2>a DEF Typed, Sched
    <3>2. Typed(Reset(AcknowledgeInterrupt(sched)))
      BY <3>1, ResetTyped
    <3>3. Typed(sched')
      BY <3>2, <2>6, <2>0, AddUsTimerTyped DEF EventHandlerReset
    <3> QED BY <3>3, <2>6, <2>0 DEF EventHandlerReset, Call, TypeOK, Typed
  <2>7. ASSUME NEW h \in Devices, DeviceHandler(h) PROVE TypeOK'
    <3>0. h \in 0..N BY <2>0 DEF Devices
    <3>1. Typed(sched')
      BY <2>7, <2>a, <2>0, DeviceCallsTyped DEF DeviceHandler
    <3> QED BY <3>0, <3>1, <2>7, <2>0 DEF DeviceHandler, Call, TypeOK, Typed
  <2>8. CASE EndDispatch
    BY <2>0, <2>8 DEF EndDispatch, TypeOK, Typed
  <2>9. CASE HostClock
    BY <2>0, <2>9, DelayAssumption DEF HostClock, TypeOK, Typed
  <2>10. CASE UNCHANGED vars
    BY <2>10 DEF vars, TypeOK
  <2> QED BY <2>1, <2>2, <2>3, <2>4, <2>5, <2>6, <2>7, <2>8, <2>9, <2>10
          DEF Next, Dispatch
<1> QED BY <1>1, <1>2, PTL DEF Spec
-----------------------------------------------------------------------------
(***************************************************************************)
(* Both modes: whose copy is pending. A copy latched by                    *)
(* CycInt_SetNewInterruptUs is the only one of a microsecond timer; every  *)
(* other operation of the scheduler ends in CycInt_SetNewInterrupt, which  *)
(* takes the latch away. Followed here are the types of the entries and    *)
(* the host times of those in microseconds, not the cycles to go.          *)
(***************************************************************************)

\* The copy is that of the active entry, which is armed if there is one.
Matched(s) == /\ s.pending.pFunction = s.active
              /\ s.pending.type = s.handlers[s.active].type
              /\ s.active # 0 => s.pending.type # "none"

\* No microsecond timer is latched.
Quiet(s) == Matched(s) /\ s.pending.type # "us"

\* A latched timer has expired at the host time t.
Live(s, t) == s.pending.type = "us" => t > s.handlers[s.active].time

Alive(s) == s.handlers[Vbl].type # "none" /\ s.handlers[EventLoop].type # "none"

\* An entry is still armed or not as it was, and one in microseconds is the same.
Kindred(d, e) == d.type = e.type /\ (e.type = "us" => d = e)

\* From s to r no timer but h is armed, disarmed or given another host time.
SameBut(s, r, h) == /\ Typed(r) /\ Quiet(r)
                    /\ \A g \in Ids \ {h} : Kindred(r.handlers[g], s.handlers[g])

LEMMA SetNewQuiet ==
  ASSUME NEW s, Typed(s)
  PROVE  /\ Typed(SetNewInterrupt(s)) /\ Quiet(SetNewInterrupt(s))
         /\ SetNewInterrupt(s).handlers = s.handlers
<1> DEFINE h == LowestInterrupt(s.handlers)
<1>1. s \in Sched /\ s.handlers \in [0..N -> Entry] /\ s.handlers[0] = None
  BY DEF Typed, Sched
<1>2. h \in 0..N /\ (h # 0 => s.handlers[h].type = "cpu")
  BY <1>1, LowestIsFirst DEF CpuTimers
<1>3. s.handlers[h].type # "us"
  BY <1>1, <1>2 DEF None
<1>4. /\ SetNewInterrupt(s).active = h
      /\ SetNewInterrupt(s).pending = Pending(s.handlers, h)
      /\ SetNewInterrupt(s).handlers = s.handlers
      /\ SetNewInterrupt(s) \in Sched
  BY <1>1, SetNewFacts
<1> HIDE DEF h
<1>5. /\ SetNewInterrupt(s).pending.pFunction = h
      /\ SetNewInterrupt(s).pending.type = s.handlers[h].type
  BY <1>4 DEF Pending
<1> QED BY <1>1, <1>2, <1>3, <1>4, <1>5 DEF Typed, Quiet, Matched

LEMMA UpdateKeepsTypes ==
  ASSUME NEW s, Typed(s), NEW h \in Ids
  PROVE  /\ Kindred(UpdateInterrupt(s).handlers[h], s.handlers[h])
         /\ Kindred(UpdateIfActive(s).handlers[h], s.handlers[h])
<1>0. s \in Sched /\ h \in 0..N BY SizeAssumption DEF Typed, Ids
<1>1. UpdateInterrupt(s).handlers[h] = Elapsed(s.handlers[h], s.over)
  <2>1. UpdateInterrupt(s).handlers = [i \in 0..N |-> Elapsed(s.handlers[i], s.over)]
    BY <1>0, UpdateFacts
  <2> QED BY <2>1, <1>0
<1>2. Kindred(Elapsed(s.handlers[h], s.over), s.handlers[h])
  BY DEF Elapsed, Kindred
<1> QED BY <1>1, <1>2 DEF UpdateIfActive, Kindred

\* Arming an entry, in either unit, after at most one update of the table.
LEMMA ArmEffect ==
  ASSUME NEW s, Typed(s), NEW h \in Ids, NEW e \in Entry, e.type # "none"
  PROVE  LET r == SetNewInterrupt([UpdateIfActive(s) EXCEPT !.handlers[h] = e])
         IN  SameBut(s, r, h) /\ r.handlers[h].type # "none"
<1> DEFINE u == UpdateIfActive(s)
           w == [u EXCEPT !.handlers[h] = e]
<1>1. Typed(u) /\ \A g \in Ids : Kindred(u.handlers[g], s.handlers[g])
  BY UpdateTyped, UpdateKeepsTypes
<1> HIDE DEF u
<1>2. Typed(w) /\ w.handlers = [u.handlers EXCEPT ![h] = e]
  BY <1>1, WriteTyped
<1>3. u.handlers \in [0..N -> Entry] /\ Ids \subseteq 0..N
  BY <1>1, SizeAssumption DEF Typed, Sched, Ids
<1>4. /\ w.handlers[h] = e
      /\ \A g \in Ids \ {h} : w.handlers[g] = u.handlers[g]
  BY <1>2, <1>3
<1> HIDE DEF w
<1>5. /\ Typed(SetNewInterrupt(w)) /\ Quiet(SetNewInterrupt(w))
      /\ SetNewInterrupt(w).handlers = w.handlers
  BY <1>2, SetNewQuiet
<1>6. SameBut(s, SetNewInterrupt(w), h) /\ SetNewInterrupt(w).handlers[h].type # "none"
  BY <1>1, <1>4, <1>5 DEF SameBut
<1> QED BY <1>6 DEF w, u

LEMMA ArmCyclesEffect ==
  ASSUME NEW s, Typed(s), NEW h \in Ids, NEW d \in Int
  PROVE  /\ SameBut(s, AddRelativeInterruptCycles(s, d, h), h)
         /\ AddRelativeInterruptCycles(s, d, h).handlers[h].type # "none"
<1>1. [type |-> "cpu", time |-> d] \in Entry BY DEF Entry, Types
<1> QED BY <1>1, ArmEffect DEF AddRelativeInterruptCycles

LEMMA ArmUsEffect ==
  ASSUME NEW s, Typed(s), NEW h \in Ids, NEW t \in Int, NEW us \in Int,
         NEW usreal \in Int
  PROVE  /\ SameBut(s, AddRelativeInterruptUs(s, t, us, usreal, h), h)
         /\ AddRelativeInterruptUs(s, t, us, usreal, h).handlers[h].type # "none"
<1> DEFINE x == t + (IF usreal > 0 THEN usreal ELSE us)
<1>1. x \in Int /\ us * Freq \in Int BY DelayAssumption
<1>2. CASE Realtime
  <2>1. AddRelativeInterruptUs(s, t, us, usreal, h) =
          SetNewInterrupt([UpdateIfActive(s) EXCEPT
             !.handlers[h] = [type |-> "us", time |-> x]])
    BY <1>2 DEF AddRelativeInterruptUs
  <2> HIDE DEF x
  <2>2. [type |-> "us", time |-> x] \in Entry BY <1>1 DEF Entry, Types
  <2> QED BY <2>1, <2>2, ArmEffect
<1>3. CASE ~Realtime
  BY <1>1, <1>3, ArmCyclesEffect DEF AddRelativeInterruptUs
<1> QED BY <1>2, <1>3

LEMMA DisarmEffect ==
  ASSUME NEW s, Typed(s), NEW h \in 0..N
  PROVE  SameBut(s, Disable(s, h), h)
<1> DEFINE u == UpdateInterrupt(s)
           w == [u EXCEPT !.handlers[h].type = "none"]
<1>1. Typed(u) /\ \A g \in Ids : Kindred(u.handlers[g], s.handlers[g])
  BY UpdateTyped, UpdateKeepsTypes
<1> HIDE DEF u
<1>2. \A i \in 0..N : u.handlers[i] \in Entry BY <1>1 DEF Typed, Sched
<1>3. [u.handlers[h] EXCEPT !.type = "none"] \in Entry
  BY <1>2 DEF Entry, Types
<1>4. w.handlers = [u.handlers EXCEPT ![h] = [@ EXCEPT !.type = "none"]]
  BY <1>1 DEF Typed, Sched
<1>5. w \in Sched BY <1>1, <1>3, <1>4 DEF Typed, Sched
<1>6. w.handlers[0] = None
  BY <1>1, <1>4, SizeAssumption DEF Typed, None, Sched
<1>7. \A g \in Ids \ {h} : w.handlers[g] = u.handlers[g]
  BY <1>1, <1>4, SizeAssumption DEF Typed, Sched, Ids
<1>8. Disable(s, h) = SetNewInterrupt(w) BY DEF Disable, u
<1> HIDE DEF w
<1>9. /\ Typed(SetNewInterrupt(w)) /\ Quiet(SetNewInterrupt(w))
      /\ SetNewInterrupt(w).handlers = w.handlers
  BY <1>5, <1>6, SetNewQuiet DEF Typed
<1> QED BY <1>1, <1>7, <1>8, <1>9 DEF SameBut

LEMMA ResetArms ==
  ASSUME NEW s, s.pending \in Copy
  PROVE  Typed(Reset(s)) /\ Quiet(Reset(s)) /\ Reset(s).handlers[Vbl].type # "none"
<1>1. Typed(ResetTable(s)) BY ResetTyped
<1> QED BY <1>1, ArmUsEffect, IdsAssumption, DelayAssumption DEF Reset, SameBut

LEMMA DeviceCallQuiet ==
  ASSUME NEW s, Typed(s), NEW t \in Nat, NEW r \in DeviceCall(s, t)
  PROVE  \E h \in Devices : SameBut(s, r, h)
<1>1. /\ CycleTimers \subseteq Devices /\ UsTimers \subseteq Devices
      /\ Removable \subseteq Devices /\ CycleDelays \subseteq Int
      /\ UsDelays \cup {0} \subseteq Int /\ Ids \subseteq 0..N /\ Devices \subseteq Ids
  BY IdsAssumption, DelayAssumption, SizeAssumption DEF Devices, Ids
<1>2. CASE \E d \in CycleDelays, h \in CycleTimers :
             r = AddRelativeInterruptCycles(s, d, h)
  BY <1>1, <1>2, ArmCyclesEffect
<1>3. CASE \E us \in UsDelays, usreal \in UsDelays \cup {0}, h \in UsTimers :
             r = AddRelativeInterruptUs(s, t, us, usreal, h)
  <2>1. PICK us \in UsDelays, usreal \in UsDelays \cup {0}, h \in UsTimers :
             r = AddRelativeInterruptUs(s, t, us, usreal, h)
    BY <1>3
  <2>2. us \in Int /\ usreal \in Int /\ t \in Int /\ h \in Ids BY <1>1
  <2> QED BY <2>1, <2>2, <1>1, ArmUsEffect
<1>4. CASE \E us \in UsDelays, usreal \in UsDelays \cup {0}, h \in CycleTimers :
             r = AddRelativeInterruptUsCycles(s, us, usreal, h)
  <2>1. PICK us \in UsDelays, usreal \in UsDelays \cup {0}, h \in CycleTimers :
             r = AddRelativeInterruptUsCycles(s, us, usreal, h)
    BY <1>4
  <2>2. (IF Realtime /\ usreal > 0 THEN usreal ELSE us) \in Int BY <1>1
  <2>3. (IF Realtime /\ usreal > 0 THEN usreal ELSE us) * Freq \in Int
    BY <2>2, DelayAssumption
  <2> QED BY <2>1, <2>3, <1>1, ArmCyclesEffect DEF AddRelativeInterruptUsCycles
<1>5. CASE \E h \in Removable : r = RemovePendingInterrupt(s, h)
  BY <1>1, <1>5, DisarmEffect DEF RemovePendingInterrupt
<1> QED BY <1>2, <1>3, <1>4, <1>5 DEF DeviceCall

\* What a handler's calls leave: only timers of devices differ.
LEMMA DeviceCallsQuiet ==
  ASSUME NEW s, Typed(s), Quiet(s), NEW t \in Nat, NEW r \in DeviceCalls(s, t)
  PROVE  /\ Typed(r) /\ Quiet(r)
         /\ \A g \in Ids \ Devices : Kindred(r.handlers[g], s.handlers[g])
<1>1. CASE r = s BY <1>1 DEF Kindred
<1>2. CASE r \in DeviceCall(s, t) BY <1>2, DeviceCallQuiet DEF SameBut
<1>3. ASSUME NEW q \in DeviceCall(s, t), r \in DeviceCall(q, t)
      PROVE  /\ Typed(r) /\ Quiet(r)
             /\ \A g \in Ids \ Devices : Kindred(r.handlers[g], s.handlers[g])
  <2>1. PICK h \in Devices : SameBut(s, q, h) BY DeviceCallQuiet
  <2>2. PICK i \in Devices : SameBut(q, r, i)
    BY <1>3, <2>1, DeviceCallQuiet DEF SameBut
  <2> QED BY <2>1, <2>2 DEF SameBut, Kindred
<1> QED BY <1>1, <1>2, <1>3 DEF DeviceCalls

\* The cycles of an instruction count down the copy or latch a timer.
LEMMA AddCyclesLatches ==
  ASSUME NEW s, Typed(s), Matched(s), NEW c \in Nat, NEW t \in Nat, Live(s, t)
  PROVE  /\ Matched(AddCycles(s, c, t)) /\ Live(AddCycles(s, c, t), t)
         /\ AddCycles(s, c, t).handlers = s.handlers
<1> DEFINE x == [s EXCEPT !.over = @ + c,
                          !.pending.time = IF s.pending.type = "cpu"
                                           THEN @ - c ELSE @]
           p == [s.pending EXCEPT !.time = IF s.pending.type = "cpu"
                                          THEN @ - c ELSE @]
<1>1. x = [s EXCEPT !.over = s.over + c, !.pending = p]
  BY DEF Typed, Sched
<1>2. p.type = s.pending.type /\ p.pFunction = s.pending.pFunction
  BY DEF Typed, Sched, Copy
<1>3. AddCycles(s, c, t) =
        IF s.usCheck >= 0 THEN [x EXCEPT !.usCheck = @ - c]
        ELSE IF Realtime /\ Expired(s, t) # {} THEN SetNewInterruptUs(x, t)
        ELSE [x EXCEPT !.usCheck = UsCheck]
  BY DEF AddCycles, x
<1> HIDE DEF p
<1>4. /\ x.handlers = s.handlers /\ x.active = s.active /\ x.pending = p
      /\ DOMAIN x = {"handlers", "pending", "active", "over", "usCheck"}
  BY <1>1 DEF Typed, Sched
<1> HIDE DEF x
<1>5. ASSUME NEW y, y.handlers = s.handlers, y.active = s.active, y.pending = p
      PROVE  Matched(y) /\ Live(y, t)
  BY <1>2, <1>5 DEF Matched, Live
<1>6. CASE Realtime /\ Expired(s, t) # {}
  <2> DEFINE h == CHOOSE i \in Expired(x, t) : \A g \in Expired(x, t) : i <= g
             r == SetNewInterruptUs(x, t)
  <2>1. /\ Expired(x, t) # {} /\ Expired(x, t) \subseteq Nat
        /\ Expired(x, t) = Expired(s, t)
    BY <1>4, <1>6, SizeAssumption DEF Expired, Ids
  <2>2. \E i \in Expired(x, t) : \A g \in Expired(x, t) : i <= g
    BY <2>1, LeastNatural
  <2>3. h \in Expired(s, t) BY <2>1, <2>2
  <2>5. r = [x EXCEPT !.pending = [Pending(x.handlers, h) EXCEPT !.time = -1],
                      !.active = h]
    BY DEF SetNewInterruptUs
  <2> HIDE DEF h
  <2>4. h # 0 /\ s.handlers[h].type = "us" /\ t > s.handlers[h].time
    BY <2>3, SizeAssumption DEF Expired, Ids
  <2>6. /\ r.handlers = s.handlers /\ r.active = h
        /\ r.pending.type = s.handlers[h].type /\ r.pending.pFunction = h
    BY <2>5, <1>4 DEF Pending
  <2> HIDE DEF r
  <2>7. Matched(r) /\ Live(r, t) /\ r.handlers = s.handlers
    BY <2>4, <2>6 DEF Matched, Live
  <2> QED BY <2>7, <1>3, <1>4, <1>5 DEF r
<1>7. CASE ~(Realtime /\ Expired(s, t) # {})
  BY <1>3, <1>4, <1>5, <1>7
<1> QED BY <1>6, <1>7

LatchInv == TypeOK /\ Matched(sched) /\ Live(sched, now) /\ Alive(sched)

LEMMA LatchInvInit == Init => LatchInv
<1> SUFFICES ASSUME Init PROVE LatchInv OBVIOUS
<1> DEFINE z == [pending |-> [type |-> "none", time |-> 0, pFunction |-> 0]]
           s == Reset(z)
<1>1. z.pending \in Copy BY SizeAssumption DEF Copy, Types
<1>2. sched = AddRelativeInterruptUs(s, 0, EventPeriod, 0, EventLoop)
  BY DEF Init
<1> HIDE DEF z
<1>3. Typed(s) /\ Quiet(s) /\ s.handlers[Vbl].type # "none"
  BY <1>1, ResetArms
<1> HIDE DEF s
<1>4. SameBut(s, sched, EventLoop) /\ sched.handlers[EventLoop].type # "none"
  BY <1>2, <1>3, ArmUsEffect, IdsAssumption, DelayAssumption
<1>5. TypeOK
  BY <1>4, SizeAssumption DEF SameBut, Init, TypeOK, Typed
<1> QED BY <1>3, <1>4, <1>5, IdsAssumption
        DEF SameBut, LatchInv, Quiet, Live, Alive, Kindred

\* A permanent timer in microseconds keeps its time, is called, or is reset.
KeepsTime(h) == sched.handlers[h].type = "us" =>
  sched'.handlers[h] = sched.handlers[h] \/ Call(h) \/ EventHandlerReset

LatchKept == /\ Matched(sched') /\ Live(sched', now') /\ Alive(sched')
             /\ KeepsTime(Vbl) /\ KeepsTime(EventLoop)

LEMMA LatchInvStep ==
  ASSUME LatchInv, [Next]_vars
  PROVE  LatchKept
<1> DEFINE s == AcknowledgeInterrupt(sched)
<1>0. /\ Typed(sched) /\ Matched(sched) /\ Live(sched, now) /\ Alive(sched)
      /\ now \in Nat /\ sched.active \in 0..N
      /\ Vbl \in Ids \ Devices /\ EventLoop \in Ids \ Devices /\ Vbl # EventLoop
      /\ Devices \subseteq Ids /\ Ids \subseteq 0..N
      /\ VblPeriod \in Int /\ EventPeriod \in Int /\ Quanta \subseteq Nat
  BY IdsAssumption, DelayAssumption, SizeAssumption
     DEF LatchInv, TypeOK, Typed, Sched, Devices, Ids
<1>a. SameBut(sched, s, sched.active)
  BY <1>0, DisarmEffect DEF AcknowledgeInterrupt
<1>b. ASSUME NEW h \in Ids, Call(h) PROVE sched.active = h /\ called' = h
  BY <1>0, <1>b DEF Call, Matched
<1> HIDE DEF s
<1>q. ASSUME Quiet(sched'), Alive(sched'), KeepsTime(Vbl), KeepsTime(EventLoop)
      PROVE  LatchKept
  BY <1>q DEF Quiet, Live, LatchKept
<1>1. ASSUME NEW c \in Quanta, Instruction(c) \/ InnerCycles(c)
      PROVE  LatchKept
  <2>1. sched' = AddCycles(sched, c, now) /\ now' = now /\ c \in Nat
    BY <1>0, <1>1 DEF Instruction, InnerCycles
  <2>2. /\ Matched(sched') /\ Live(sched', now)
        /\ sched'.handlers = sched.handlers
    BY <1>0, <2>1, AddCyclesLatches
  <2> QED BY <1>0, <2>1, <2>2 DEF Alive, KeepsTime, LatchKept
<1>2. CASE RegisterAccess
  <2>1. PICK h \in Devices : SameBut(sched, sched', h)
    BY <1>0, <1>2, DeviceCallQuiet DEF RegisterAccess
  <2> QED BY <1>0, <1>q, <2>1 DEF SameBut, Alive, Kindred, KeepsTime
<1>3. CASE VideoVbl
  <2>1. sched' = AddRelativeInterruptUs(s, now, VblPeriod, 0, Vbl)
    BY <1>3 DEF VideoVbl, s
  <2>2. SameBut(s, sched', Vbl) /\ sched'.handlers[Vbl].type # "none"
    BY <1>0, <1>a, <2>1, ArmUsEffect DEF SameBut
  <2>3. sched.active = Vbl /\ Call(Vbl) BY <1>0, <1>b, <1>3 DEF VideoVbl
  <2>4. Quiet(sched') /\ Alive(sched')
    BY <1>0, <1>a, <2>2, <2>3 DEF SameBut, Alive, Kindred
  <2>5. KeepsTime(Vbl) BY <2>3 DEF KeepsTime
  <2>6. KeepsTime(EventLoop)
    BY <1>0, <1>a, <2>2, <2>3 DEF SameBut, Kindred, KeepsTime
  <2> QED BY <1>q, <2>4, <2>5, <2>6
<1>4. CASE EventHandler
  <2>1. PICK body \in DeviceCalls(s, now) :
          sched' = AddRelativeInterruptUs(body, now, EventPeriod, 0, EventLoop)
    BY <1>4 DEF EventHandler, s
  <2>2. /\ Typed(body)
        /\ \A g \in Ids \ Devices : Kindred(body.handlers[g], s.handlers[g])
    BY <1>0, <1>a, <2>1, DeviceCallsQuiet DEF SameBut
  <2>3. /\ SameBut(body, sched', EventLoop)
        /\ sched'.handlers[EventLoop].type # "none"
    BY <1>0, <2>1, <2>2, ArmUsEffect
  <2>4. sched.active = EventLoop /\ Call(EventLoop)
    BY <1>0, <1>b, <1>4 DEF EventHandler
  <2>5. Quiet(sched') /\ Alive(sched')
    BY <1>0, <1>a, <2>2, <2>3, <2>4 DEF SameBut, Alive, Kindred
  <2>6. KeepsTime(EventLoop) BY <2>4 DEF KeepsTime
  <2>7. KeepsTime(Vbl)
    BY <1>0, <1>a, <2>2, <2>3, <2>4 DEF SameBut, Kindred, KeepsTime
  <2> QED BY <1>q, <2>5, <2>6, <2>7
<1>5. CASE EventHandlerReset
  <2> DEFINE q == Reset(s)
  <2>1. sched' = AddRelativeInterruptUs(q, 0, EventPeriod, 0, EventLoop)
    BY <1>5 DEF EventHandlerReset, s
  <2>2. Typed(q) /\ q.handlers[Vbl].type # "none"
    BY <1>a, ResetArms DEF SameBut, Typed, Sched
  <2> HIDE DEF q
  <2>3. EventLoop \in Ids BY <1>0
  <2>4. SameBut(q, sched', EventLoop) /\ sched'.handlers[EventLoop].type # "none"
    BY <1>0, <2>1, <2>2, <2>3, ArmUsEffect
  <2>5. Quiet(sched') /\ Alive(sched')
    BY <1>0, <2>2, <2>4 DEF SameBut, Alive, Kindred
  <2> QED BY <1>5, <1>q, <2>5 DEF KeepsTime
<1>6. ASSUME NEW h \in Devices, DeviceHandler(h)
      PROVE  LatchKept
  <2>1. sched' \in DeviceCalls(s, now) BY <1>6 DEF DeviceHandler, s
  <2>2. /\ Quiet(sched')
        /\ \A g \in Ids \ Devices : Kindred(sched'.handlers[g], s.handlers[g])
    BY <1>0, <1>a, <2>1, DeviceCallsQuiet DEF SameBut
  <2>3. sched.active = h BY <1>0, <1>b, <1>6 DEF DeviceHandler
  <2> QED BY <1>0, <1>a, <1>q, <2>2, <2>3 DEF SameBut, Alive, Kindred, KeepsTime
<1>7. CASE HostClock
  <2>1. sched' = sched /\ now' \in Nat /\ now' > now
    BY <1>0, <1>7, DelayAssumption DEF HostClock
  <2>2. sched.handlers[sched.active] \in Entry
    BY <1>0 DEF Typed, Sched
  <2>3. sched.handlers[sched.active].time \in Int BY <2>2 DEF Entry
  <2> QED BY <1>0, <2>1, <2>3 DEF Live, KeepsTime, LatchKept
<1>8. CASE UNCHANGED <<sched, now>>
  BY <1>0, <1>8 DEF KeepsTime, LatchKept
<1> QED BY <1>1, <1>2, <1>3, <1>4, <1>5, <1>6, <1>7, <1>8
        DEF Next, Dispatch, EndDispatch, vars

LEMMA LatchInvariant == Spec => []LatchInv
<1>1. Init => LatchInv BY LatchInvInit
<1>2. LatchInv /\ [Next]_vars => (Matched(sched) /\ Live(sched, now) /\ Alive(sched))'
  BY LatchInvStep DEF LatchKept
<1>3. Spec => []TypeOK BY TypeCorrect
<1>4. TypeOK /\ Matched(sched) /\ Live(sched, now) /\ Alive(sched) <=> LatchInv
  BY DEF LatchInv
<1> QED BY <1>1, <1>2, <1>3, <1>4, PTL DEF Spec

\* Both modes, any number of timers: a microsecond timer that is latched to be
\* served (CycInt_SetNewInterruptUs) is armed and has expired, whatever arms,
\* removes or resets timers between the latch and the call.
THEOREM LatchStaysLive == Spec => []LatchIsLive
<1>1. LatchInv => LatchIsLive
  BY DEF LatchInv, Matched, Live, LatchIsLive
<1> QED BY <1>1, LatchInvariant, PTL

\* Both modes: the handler that the dispatch loop is about to call belongs to
\* the active entry, which is armed, so that its acknowledgement, which drops
\* the active entry, drops its own and no other; and it is that of a timer of
\* microseconds only when that has expired.
CallsTheArmed ==
  IsDue(sched) => LET h == sched.pending.pFunction
                  IN  /\ h = sched.active
                      /\ sched.handlers[h].type # "none"
                      /\ sched.handlers[h].type = "us" => now > sched.handlers[h].time
THEOREM DispatchSound == Spec => []CallsTheArmed
<1>1. LatchInv => CallsTheArmed
  BY DEF LatchInv, Matched, Live, CallsTheArmed, IsDue
<1> QED BY <1>1, LatchInvariant, PTL

\* Both modes: vertical blank and event poll have an entry that is armed, in
\* cycles or in microseconds, between any two steps and after every reset.
PermanentEntries == /\ sched.handlers[Vbl].type # "none"
                    /\ sched.handlers[EventLoop].type # "none"
THEOREM NeverDisarmed == Spec => []PermanentEntries
<1>1. LatchInv => PermanentEntries
  BY DEF LatchInv, Alive, PermanentEntries
<1> QED BY <1>1, LatchInvariant, PTL

\* The host time for which vertical blank or event poll is armed (realtime mode)
\* changes in no step but its own handler's and the machine's reset: no device
\* can postpone or hasten it, by arming or removing its timers or by the updates
\* of the table that come with that.
PermanentTimesKept == [][KeepsTime(Vbl) /\ KeepsTime(EventLoop)]_vars
THEOREM TimesKept == Spec => PermanentTimesKept
<1>1. LatchInv /\ [Next]_vars => [KeepsTime(Vbl) /\ KeepsTime(EventLoop)]_vars
  BY LatchInvStep DEF LatchKept
<1> QED BY <1>1, LatchInvariant, PTL DEF Spec, PermanentTimesKept

-----------------------------------------------------------------------------
(***************************************************************************)
(* Cycle mode: the pending copy and the table stay in step, and the        *)
(* scheduler implements Timers. What each operation does is stated in the  *)
(* cycles every timer has left (Left), not in the table's numbers.         *)
(***************************************************************************)

\* A state in which a timer can be added: nothing is charged to it later.
Chargeable(s) == Typed(s) /\ (s.active = 0 => s.over = 0)

\* The state every operation that ends in CycInt_SetNewInterrupt leaves.
Settled(s) == /\ s.over = 0
              /\ s.active = LowestInterrupt(s.handlers)
              /\ s.pending = Pending(s.handlers, s.active)

\* From s to r only the timer h changes, and has d left from now.
Effect(s, r, h, d) == /\ Typed(r) /\ Settled(r)
                      /\ Left(r, h) = d
                      /\ \A g \in Ids \ {h} : Left(r, g) = Left(s, g)

LEMMA LeftType ==
  ASSUME NEW s, Typed(s), NEW h \in Ids
  PROVE  /\ s.handlers[h].type = "cpu" <=> Left(s, h) # Off
         /\ Left(s, h) \in Int \cup {Off}
<1>1. s.handlers[h] \in Entry /\ s.over \in Int
  BY SizeAssumption DEF Typed, Sched, Ids
<1>2. s.handlers[h].time - s.over \in Int
  BY <1>1 DEF Entry
<1> QED BY <1>2, OffAssumption DEF Left

LEMMA UpdateKeepsLeft ==
  ASSUME NEW s, Typed(s), NEW h \in Ids
  PROVE  Left(UpdateInterrupt(s), h) = Left(s, h)
<1>1. s \in Sched /\ h \in 0..N /\ s.handlers[h] \in Entry /\ s.over \in Int
  BY SizeAssumption DEF Typed, Sched, Ids
<1>2. /\ UpdateInterrupt(s).handlers[h] = Elapsed(s.handlers[h], s.over)
      /\ UpdateInterrupt(s).over = 0
  BY <1>1, UpdateFacts
<1>3. s.handlers[h].time \in Int BY <1>1 DEF Entry
<1> QED BY <1>1, <1>2, <1>3 DEF Left, Elapsed

LEMMA SettledBySetNew ==
  ASSUME NEW s \in Sched, s.over = 0
  PROVE  Settled(SetNewInterrupt(s))
BY SetNewFacts DEF Settled

LEMMA AddEffect ==
  ASSUME NEW s, Chargeable(s), NEW h \in Ids, NEW d \in Int
  PROVE  Effect(s, AddRelativeInterruptCycles(s, d, h), h, d)
<1> DEFINE u == UpdateIfActive(s)
           e == [type |-> "cpu", time |-> d]
           w == [u EXCEPT !.handlers[h] = e]
           r == SetNewInterrupt(w)
<1>1. Typed(u) /\ u.over = 0 /\ \A g \in Ids : Left(u, g) = Left(s, g)
  <2>1. s \in Sched /\ s.active \in Nat BY DEF Chargeable, Typed, Sched
  <2>2. CASE s.active > 0
    BY <2>1, <2>2, UpdateFacts, UpdateTyped, UpdateKeepsLeft
       DEF UpdateIfActive, Chargeable
  <2>3. CASE s.active = 0
    BY <2>3 DEF UpdateIfActive, Chargeable
  <2> QED BY <2>1, <2>2, <2>3
<1> HIDE DEF u
<1>2. e \in Entry /\ e.type = "cpu" /\ e.time = d BY DEF Entry, Types
<1> HIDE DEF e
<1>3. /\ Typed(w) /\ w \in Sched /\ w.over = 0
      /\ w.handlers = [u.handlers EXCEPT ![h] = e]
  BY <1>1, <1>2, WriteTyped
<1>4. u.handlers \in [0..N -> Entry] /\ Ids \subseteq 0..N
  BY <1>1, SizeAssumption DEF Typed, Sched, Ids
<1> HIDE DEF w
<1>5. r.handlers = w.handlers /\ r.over = 0 /\ r \in Sched
  BY <1>3, SetNewFacts
<1>6. Typed(r) /\ Settled(r)
  BY <1>3, <1>5, SettledBySetNew DEF Typed
<1> HIDE DEF r
<1>7. Left(r, h) = d
  <2>1. r.handlers[h] = e /\ r.over = 0 BY <1>3, <1>4, <1>5
  <2> QED BY <1>2, <2>1 DEF Left
<1>8. ASSUME NEW g \in Ids \ {h} PROVE Left(r, g) = Left(s, g)
  <2>1. r.handlers[g] = u.handlers[g] /\ r.over = u.over
    BY <1>1, <1>3, <1>4, <1>5
  <2>2. Left(r, g) = Left(u, g) BY <2>1 DEF Left
  <2> QED BY <2>2, <1>1
<1>9. AddRelativeInterruptCycles(s, d, h) = r
  BY DEF AddRelativeInterruptCycles, r, w, u, e
<1> QED BY <1>6, <1>7, <1>8, <1>9 DEF Effect

LEMMA DisableEffect ==
  ASSUME NEW s, Typed(s), NEW h \in Ids
  PROVE  Effect(s, Disable(s, h), h, Off)
<1> DEFINE u == UpdateInterrupt(s)
           e == [u.handlers[h] EXCEPT !.type = "none"]
           w == [u EXCEPT !.handlers[h] = e]
           r == SetNewInterrupt(w)
<1>1. Typed(u) /\ u.over = 0 /\ \A g \in Ids : Left(u, g) = Left(s, g)
  BY UpdateTyped, UpdateFacts, UpdateKeepsLeft DEF Typed
<1>2. Disable(s, h) = SetNewInterrupt([u EXCEPT !.handlers[h].type = "none"])
  BY DEF Disable
<1> HIDE DEF u
<1>3. u.handlers \in [0..N -> Entry] /\ Ids \subseteq 0..N
  BY <1>1, SizeAssumption DEF Typed, Sched, Ids
<1>4. e \in Entry /\ e.type = "none"
  BY <1>3 DEF Entry, Types
<1>5. [u EXCEPT !.handlers[h].type = "none"] = w
  BY <1>1, <1>3 DEF Typed, Sched
<1> HIDE DEF e
<1>6. /\ Typed(w) /\ w \in Sched /\ w.over = 0
      /\ w.handlers = [u.handlers EXCEPT ![h] = e]
  BY <1>1, <1>4, WriteTyped
<1> HIDE DEF w
<1>7. r.handlers = w.handlers /\ r.over = 0 /\ r \in Sched
  BY <1>6, SetNewFacts
<1>8. Typed(r) /\ Settled(r)
  BY <1>6, <1>7, SettledBySetNew DEF Typed
<1> HIDE DEF r
<1>9. Left(r, h) = Off
  BY <1>4, <1>6, <1>3, <1>7 DEF Left
<1>10. ASSUME NEW g \in Ids \ {h} PROVE Left(r, g) = Left(s, g)
  <2>1. r.handlers[g] = u.handlers[g] /\ r.over = u.over
    BY <1>1, <1>3, <1>6, <1>7
  <2>2. Left(r, g) = Left(u, g) BY <2>1 DEF Left
  <2> QED BY <2>2, <1>1
<1>11. Disable(s, h) = r
  BY <1>2, <1>5 DEF r
<1> QED BY <1>8, <1>9, <1>10, <1>11 DEF Effect

\* While any timer is armed, a settled state is in step.
LEMMA SettledInStep ==
  ASSUME NEW s, Typed(s), Settled(s), NEW h \in Ids, Left(s, h) # Off
  PROVE  InStep(s)
<1>1. s.handlers \in [0..N -> Entry] BY DEF Typed, Sched
<1>2. h \in CpuTimers(s.handlers) BY LeftType DEF CpuTimers
<1>3. s.active \in CpuTimers(s.handlers) /\ s.active # 0
  BY <1>1, <1>2, LowestIsFirst DEF Settled
<1>4. s.handlers[s.active].type = "cpu" /\ s.handlers[s.active].time \in Int
  BY <1>1, <1>3, SizeAssumption DEF CpuTimers, Entry, Ids
<1>5. s.pending = [type |-> "cpu", pFunction |-> s.active,
                   time |-> s.handlers[s.active].time]
  BY <1>4 DEF Settled, Pending
<1> QED BY <1>3, <1>4, <1>5 DEF Settled, InStep

LEMMA SettledChargeable ==
  ASSUME NEW s, Typed(s), Settled(s) PROVE Chargeable(s)
BY DEF Chargeable, Settled

LEMMA InStepChargeable ==
  ASSUME NEW s, Typed(s), InStep(s) PROVE Chargeable(s)
BY DEF Chargeable, InStep

-----------------------------------------------------------------------------
(***************************************************************************)
(* The calls of the handlers, in cycle mode.                               *)
(***************************************************************************)

LEMMA UsEffect ==
  ASSUME ~Realtime, NEW s, Chargeable(s), NEW h \in Ids, NEW t,
         NEW us \in Int, NEW usreal
  PROVE  Effect(s, AddRelativeInterruptUs(s, t, us, usreal, h), h, us * Freq)
<1>1. us * Freq \in Int BY DelayAssumption
<1> QED BY <1>1, AddEffect DEF AddRelativeInterruptUs

LEMMA AllDelaysType ==
  /\ AllDelays \subseteq Int
  /\ CycleDelays \subseteq AllDelays
  /\ VblPeriod * Freq \in AllDelays /\ EventPeriod * Freq \in AllDelays
  /\ \A us \in UsDelays : us * Freq \in AllDelays
<1>1. /\ Freq \in Int /\ VblPeriod \in Int /\ EventPeriod \in Int
      /\ CycleDelays \subseteq Int /\ UsDelays \subseteq Int
  BY DelayAssumption
<1>2. \A us \in UsDelays \cup {VblPeriod, EventPeriod} : us * Freq \in Int
  BY <1>1
<1> QED BY <1>1, <1>2 DEF AllDelays

LEMMA DeviceCallEffect ==
  ASSUME ~Realtime, NEW s, Chargeable(s), NEW t, NEW r \in DeviceCall(s, t)
  PROVE  \E h \in Devices, d \in AllDelays \cup {Off} : Effect(s, r, h, d)
<1>1. /\ CycleTimers \subseteq Devices /\ UsTimers \subseteq Devices
      /\ Removable \subseteq Devices /\ Devices \subseteq Ids
      /\ CycleDelays \subseteq Int /\ UsDelays \subseteq Int
  BY IdsAssumption, DelayAssumption DEF Devices
<1>2. CASE \E d \in CycleDelays, h \in CycleTimers :
             r = AddRelativeInterruptCycles(s, d, h)
  BY <1>1, <1>2, AddEffect, AllDelaysType
<1>3. CASE \E us \in UsDelays, usreal \in UsDelays \cup {0}, h \in UsTimers :
             r = AddRelativeInterruptUs(s, t, us, usreal, h)
  BY <1>1, <1>3, UsEffect, AllDelaysType
<1>4. CASE \E us \in UsDelays, usreal \in UsDelays \cup {0}, h \in CycleTimers :
             r = AddRelativeInterruptUsCycles(s, us, usreal, h)
  <2>1. PICK us \in UsDelays, usreal \in UsDelays \cup {0}, h \in CycleTimers :
             r = AddRelativeInterruptUsCycles(s, us, usreal, h)
    BY <1>4
  <2>2. r = AddRelativeInterruptCycles(s, us * Freq, h)
    BY <2>1 DEF AddRelativeInterruptUsCycles
  <2>3. us * Freq \in AllDelays /\ us * Freq \in Int BY AllDelaysType
  <2> QED BY <2>2, <2>3, <1>1, AddEffect
<1>5. CASE \E h \in Removable : r = RemovePendingInterrupt(s, h)
  BY <1>1, <1>5, DisableEffect DEF RemovePendingInterrupt, Chargeable
<1> QED BY <1>2, <1>3, <1>4, <1>5 DEF DeviceCall

\* The calls of a handler leave every timer armed from now, cancelled, or as
\* it was, and the permanent timers untouched.
Effects(s, r) ==
  /\ Chargeable(r)
  /\ r = s \/ Settled(r)
  /\ \A g \in Ids : \/ g \in Devices /\ Left(r, g) \in AllDelays \cup {Off}
                    \/ Left(r, g) = Left(s, g)

LEMMA OneCallEffects ==
  ASSUME ~Realtime, NEW s, Chargeable(s), NEW t, NEW r \in DeviceCall(s, t)
  PROVE  Effects(s, r)
<1>1. PICK h \in Devices, d \in AllDelays \cup {Off} : Effect(s, r, h, d)
  BY DeviceCallEffect
<1> QED BY <1>1, SettledChargeable DEF Effect, Effects

LEMMA DeviceCallsEffect ==
  ASSUME ~Realtime, NEW s, Chargeable(s), NEW t, NEW r \in DeviceCalls(s, t)
  PROVE  Effects(s, r)
<1>1. CASE r = s
  BY <1>1 DEF Effects
<1>2. CASE r \in DeviceCall(s, t)
  BY <1>2, OneCallEffects
<1>3. ASSUME NEW q \in DeviceCall(s, t), r \in DeviceCall(q, t)
      PROVE  Effects(s, r)
  <2>1. Effects(s, q) BY <1>3, OneCallEffects
  <2>2. Effects(q, r) /\ Settled(r)
    <3>1. Chargeable(q) BY <2>1 DEF Effects
    <3>2. PICK h \in Devices, d \in AllDelays \cup {Off} : Effect(q, r, h, d)
      BY <3>1, <1>3, DeviceCallEffect
    <3> QED BY <3>1, <3>2, <1>3, OneCallEffects DEF Effect
  <2> QED BY <2>1, <2>2 DEF Effects
<1> QED BY <1>1, <1>2, <1>3 DEF DeviceCalls

\* CycInt_Reset leaves nothing but the vertical blank, which Video_Reset arms.
LEMMA ResetEffect ==
  ASSUME ~Realtime, NEW s, s.pending \in Copy
  PROVE  /\ Typed(Reset(s)) /\ Settled(Reset(s))
         /\ Left(Reset(s), Vbl) = VblPeriod * Freq
         /\ \A g \in Ids \ {Vbl} : Left(Reset(s), g) = Off
<1> DEFINE z == ResetTable(s)
<1>1. Typed(z) BY ResetTyped
<1>2. z.active = 0 /\ z.over = 0 /\ \A g \in Ids : z.handlers[g] = None
  BY SizeAssumption DEF ResetTable, Ids
<1>3. \A g \in Ids : Left(z, g) = Off
  BY <1>2 DEF Left, None
<1>4. Chargeable(z) BY <1>1, <1>2 DEF Chargeable
<1> HIDE DEF z
<1>5. Vbl \in Ids /\ VblPeriod \in Int BY IdsAssumption, DelayAssumption
<1>6. Effect(z, AddRelativeInterruptUs(z, 0, VblPeriod, 0, Vbl), Vbl,
             VblPeriod * Freq)
  BY <1>4, <1>5, UsEffect
<1>7. Reset(s) = AddRelativeInterruptUs(z, 0, VblPeriod, 0, Vbl)
  BY DEF Reset, z
<1> QED BY <1>3, <1>6, <1>7 DEF Effect

\* Counting cycles moves every armed timer by the same amount.
LEMMA AddCyclesEffect ==
  ASSUME ~Realtime, NEW s, Typed(s), InStep(s), NEW c \in Nat, NEW t
  PROVE  /\ InStep(AddCycles(s, c, t))
         /\ \A h \in Ids : Left(AddCycles(s, c, t), h) =
              IF Left(s, h) # Off THEN Left(s, h) - c ELSE Off
<1> DEFINE r == AddCycles(s, c, t)
           a == s.active
<1>1. /\ s \in Sched /\ s.over \in Int /\ c \in Int /\ a \in 0..N
      /\ s.handlers \in [0..N -> Entry]
  BY DEF Typed, Sched
<1>2. \A h \in 0..N : s.handlers[h].time \in Int
  BY <1>1 DEF Entry
<1>3. /\ s.pending.type = "cpu" /\ s.pending.pFunction = a
      /\ s.pending.time = s.handlers[a].time - s.over
      /\ s.pending.time \in Int
  BY <1>1, <1>2 DEF InStep
<1> DEFINE x == [s EXCEPT !.over = @ + c,
                          !.pending.time = IF s.pending.type = "cpu"
                                           THEN @ - c ELSE @]
           p == [s.pending EXCEPT !.time = s.pending.time - c]
           o == s.over + c
<1>4. x = [s EXCEPT !.over = o, !.pending = p]
  BY <1>3 DEF Typed, Sched
<1>5. p = [type |-> "cpu", pFunction |-> a, time |-> s.pending.time - c]
  BY <1>3 DEF InStep
<1>6. o \in Int BY <1>1
<1> HIDE DEF p, o, x
<1>7. x.handlers = s.handlers /\ x.active = a /\ x.over = o /\ x.pending = p
  BY <1>4, <1>1 DEF Sched
<1>8. r = [x EXCEPT !.usCheck = @ - c] \/ r = [x EXCEPT !.usCheck = UsCheck]
  BY DEF AddCycles, x
<1>9. r.handlers = s.handlers /\ r.active = a /\ r.over = o /\ r.pending = p
  <2>1. DOMAIN x = {"handlers", "pending", "active", "over", "usCheck"}
    BY <1>4, <1>1 DEF Sched
  <2> QED BY <1>7, <1>8, <2>1
<1> HIDE DEF r
<1>10. s.pending.time - c = s.handlers[a].time - o
  BY <1>1, <1>2, <1>3 DEF o
<1>11. InStep(r)
  <2>1. a = LowestInterrupt(s.handlers) /\ a # 0 BY DEF InStep
  <2> QED BY <2>1, <1>5, <1>9, <1>10 DEF InStep
<1>12. ASSUME NEW h \in Ids
       PROVE  Left(r, h) = IF Left(s, h) # Off THEN Left(s, h) - c ELSE Off
  <2>1. h \in 0..N BY SizeAssumption DEF Ids
  <2>2. s.handlers[h].time - o = (s.handlers[h].time - s.over) - c
    BY <1>1, <1>2, <2>1 DEF o
  <2>3. s.handlers[h].time - s.over \in Int BY <1>1, <1>2, <2>1
  <2> QED BY <1>9, <2>2, <2>3, OffAssumption DEF Left
<1> QED BY <1>11, <1>12 DEF r

\* The entry that is called is used up and none is due longer.
LEMMA DueFacts ==
  ASSUME NEW s, Typed(s), InStep(s)
  PROVE  /\ s.active \in Ids /\ s.pending.pFunction = s.active
         /\ Left(s, s.active) # Off
         /\ Left(s, s.active) = s.pending.time
         /\ \A g \in Ids : Left(s, g) # Off =>
              /\ Left(s, g) \in Int
              /\ Left(s, s.active) <= Left(s, g)
<1> DEFINE a == s.active
<1>1. s.handlers \in [0..N -> Entry] /\ s.over \in Int /\ Ids \subseteq 0..N
  BY SizeAssumption DEF Typed, Sched, Ids
<1>2. CpuTimers(s.handlers) # {}
  BY <1>1, LowestIsFirst DEF InStep
<1>3. /\ a \in CpuTimers(s.handlers)
      /\ \A g \in CpuTimers(s.handlers) : Before(s.handlers, a, g)
  BY <1>1, <1>2, LowestIsFirst DEF InStep
<1>4. a \in Ids /\ s.handlers[a].type = "cpu" BY <1>3 DEF CpuTimers
<1>5. \A h \in Ids : s.handlers[h].time \in Int
  BY <1>1 DEF Entry
<1>6. Left(s, a) = s.handlers[a].time - s.over BY <1>4 DEF Left
<1>7. s.pending.pFunction = a /\ s.pending.time = s.handlers[a].time - s.over
  BY DEF InStep
<1>8. ASSUME NEW g \in Ids, Left(s, g) # Off
      PROVE  Left(s, g) \in Int /\ Left(s, a) <= Left(s, g)
  <2>1. g \in CpuTimers(s.handlers) /\ Left(s, g) = s.handlers[g].time - s.over
    BY <1>8, LeftType DEF CpuTimers, Left
  <2>2. s.handlers[a].time <= s.handlers[g].time
    BY <2>1, <1>3, <1>4, <1>5 DEF Before
  <2>3. /\ s.over \in Int /\ s.handlers[a].time \in Int
        /\ s.handlers[g].time \in Int
    BY <1>1, <1>4, <1>5
  <2>4. /\ s.handlers[g].time - s.over \in Int
        /\ s.handlers[a].time - s.over <= s.handlers[g].time - s.over
    BY <2>2, <2>3
  <2> QED BY <2>1, <2>4, <1>6
<1>9. Left(s, a) # Off BY <1>4, LeftType
<1> QED BY <1>4, <1>6, <1>7, <1>8, <1>9

-----------------------------------------------------------------------------
(***************************************************************************)
(* The steps, in cycle mode. The invariant adds to the types that the copy *)
(* is in step and that the two permanent timers are armed: without an      *)
(* armed timer a settled state has nothing to be in step with.             *)
(***************************************************************************)

Permanent(s) == Left(s, Vbl) # Off /\ Left(s, EventLoop) # Off
CInv == TypeOK /\ InStep(sched) /\ Permanent(sched)

\* A handler of h leaves every timer armed from now, cancelled, or untouched.
Moved(s, r, h) == \A g \in Ids : \/ Left(r, g) \in AllDelays \cup {Off}
                                 \/ g # h /\ Left(r, g) = Left(s, g)

\* What every step that is not the passing of time leaves.
Kept(s) == Typed(s) /\ Settled(s) /\ Permanent(s)

LEMMA KeptInStep == ASSUME NEW s, Kept(s) PROVE InStep(s)
BY SettledInStep, IdsAssumption DEF Kept, Permanent

\* The handler of the copy acknowledges: the timer is off, all others untouched.
LEMMA AcknowledgeEffect ==
  ASSUME CInv, IsDue(sched)
  PROVE  /\ Effect(sched, AcknowledgeInterrupt(sched), sched.active, Off)
         /\ Chargeable(AcknowledgeInterrupt(sched))
         /\ sched.pending.pFunction = sched.active
<1>1. Typed(sched) /\ InStep(sched) BY DEF CInv, TypeOK, Typed
<1>2. sched.active \in Ids /\ sched.pending.pFunction = sched.active
  BY <1>1, DueFacts
<1>3. Effect(sched, AcknowledgeInterrupt(sched), sched.active, Off)
  BY <1>1, <1>2, DisableEffect DEF AcknowledgeInterrupt
<1> QED BY <1>2, <1>3, SettledChargeable DEF Effect

LEMMA VideoVblStep ==
  ASSUME ~Realtime, CInv, VideoVbl
  PROVE  Kept(sched') /\ Moved(sched, sched', Vbl) /\ called' = Vbl
<1> DEFINE s == AcknowledgeInterrupt(sched)
<1>1. IsDue(sched) /\ sched.pending.pFunction = Vbl /\ called' = Vbl
      /\ sched' = AddRelativeInterruptUs(s, now, VblPeriod, 0, Vbl)
  BY DEF VideoVbl, Call
<1>2. Effect(sched, s, Vbl, Off) /\ Chargeable(s)
  BY <1>1, AcknowledgeEffect
<1> HIDE DEF s
<1>3. /\ Vbl \in Ids /\ EventLoop \in Ids \ {Vbl} /\ VblPeriod \in Int
      /\ VblPeriod * Freq \in AllDelays /\ AllDelays \subseteq Int
  BY IdsAssumption, DelayAssumption, AllDelaysType
<1>4. Effect(s, sched', Vbl, VblPeriod * Freq)
  BY <1>1, <1>2, <1>3, UsEffect
<1>5. Permanent(sched')
  BY <1>2, <1>3, <1>4, OffAssumption DEF Effect, CInv, Permanent
<1>6. Moved(sched, sched', Vbl)
  BY <1>2, <1>3, <1>4 DEF Effect, Moved
<1> QED BY <1>1, <1>4, <1>5, <1>6 DEF Effect, Kept

LEMMA EventHandlerStep ==
  ASSUME ~Realtime, CInv, EventHandler
  PROVE  Kept(sched') /\ Moved(sched, sched', EventLoop) /\ called' = EventLoop
<1> DEFINE s == AcknowledgeInterrupt(sched)
<1>1. /\ IsDue(sched) /\ sched.pending.pFunction = EventLoop
      /\ called' = EventLoop
      /\ \E body \in DeviceCalls(s, now) :
           sched' = AddRelativeInterruptUs(body, now, EventPeriod, 0, EventLoop)
  BY DEF EventHandler, Call
<1>2. Effect(sched, s, EventLoop, Off) /\ Chargeable(s)
  BY <1>1, AcknowledgeEffect
<1> HIDE DEF s
<1>3. /\ EventLoop \in Ids /\ Vbl \in Ids \ {EventLoop} /\ EventPeriod \in Int
      /\ EventPeriod * Freq \in AllDelays /\ AllDelays \subseteq Int
      /\ Devices = Ids \ {Vbl, EventLoop}
  BY IdsAssumption, DelayAssumption, AllDelaysType DEF Devices
<1>4. PICK body \in DeviceCalls(s, now) :
        sched' = AddRelativeInterruptUs(body, now, EventPeriod, 0, EventLoop)
  BY <1>1
<1>5. /\ Chargeable(body)
      /\ Left(body, Vbl) = Left(s, Vbl)
      /\ \A g \in Ids : \/ Left(body, g) \in AllDelays \cup {Off}
                        \/ Left(body, g) = Left(s, g)
  <2>1. Effects(s, body) BY <1>2, <1>4, DeviceCallsEffect
  <2> QED BY <2>1, <1>3 DEF Effects
<1>6. Effect(body, sched', EventLoop, EventPeriod * Freq)
  BY <1>3, <1>4, <1>5, UsEffect
<1>7. Permanent(sched')
  BY <1>2, <1>3, <1>5, <1>6, OffAssumption DEF Effect, CInv, Permanent
<1>8. Moved(sched, sched', EventLoop)
  BY <1>2, <1>3, <1>5, <1>6 DEF Effect, Moved
<1> QED BY <1>1, <1>6, <1>7, <1>8 DEF Effect, Kept

LEMMA EventHandlerResetStep ==
  ASSUME ~Realtime, CInv, EventHandlerReset
  PROVE  Kept(sched') /\ Moved(sched, sched', EventLoop) /\ called' = EventLoop
<1> DEFINE a == AcknowledgeInterrupt(sched)
           s == Reset(a)
<1>1. /\ IsDue(sched) /\ called' = EventLoop
      /\ sched' = AddRelativeInterruptUs(s, 0, EventPeriod, 0, EventLoop)
  BY DEF EventHandlerReset, Call
<1>2. a.pending \in Copy
  BY <1>1, AcknowledgeEffect DEF Effect, Typed, Sched
<1> HIDE DEF a
<1>3. /\ Typed(s) /\ Settled(s)
      /\ Left(s, Vbl) = VblPeriod * Freq
      /\ \A g \in Ids \ {Vbl} : Left(s, g) = Off
  BY <1>2, ResetEffect
<1> HIDE DEF s
<1>4. /\ EventLoop \in Ids /\ Vbl \in Ids \ {EventLoop} /\ EventPeriod \in Int
      /\ EventPeriod * Freq \in AllDelays /\ VblPeriod * Freq \in AllDelays
      /\ AllDelays \subseteq Int
  BY IdsAssumption, DelayAssumption, AllDelaysType
<1>5. Effect(s, sched', EventLoop, EventPeriod * Freq)
  BY <1>1, <1>3, <1>4, SettledChargeable, UsEffect
<1>6. Permanent(sched')
  BY <1>3, <1>4, <1>5, OffAssumption DEF Effect, Permanent
<1>7. Moved(sched, sched', EventLoop)
  BY <1>3, <1>4, <1>5 DEF Effect, Moved
<1> QED BY <1>1, <1>5, <1>6, <1>7 DEF Effect, Kept

LEMMA DeviceHandlerStep ==
  ASSUME ~Realtime, CInv, NEW h \in Devices, DeviceHandler(h)
  PROVE  Kept(sched') /\ Moved(sched, sched', h) /\ called' = h
<1> DEFINE s == AcknowledgeInterrupt(sched)
<1>1. /\ IsDue(sched) /\ sched.pending.pFunction = h /\ called' = h
      /\ sched' \in DeviceCalls(s, now)
  BY DEF DeviceHandler, Call
<1>2. Effect(sched, s, h, Off) /\ Chargeable(s)
  BY <1>1, AcknowledgeEffect
<1> HIDE DEF s
<1>3. h \in Ids /\ Vbl \in Ids \ Devices /\ EventLoop \in Ids \ Devices
  BY IdsAssumption DEF Devices
<1>4. CASE sched' = s
  BY <1>1, <1>2, <1>3, <1>4 DEF Effect, Kept, Moved, Permanent, CInv
<1>5. CASE Settled(sched')
  <2>1. Effects(s, sched') /\ Typed(sched')
    BY <1>1, <1>2, DeviceCallsEffect DEF Effects, Chargeable
  <2>2. Permanent(sched')
    BY <2>1, <1>2, <1>3 DEF Effect, Effects, Permanent, CInv
  <2>3. Moved(sched, sched', h)
    BY <2>1, <1>2, <1>3 DEF Effect, Effects, Moved
  <2> QED BY <2>1, <2>2, <2>3, <1>1, <1>5 DEF Kept
<1>6. sched' = s \/ Settled(sched')
  BY <1>1, <1>2, DeviceCallsEffect DEF Effects
<1> QED BY <1>1, <1>4, <1>5, <1>6

LEMMA RegisterAccessStep ==
  ASSUME ~Realtime, CInv, RegisterAccess
  PROVE  /\ Kept(sched')
         /\ \E h \in Ids, d \in AllDelays \cup {Off} :
              Effect(sched, sched', h, d)
<1>1. Typed(sched) /\ InStep(sched) BY DEF CInv, TypeOK, Typed
<1>2. PICK h \in Devices, d \in AllDelays \cup {Off} : Effect(sched, sched', h, d)
  BY <1>1, InStepChargeable, DeviceCallEffect DEF RegisterAccess
<1>3. h \in Ids /\ Vbl \in Ids \ Devices /\ EventLoop \in Ids \ Devices
  BY IdsAssumption DEF Devices
<1>4. Permanent(sched')
  BY <1>2, <1>3 DEF Effect, Permanent, CInv
<1> QED BY <1>2, <1>3, <1>4 DEF Effect, Kept

LEMMA ElapseStep ==
  ASSUME ~Realtime, CInv, NEW c \in Quanta, Instruction(c) \/ InnerCycles(c)
  PROVE  /\ InStep(sched') /\ Permanent(sched')
         /\ \A h \in Ids : Left(sched', h) =
              IF Left(sched, h) # Off THEN Left(sched, h) - c ELSE Off
<1>1. Typed(sched) /\ InStep(sched) BY DEF CInv, TypeOK, Typed
<1>2. sched' = AddCycles(sched, c, now) /\ c \in Nat
  BY DelayAssumption DEF Instruction, InnerCycles
<1>3. /\ InStep(sched')
      /\ \A h \in Ids : Left(sched', h) =
              IF Left(sched, h) # Off THEN Left(sched, h) - c ELSE Off
  BY <1>1, <1>2, AddCyclesEffect
<1>4. \A h \in Ids : Left(sched, h) # Off => Left(sched', h) \in Int
  <2>1. \A h \in Ids : Left(sched, h) \in Int \cup {Off} BY <1>1, LeftType
  <2> QED BY <2>1, <1>2, <1>3
<1> QED BY <1>3, <1>4, IdsAssumption, OffAssumption DEF CInv, Permanent

LEMMA InitKept == ~Realtime /\ Init => Kept(sched) /\ \A g \in Ids :
                    Left(sched, g) \in AllDelays \cup {Off}
<1> SUFFICES ASSUME ~Realtime, Init
             PROVE  Kept(sched) /\ \A g \in Ids :
                      Left(sched, g) \in AllDelays \cup {Off}
  OBVIOUS
<1> DEFINE z == [pending |-> [type |-> "none", time |-> 0, pFunction |-> 0]]
           s == Reset(z)
<1>1. z.pending \in Copy BY SizeAssumption DEF Copy, Types
<1>2. sched = AddRelativeInterruptUs(s, 0, EventPeriod, 0, EventLoop)
  BY DEF Init
<1> HIDE DEF z
<1>3. /\ Typed(s) /\ Settled(s)
      /\ Left(s, Vbl) = VblPeriod * Freq
      /\ \A g \in Ids \ {Vbl} : Left(s, g) = Off
  BY <1>1, ResetEffect
<1> HIDE DEF s
<1>4. /\ EventLoop \in Ids /\ Vbl \in Ids \ {EventLoop} /\ EventPeriod \in Int
      /\ EventPeriod * Freq \in AllDelays /\ VblPeriod * Freq \in AllDelays
      /\ AllDelays \subseteq Int
  BY IdsAssumption, DelayAssumption, AllDelaysType
<1>5. Effect(s, sched, EventLoop, EventPeriod * Freq)
  BY <1>2, <1>3, <1>4, SettledChargeable, UsEffect
<1> QED BY <1>3, <1>4, <1>5, OffAssumption DEF Effect, Permanent, Kept

LEMMA CInvStep ==
  ASSUME ~Realtime, CInv, [Next]_vars PROVE InStep(sched)' /\ Permanent(sched)'
<1>1. ASSUME NEW c \in Quanta, Instruction(c) \/ InnerCycles(c)
      PROVE  InStep(sched') /\ Permanent(sched')
  BY <1>1, ElapseStep
<1>2. CASE RegisterAccess
  BY <1>2, RegisterAccessStep, KeptInStep DEF Kept
<1>3. CASE VideoVbl
  BY <1>3, VideoVblStep, KeptInStep DEF Kept
<1>4. CASE EventHandler
  BY <1>4, EventHandlerStep, KeptInStep DEF Kept
<1>5. CASE EventHandlerReset
  BY <1>5, EventHandlerResetStep, KeptInStep DEF Kept
<1>6. ASSUME NEW h \in Devices, DeviceHandler(h)
      PROVE  InStep(sched') /\ Permanent(sched')
  BY <1>6, DeviceHandlerStep, KeptInStep DEF Kept
<1>7. CASE UNCHANGED sched
  BY <1>7 DEF CInv, InStep, Permanent, Left
<1> QED BY <1>1, <1>2, <1>3, <1>4, <1>5, <1>6, <1>7
        DEF Next, Dispatch, EndDispatch, HostClock, vars

LEMMA CycleInvariant == ASSUME ~Realtime PROVE Spec => []CInv
<1>1. Init => InStep(sched) /\ Permanent(sched)
  BY InitKept, KeptInStep DEF Kept
<1>2. CInv /\ [Next]_vars => InStep(sched)' /\ Permanent(sched)'
  BY CInvStep
<1>3. Spec => []TypeOK BY TypeCorrect
<1>4. TypeOK /\ InStep(sched) /\ Permanent(sched) <=> CInv BY DEF CInv
<1>5. InStep(sched)' /\ Permanent(sched)' <=> (InStep(sched) /\ Permanent(sched))'
  OBVIOUS
<1> QED BY <1>1, <1>2, <1>3, <1>4, PTL DEF Spec

\* Cycle mode, any number of timers: the copy the processor counts down is
\* the entry that is due first and agrees with the table about when that is.
THEOREM CopyInStep == ASSUME ~Realtime PROVE Spec => []PendingInStep
<1>1. CInv => PendingInStep BY DEF CInv, PendingInStep
<1> QED BY <1>1, CycleInvariant, PTL

\* Cycle mode: no device and no reset disarms vertical blank or event poll.
THEOREM PermanentArmed == ASSUME ~Realtime PROVE Spec => []PermanentTimersArmed
<1>1. CInv => PermanentTimersArmed
  <2> SUFFICES ASSUME CInv PROVE PermanentTimersArmed OBVIOUS
  <2>1. Typed(sched) BY DEF CInv, TypeOK, Typed
  <2> QED BY <2>1, LeftType, IdsAssumption
          DEF CInv, Permanent, PermanentTimersArmed
<1> QED BY <1>1, CycleInvariant, PTL

-----------------------------------------------------------------------------
(***************************************************************************)
(* The refinement.                                                         *)
(***************************************************************************)

LEMMA FireStep ==
  ASSUME CInv, NEW h \in Ids, IsDue(sched), sched.pending.pFunction = h,
         called' = h, Kept(sched'), Moved(sched, sched', h)
  PROVE  T!Fire(h)
<1>1. Typed(sched) /\ InStep(sched) /\ Typed(sched')
  BY DEF CInv, TypeOK, Typed, Kept
<1>2. /\ Left(sched, h) # Off /\ Left(sched, h) <= 0
      /\ \A g \in Ids : Left(sched, g) # Off => Left(sched, h) <= Left(sched, g)
  BY <1>1, DueFacts DEF IsDue
<1>3. \A g \in Ids : Left(sched', g) \in Int \cup {Off}
  BY <1>1, LeftType
<1> DEFINE f == [g \in Ids |-> Left(sched', g)]
<1>4. f \in [Ids -> Int \cup {Off}] BY <1>3
<1>5. [g \in Ids |-> Left(sched, g)]' = f OBVIOUS
<1> QED BY <1>2, <1>4 DEF T!Fire, T!Armed, Moved

\* Every step of the scheduler is a step of the timers, or none.
LEMMA StepImplements ==
  ASSUME ~Realtime, CInv, [Next]_vars PROVE [T!Next]_(T!vars)
<1>0. /\ Typed(sched) /\ InStep(sched)
      /\ Vbl \in Ids /\ EventLoop \in Ids /\ Devices \subseteq Ids
  BY IdsAssumption DEF CInv, TypeOK, Typed, Devices
<1>1. ASSUME NEW c \in Quanta, Instruction(c) \/ InnerCycles(c)
      PROVE  T!Elapse(c)
  <2>1. called' = 0 BY <1>1 DEF Instruction, InnerCycles
  <2> QED BY <1>1, <2>1, ElapseStep DEF T!Elapse, T!Armed
<1>2. CASE RegisterAccess
  <2>1. PICK h \in Ids, d \in AllDelays \cup {Off} : Effect(sched, sched', h, d)
    BY <1>2, RegisterAccessStep
  <2>2. called' = called BY <1>2 DEF RegisterAccess
  <2>3. T!Set(h) BY <2>1, <2>2 DEF T!Set, Effect
  <2> QED BY <2>3 DEF T!Next
<1>3. CASE VideoVbl
  BY <1>0, <1>3, VideoVblStep, FireStep DEF VideoVbl, Call, T!Next
<1>4. CASE EventHandler
  BY <1>0, <1>4, EventHandlerStep, FireStep DEF EventHandler, Call, T!Next
<1>5. CASE EventHandlerReset
  BY <1>0, <1>5, EventHandlerResetStep, FireStep
     DEF EventHandlerReset, Call, T!Next
<1>6. ASSUME NEW h \in Devices, DeviceHandler(h) PROVE T!Fire(h)
  BY <1>0, <1>6, DeviceHandlerStep, FireStep DEF DeviceHandler, Call
<1>7. CASE EndDispatch
  <2>1. ~(sched.pending.time <= 0) /\ sched' = sched /\ called' = 0
    BY <1>7, <1>0, DueFacts, SizeAssumption DEF EndDispatch, IsDue, Ids
  <2>2. sched.active \in Ids /\ Left(sched, sched.active) \in Int
    BY <1>0, DueFacts
  <2>3. \A g \in Ids : Left(sched, g) # Off => Left(sched, g) > 0
    BY <2>1, <2>2, <1>0, DueFacts
  <2>4. T!Resume BY <2>1, <2>3 DEF T!Resume, T!Armed
  <2> QED BY <2>4 DEF T!Next
<1>8. CASE UNCHANGED <<sched, called>>
  BY <1>8 DEF T!vars
<1> QED BY <1>0, <1>1, <1>2, <1>3, <1>4, <1>5, <1>6, <1>7, <1>8
        DEF Next, Dispatch, HostClock, vars, T!Next

\* Cycle mode, any number of timers and any delays: the table, the copy and
\* the lazy counter together behave as independent timers, none of them early
\* and none overtaken by one with a later deadline.
THEOREM ImplementsTimers == ASSUME ~Realtime PROVE Spec => TimersSpec
<1>1. Init => T!Init
  <2> SUFFICES ASSUME Init PROVE T!Init OBVIOUS
  <2>1. \A g \in Ids : Left(sched, g) \in AllDelays \cup {Off} BY InitKept
  <2> QED BY <2>1 DEF T!Init, Init
<1>2. CInv /\ [Next]_vars => [T!Next]_(T!vars)
  BY StepImplements
<1> QED BY <1>1, <1>2, CycleInvariant, PTL DEF Spec, TimersSpec, T!Spec
=============================================================================
