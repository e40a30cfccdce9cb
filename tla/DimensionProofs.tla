-------------------------- MODULE DimensionProofs --------------------------
(***************************************************************************)
(* Theorems about module Dimension: types, that the i860 runs only after a *)
(* reset, that a board goes only after its thread, and that the port is a  *)
(* Mailbox.                                                                *)
(***************************************************************************)
EXTENDS Dimension, SequenceTheorems, TLAPS

M68kPlaces == Places \cup {"idle", "join"}
I860Places == Places \cup {"loop", "blank", "blanking", "showing", "blanked",
                           "visible", "mask", "dispatch", "check", "run", "ended"}

\* Where each thread can be, and what it has in hand there.
PlacesOK == /\ pc["m68k"] \in M68kPlaces /\ pc["i860"] \in I860Places
            /\ \A t \in Threads : pc[t] \in {"load", "cas"} => todo[t] # <<>>
            /\ pc["i860"] \notin Places => store["i860"] = Nothing
            /\ pc["i860"] \in {"blanked", "visible"} => seen["i860"] \in SUBSET Bits

\* Until its first reset the thread has it in the port or in hand.
HandlesReset ==
  \/ ready
  \/ pc["i860"] = "ended"
  \/ pc["i860"] = "loop" /\ "reset" \in m_port
  \/ /\ pc["i860"] \in {"blank", "blanking", "showing", "blanked", "visible", "mask",
                       "dispatch"} \cup Places
     /\ store["i860"] = Nothing
     /\ "reset" \in taken

\* A thread that has ended was told to, and a board goes only after it.
Ending == /\ pc["i860"] = "ended" => "kill" \in taken
          /\ board = "absent" => pc["i860"] = "ended"

IInv == TypeOK /\ PlacesOK /\ HandlesReset /\ Ending

-----------------------------------------------------------------------------
\* The messages of a write of csr0 are messages.
LEMMA Csr0MessagesType ==
  ASSUME NEW v \in SUBSET Bits
  PROVE  Csr0Messages(v) \in Seq(Messages)
  <1> DEFINE first == IF "reset" \in v THEN <<"reset">> ELSE <<>>
             second == IF "int" \in v THEN <<"intr">> ELSE <<>>
  <1>1. /\ <<>> \in Seq(Messages) /\ <<"reset">> \in Seq(Messages)
        /\ <<"intr">> \in Seq(Messages)
    BY DEF Messages
  <1>2. first \in Seq(Messages) /\ second \in Seq(Messages)
    BY <1>1
  <1> HIDE DEF first, second
  <1>3. first \o second \in Seq(Messages)
    BY <1>2, ConcatProperties
  <1> QED BY <1>3 DEF Csr0Messages, first, second

\* What remains of a sequence of messages after its first.
LEMMA TailType ==
  ASSUME NEW s \in Seq(Messages), s # <<>>
  PROVE  /\ Head(s) \in Messages
         /\ Tail(s) \in Seq(Messages)
         /\ Len(s) # 1 => Tail(s) # <<>>
  <1>1. /\ Head(s) \in Messages /\ Tail(s) \in Seq(Messages)
        /\ Len(Tail(s)) = Len(s) - 1 /\ Len(s) \in Nat
    BY HeadTailProperties, LenProperties
  <1>2. Tail(s) = <<>> <=> Len(Tail(s)) = 0
    BY <1>1, EmptySeq
  <1> QED BY <1>1, <1>2

\* What a thread can hold.
LEMMA HeldType ==
  /\ {} \in Loads /\ Nothing \in Stores
  /\ SUBSET Messages \subseteq Loads /\ SUBSET Bits \subseteq Loads
  /\ SUBSET Bits \subseteq Stores
  /\ \A x \in Stores : x # Nothing => x \in SUBSET Bits
  <1>1. {} \in SUBSET Bits
    OBVIOUS
  <1>2. /\ {} \in Loads /\ SUBSET Messages \subseteq Loads /\ SUBSET Bits \subseteq Loads
    BY <1>1, Zenon DEF Loads
  <1>3. Nothing \in Stores /\ SUBSET Bits \subseteq Stores
    BY Zenon DEF Stores
  <1>4. \A x \in Stores : x # Nothing => x \in SUBSET Bits
    BY Zenon DEF Stores
  <1> QED BY <1>1, <1>2, <1>3, <1>4

LEMMA InitIInv == Init => IInv
  <1> SUFFICES ASSUME Init PROVE IInv
    OBVIOUS
  <1> USE DEF Init, Threads
  <1>0. <<>> \in Seq(Messages)
    OBVIOUS
  <1>1. TypeOK
    BY <1>0, HeldType DEF TypeOK, Messages, Bits, Places
  <1>2. PlacesOK
    BY DEF PlacesOK, M68kPlaces, I860Places
  <1> QED BY <1>1, <1>2 DEF IInv, HandlesReset, Ending

-----------------------------------------------------------------------------
\* Sending preserves the invariant, whichever thread sends.
LEMMA SendingKeeps ==
  ASSUME IInv, NEW t \in Threads, Sending(t)
  PROVE  IInv'
  <1> USE DEF IInv, Threads
  <1>1. CASE LoadPort(t)
    <2>1. TypeOK'
      BY <1>1, HeldType DEF LoadPort, TypeOK, Places, i860, registers
    <2>2. PlacesOK'
      BY <1>1 DEF LoadPort, TypeOK, PlacesOK, Places, M68kPlaces, I860Places
    <2> QED
      BY <1>1, <2>1, <2>2 DEF LoadPort, TypeOK, HandlesReset, Ending, Places, i860
  <1>2. CASE CasPort(t)
    <2>1. todo[t] \in Seq(Messages) /\ todo[t] # <<>>
      BY <1>2 DEF CasPort, TypeOK, PlacesOK
    <2>2. Head(todo[t]) \in Messages /\ Tail(todo[t]) \in Seq(Messages)
          /\ (Len(todo[t]) # 1 => Tail(todo[t]) # <<>>)
      BY <2>1, TailType
    <2>3. TypeOK'
      BY <1>2, <2>2, HeldType DEF CasPort, TypeOK, Places, i860, registers
    <2>4. PlacesOK'
      BY <1>2, <2>2, HeldType DEF CasPort, TypeOK, PlacesOK, Places, M68kPlaces, I860Places
    <2> QED
      BY <1>2, <2>3, <2>4 DEF CasPort, TypeOK, HandlesReset, Ending, Places, i860
  <1>3. CASE CasFails(t)
    <2>1. TypeOK'
      BY <1>3, HeldType DEF CasFails, TypeOK, Places, i860, registers
    <2>2. PlacesOK'
      BY <1>3, HeldType DEF CasFails, TypeOK, PlacesOK, Places, M68kPlaces, I860Places
    <2> QED
      BY <1>3, <2>1, <2>2 DEF CasFails, TypeOK, HandlesReset, Ending, Places, i860
  <1>4. CASE Sent(t)
    <2>0. csr0' \in SUBSET Bits
      BY <1>4, HeldType DEF Sent, Stored, TypeOK
    <2>a. After(t) \in {"join", "idle", "run", "dispatch"}
      BY DEF After
    <2>1. TypeOK'
      BY <1>4, <2>0, <2>a, HeldType DEF Sent, TypeOK, Places, i860
    <2>2. PlacesOK'
      BY <1>4 DEF Sent, After, TypeOK, PlacesOK, Places, M68kPlaces, I860Places
    <2> QED
      BY <1>4, <2>1, <2>2 DEF Sent, After, TypeOK, HandlesReset, Ending, Places, i860
  <1> QED BY <1>1, <1>2, <1>3, <1>4 DEF Sending

\* So does a write of csr0, from wherever a thread may write.
LEMMA WriteKeeps ==
  ASSUME IInv, NEW t \in Threads, NEW v \in Writes, Csr0Write(t, v),
         t = "m68k" => board = "present",
         t = "i860" => pc["i860"] = "run"
  PROVE  IInv'
  <1> USE DEF IInv, Threads
  <1>1. v \in SUBSET Bits /\ Csr0Messages(v) \in Seq(Messages)
    BY WritesAssumption, Csr0MessagesType
  <1>2. TypeOK'
    BY <1>1, HeldType DEF Csr0Write, Send, TypeOK, Places, i860, registers
  <1>3. PlacesOK'
    BY <1>1, HeldType DEF Csr0Write, Send, TypeOK, PlacesOK, Places, M68kPlaces, I860Places
  <1> QED BY <1>2, <1>3 DEF Csr0Write, Send, TypeOK, HandlesReset, Ending, Places, i860

-----------------------------------------------------------------------------
LEMMA EmulationKeeps ==
  ASSUME IInv, Emulation
  PROVE  IInv'
  <1> USE DEF IInv, Threads
  <1>m. \A m \in Messages : <<m>> \in Seq(Messages)
    OBVIOUS
  <1>1. ASSUME NEW v \in Writes, GuestWrite(v) PROVE IInv'
    BY <1>1, WriteKeeps DEF GuestWrite, Idle
  <1>2. CASE HostBlank
    <2>1. <<"blank">> \in Seq(Messages) /\ <<"blank">> # <<>>
      BY <1>m DEF Messages
    <2>b. blank' \in BOOLEAN
      BY <1>2, Zenon DEF HostBlank
    <2>2. TypeOK'
      BY <1>2, <2>1, <2>b, HeldType DEF HostBlank, Send, TypeOK, Places, i860
    <2>3. PlacesOK'
      BY <1>2, <2>1 DEF HostBlank, Send, TypeOK, PlacesOK, Places, M68kPlaces, I860Places
    <2> QED
      BY <1>2, <2>2, <2>3 DEF HostBlank, Send, TypeOK, HandlesReset, Ending, i860
  <1>3. CASE Pause
    <2>1. TypeOK'
      BY <1>3 DEF Pause, TypeOK, registers, threads
    <2> QED BY <1>3, <2>1 DEF Pause, PlacesOK, HandlesReset, Ending, threads
  <1>4. CASE UnPause
    <2>1. TypeOK'
      BY <1>4 DEF UnPause, TypeOK, registers, threads
    <2> QED BY <1>4, <2>1 DEF UnPause, PlacesOK, HandlesReset, Ending, threads
  <1>5. CASE Remove
    <2>1. <<"kill">> \in Seq(Messages) /\ <<"kill">> # <<>>
      BY <1>m DEF Messages
    <2>2. TypeOK'
      BY <1>5, <2>1, HeldType DEF Remove, Send, TypeOK, Places, registers
    <2>3. PlacesOK'
      BY <1>5, <2>1, HeldType DEF Remove, Send, TypeOK, PlacesOK, Places, M68kPlaces, I860Places
    <2> QED BY <1>5, <2>2, <2>3 DEF Remove, Send, TypeOK, HandlesReset, Ending
  <1>6. CASE Removed
    <2>1. TypeOK'
      BY <1>6 DEF Removed, TypeOK, Places, i860, registers
    <2>2. PlacesOK'
      BY <1>6 DEF Removed, TypeOK, PlacesOK, M68kPlaces, I860Places
    <2> QED BY <1>6, <2>1, <2>2 DEF Removed, TypeOK, HandlesReset, Ending, i860
  <1>7. CASE Insert
    <2>1. TypeOK'
      BY <1>7 DEF Insert, TypeOK, Places, Messages
    <2>2. PlacesOK'
      BY <1>7 DEF Insert, TypeOK, PlacesOK, Ending, Places, M68kPlaces, I860Places
    <2> QED BY <1>7, <2>1, <2>2 DEF Insert, TypeOK, HandlesReset, Ending
  <1> QED BY <1>1, <1>2, <1>3, <1>4, <1>5, <1>6, <1>7 DEF Emulation

-----------------------------------------------------------------------------
LEMMA ThreadKeeps ==
  ASSUME IInv, Thread \/ RunEnd
  PROVE  IInv'
  <1> USE DEF IInv, Threads
  <1>1. CASE Take
    <2>1. TypeOK'
      BY <1>1 DEF Take, Goto, TypeOK, Places, i860, registers
    <2>2. PlacesOK'
      BY <1>1 DEF Take, Goto, TypeOK, PlacesOK, Places, M68kPlaces, I860Places
    <2>3. HandlesReset'
      BY <1>1 DEF Take, Goto, TypeOK, PlacesOK, Places, HandlesReset, i860
    <2> QED BY <1>1, <2>1, <2>2, <2>3 DEF Take, Goto, TypeOK, Ending
  <1>0. CASE BlankState
    <2>1. TypeOK'
      BY <1>0 DEF BlankState, Goto, TypeOK, Places, i860, registers
    <2>2. PlacesOK'
      BY <1>0 DEF BlankState, Goto, TypeOK, PlacesOK, Places, M68kPlaces, I860Places
    <2> QED BY <1>0, <2>1, <2>2 DEF BlankState, Goto, TypeOK, HandlesReset, Ending, i860, Places
  <1>2. CASE BlankLoad
    <2>0. /\ csr0 \cup {"vint", "vblank"} \in SUBSET Bits
          /\ csr0 \ {"vblank"} \in SUBSET Bits
      BY DEF TypeOK, Bits
    <2>1. TypeOK'
      BY <1>2, <2>0, HeldType DEF BlankLoad, Goto, TypeOK, Places, i860, registers
    <2>2. PlacesOK'
      BY <1>2, <2>0 DEF BlankLoad, Goto, TypeOK, PlacesOK, Places, M68kPlaces, I860Places
    <2> QED BY <1>2, <2>1, <2>2 DEF BlankLoad, Goto, TypeOK, HandlesReset, Ending, i860, Places
  <1>3. CASE BlankStore
    <2>1. TypeOK'
      BY <1>3, HeldType DEF BlankStore, Goto, TypeOK, PlacesOK, Places, i860
    <2>2. PlacesOK'
      BY <1>3, HeldType DEF BlankStore, Goto, TypeOK, PlacesOK, Places, M68kPlaces, I860Places
    <2> QED BY <1>3, <2>1, <2>2 DEF BlankStore, Goto, TypeOK, HandlesReset, Ending, i860, Places
  <1>4. CASE BlankMask
    <2>0. <<"intr">> \in Seq(Messages) /\ <<"intr">> # <<>>
      BY DEF Messages
    <2>3. \/ Send("i860", <<"intr">>, Nothing)
          \/ Goto("dispatch") /\ UNCHANGED <<todo, store>>
      BY <1>4 DEF BlankMask
    <2>4. /\ todo' \in [Threads -> Seq(Messages)] /\ store' \in [Threads -> Stores]
          /\ pc' = [pc EXCEPT !["i860"] = "load"] \/ pc' = [pc EXCEPT !["i860"] = "dispatch"]
      <3>1. CASE Send("i860", <<"intr">>, Nothing)
        BY <2>0, <3>1, HeldType DEF Send, TypeOK
      <3>2. CASE Goto("dispatch") /\ UNCHANGED <<todo, store>>
        BY <3>2 DEF Goto, TypeOK
      <3> QED BY <2>3, <3>1, <3>2
    <2>1. TypeOK'
      BY <1>4, <2>4, HeldType DEF BlankMask, TypeOK, Places, i860, registers
    <2>2. PlacesOK'
      BY <1>4, <2>0, <2>3, HeldType DEF BlankMask, Send, Goto, TypeOK, PlacesOK, Places, M68kPlaces, I860Places
    <2> QED BY <1>4, <2>0, <2>3, <2>1, <2>2 DEF BlankMask, Send, Goto, TypeOK, PlacesOK, HandlesReset, Ending, i860, Places
  <1>5. CASE Dispatch
    <2>0. ext' \in BOOLEAN /\ ready' \in BOOLEAN /\ m_halt' \in BOOLEAN
      BY <1>5, Zenon DEF Dispatch, TypeOK, i860
    <2>1. TypeOK'
      BY <1>5, <2>0 DEF Dispatch, Goto, TypeOK, Places, registers
    <2>2. PlacesOK'
      BY <1>5 DEF Dispatch, Goto, TypeOK, PlacesOK, Places, M68kPlaces, I860Places
    <2> QED BY <1>5, <2>1, <2>2 DEF Dispatch, Goto, TypeOK, PlacesOK, HandlesReset, Ending, i860, Places
  <1>6. CASE Check
    <2>1. TypeOK'
      BY <1>6 DEF Check, Goto, TypeOK, Places, i860, registers
    <2>2. PlacesOK'
      BY <1>6 DEF Check, Goto, TypeOK, PlacesOK, Places, M68kPlaces, I860Places
    <2> QED BY <1>6, <2>1, <2>2 DEF Check, Goto, TypeOK, HandlesReset, Ending, i860, Places
  <1>7. CASE RunInterrupt
    <2>1. TypeOK'
      BY <1>7 DEF RunInterrupt, TypeOK, registers, threads
    <2> QED BY <1>7, <2>1 DEF RunInterrupt, PlacesOK, HandlesReset, Ending, threads
  <1>8. ASSUME NEW v \in Writes, RunWrite(v) PROVE IInv'
    BY <1>8, WriteKeeps DEF RunWrite
  <1>9. CASE RunEnd
    <2>1. TypeOK'
      BY <1>9 DEF RunEnd, Goto, TypeOK, Places, i860, registers
    <2>2. PlacesOK'
      BY <1>9 DEF RunEnd, Goto, TypeOK, PlacesOK, Places, M68kPlaces, I860Places
    <2> QED BY <1>9, <2>1, <2>2 DEF RunEnd, Goto, TypeOK, HandlesReset, Ending, i860, Places
  <1> QED BY <1>0, <1>1, <1>2, <1>3, <1>4, <1>5, <1>6, <1>7, <1>8, <1>9 DEF Thread

LEMMA StutterKeeps ==
  ASSUME IInv, UNCHANGED vars
  PROVE  IInv'
  BY DEF IInv, vars, TypeOK, PlacesOK, HandlesReset, Ending, i860, registers, threads

LEMMA NextKeeps ==
  ASSUME IInv, [Next]_vars
  PROVE  IInv'
  BY SendingKeeps, EmulationKeeps, ThreadKeeps, StutterKeeps DEF Next

LEMMA IInvHolds == Spec => []IInv
  <1>1. Init => IInv
    BY InitIInv
  <1>2. IInv /\ [Next]_vars => IInv'
    BY NextKeeps
  <1> QED BY <1>1, <1>2, PTL DEF Spec

-----------------------------------------------------------------------------
\* Every variable keeps its type, for every set of values written to csr0.
THEOREM TypeCorrect == Spec => []TypeOK
  <1>1. IInv => TypeOK
    BY DEF IInv
  <1> QED BY <1>1, IInvHolds, PTL

\* The i860 executes instructions only after its reset (i860_cpu_device::run).
THEOREM RunsOnlyAfterReset == Spec => []NotBeforeReset
  <1>1. IInv => NotBeforeReset
    BY DEF IInv, NotBeforeReset, HandlesReset, Places
  <1> QED BY <1>1, IInvHolds, PTL

\* A board that is gone has no thread (i860_cpu_device::uninit).
THEOREM RemovedWithoutThread == Spec => []RemovedMeansEnded
  <1>1. IInv => RemovedMeansEnded
    BY DEF IInv, RemovedMeansEnded, Ending
  <1> QED BY <1>1, IInvHolds, PTL

-----------------------------------------------------------------------------
\* Every step of the board is a step of the mailbox or leaves it alone.
LEMMA PortStep ==
  ASSUME IInv, [Next]_vars
  PROVE  [Port!Next]_(Port!box)
  <1> USE DEF Port!box, Port!Next
  <1>1. ASSUME NEW t \in Threads, CasPort(t) PROVE \E m \in Messages : Port!Put(m)
    <2>1. todo[t] \in Seq(Messages) /\ todo[t] # <<>>
      BY <1>1 DEF CasPort, IInv, TypeOK, PlacesOK
    <2>2. Head(todo[t]) \in Messages
      BY <2>1, TailType
    <2>3. Port!Put(Head(todo[t]))
      BY <1>1 DEF CasPort, Port!Put
    <2> QED BY <2>2, <2>3
  <1>2. CASE Take
    BY <1>2 DEF Take, Port!Take
  <1>3. CASE Insert
    BY <1>3 DEF Insert, IInv, Ending, Port!New
  <1>4. ASSUME NEW t \in Threads, NEW v \in Writes, Csr0Write(t, v)
        PROVE  UNCHANGED <<m_port, taken>>
    BY <1>4 DEF Csr0Write
  <1>5. ASSUME NEW t \in Threads, LoadPort(t) \/ CasFails(t) \/ Sent(t)
        PROVE  UNCHANGED <<m_port, taken>>
    BY <1>5 DEF LoadPort, CasFails, Sent
  <1>6. CASE HostBlank \/ Pause \/ UnPause \/ Remove \/ Removed
    BY <1>6 DEF HostBlank, Pause, UnPause, Remove, Removed
  <1>7. CASE BlankState \/ BlankLoad \/ BlankStore \/ BlankMask \/ Dispatch \/ Check
             \/ RunInterrupt \/ RunEnd
    BY <1>7 DEF BlankState, BlankLoad, BlankStore, BlankMask, Dispatch, Check, RunInterrupt, RunEnd
  <1>8. CASE UNCHANGED vars
    BY <1>8 DEF vars
  <1>9. "m68k" \in Threads /\ "i860" \in Threads
    BY DEF Threads
  <1> QED
    BY <1>1, <1>2, <1>3, <1>4, <1>5, <1>6, <1>7, <1>8, <1>9
    DEF Next, Emulation, Thread, Sending, GuestWrite, RunWrite

\* The port is a mailbox: what send_msg puts there by compare and swap and
\* handle_msgs takes by exchange is neither lost nor invented.
THEOREM PortImplementsMailbox == Spec => PortIsMailbox
  <1>1. Init => Port!Init
    BY DEF Init, Port!Init
  <1>2. IInv /\ [Next]_vars => [Port!Next]_(Port!box)
    BY PortStep
  <1> QED BY <1>1, <1>2, IInvHolds, PTL DEF Spec, PortIsMailbox, Port!Spec
=============================================================================
