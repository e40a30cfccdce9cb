----------------------------- MODULE Dimension -----------------------------
(***************************************************************************)
(* A NeXTdimension board with its i860 on a thread of its own (dimension/).*)
(* The emulation thread writes the board's registers, blanks its display,  *)
(* pauses it, removes and inserts it; it reaches the i860 thread through   *)
(* the bits of one atomic port, m_port. The i860 thread takes the bits     *)
(* between bursts of instructions, and sends some to itself.               *)
(*                                                                         *)
(* One board, and of its two video sources the display; the other source   *)
(* has bits of its own and the same code. The two interrupt pairs of csr0  *)
(* (i860 and BE) are one bit, "int": the interrupt with its mask.          *)
(***************************************************************************)
EXTENDS Sequences

CONSTANT Writes   \* values that are written to csr0

Messages == {"reset", "kill", "intr", "blank"}
Bits == {"reset", "int", "vmask", "vint", "vblank"}

ASSUME WritesAssumption == Writes \subseteq SUBSET Bits

VARIABLES
  m_port,    \* bits sent and not taken
  board,     \* "present", "removing" or "absent"
  m_halt,    \* the i860 sleeps
  ready,     \* the i860 was reset since it was made
  ext,       \* EXT_INTR of m_flow
  csr0,      \* the memory controller's register
  blank,     \* blank[ND_DISPLAY] of host.c
  paused,    \* the emulation is paused
  pc,        \* where each thread is
  todo,      \* messages each thread is about to send, in order
  store,     \* what each thread writes to csr0 when they are sent, or Nothing
  seen,      \* the port's value each thread loaded, or csr0's in set_blank_state
  taken      \* the bits of the last handle_msgs

i860 == <<m_halt, ready, ext>>
registers == <<csr0, blank>>
threads == <<pc, todo, store, seen>>
vars == <<m_port, board, i860, registers, paused, threads, taken>>

Threads == {"m68k", "i860"}
Nothing == {"nothing"}

\* NextDimension::NextDimension: the thread starts with a reset to handle.
Init == /\ m_port = {"reset"} /\ board = "present"
        /\ m_halt = TRUE /\ ready = FALSE /\ ext = FALSE
        /\ csr0 = {} /\ blank = FALSE /\ paused = FALSE
        /\ pc = [t \in Threads |-> IF t = "m68k" THEN "idle" ELSE "loop"]
        /\ todo = [t \in Threads |-> <<>>]
        /\ store = [t \in Threads |-> Nothing]
        /\ seen = [t \in Threads |-> {}]
        /\ taken = {}

-----------------------------------------------------------------------------
(***************************************************************************)
(* Sending, by either thread: load the port, then compare and swap.        *)
(***************************************************************************)

\* Where a thread goes on after its last message.
After(t) == IF t = "m68k" THEN IF board = "removing" THEN "join" ELSE "idle"
            ELSE IF store[t] # Nothing THEN "run" ELSE "dispatch"

\* Mutant: every send ends in a write of csr0.
StoredAlways(t) == store[t]

\* csr0 is written after the messages its write sends.
Stored(t) == IF store[t] = Nothing THEN csr0 ELSE store[t]

Send(t, msgs, value) ==
  /\ todo' = [todo EXCEPT ![t] = msgs]
  /\ store' = [store EXCEPT ![t] = value]
  /\ pc' = [pc EXCEPT ![t] = IF msgs = <<>> THEN "sent" ELSE "load"]

LoadPort(t) == /\ pc[t] = "load"
               /\ seen' = [seen EXCEPT ![t] = m_port]
               /\ pc' = [pc EXCEPT ![t] = "cas"]
               /\ UNCHANGED <<m_port, board, i860, registers, paused, todo, store, taken>>

\* Mutant: the port is stored to, not compared and swapped.
StorePort(t) ==
  /\ pc[t] = "cas"
  /\ m_port' = seen[t] \cup {Head(todo[t])}
  /\ todo' = [todo EXCEPT ![t] = Tail(@)]
  /\ pc' = [pc EXCEPT ![t] = IF Len(todo[t]) = 1 THEN "sent" ELSE "load"]
  /\ seen' = [seen EXCEPT ![t] = {}]
  /\ UNCHANGED <<board, i860, registers, paused, store, taken>>

CasPort(t) ==
  /\ pc[t] = "cas" /\ m_port = seen[t]
  /\ m_port' = seen[t] \cup {Head(todo[t])}
  /\ todo' = [todo EXCEPT ![t] = Tail(@)]
  /\ pc' = [pc EXCEPT ![t] = IF Len(todo[t]) = 1 THEN "sent" ELSE "load"]
  /\ seen' = [seen EXCEPT ![t] = {}]
  /\ UNCHANGED <<board, i860, registers, paused, store, taken>>

CasFails(t) == /\ pc[t] = "cas" /\ m_port # seen[t]
               /\ pc' = [pc EXCEPT ![t] = "load"]
               /\ seen' = [seen EXCEPT ![t] = {}]
               /\ UNCHANGED <<m_port, board, i860, registers, paused, todo, store, taken>>

Sent(t) == /\ pc[t] = "sent"
           /\ pc' = [pc EXCEPT ![t] = After(t)]
           /\ csr0' = Stored(t)
           /\ store' = [store EXCEPT ![t] = Nothing]
           /\ UNCHANGED <<m_port, board, i860, blank, paused, todo, seen, taken>>

\* MC::write of csr0: a reset and an interrupt become messages.
Csr0Messages(v) == (IF "reset" \in v THEN <<"reset">> ELSE <<>>)
                   \o (IF "int" \in v THEN <<"intr">> ELSE <<>>)

Csr0Write(t, v) ==
  /\ Send(t, Csr0Messages(v), v \ {"reset"})
  /\ UNCHANGED <<m_port, board, i860, registers, paused, seen, taken>>

-----------------------------------------------------------------------------
(***************************************************************************)
(* The emulation thread.                                                   *)
(***************************************************************************)

Idle == pc["m68k"] = "idle" /\ board = "present"

GuestWrite(v) == Idle /\ ~paused /\ Csr0Write("m68k", v)

\* host_blank: the state first, then the message.
HostBlank == /\ Idle /\ ~paused
             /\ blank' = ~blank
             /\ Send("m68k", <<"blank">>, Nothing)
             /\ UNCHANGED <<m_port, board, i860, csr0, paused, seen, taken>>

\* Main_PauseEmulation and Main_UnPauseEmulation, through NextBus_Pause.
Pause == /\ Idle /\ ~paused
         /\ paused' = TRUE /\ m_halt' = TRUE
         /\ UNCHANGED <<m_port, board, ready, ext, registers, threads, taken>>

UnPause == /\ Idle /\ paused
           /\ paused' = FALSE /\ m_halt' = FALSE
           /\ UNCHANGED <<m_port, board, ready, ext, registers, threads, taken>>

\* NextDimension::~NextDimension, i860_cpu_device::uninit: halt, send, wait.
Remove == /\ Idle
          /\ board' = "removing" /\ m_halt' = TRUE
          /\ Send("m68k", <<"kill">>, Nothing)
          /\ UNCHANGED <<m_port, ready, ext, registers, paused, seen, taken>>

\* Mutant: the board goes without waiting for its thread.
RemovedAtOnce == /\ pc["m68k"] = "join"
                 /\ board' = "absent"
                 /\ pc' = [pc EXCEPT !["m68k"] = "idle"]
                 /\ UNCHANGED <<m_port, i860, registers, paused, todo, store, seen, taken>>

Removed == /\ pc["m68k"] = "join" /\ pc["i860"] = "ended"
           /\ board' = "absent"
           /\ pc' = [pc EXCEPT !["m68k"] = "idle"]
           /\ UNCHANGED <<m_port, i860, registers, paused, todo, store, seen, taken>>

\* Mutant: the thread starts without a reset to handle.
InsertNoReset ==
  /\ board = "absent"
  /\ board' = "present"
  /\ m_halt' = TRUE /\ ready' = FALSE /\ ext' = FALSE
  /\ csr0' = {} /\ m_port' = {}
  /\ pc' = [pc EXCEPT !["i860"] = "loop"]
  /\ UNCHANGED <<blank, paused, todo, store, seen, taken>>

\* The constructor again, on the next reset of the machine.
Insert == /\ board = "absent"
          /\ board' = "present"
          /\ m_halt' = TRUE /\ ready' = FALSE /\ ext' = FALSE
          /\ csr0' = {} /\ m_port' = {"reset"}
          /\ pc' = [pc EXCEPT !["i860"] = "loop"]
          /\ UNCHANGED <<blank, paused, todo, store, seen, taken>>

-----------------------------------------------------------------------------
(***************************************************************************)
(* The i860 thread: i860_cpu_device::run and what it calls.                *)
(***************************************************************************)

Goto(next) == pc' = [pc EXCEPT !["i860"] = next]

\* NextDimension::handle_msgs takes all bits in one exchange.
Take == /\ pc["i860"] = "loop"
        /\ taken' = m_port /\ m_port' = {}
        /\ Goto(IF "blank" \in m_port THEN "blank" ELSE "dispatch")
        /\ UNCHANGED <<board, i860, registers, paused, todo, store, seen>>

\* host_blank_state: the state as it is now, not as it was when it was sent.
BlankState == /\ pc["i860"] = "blank"
              /\ Goto(IF blank THEN "blanking" ELSE "showing")
              /\ UNCHANGED <<m_port, board, i860, registers, paused, todo, store,
                             seen, taken>>

\* set_blank_state: csr0 is loaded, changed and then stored.
BlankLoad ==
  /\ \/ /\ pc["i860"] = "blanking" /\ Goto("blanked")
        /\ seen' = [seen EXCEPT !["i860"] = csr0 \cup {"vint", "vblank"}]
     \/ /\ pc["i860"] = "showing" /\ Goto("visible")
        /\ seen' = [seen EXCEPT !["i860"] = csr0 \ {"vblank"}]
  /\ UNCHANGED <<m_port, board, i860, registers, paused, todo, store, taken>>

BlankStore == /\ pc["i860"] \in {"blanked", "visible"}
              /\ csr0' = seen["i860"]
              /\ IF pc["i860"] = "blanked"
                 THEN Goto("mask") /\ UNCHANGED seen
                 ELSE Goto("dispatch") /\ seen' = [seen EXCEPT !["i860"] = {}]
              /\ UNCHANGED <<m_port, board, i860, blank, paused, todo, store, taken>>

\* The mask is tested in what was stored or in what is there by now.
BlankMask == /\ pc["i860"] = "mask"
             /\ \E value \in {seen["i860"], csr0} :
                  IF "vmask" \in value THEN Send("i860", <<"intr">>, Nothing)
                  ELSE Goto("dispatch") /\ UNCHANGED <<todo, store>>
             /\ seen' = [seen EXCEPT !["i860"] = {}]
             /\ UNCHANGED <<m_port, board, i860, registers, paused, taken>>

\* Mutant: a reset that arrives with the order to end hides it.
DispatchResetFirst ==
  /\ pc["i860"] = "dispatch"
  /\ IF "reset" \in taken
     THEN ext' = FALSE /\ ready' = TRUE /\ m_halt' = FALSE
     ELSE ext' = (ext \/ "intr" \in taken) /\ UNCHANGED <<ready, m_halt>>
  /\ Goto(IF "kill" \in taken /\ "reset" \notin taken THEN "ended" ELSE "check")
  /\ UNCHANGED <<m_port, board, registers, paused, todo, store, seen, taken>>

\* i860_cpu_device::handle_msgs: a reset drops the interrupt that came with it.
Dispatch ==
  /\ pc["i860"] = "dispatch"
  /\ \/ /\ "kill" \in taken
        /\ Goto("ended")
        /\ UNCHANGED i860
     \/ /\ "kill" \notin taken
        /\ Goto("check")
        /\ IF "reset" \in taken
           THEN ext' = FALSE /\ ready' = TRUE /\ m_halt' = FALSE
           ELSE ext' = (ext \/ "intr" \in taken) /\ UNCHANGED <<ready, m_halt>>
  /\ UNCHANGED <<m_port, board, registers, paused, todo, store, seen, taken>>

\* Mutant: a halted i860 sleeps until it is resumed.
CheckAsleep == /\ pc["i860"] = "check"
               /\ \/ m_halt /\ Goto("check")
                  \/ ~m_halt /\ (Goto("loop") \/ Goto("run"))
               /\ UNCHANGED <<m_port, board, i860, registers, paused, todo, store, seen, taken>>

\* Halted, or out of cycles, it sleeps and looks at its messages again.
Check == /\ pc["i860"] = "check"
         /\ \/ Goto("loop")
            \/ ~m_halt /\ Goto("run")
         /\ UNCHANGED <<m_port, board, i860, registers, paused, todo, store, seen, taken>>

\* Sixteen cycles, in which it may take the interrupt and write csr0.
RunInterrupt == /\ pc["i860"] = "run" /\ ext
                /\ ext' = FALSE
                /\ UNCHANGED <<m_port, board, m_halt, ready, registers, paused, threads, taken>>

RunWrite(v) == pc["i860"] = "run" /\ Csr0Write("i860", v)

RunEnd == /\ pc["i860"] = "run"
          /\ Goto("loop")
          /\ UNCHANGED <<m_port, board, i860, registers, paused, todo, store, seen, taken>>

-----------------------------------------------------------------------------
Sending(t) == LoadPort(t) \/ CasPort(t) \/ CasFails(t) \/ Sent(t)

Emulation == \/ \E v \in Writes : GuestWrite(v)
             \/ HostBlank \/ Pause \/ UnPause
             \/ Remove \/ Removed \/ Insert

Thread == \/ Take \/ BlankState \/ BlankLoad \/ BlankStore \/ BlankMask
          \/ Dispatch \/ Check \/ RunInterrupt
          \/ \E v \in Writes : RunWrite(v)

Next == Emulation \/ Thread \/ RunEnd \/ \E t \in Threads : Sending(t)

\* Threads that can run do. A burst ends whatever its instructions are, and
\* the other thread does not make every retry of a send fail.
Fairness == /\ WF_vars(Thread) /\ SF_vars(RunEnd)
            /\ WF_vars(Removed)
            /\ \A t \in Threads : WF_vars(Sending(t)) /\ SF_vars(CasPort(t))

Spec == Init /\ [][Next]_vars /\ Fairness

-----------------------------------------------------------------------------
Places == {"load", "cas", "sent"}

Stores == (SUBSET Bits) \cup {Nothing}
Loads == (SUBSET Messages) \cup (SUBSET Bits)

TypeOK ==
  /\ m_port \subseteq Messages /\ taken \subseteq Messages
  /\ board \in {"present", "removing", "absent"}
  /\ m_halt \in BOOLEAN /\ ready \in BOOLEAN /\ ext \in BOOLEAN
  /\ csr0 \subseteq Bits /\ blank \in BOOLEAN /\ paused \in BOOLEAN
  /\ pc \in [Threads -> Places \cup {"idle", "join", "loop", "blank", "blanking",
                                     "showing", "blanked", "visible", "mask",
                                     "dispatch", "check", "run", "ended"}]
  /\ todo \in [Threads -> Seq(Messages)]
  /\ store \in [Threads -> Stores]
  /\ seen \in [Threads -> Loads]

\* The port loses no message and invents none, whoever sends at the same time.
Port == INSTANCE Mailbox WITH posted <- m_port

PortIsMailbox == Port!Spec

\* The i860 executes nothing before it was reset, though resuming the
\* emulation starts every i860 of a board without a look at that.
NotBeforeReset == pc["i860"] = "run" => ready

\* When a board's memory is freed, its thread has ended.
RemovedMeansEnded == board = "absent" => pc["i860"] = "ended"

\* Removing a board comes to an end: the thread sees the order, even when a
\* reset or an interrupt is sent to the port at the same time.
RemovalEnds == board = "removing" ~> board = "absent"

\* A message does not stay in the port, also that to a sleeping i860.
MessagesTaken == m_port # {} ~> (m_port = {} \/ board # "present")
=============================================================================
