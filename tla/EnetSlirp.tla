----------------------------- MODULE EnetSlirp -----------------------------
(***************************************************************************)
(* The host side of the Ethernet (enet_slirp.c): a thread of its own keeps *)
(* the SLiRP stack going and queues the packets it produces; the emulation *)
(* thread polls the queue, feeds packets into the stack, and starts and    *)
(* stops the whole. One mutex protects stack and queue. enet_pcap.c has    *)
(* the same structure.                                                     *)
(*                                                                         *)
(* Using a destroyed mutex or queue is undefined: locking goes on or hangs *)
(* the thread for ever, and what is written is lost. Entering a full queue *)
(* is an error by queue.h, which no caller checks for: QueueEnter drops    *)
(* the packet and nobody frees it. misuse records both.                    *)
(***************************************************************************)
EXTENDS Queue

VARIABLES
  slirp_started,
  slirpq,        \* the queue, meaningful while queueState is "live"
  queueState,    \* "none", "live" or "destroyed"
  slirp_mutex,   \* "none", "live" or "destroyed"
  owner,         \* the thread that holds the mutex: "nobody", "tick", "emu"
  tick,          \* where the tick thread is
  emu,           \* where the emulation thread is
  received,      \* the packet enet_receive got last
  output,        \* history: the packet slirp_output was called with last, and
                 \* the parity of its calls
  misuse         \* how the rules of queue.h and of SDL's mutexes were broken

net == <<slirpq, queueState, slirp_mutex>>
vars == <<slirp_started, net, owner, tick, emu, received, output, misuse>>

Init == /\ slirp_started = FALSE
        /\ slirpq = QueueCreate /\ queueState = "none"
        /\ slirp_mutex = "none" /\ owner = "nobody"
        /\ tick = "none" /\ emu = "idle"
        /\ received = NoPacket /\ misuse = {}
        /\ output = [packet |-> NoPacket, parity |-> 0]

-----------------------------------------------------------------------------
(***************************************************************************)
(* The tick thread: "loop" and "tick" are its two tests of slirp_started,  *)
(* "fill", "poll" and "ripOut" its critical sections.                      *)
(***************************************************************************)

\* The queue after slirp_output, which both threads call inside the lock.
Output(p) ==
  /\ output' = [packet |-> p, parity |-> 1 - output.parity]
  /\ \/ /\ queueState = "live"
        /\ slirpq' = QueueEnter(slirpq, p)
        /\ misuse' = misuse \cup (IF QueueIsFull(slirpq) THEN {"full"} ELSE {})
     \/ /\ queueState # "live"
        /\ misuse' = misuse \cup {"queue"}
        /\ UNCHANGED slirpq

TickLock(at, next) ==
  /\ tick = at
  /\ \/ /\ slirp_mutex = "live" /\ owner = "nobody"
        /\ owner' = "tick" /\ tick' = next
        /\ UNCHANGED misuse
     \/ /\ slirp_mutex = "destroyed"
        /\ misuse' = misuse \cup {"mutex"}
        /\ tick' \in {next, "hung"}
        /\ UNCHANGED owner
  /\ UNCHANGED <<slirp_started, net, emu, received, output>>

\* Mutant: the tick thread goes on with the mutex held.
TickUnlockNot(at, next) ==
  /\ tick = at
  /\ tick' = next
  /\ UNCHANGED <<slirp_started, net, owner, emu, received, output, misuse>>

TickUnlock(at, next) ==
  /\ tick = at
  /\ tick' = next
  /\ owner' = IF owner = "tick" THEN "nobody" ELSE owner
  /\ misuse' = IF slirp_mutex = "live" THEN misuse ELSE misuse \cup {"mutex"}
  /\ UNCHANGED <<slirp_started, net, emu, received, output>>

TickGoto(at, next) ==
  /\ tick = at
  /\ tick' \in next
  /\ UNCHANGED <<slirp_started, net, owner, emu, received, output, misuse>>

TickLoop == TickGoto("loop", IF slirp_started THEN {"tick"} ELSE {"exited"})
TickTest == TickGoto("tick", IF slirp_started THEN {"fillLock"} ELSE {"rip"})

\* slirp_select_fill, select without the lock, slirp_select_poll.
TickFill == TickLock("fillLock", "fill") \/ TickUnlock("fill", "select")
TickSelect == TickGoto("select", {"pollLock", "rip"})
TickPoll == TickLock("pollLock", "poll") \/ TickUnlock("poll", "rip")

\* Every 30 seconds, the routing table.
TickRipTest == TickGoto("rip", IF slirp_started THEN {"ripLock", "loop"} ELSE {"loop"})
TickRip == TickLock("ripLock", "ripOut") \/ TickUnlock("ripOut", "loop")

TickOutput(p) == /\ tick \in {"poll", "ripOut"}
                 /\ Output(p)
                 /\ UNCHANGED <<slirp_started, queueState, slirp_mutex, owner,
                                tick, emu, received>>

Tick == TickLoop \/ TickTest \/ TickFill \/ TickSelect \/ TickPoll
        \/ TickRipTest \/ TickRip

-----------------------------------------------------------------------------
(***************************************************************************)
(* The emulation thread. The controller polls and sends only while the     *)
(* interface is started (HostPolledOnlyWhenStarted of module Ethernet).    *)
(***************************************************************************)

\* Mutant: the mutex is not taken.
EmuLockNot(next) == /\ emu = "idle" /\ slirp_started
                    /\ owner' = "emu" /\ emu' = next
                    /\ UNCHANGED <<slirp_started, net, tick, received, output, misuse>>

EmuLock(next) == /\ emu = "idle" /\ slirp_started
                 /\ owner = "nobody"
                 /\ owner' = "emu" /\ emu' = next
                 /\ UNCHANGED <<slirp_started, net, tick, received, output, misuse>>

EmuUnlock == owner' = "nobody" /\ emu' = "idle"

PollLock == EmuLock("poll")

\* enet_slirp_queue_poll: hand the oldest packet to the controller.
Poll == /\ emu = "poll"
        /\ EmuUnlock
        /\ IF QueuePeek(slirpq) > 0
           THEN /\ received' = Oldest(slirpq)
                /\ slirpq' = QueueDelete(slirpq)
           ELSE UNCHANGED <<received, slirpq>>
        /\ UNCHANGED <<slirp_started, queueState, slirp_mutex, tick, output,
                       misuse>>

\* enet_slirp_input: the stack may answer at once, in the same call.
InputLock == EmuLock("input")
InputOutput(p) == /\ emu = "input"
                  /\ Output(p)
                  /\ UNCHANGED <<slirp_started, queueState, slirp_mutex, owner,
                                 tick, emu, received>>
Input == /\ emu = "input"
         /\ EmuUnlock
         /\ UNCHANGED <<slirp_started, net, tick, received, output, misuse>>

\* enet_slirp_start: the thread is created last.
Start == /\ emu = "idle" /\ ~slirp_started
         /\ slirp_started' = TRUE
         /\ slirpq' = QueueCreate /\ queueState' = "live"
         /\ slirp_mutex' = "live" /\ owner' = "nobody"
         /\ tick' = "loop"
         /\ UNCHANGED <<emu, received, output, misuse>>

\* enet_slirp_stop, call by call.
StopBegin == /\ emu = "idle" /\ slirp_started
             /\ slirp_started' = FALSE
             /\ emu' = "destroyQueue"
             /\ UNCHANGED <<net, owner, tick, received, output, misuse>>

StopQueue == /\ emu = "destroyQueue"
             /\ queueState' = "destroyed"
             /\ emu' = "destroyMutex"
             /\ UNCHANGED <<slirp_started, slirpq, slirp_mutex, owner, tick,
                            received, output, misuse>>

StopMutex == /\ emu = "destroyMutex"
             /\ slirp_mutex' = "destroyed"
             /\ owner' = "nobody"
             /\ emu' = "wait"
             /\ UNCHANGED <<slirp_started, slirpq, queueState, tick, received, output,
                            misuse>>

\* Mutant: the thread is not waited for.
StopWaitNot == /\ emu = "wait"
               /\ emu' = "idle"
               /\ UNCHANGED <<slirp_started, net, owner, tick, received, output,
                              misuse>>

StopWait == /\ emu = "wait"
            /\ tick = "exited"
            /\ tick' = "none"
            /\ emu' = "idle"
            /\ UNCHANGED <<slirp_started, net, owner, received, output, misuse>>

Emu == PollLock \/ Poll \/ InputLock \/ Input \/ Start
       \/ StopBegin \/ StopQueue \/ StopMutex \/ StopWait

Next == \/ Tick \/ Emu
        \/ \E p \in Packets : TickOutput(p) \/ InputOutput(p)

Spec == Init /\ [][Next]_vars

\* Both threads run. The tick thread sleeps for 10 ms between two turns, so
\* that the emulation thread, which polls again and again, gets the mutex.
FairSpec == /\ Spec
            /\ WF_vars(Tick)
            /\ SF_vars(PollLock)
            /\ WF_vars(Poll \/ Input)

-----------------------------------------------------------------------------
(***************************************************************************)
(* Properties.                                                             *)
(***************************************************************************)

\* Types of the state.
TypeOK ==
  /\ slirp_started \in BOOLEAN
  /\ slirpq \in QueueType
  /\ queueState \in {"none", "live", "destroyed"}
  /\ slirp_mutex \in {"none", "live", "destroyed"}
  /\ owner \in {"nobody", "tick", "emu"}
  /\ tick \in {"none", "loop", "tick", "fillLock", "fill", "select", "pollLock",
               "poll", "rip", "ripLock", "ripOut", "exited", "hung"}
  /\ emu \in {"idle", "poll", "input", "destroyQueue", "destroyMutex", "wait"}
  /\ received \in Packets \cup {NoPacket}
  /\ output \in [packet : Packets \cup {NoPacket}, parity : {0, 1}]
  /\ misuse \subseteq {"queue", "mutex", "full"}

\* Queue and threads together are an order-preserving channel that never
\* duplicates, also across stop and restart, and loses nothing silently: each
\* packet given to slirp_output waits for the guest, unless the interface has
\* been torn down or the ring is full. The latter is the error of queue.h that
\* callers should have avoided with QueueIsFull, and it is recorded as that.
Fifo == INSTANCE PacketFifo WITH
          Capacity <- MaxQueueSize, running <- slirp_started,
          waiting <- IF queueState = "live" THEN Elements(slirpq) ELSE << >>,
          overrun <- "full" \in misuse
FifoSpec == Fifo!Spec

\* The SLiRP stack is never run by both threads at once, not even while the
\* interface is being stopped.
SlirpExclusive == ~ ( /\ tick \in {"fill", "poll", "ripOut"}
                      /\ emu \in {"poll", "input"} )

\* Once enet_slirp_stop has returned no tick thread is left that could use
\* what the next enet_slirp_start creates.
StoppedMeansGone == ~slirp_started /\ emu = "idle" => tick = "none"

\* A running interface hands over what it has queued: the controller's polls
\* are not shut out for ever by the tick thread.
GuestPolls == []<><<Poll>>_vars \/ []<>(~slirp_started \/ slirpq.count = 0)

\* queue.h of QueueDestroy: "queue" may not be used again unless queue =
\* QueueCreate() is called first.
QueueNotUsedAfterDestroy == "queue" \notin misuse
=============================================================================
