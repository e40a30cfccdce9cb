------------------------------- MODULE CycInt -------------------------------
(***************************************************************************)
(* The interrupt scheduler of the emulator (cycInt.c) and the loop of the  *)
(* processor that drives it (M68000_AddCycles and the dispatch loop of     *)
(* m68k_run_mmu040 and do_specialties).                                    *)
(*                                                                         *)
(* Every device of the machine owns one entry of InterruptHandlers. The    *)
(* entry holds either a number of CPU cycles to go (CYC_INT_CPU) or an     *)
(* absolute host time (CYC_INT_US). The cycles to go are not counted down  *)
(* in the table: nCyclesOver accumulates them, and only PendingInterrupt,  *)
(* a copy of the entry that is due first, is counted down. The table is    *)
(* brought up to date (CycInt_UpdateInterrupt) when an entry changes.      *)
(*                                                                         *)
(* Each operation of cycInt.c is an operator from scheduler state to       *)
(* scheduler state, so that a handler, which makes several calls, is the   *)
(* composition of its calls and one action.                                *)
(***************************************************************************)
EXTENDS Integers

CONSTANTS
  N,            \* MAX_INTERRUPTS - 1: the handlers are 1..N, 0 is INTERRUPT_NULL
  Vbl,          \* INTERRUPT_VIDEO_VBL, armed by every reset
  EventLoop,    \* INTERRUPT_EVENT_LOOP, polls the host's events
  CycleTimers,  \* the handlers that devices arm with a number of cycles
  UsTimers,     \* the handlers that devices arm with a number of microseconds
  Removable,    \* the handlers that a device cancels (floppy.c, mo.c)
  Realtime,     \* ConfigureParams.System.bRealtime
  Freq,         \* ConfigureParams.System.nCpuFreq, cycles per microsecond
  VblPeriod, EventPeriod,  \* the periods of the two permanent timers, in us
  CycleDelays,  \* the delays, in cycles, of the other timers
  UsDelays,     \* the delays, in microseconds, of the other timers
  Quanta,       \* the cycles one instruction can add
  UsCheck,      \* 100 * nCpuFreq: cycles between two looks at the host time
  MaxTime,      \* INT64_MAX, the time of an entry that was never armed
  MaxNow,       \* bound on the host time
  MaxLate,      \* bound on the cycles added inside one instruction
  MaxOver,      \* bound on the cycles added since the table was up to date
  Off           \* what an abstract timer that is not armed has left

Ids == 1..N
Devices == Ids \ {Vbl, EventLoop}

ASSUME SizeAssumption == N \in Nat \ {0}
ASSUME IdsAssumption == /\ Vbl \in Ids /\ EventLoop \in Ids /\ Vbl # EventLoop
                        /\ CycleTimers \subseteq Devices
                        /\ UsTimers \subseteq Devices
                        /\ Removable \subseteq Devices
ASSUME ModeAssumption == Realtime \in BOOLEAN
ASSUME DelayAssumption == /\ VblPeriod \in Nat \ {0}
                          /\ EventPeriod \in Nat \ {0}
                          /\ Freq \in Nat \ {0}
                          /\ CycleDelays \subseteq Nat \ {0}
                          /\ UsDelays \subseteq Nat \ {0}
                          /\ Quanta \subseteq Nat \ {0}
                          /\ UsCheck \in Nat
                          /\ MaxTime \in Nat
                          /\ MaxNow \in Nat
                          /\ MaxLate \in Nat
                          /\ MaxOver \in Nat
ASSUME OffAssumption == Off \notin Int

VARIABLES
  sched,   \* the static variables of cycInt.c
  now,     \* host_time_us(); it never goes back except at a reset
  phase,   \* "cpu" inside an instruction, "dispatch" in the loop after it
  called   \* the handler that the dispatch loop called last, 0 if none

vars == <<sched, now, phase, called>>

Types == {"none", "cpu", "us"}
Entry == [type : Types, time : Int]
Copy == [type : Types, time : Int, pFunction : 0..N]
None == [type |-> "none", time |-> MaxTime]

-----------------------------------------------------------------------------
(***************************************************************************)
(* The operations of cycInt.c.                                             *)
(***************************************************************************)

\* The entries CycInt_SetNewInterrupt looks at: microseconds are skipped.
CpuTimers(handlers) == {h \in Ids : handlers[h].type = "cpu"}

\* The earlier of two entries; the table is scanned upwards with <.
Before(handlers, g, h) ==
  \/ handlers[g].time < handlers[h].time
  \/ handlers[g].time = handlers[h].time /\ g <= h

LowestInterrupt(handlers) ==
  IF CpuTimers(handlers) = {} THEN 0
  ELSE CHOOSE h \in CpuTimers(handlers) :
         \A g \in CpuTimers(handlers) : Before(handlers, h, g)

\* The copy of an entry; pFunction of entry 0 is NULL, of entry h handler h.
Pending(handlers, h) ==
  [type |-> handlers[h].type, time |-> handlers[h].time, pFunction |-> h]

SetNewInterrupt(s) ==
  LET lowest == LowestInterrupt(s.handlers)
  IN  [s EXCEPT !.pending = Pending(s.handlers, lowest), !.active = lowest]

\* An entry after a number of cycles: only CYC_INT_CPU entries count them.
Elapsed(entry, cycles) ==
  IF entry.type = "cpu" THEN [type |-> "cpu", time |-> entry.time - cycles]
  ELSE entry

\* Mutant: the cycles are subtracted but counted once more next time.
UpdateInterruptKeepsCount(s) ==
  [s EXCEPT !.handlers = [h \in 0..N |-> Elapsed(s.handlers[h], s.over)]]

UpdateInterrupt(s) ==
  [s EXCEPT !.handlers = [h \in 0..N |-> Elapsed(s.handlers[h], s.over)],
            !.over = 0]

\* Mutant: the count is forgotten and the table left as it was.
UpdateIfActiveForgets(s) == IF s.active > 0 THEN [s EXCEPT !.over = 0] ELSE s

\* Both AddRelative functions bring the table up to date only in this case.
UpdateIfActive(s) == IF s.active > 0 THEN UpdateInterrupt(s) ELSE s

\* Mutant: a timer is added to a table that is out of date.
AddRelativeInterruptCyclesNoUpdate(s, cycles, h) ==
  SetNewInterrupt([s EXCEPT !.handlers[h] = [type |-> "cpu", time |-> cycles]])

AddRelativeInterruptCycles(s, cycles, h) ==
  SetNewInterrupt([UpdateIfActive(s) EXCEPT
                     !.handlers[h] = [type |-> "cpu", time |-> cycles]])

\* "Use usreal if we are in realtime mode": 0 stands for none given.
AddRelativeInterruptUs(s, t, us, usreal, h) ==
  IF Realtime
  THEN SetNewInterrupt([UpdateIfActive(s) EXCEPT
         !.handlers[h] = [type |-> "us",
                          time |-> t + (IF usreal > 0 THEN usreal ELSE us)]])
  ELSE AddRelativeInterruptCycles(s, us * Freq, h)

AddRelativeInterruptUsCycles(s, us, usreal, h) ==
  AddRelativeInterruptCycles(s, (IF Realtime /\ usreal > 0 THEN usreal ELSE us)
                                  * Freq, h)

\* Drop an entry after the table has been brought up to date.
Disable(s, h) ==
  SetNewInterrupt([UpdateInterrupt(s) EXCEPT !.handlers[h].type = "none"])

\* Mutant: the copy of a removed entry stays pending.
RemovePendingInterruptNoSet(s, h) ==
  [UpdateInterrupt(s) EXCEPT !.handlers[h].type = "none"]

RemovePendingInterrupt(s, h) == Disable(s, h)
AcknowledgeInterrupt(s) == Disable(s, s.active)

\* CycInt_Reset leaves the type and the function of PendingInterrupt alone.
ResetTable(s) ==
  [handlers |-> [h \in 0..N |-> None],
   pending  |-> [s.pending EXCEPT !.time = 0],
   active |-> 0, over |-> 0, usCheck |-> 0]

\* Video_Reset is the first call after CycInt_Reset that arms a timer.
Reset(s) == AddRelativeInterruptUs(ResetTable(s), 0, VblPeriod, 0, Vbl)

\* The microsecond timers that have expired, lowest number first.
Expired(s, t) == {h \in Ids : s.handlers[h].type = "us" /\ t > s.handlers[h].time}

SetNewInterruptUs(s, t) ==
  LET h == CHOOSE h \in Expired(s, t) : \A g \in Expired(s, t) : h <= g
  IN  [s EXCEPT !.pending = [Pending(s.handlers, h) EXCEPT !.time = -1],
                !.active = h]

\* Mutant: the countdown to the next look at the host time never moves.
AddCyclesNoCheck(s, c, t) ==
  LET counted == [s EXCEPT !.over = @ + c,
                           !.pending.time = IF s.pending.type = "cpu"
                                            THEN @ - c ELSE @]
      latch   == Realtime /\ Expired(s, t) # {}
  IN  IF s.usCheck >= 0 THEN counted
      ELSE IF latch THEN SetNewInterruptUs(counted, t)
      ELSE [counted EXCEPT !.usCheck = UsCheck]

\* M68000_AddCycles: the host time is looked at every UsCheck cycles.
AddCycles(s, c, t) ==
  LET counted == [s EXCEPT !.over = @ + c,
                           !.pending.time = IF s.pending.type = "cpu"
                                            THEN @ - c ELSE @]
      latch   == Realtime /\ Expired(s, t) # {}
  IN  IF s.usCheck >= 0 THEN [counted EXCEPT !.usCheck = @ - c]
      ELSE IF latch THEN SetNewInterruptUs(counted, t)
      ELSE [counted EXCEPT !.usCheck = UsCheck]

-----------------------------------------------------------------------------
(***************************************************************************)
(* The processor, its devices and the handlers.                            *)
(***************************************************************************)

\* The state after Reset_Cold and the first arming of the event loop.
Init == /\ sched = AddRelativeInterruptUs(
                     Reset([pending |-> [type |-> "none", time |-> 0,
                                         pFunction |-> 0]]),
                     0, EventPeriod, 0, EventLoop)
        /\ now = 0
        /\ phase = "cpu"
        /\ called = 0

IsDue(s) == s.pending.time <= 0 /\ s.pending.pFunction # 0

\* The end of an instruction, or of a round of a stopped processor.
Instruction(c) == /\ phase = "cpu"
                  /\ sched.over <= MaxOver
                  /\ sched' = AddCycles(sched, c, now)
                  /\ phase' = "dispatch"
                  /\ called' = 0
                  /\ UNCHANGED now

\* Cycles added inside an instruction (the DSP's host port waits, dsp.c).
InnerCycles(c) == /\ phase = "cpu"
                  /\ sched.over <= MaxOver
                  /\ sched.pending.time > -MaxLate
                  /\ sched' = AddCycles(sched, c, now)
                  /\ called' = 0
                  /\ UNCHANGED <<now, phase>>

\* What a device can do with its timer, in a register access or a handler.
DeviceCall(s, t) ==
     {AddRelativeInterruptCycles(s, d, h) : d \in CycleDelays, h \in CycleTimers}
  \cup {AddRelativeInterruptUs(s, t, us, usreal, h) :
          us \in UsDelays, usreal \in UsDelays \cup {0}, h \in UsTimers}
  \cup {AddRelativeInterruptUsCycles(s, us, usreal, h) :
          us \in UsDelays, usreal \in UsDelays \cup {0}, h \in CycleTimers}
  \cup {RemovePendingInterrupt(s, h) : h \in Removable}

\* One handler makes up to two calls after it has acknowledged: a transfer
\* that ends and goes on (ESP_IO_Handler), a spiral that finds a sector
\* (MO_IO_Handler), an inserted disk that replaces a signal (mo.c:1653).
DeviceCalls(s, t) ==
  {s} \cup UNION {{r} \cup DeviceCall(r, t) : r \in DeviceCall(s, t)}

\* The instruction writes a register whose device arms or removes a timer.
RegisterAccess == /\ phase = "cpu"
                  /\ sched' \in DeviceCall(sched, now)
                  /\ UNCHANGED <<now, phase, called>>

Call(h) == /\ phase = "dispatch"
           /\ IsDue(sched)
           /\ sched.pending.pFunction = h
           /\ called' = h
           /\ UNCHANGED phase

\* Video_InterruptHandler_VBL: acknowledge, draw, arm again.
VideoVbl == /\ Call(Vbl)
            /\ \E s \in {AcknowledgeInterrupt(sched)} :
                 sched' = AddRelativeInterruptUs(s, now, VblPeriod, 0, Vbl)
            /\ UNCHANGED now

\* Main_EventHandlerInterrupt: an event may reach a device.
EventHandler ==
  /\ Call(EventLoop)
  /\ \E s \in {AcknowledgeInterrupt(sched)} :
       \E body \in DeviceCalls(s, now) :
         sched' = AddRelativeInterruptUs(body, now, EventPeriod, 0, EventLoop)
  /\ UNCHANGED now

\* Mutant: the event loop is armed before the reset, which empties the table.
EventHandlerResetLast ==
  /\ Call(EventLoop)
  /\ \E s \in {AddRelativeInterruptUs(AcknowledgeInterrupt(sched), now,
                                        EventPeriod, 0, EventLoop)} :
       sched' = Reset(s)
  /\ now' = 0

\* The dialogs and shortcuts reset the machine from inside the event handler;
\* host_reset starts the host time again.
EventHandlerReset ==
  /\ Call(EventLoop)
  /\ \E s \in {Reset(AcknowledgeInterrupt(sched))} :
       sched' = AddRelativeInterruptUs(s, 0, EventPeriod, 0, EventLoop)
  /\ now' = 0

\* The handler of a device.
DeviceHandler(h) ==
  /\ Call(h)
  /\ \E s \in {AcknowledgeInterrupt(sched)} :
       sched' \in DeviceCalls(s, now)
  /\ UNCHANGED now

\* The dispatch loop ends when nothing is due.
EndDispatch == /\ phase = "dispatch"
               /\ ~IsDue(sched)
               /\ phase' = "cpu"
               /\ called' = 0
               /\ UNCHANGED <<sched, now>>

\* The host's clock goes on; without Realtime nobody looks at it.
HostClock == /\ Realtime /\ now < MaxNow
             /\ now' \in (now + 1)..MaxNow
             /\ UNCHANGED <<sched, phase, called>>

Dispatch == \/ VideoVbl \/ EventHandler \/ EventHandlerReset
            \/ \E h \in Devices : DeviceHandler(h)

Next == \/ \E c \in Quanta : Instruction(c) \/ InnerCycles(c)
        \/ RegisterAccess
        \/ Dispatch
        \/ EndDispatch
        \/ HostClock

Spec == Init /\ [][Next]_vars

\* The emulation thread never stops: it goes on executing instructions and
\* always finishes the dispatch loop.
FairSpec == /\ Spec
            /\ WF_vars(\E c \in Quanta : Instruction(c))
            /\ WF_vars(Dispatch \/ EndDispatch)

-----------------------------------------------------------------------------
(***************************************************************************)
(* Properties.                                                             *)
(***************************************************************************)

Sched == [handlers : [0..N -> Entry],
          pending : Copy,
          active : 0..N, over : Nat, usCheck : Int]

\* Types of the scheduler's state; entry 0 is never armed.
TypeOK == /\ sched \in Sched
          /\ sched.handlers[0] = None
          /\ now \in Nat
          /\ phase \in {"cpu", "dispatch"}
          /\ called \in 0..N

\* The cycles until the deadline of an entry, wherever they are kept.
Left(s, h) == IF s.handlers[h].type = "cpu" THEN s.handlers[h].time - s.over
                                            ELSE Off

\* Cycle mode: the copy the processor counts down is the entry of the table
\* that is due first, and the two agree about when that is although only one
\* of them is counted down (PendingInterrupt against InterruptHandlers).
InStep(s) ==
  /\ s.active = LowestInterrupt(s.handlers)
  /\ s.active # 0
  /\ s.pending = [type |-> "cpu", pFunction |-> s.active,
                  time |-> s.handlers[s.active].time - s.over]
PendingInStep == InStep(sched)

\* Cycle mode: the two timers that keep the machine and its window alive stay
\* armed, whatever the devices do and also after a reset made from inside the
\* event handler, which empties the table.
PermanentTimersArmed ==
  /\ sched.handlers[Vbl].type = "cpu"
  /\ sched.handlers[EventLoop].type = "cpu"

AllDelays == CycleDelays \cup
             {us * Freq : us \in UsDelays \cup {VblPeriod, EventPeriod}}

\* Cycle mode: the scheduler implements the timers the devices expect. No
\* timer is early, none is overtaken by one with a later deadline, and arming
\* or cancelling one timer moves no other.
T == INSTANCE Timers WITH
       Delays <- AllDelays,
       left <- [h \in Ids |-> Left(sched, h)]
TimersSpec == T!Spec

\* Cycle mode: vertical blank and event poll come again and again, however the
\* devices use the scheduler.
VblRecurs == []<>(called = Vbl)
EventLoopRecurs == []<>(called = EventLoop)

\* Realtime mode: a microsecond timer latched by CycInt_SetNewInterruptUs is
\* still armed and has expired when its handler is called: cancelling or
\* arming any timer in between takes the latch away.
LatchIsLive == sched.pending.type = "us" =>
  /\ sched.active = sched.pending.pFunction
  /\ sched.handlers[sched.active].type = "us"
  /\ now > sched.handlers[sched.active].time

\* Realtime mode: a microsecond timer whose time has come is served or armed
\* again before MaxOver cycles have gone by without any call of the scheduler;
\* it is not forgotten when another timer takes its latch away.
ExpiredIsServed == \A h \in Ids :
  (h \in Expired(sched, now)) ~>
    (h \notin Expired(sched, now) \/ sched.over > MaxOver)
=============================================================================
