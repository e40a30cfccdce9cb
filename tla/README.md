# A verification project for Previous

Previous is an emulator of the NeXT computers. One thread, the *emulation
thread*, interprets the processor and runs every device; a device that needs
time arms a timer of the interrupt scheduler and goes on in its handler. Around
it live threads of the host: one that keeps the network stack going, one that
repaints the window, the audio callbacks of SDL, and one per i860 of a
NeXTdimension board. What is hard to get right is not the work of a device but
the order of events: timers against register writes, resets in the middle of
anything, one thread's teardown against another's use.

This directory holds TLA+ models of those parts, TLC configurations that check
them on small instances, and proofs checked by TLAPS. All source paths below are
relative to `src/previous-code/src/`.

## 1. Inventory

| component | state | operations | talks to | what is hard |
|---|---|---|---|---|
| Interrupt scheduler `cycInt.c`, `m68000.h`, loop of `cpu/newcpu.c` | `InterruptHandlers[]`, `PendingInterrupt`, `ActiveInterrupt`, `nCyclesOver`, `usCheckCycles` | add (three units), remove, acknowledge, update, reset; `M68000_AddCycles`; dispatch | called by every device, from handlers too | the table is lazily out of date; one copy must agree with it; microsecond timers latched and cancelled; reset from inside a handler |
| Packet queue and host network threads `queue.c`, `enet_slirp.c`, `enet_pcap.c` | ring, `slirp_started`, mutex, thread | tick, output, poll, input, start, stop | polled by the Ethernet controller | two threads, teardown, full ring |
| Ethernet controller `ethernet.c` | registers, two buffers, `receiver_state`, `init_done` | register writes, `ENET_IO_Handler`, `Ethernet_Reset` | DMA, scheduler, host network, configuration dialog | receptions in pieces, one buffer for two users, resets in between |
| SCSI controller `esp.c` | dual ranked command register, status, interrupt status, counter, FIFO | command write, acknowledge, DMA control, two delayed handlers | disks, DMA, scheduler | queued commands, resets that overtake, late events |
| SCSI disks `scsi.c` | bus phase, position, sense data, write shadow | command, send, receive, status | ESP | end of a data phase, shadow of write-protected disks |
| DMA `dma.c` | twelve channels: csr, next, limit, start, stop; FIFOs | register writes, per-device read and write memory, interrupt, M2M | all block devices | chaining against the guest's refill, residual bytes, bus errors |
| Host time `host.c` | start of cycle and of real time, current clock | time, pause, reset | scheduler, hardclock, RTC, threads | switch between two clocks, pause |
| Main loop `main.c`, `shortcut.c`, `video.c` | `bEmulationActive`, pause request | event poll, pause, resume, vertical blank | scheduler, GUI | reset from the poll; pause request from another thread |
| Reset and change `reset.c`, `change.c`, `m68000.c` | configuration | cold reset, apply a dialog | every device | devices that survive a reset half-way |
| System control `sysReg.c` | interrupt status and mask, hardclock latch, event counter | register access, hardclock handler | processor, scheduler | disabled timer that still fires |
| Sound `snd.c`, `audio.c` | active and initialised flags, SDL queue, record ring | start, stop, pause, output and input loops, callback | KMS, DMA, SDL thread | callback thread, device that disappears |
| Keyboard and mouse `kms.c`, `adb.c` | status, last event, mouse steps | poll, receive, commands | SDL events, sound | overrun of a one-event register |
| Magneto-optical `mo.c` | two drives, ECC buffers, formatter, delayed signal | commands, spiral, ECC engine | DMA, scheduler | three timers, one shared signal |
| Floppy `floppy.c` | command phase, fifo, drive | commands, IO handler | DMA shared with ESP | shared channel |
| RTC, SCC, printer, bus and video registers | registers | register access | processor | little: sequential |
| NeXTdimension `dimension/`, `NextBus.cpp` | message word, csr0, i860 state | send, handle, halt, interrupt | emulation thread, i860 thread, SDL thread | atomics, control register written by two threads |
| CPU, DSP, SLiRP stack, softfloat | vendored | | | out of scope |
| GUI, debugger, configuration, files, disk tool | | | | pure I/O |

What makes each of them correct:

* *scheduler*: a timer fires neither early nor out of order, arming or cancelling
  one moves no other, the vertical blank and the event poll recur whatever the
  devices do;
* *host network*: packets reach the guest in order, none twice, the stack is never
  run by both threads, nobody uses what has been torn down, the guest is not
  shut out;
* *Ethernet*: memory gets whole packets, the network is busy exactly while the
  buffer is taken, the interrupt lines follow status and masks, the handler is
  alive whenever the controller is enabled, a reception ends;
* *SCSI controller*: the command register never jams, the line is the gated
  interrupt, a transfer is complete only when its count is used up, no data
  moves without a command;
* *disks*: a read returns the last write; *DMA*: a buffer is handed over exactly
  once; *host time*: never backwards; *hardclock*: one interrupt per period;
  *sound*: output resumes after every pause; *KMS*: every event is delivered or
  reported overrun; *MO*: every command of a drive is answered by that drive,
  sectors and memory get the next block and no other; *NeXTdimension*: no message
  is lost, an i860 runs only after its reset, a board's memory outlives its thread.

`PROJECT.json` lists every component with what is left out of it, and every
hazard at the line where it bites.

## 2. Modules

```
Timers  <--implements--  CycInt  <-- MCCycInt
                           ^-- CycIntProofs
PacketFifo  <--implements--  EnetSlirp --EXTENDS--> Queue
                               ^-- EnetSlirpProofs
Ethernet   <-- EthernetProofs    (its rule of use is EnetSlirp's assumption about
                                  the emulation thread)
Esp        <-- EspProofs
Mailbox  <--implements--  Dimension  <-- DimensionProofs
Kms --EXTENDS--> Sound
  ^-- KmsProofs
MoDrives   <-- MoDrivesProofs
MoEcc      <-- MoEccProofs
```

Everywhere a timer appears as membership in a set `armed`, its handler is one
action that is enabled while it is a member, and the fairness of that action is
what `CycInt` establishes with `TimersSpec`: an armed timer fires.

### CycInt: the interrupt scheduler

`sched` is the record of the static variables of `cycInt.c`: the table
`handlers`, the copy `pending`, the index `active`, the counter `over`
(`nCyclesOver`) and `usCheck`. Each C function is an operator from such a record
to the next one, with the same name less its `CycInt_` prefix, so that a handler,
which makes several calls, is their composition and *one* action.

The actions are the instruction (`M68000_AddCycles`, which enters the dispatch
loop if something is due), cycles added inside a device call (`InnerCycles`), a
register access from the guest that makes scheduler calls, the three kinds of
handler, and the end of the dispatch loop. `VideoVbl` and `EventHandler` are the
real handlers; `EventHandlerReset` is the event handler in which the user
pressed the reset shortcut, so that the whole table is emptied before the
handler arms itself. `DeviceHandler(h)` stands for the handlers of all other
devices: acknowledge, then none, one or two calls, which is what the handlers of
the emulator make. `HostClock` moves host time in realtime mode.

`Timers` is what the devices expect: independent counters. The refinement maps
`left[h]` to the entry's cycles minus `over` when it is a cycle timer, else `Off`.

### Queue, EnetSlirp: the host network

`Queue` has the functions of `queue.c` on a ring as a value. `EnetSlirp` has the
two threads as program counters `tick` and `emu`, one action per lock, unlock,
test of `slirp_started` and call made with the lock held. Stopping is modelled
call by call, in the order of `enet_slirp_stop`. Locking a destroyed mutex is
undefined: it succeeds or hangs the thread for ever (`"hung"`). Entering into a
destroyed queue or into a full one is an error by `queue.h` and is recorded in
`misuse`: the first has no effect a reader could rely on, the second drops the
packet. `output` is a history of the calls of `slirp_output`. The SLiRP stack is outside: it may output any packet whenever it runs.
`enet_pcap.c` repeats the structure with libpcap and is not mapped separately.

`PacketFifo` is an ordered channel that loses nothing without a word: every call of
`slirp_output` is a step of it, which appends the packet (`Produce`), comes after
the interface is gone (`TooLate`), or finds `Capacity` packets waiting and sets
`overrun` (`Overrun`). The refinement maps the waiting packets to
`Elements(slirpq)`, oldest first, while the queue lives, and `overrun` to
`"full" \in misuse`.

### Ethernet: the controller

`enet` is the registers, `rx` and `tx` the buffers, `memory` a bounded history of
the units that went to memory since the reception began, `line` the two
interrupts. `ENET_IO_Handler` is `HandlerStop` (controller in reset) or `HandlerIo`,
which is the receive half followed by the send half. How much the DMA channel
moves is arbitrary, zero included; so is what the address filter says.

Two variables are chosen at the start and kept: `turbo`, which of the two
controllers the machine has (from the constant `Machines`), and `resets`, which
resets may come at any time (from `Regimes`). With `resets = {}` the guest resets
only while the receive buffer holds no packet; `"midpacket"` lifts that; `"hard"` adds the
emulator's own reset. So one run asks the questions about the registers of an
orderly guest and those about survival under every reset.

### Esp: the SCSI controller

`esp` is the chip, `bus` the phase and the bytes the disk still has, `armed` the
delayed events. The functions of `esp.c` are operators on a record of all state
that give the set of outcomes; `FinishCommand` starts the waiting command, which
starts no further one, so the C recursion is unfolded once. Where the C code
aborts the emulator there is no outcome.

`Reset_NeXT` (`reset.c:50-60`) is not an action: it empties the scheduler and
clears the interrupt line but calls nothing of `esp.c`, so the chip's registers stay
as they were, possibly with a command in progress and no event. `NoStuckCommand` and
`LineFollows` are claims about the time between two resets of the machine; a
chip reset by the guest (`ResetHard`) sets both right again.

### Dimension and Mailbox: a NeXTdimension board

The i860 of a board runs on its own host thread. The other threads talk to it
through the bits of one atomic word, `m_port`: loading it and the
compare-and-swap are two actions of whichever thread sends (`LoadPort`,
`CasPort`, `CasFails`), the exchange by which the i860 takes all bits is one
(`Take`). `todo` is what a thread is about to send, in order; a write to `csr0`
sends its messages *before* the register changes, so `store` holds the value
meanwhile (`Sent`). `pc["i860"]` follows the i860's thread: take the port,
`NextDimension::handle_msgs`, which first sees to a blank and then, in this order,
to the end of the thread, a reset and an interrupt (`Dispatch`), then sleep or run a
burst; in a burst the i860 may write `csr0` itself. The blanking interrupt
reads the host's blank state (`BlankState`), reads `csr0` (`BlankLoad`), writes it
changed (`BlankStore`) and tests the mask (`BlankMask`), without a lock, and is an
action for each. The
emulation thread writes `csr0`, signals blanks, pauses and resumes, and removes
the board: it sends `kill` and waits for the thread's end (`Removed`).

`Mailbox` is the promise of the port: what is posted stays until it is taken, all
that is there is taken, nothing else is. The refinement is the identity on the
bits; it says that a failed compare-and-swap is a stutter and that a successful one
never overwrites what came in between.

### Sound and Kms: sound and the sound box

`Sound` has the output and the input loop of `snd.c` on their two timers, the
devices of `audio.c` with their three flags (works, is enabled as the emulator
believes, is running as SDL was told last), the host's queue and the record ring,
and of the DMA channels what the loops see: enabled, the next buffer ready,
something left before the limit. `Kms` EXTENDS it with the registers and
commands of `kms.c` through which the guest starts and stops sound, with the
events of keyboard and mouse that share one register, the mouse movement that is
spread over a timer, and with the whole machine's reset. The user pauses,
resumes and switches sound on and off in between. `unread` counts events as a
history: what the guest should be told.

### MoDrives: two drives, one timer

Every command of a magneto-optical drive ends with a signal that a timer
delivers. There are two drives and one timer, and the variables `delayed_drive`
and `delayed_attn` say whose signal it holds. `Command` is a command that
takes time, `Stop`, `Start` and `Select` are those that act on the timer or the
selection; the user inserts and ejects; `MO_IO_Handler` is the sector timer, also
one for both drives.

### MoEcc: formatter and ECC engine

Sectors pass under the head at a fixed rate (`Sector`); the ECC engine fills,
codes and drains two buffers in steps of its own timer (`ECC_IO_Handler`). A
buffer holds the number of the block in it, so that a block that is lost,
repeated or overtaken shows in `moved`. `since` counts the steps between two
sectors, of which there are at least `Steps`: `SectorDue` is the ratio of the two
periods in `mo.c` (`ECC_DELAY` is a fifth of `SECTOR_IO_DELAY`). While the sector the
operation is for has not come, the formatter counts sectors that do not match and gives
up after 32 (`SECTOR_TIMEOUT_COUNT`); no reset clears that count, so `OtherSector` may
give up at any of them. That `Steps` is at
least 3 is an assumption of the module. The guest gives the next operation when the engine has come to
rest, or after it reset the formatter, and sets up DMA in time; what happens if it does not
is in the hazards. `clean` is a history: the operation began with the buffers
and `ecc_repeat` as the engine needs them.

## 3. Runs

| run | bounds | shows |
|---|---|---|
| `cyc_cycle` | two permanent timers, one device with delays of 2 and 3 cycles, periods of 4 and 6 cycles, instructions of 1 or 2 cycles | `PendingInStep`, `PermanentTimersArmed`, the refinement `TimersSpec`, and under fairness `VblRecurs`, `EventLoopRecurs` |
| `cyc_realtime` | host time to 4 us | `LatchIsLive`: a latched microsecond timer is live when served; `ExpiredIsServed`: an expired one is served or armed again, never forgotten when another timer takes its latch, as long as the CPU calls the scheduler within `MaxOver` cycles |
| `slirp_threads` | ring of 3 slots, two packets | one thread at a time in the stack, no thread left after stop, the refinement `FifoSpec` (a packet is lost only after the teardown or as a recorded overrun, which is reached), and under fairness `GuestPolls` |
| `slirp_destroyed` | ring of 2 slots | **violation**, finding 1 |
| `eth` | two packets of 1 or 3 units, both controllers, masks all or none, with all resets or with none in the middle of a packet | whole packets, `BusyIffHeld`, `InterruptsFollow`, the handler is alive and polls only a running interface, and under fairness `ReceptionEnds` |
| `eth_overwrite` | two packets of 2 units | **violation**, finding 2 |
| `esp_chip` | counts 1 and 3, data phases of up to 2 bytes | no jam, truthful line and status, a reset that only NOP lifts; deadlock is checked |
| `esp_stale` | the same | **violation**, finding 3 |
| `nd_threads` | one board; `csr0` is written as reset alone, or as interrupt and blank mask | `PortIsMailbox`, no instruction before a reset, no thread without a board, and under fairness `RemovalEnds`, `MessagesTaken` |
| `kms_box` | host queue full at 1 unit, mouse movements to 2 steps, unread events counted to 2, devices that open | `LoopsAlive`, `ActiveOnlyEnabled`, `MouseMoves`, `EventsTold`, and under fairness `BlocksEnd` |
| `mo_drives` | the two drives there are | `SignalScheduled`, `SpiralScheduled`, `StatusShowsSelected`, and under fairness `CommandsEnd` |
| `mo_ecc` | operations of 1 and 4 sectors, 3 engine steps between sectors | `BlocksInOrder`, `NoAbort`, `EventsTrue`, and under fairness `OperationEnds`, `EngineRests` |

Why the bounds are enough. The scheduler compares pairs of entries and keeps one
copy: a device between the two permanent timers gives every order of deadlines
and of scan positions, and delays as long as the longest instruction and longer give
timers that are due, late and early together; `MaxLate` and `MaxOver` only cut
off cycles without end. A ring of three slots wraps, fills and drains, with the
front at each slot; that no larger ring differs is proved. A packet of three
units has a first, a middle and a last piece; two identities tell a mixture from
a packet. A transfer count of 1 and 3 against 2 bytes of data lets each of count
and data end first. Values of `csr0` matter by whether they reset and whether they
unmask, and both kinds are there. A queue of one unit is full and empty in turn; two steps
of a mouse are a first and a last, two unread events are one and one too many.
Operations of four sectors use each buffer twice, and one sector is the case that
is first and last at once. Three steps of the engine between sectors is the
tightest ratio at which it keeps pace; with two, `NoAbort` fails. The periods in
`mo.c` give five.

A few bounds leave cases out, on purpose. The guest of `eth` that resets at any time does
not use masks and status (`Driver`), because the emulator's reset leaves the interrupt lines alone and
`InterruptsFollow` makes no claim about it. In `Kms` one behaviour uses either
sound or keyboard and mouse (`use`): they share the enable bit and the resets, and
both sides are subject to those. `DeviceMayFail = FALSE` because with a host
device that cannot be opened the output loop waits for ever (a hazard without a property,
`audio.c:258`).

`CHECK_DEADLOCK FALSE` appears where the system may really stop: in `EnetSlirp`
when the tick thread hangs on the destroyed mutex and `enet_slirp_stop` waits for
it (a consequence of finding 1), and in the `Ethernet` runs, whose guest
may always write a register, so that a deadlock check would say nothing.

### Findings

1. `enet_slirp.c:159`: queue and mutex are destroyed before the thread that uses
   them has ended.
2. `ethernet.c:733`: a controller reset while the receive buffer holds a packet clears
   `NET_BUSY` but keeps the packet and the receiver's state. A loopback packet
   then takes the buffer between two pieces, and memory gets the head of the first
   packet followed by the whole of the second.
3. `esp.c:630`: a reset ends the command but leaves the transfer's event armed,
   which then reports a completed transfer without a command.

A fourth disagreement has no run of its own, since it is a check left out rather than a
state gone wrong. `includes/queue.h:78-81` calls `QueueEnter` on a full queue an error
to be avoided by asking `QueueIsFull`. Nobody asks: `slirp_output` (`enet_slirp.c:47`)
and its twin (`enet_pcap.c:50`) enter in any case, `QueueEnter` returns without
a word (`queue.c:57-61`), the packet is lost and its memory is never freed.
`slirp_threads` reaches that state (`"full"` in `misuse`); `FifoSpec` has it as
`Overrun`, apart from what the channel promises, and shows that it takes no other packet with it.

### Mutants

Next to a definition stands its mutant, marked so: the definition with one
plausible error (a dropped guard, a missing update, an order changed). Each
property of a passing run is violated by one of them.

## 4. Fairness

* *Scheduler*: weak fairness of the instruction and of the dispatch loop. The
  emulation thread executes instructions for ever, and `M68000_AddCycles` adds at
  least one cycle each time. No fairness is assumed of devices.
* *Host network*: weak fairness of the tick thread's steps and of the emulation
  thread once it has the mutex; strong fairness of the emulation thread's lock. The
  tick thread waits in `select` for up to 10 ms without the lock in every turn, so a
  waiting poll sees the mutex free again and again; SDL's mutexes wake a waiter
  then. Whether the interface is stopped is left open: `GuestPolls` says that
  either the queue gets polled or it is empty or stopped again and again.
* *Ethernet*: weak fairness of the handler's two branches: an armed event of the
  scheduler is served (`TimersSpec`). None of the guest: a driver
  that never sets up a DMA channel must still see the reception end, as overflow.
* *Dimension*: weak fairness of the i860's thread, of sending and of the join, which
  the host's scheduler gives to threads that can run. Strong fairness of the
  compare-and-swap, since the other thread does not win every race for ever, and
  of the end of a burst, which has a fixed number of cycles. None of the guest,
  the user or the other thread's sends: a sleeping i860 must see its messages alone.
* *Sound and Kms*: a pause ends (weak fairness of `UnPause`). The two loops'
  handlers have strong fairness because the user may pause again and again, and
  between two pauses events are served (the poll that hears the user is one).
  The host's audio threads play (weak) and record (strong, as recording is
  stopped and started by the guest). `BlocksEnd` is stated for users who stop
  switching sound on and off some day: each switch may start the block anew.
* *MoDrives, MoEcc*: weak fairness of the timers' handlers; in `MoEcc` the drive
  spirals, so sectors pass. None of the guest.
* *Esp*: none. Its transfers wait for a DMA channel that the guest may never set
  up, so a command need not end; `NoStuckCommand` says that the chip does not lose it.

## 5. Proofs

Every theorem holds for every value of the constants that satisfies the named
assumptions of its module (`ASSUME`), which TLC evaluates in each run.

**`CycIntProofs`**. In both modes: `TypeCorrect`, `Spec => []TypeOK`. The lemmas say
which entry `LowestInterrupt` returns. It is a `CHOOSE`, so first a least entry
must exist: that is `FirstEntry`, by well-founded
induction on the entry numbers.

In both modes too: `LatchStaysLive`, with the inductive invariant `LatchInv`. It says that the
copy is that of the active entry, which is armed if there is one (`Matched`), that a
latched microsecond timer has expired (`Live`), and that vertical blank and event
poll have an armed entry (`Alive`). Every operation of the scheduler but
`AddCycles` ends in `SetNewInterrupt`, which never chooses a microsecond timer
(`SetNewQuiet`), so a latch does not survive an operation that might have disarmed
its owner; the host's clock only raises `now`, and the reset that turns it back empties
the table first. `Alive` needs `Matched`: a handler acknowledges the *active* entry,
and only if that is its own does a device's handler leave the other two alone.
`DispatchSound` and `NeverDisarmed` state what the invariant says of the dispatch
loop and of the two permanent timers. `TimesKept` is an action property: the host time for
which one of these two is armed changes only in its own handler and in a reset, however
devices arm and remove theirs (`SameBut` follows that through every operation). The three are
not among the properties of a run.

The rest is in cycle mode (`~Realtime`). The inductive invariant is
`CInv`: types, `InStep` (the copy is the entry due first and agrees with it once
`over` is subtracted) and the two permanent timers. Neither of the last two
suffices alone: if no timer were armed the table would not be brought up to date
when one is added, and without agreement the dispatch loop would serve the wrong entry.
Inside a handler `InStep` is lost for a moment, after `over` has been charged and
before the copy is made anew; `Settled` names that. From `CInv`
follow `CopyInStep`, `PermanentArmed` and `ImplementsTimers`, which maps each action to an
action of `Timers`: instructions to `Elapse`, handlers to `Fire`, register accesses to
`Set` or a stutter, the end of the loop to `Resume`.

Why not in realtime mode: there `ActiveInterrupt` can be 0, since the timers that are armed may
all be in microseconds, while `nCyclesOver` goes on counting. A cycle timer that is
added then is not preceded by an update (`cycInt.c:187`), the cycles counted before
it was there are charged to it at the next update, and it fires early by as many. TLC
finds this at once when `Timers` is made a property of the realtime configuration.
In cycle mode the invariant itself excludes it: a permanent cycle timer is
always armed.

**`EnetSlirpProofs`**. First the arithmetic of the ring: `EnterAppends` and
`DeleteTakesHead` say that `QueueEnter` appends to `Elements` and `QueueDelete` takes its
head, for every ring size. The inductive invariant `Inv` adds to the types who holds the
mutex when (`TickHolds`, `EmuHolds`), that what is started is live and that
stopping is not started. A destroyed mutex excludes nobody, which is why `TickHolds`
speaks of a live mutex only and exclusion needs that the emulation thread is
inside the stack only while the interface is started. `SlirpIsExclusive` and
`NoThreadLeft` follow, and `ImplementsFifo` from `OutputFacts`: a packet put out is appended, too
late, or a recorded overrun.

**`EthernetProofs`**, for all lengths, masks, machines and regimes. The invariant `Inv` has four
parts. `Typed` includes that `memory` holds units of packets. `Running` has the
handler and the host interface: `armed` and `started` against the reset bit and
the wire chosen. `Told` has the interrupt lines. `Orderly`, for `resets = {}`,
ties the three views of a reception together: `NET_BUSY` is set iff the buffer holds a
packet, and what is in memory is the first `limit - size` units of *that* packet while the
receiver receives, and a whole one when it waits. `PacketsIntact` and `BusyIffHeld` alone
are not inductive: without the count that relates memory to the buffer a piece
could be written twice, and without the receiver's state a loopback could change
the packet under it. The receive half and the send half of the handler are
proved apart, on records, and composed.

**`EspProofs`**, for all transfer counts and data phases of any length. The chip's functions work on a
record; `Good` is what each of them keeps (types, a data phase has a byte left, the
line is the gated interrupt, complete means counted), and `Outcome` what a command
comes to: it ends, or an event is on its way. `NoStuckCommand` alone is not
inductive: an armed `ESP_IO` that only flushes after the last byte goes and leaves
nothing, so `Settled` asks for a `Pending` event that ends the command or
continues its transfer; and the padding transfer ends at once only because a data phase has a
byte left. The recursion between finishing and starting is
followed once (`FinishSettled`), as in the code: what starts from the bottom of
the register leaves nothing behind it. The action property `OnlyNopLeavesReset` needs one more
part of `Settled`: while a chip reset is in the register no command is in progress.
`SameReset` follows that reset through every function.

**`DimensionProofs`**. `IInv` has the types, `PlacesOK` (what each thread is about to do
agrees with its place), `HandlesReset` (until its first reset the
i860's thread has one in the port or in hand) and `Ending` (a thread that has
ended was told to, and a board goes only after it). `NotBeforeReset` follows from `HandlesReset`: resuming the
emulation un-halts the i860 whatever its state, and what saves it is that a reset
is in the port from the start and the thread takes its messages before it looks
at the flag. `PortImplementsMailbox` maps the compare-and-swap to `Put` and the
exchange to `Take`; the board that is inserted again starts from `New`.

**`MoDrivesProofs`**, for any set of drives. `IInv` has the types and the three invariants of the run, which
are inductive together and not apart: a command is accepted only by a selected
drive that is not executing one, and it is `StatusShowsSelected` and
`SignalScheduled` together that say that then no other drive's signal is in the
timer.

**`KmsProofs`**, for any depth of the host's queue and any movement. The types; `LoopsInv` (a loop that is on is scheduled or has reported
its overrun, and the sound box is enabled, which its handlers rely on); `MouseMoves`; and `EventsInv`, which
adds to `EventsTold` that an unread event shows in the status: without it the next
event would not be reported as an overrun.

**`MoEccProofs`**, for operations of any positive number of sectors and for any ratio of the two
periods of at least 3 (`CountAssumption`, `StepAssumption`; the code has 5).
None of `BlocksInOrder`, `NoAbort` and `EventsTrue` is inductive: that a block is the next
one depends on where the block before it is. `IInv` follows the operation by the
number of sectors that have passed (`Sectors`) and says, for each state of the
engine, how many blocks were taken from memory, coded and moved, whose
block is in which buffer, and how many engine steps ago the last sector was.
`Writing` has the engine one block ahead of the head, `Reading` and `Verifying` one
behind, `Resting` what is done when it rests. The bounds on `since` are what keeps
the engine in time: a write fills, codes and waits in at most three steps after a sector, so
that with `Steps >= 3` the next sector finds a coded buffer and a command finds
an engine at rest. With `ECC_BLOCKS` the engine works on every second block without a command;
`Repeats` ties `ecc_repeat` to the parity of the block, and `Lasting` says that
such operations have an even number of sectors. `NeverAborts` does
not assume `clean`: it is proved also for operations that begin with what a reset of
the formatter left in buffers and `ecc_repeat` (`EngineFits`, `BuffersFit`). From `IInv` follow
`MovesAllInOrder`, `NeverAborts` and `TellsTheTruth`. There is one lemma per step of the
engine, per kind of sector and per action of the guest.

With this every invariant, action property and refinement of the runs is a
theorem. Only model-checked: liveness, which with fairness is out of the prover's
reach (`VblRecurs`, `EventLoopRecurs`, `ExpiredIsServed`, `GuestPolls`,
`ReceptionEnds`, `RemovalEnds`, `MessagesTaken`, `BlocksEnd`, `CommandsEnd`,
`OperationEnds`, `EngineRests`), and the three violations, which are
counterexamples.

## 6. Not modelled

`PROJECT.json` gives the reason for each component that is `partly` modelled or
not at all. In short:

* the contents of disks, packets and samples, the address filter, the FIFO of the
  SCSI controller, and registers that only store a value: no property tells their
  values apart;
* the other DMA channels and the burst buffers. Where a device moves data, the channel is an arbitrary
  amount within what its caller offers, as the guest may set up any buffer at any time; the
  sound channels, where chaining matters to the loops, are part of `Sound`;
* the disks' block tables and their write shadow, the floppy drive, the clock chip,
  the serial ports: one caller, one thread, and results a test reaches;
* the switch between the two clocks of `host.c`, which computes with
  readings of host clocks in floating point: `CycInt` takes host time to be any clock
  that does not go back;
* the vendored processors and network stack (WinUAE, the DSP and i860
  interpreters, SLiRP, softfloat), which are most of the lines of the repository: they are
  sequential interpreters with a state far beyond a model checker, and
  reach the rest through the actions that are modelled (cycles that pass, packets that come);
* the user interface, the debugger, configuration files and the disk tool: pure I/O.

Hazards of the code that no property covers are listed in `PROJECT.json` with the
reason. Most are in a model already, but no document, comment or test says what
should happen.
