-------------------------------- MODULE MoEcc --------------------------------
(***************************************************************************)
(* The formatter and the error correction of the magneto-optical           *)
(* controller (mo.c). Sectors pass under the head of the spiralling drive  *)
(* at a fixed rate. The formatter reads them into one of two buffers, or   *)
(* writes them from one, while the ECC engine fills, codes and drains the  *)
(* other in steps of its own timer: neither waits for the other, and a     *)
(* command the engine is too busy for is ignored.                          *)
(*                                                                         *)
(* The guest sets up DMA in time, and gives the next command when the      *)
(* engine has come to rest or was reset.                                   *)
(*                                                                         *)
(* Left out: coding from memory to memory (ECC_DIS) and the toggling of    *)
(* the buffers it needs, errors on the disk, DMA buffers that are not      *)
(* whole blocks, sector increments but 1, operations without the sector    *)
(* timer, and heads that do not fit the operation.                         *)
(***************************************************************************)
EXTENDS Integers, Sequences

CONSTANTS
  Counts,   \* numbers of sectors of an operation
  Steps     \* steps of the engine between two sectors, at least: 5 in the code

\* A buffer is filled, coded and handed over in three steps.
ASSUME CountAssumption == Counts \subseteq Nat \ {0}
ASSUME StepAssumption == Steps \in Nat /\ Steps >= 3

VARIABLES
  fmt_mode, sector_count, write_timing,
  gap,      \* sectors before the one wanted, -1 when it has passed
  ecc,      \* the engine: its state, timer (INTERRUPT_ECC_IO) and buffers
  blocks,   \* MOCSR2_ECC_BLOCKS
  dma,      \* blocks the DMA channel is set up for
  events,   \* interrupts, and why DATA_ERR
  since,    \* steps of the engine since the last sector
  \* of the operation: its sectors, blocks taken from memory, coded, and moved to
  \* where they belong, and whether its conditions are those the engine is made for
  total, taken, coded, moved, clean

fmt == <<fmt_mode, sector_count, write_timing, gap>>
data == <<taken, coded, moved>>
op == <<total, clean>>
vars == <<fmt, ecc, blocks, dma, events, since, data, op>>

Passed == -1

\* Sizes and limits of a buffer: nothing, a sector decoded, a sector encoded.
EMPTY == 0
DATA == 1
DISK == 2

In == ecc.in
Out == 1 - ecc.in
Buffer(size, limit, block) == [size |-> size, limit |-> limit, block |-> block]
Cleared == [i \in {0, 1} |-> Buffer(EMPTY, DATA, 0)]

Init == /\ fmt_mode = "IDLE" /\ sector_count = 0 /\ write_timing = FALSE /\ gap = 0
        /\ ecc = [state |-> "DONE", mode |-> "READ", repeat |-> FALSE, armed |-> FALSE,
                  in |-> 0, buf |-> Cleared]
        /\ blocks = FALSE /\ dma = 0 /\ events = {} /\ since = 0
        /\ total = 0 /\ taken = 0 /\ coded = 0 /\ moved = <<>> /\ clean = TRUE

-----------------------------------------------------------------------------
(***************************************************************************)
(* Commands of the engine.                                                 *)
(***************************************************************************)

\* ecc_write: it makes its buffer ready. Not while it is busy.
EccWrite(e) ==
  IF e.state # "DONE" THEN e
  ELSE [e EXCEPT !.mode = "WRITE", !.state = "FILLING", !.repeat = @ \/ blocks,
                 !.buf[e.in] = Buffer(EMPTY, DATA, 0), !.armed = TRUE]

\* ecc_read and ecc_verify.
EccRead(e) == IF e.state # "DONE" THEN e
              ELSE [e EXCEPT !.mode = "READ", !.state = "ECCING",
                             !.repeat = @ \/ blocks, !.armed = TRUE]
EccVerify(e) == IF e.state # "DONE" THEN e
                ELSE [e EXCEPT !.mode = "VERIFY", !.state = "ECCING", !.armed = TRUE]

\* Mutant: the second block is followed by more.
SequenceRepeats(e) ==
  IF ~e.repeat THEN [e EXCEPT !.state = "DONE"]
  ELSE IF e.mode = "WRITE"
  THEN [e EXCEPT !.armed = TRUE, !.state = "FILLING", !.buf[e.in].size = EMPTY]
  ELSE [e EXCEPT !.armed = TRUE, !.state = "ECCING"]

\* ecc_sequence_done: with ECC_BLOCKS the engine does every second block without
\* a command.
SequenceDone(e) ==
  IF ~e.repeat THEN [e EXCEPT !.state = "DONE"]
  ELSE IF e.mode = "WRITE"
  THEN [e EXCEPT !.repeat = FALSE, !.armed = TRUE, !.state = "FILLING",
                 !.buf[e.in].size = EMPTY]
  ELSE [e EXCEPT !.repeat = FALSE, !.armed = TRUE, !.state = "ECCING"]

-----------------------------------------------------------------------------
(***************************************************************************)
(* Steps of the engine (ECC_IO_Handler).                                   *)
(***************************************************************************)

\* The handler acknowledges its interrupt; most steps ask for another.
Stepped == [ecc EXCEPT !.armed = FALSE]
Signal(event, condition) == events' = events \cup (IF condition THEN {event} ELSE {})

\* dma_mo_read_memory fills the buffer, if the channel is set up.
Filling ==
  /\ ecc.state = "FILLING"
  /\ \/ /\ dma > 0
        /\ ecc' = [ecc EXCEPT !.buf[In] = Buffer(DATA, DATA, taken + 1), !.state = "ECCING"]
        /\ dma' = dma - 1 /\ taken' = taken + 1
        /\ UNCHANGED events
     \/ /\ dma = 0
        /\ ecc' = [ecc EXCEPT !.buf[In].limit = DATA]
        /\ Signal("STARVE", TRUE)
        /\ UNCHANGED <<dma, taken>>
  /\ UNCHANGED <<coded, moved>>

Encoding ==
  /\ ecc.state = "ECCING" /\ ecc.mode = "WRITE" /\ ecc.buf[In].limit = DATA
  /\ ecc' = [ecc EXCEPT !.buf[In].size = DISK, !.buf[In].limit = DISK,
                        !.in = Out, !.state = "WAITING"]
  /\ coded' = coded + 1
  /\ Signal("ECC_DONE", sector_count = 1)
  /\ UNCHANGED <<dma, taken, moved>>

WaitingForRead ==
  /\ ecc.state = "ECCING" /\ ecc.mode # "WRITE" /\ ecc.buf[In].size # DISK
  /\ UNCHANGED <<ecc, dma, events, data>>

\* A sector that is verified ends here.
Decoding ==
  /\ ecc.state = "ECCING" /\ ecc.mode # "WRITE" /\ ecc.buf[In].size = DISK
  /\ coded' = coded + 1
  /\ Signal("ECC_DONE", sector_count = 0)
  /\ \/ /\ ecc.mode = "VERIFY"
        /\ ecc' = SequenceDone([Stepped EXCEPT !.in = Out, !.buf = Cleared])
        /\ moved' = Append(moved, ecc.buf[In].block)
     \/ /\ ecc.mode = "READ"
        /\ ecc' = [ecc EXCEPT !.buf[In].size = DATA, !.buf[In].limit = DATA,
                              !.in = Out, !.state = "DRAINING"]
        /\ UNCHANGED moved
  /\ UNCHANGED <<dma, taken>>

\* dma_mo_write_memory; a block the channel is not set up for is dropped.
Draining ==
  /\ ecc.state = "DRAINING"
  /\ \/ /\ dma > 0
        /\ ecc' = SequenceDone([Stepped EXCEPT !.buf[Out].size = EMPTY])
        /\ moved' = Append(moved, ecc.buf[Out].block)
        /\ dma' = dma - 1
     \/ /\ dma = 0
        /\ ecc' = SequenceDone(Stepped)
        /\ UNCHANGED <<moved, dma>>
  /\ UNCHANGED <<taken, coded, events>>

\* Mutant: the buffer is filled again before it is written.
WaitingNot ==
  /\ ecc.state = "WAITING"
  /\ ecc' = IF sector_count > 0 THEN EccWrite(SequenceDone(Stepped))
            ELSE SequenceDone(Stepped)
  /\ UNCHANGED <<dma, events, data>>

\* Mutant: it is filled again after the last sector.
WaitingForMore ==
  /\ ecc.state = "WAITING"
  /\ ecc' = IF ecc.buf[Out].size # EMPTY THEN ecc ELSE EccWrite(SequenceDone(Stepped))
  /\ UNCHANGED <<dma, events, data>>

\* The block that is encoded waits for its sector.
Waiting ==
  /\ ecc.state = "WAITING"
  /\ ecc' = IF ecc.buf[Out].size # EMPTY THEN ecc
            ELSE IF sector_count > 0 THEN EccWrite(SequenceDone(Stepped))
            ELSE SequenceDone(Stepped)
  /\ UNCHANGED <<dma, events, data>>

\* The engine was reset while its timer ran.
Late == ecc.state = "DONE" /\ ecc' = Stepped /\ UNCHANGED <<dma, events, data>>

ECC_IO_Handler ==
  /\ ecc.armed
  /\ Filling \/ Encoding \/ WaitingForRead \/ Decoding \/ Draining \/ Waiting \/ Late
  /\ since' = IF since < Steps THEN since + 1 ELSE since
  /\ UNCHANGED <<fmt, blocks, op>>

-----------------------------------------------------------------------------
(***************************************************************************)
(* A sector under the head (fmt_io).                                       *)
(***************************************************************************)

\* fmt_sector_done.
SectorDone == /\ sector_count' = sector_count - 1
              /\ fmt_mode' = IF sector_count = 1 THEN "IDLE" ELSE fmt_mode
              /\ Signal("OPER_COMPL", sector_count = 1)
              /\ UNCHANGED gap

ThisSector == total - sector_count + 1
Fetched == [ecc EXCEPT !.buf[In] = Buffer(DISK, DISK, ThisSector)]

\* mo_read_sector, mo_verify_sector, mo_erase_sector.
ReadSector ==
  /\ gap = 0 /\ SectorDone
  /\ \/ fmt_mode = "READ" /\ ecc' = EccRead(Fetched)
     \/ fmt_mode = "VERIFY" /\ ecc' = EccVerify(Fetched)
     \/ fmt_mode = "ERASE" /\ UNCHANGED ecc
  /\ UNCHANGED <<write_timing, moved>>

\* mo_write_sector.
WriteSector ==
  /\ fmt_mode = "WRITE" /\ gap = 0 /\ write_timing /\ ecc.buf[Out].limit = DISK
  /\ SectorDone
  /\ moved' = Append(moved, ecc.buf[Out].block)
  /\ ecc' = EccWrite([ecc EXCEPT !.buf[Out].size = EMPTY, !.buf[Out].limit = DATA])
  /\ UNCHANGED write_timing

\* Mutant: the first buffer is not filled before its sector.
OtherSectorUnfilled ==
  /\ fmt_mode # "READ_ID"
  /\ gap # 0 \/ (fmt_mode = "WRITE" /\ ~write_timing)
  /\ gap' = IF gap \in {0, Passed} THEN Passed ELSE gap - 1
  /\ fmt_mode' = IF gap = Passed THEN "IDLE" ELSE fmt_mode
  /\ Signal("TIMEOUT", gap = Passed)
  /\ write_timing' = (write_timing \/ fmt_mode = "WRITE")
  /\ UNCHANGED <<sector_count, ecc, moved>>

\* Mutant: a sector that has passed is waited for.
OtherSectorUntimed ==
  /\ fmt_mode # "READ_ID"
  /\ gap # 0 \/ (fmt_mode = "WRITE" /\ ~write_timing)
  /\ gap' = IF gap \in {0, Passed} THEN Passed ELSE gap - 1
  /\ \/ fmt_mode = "WRITE" /\ write_timing' = TRUE /\ ecc' = EccWrite(ecc)
     \/ fmt_mode # "WRITE" /\ UNCHANGED <<write_timing, ecc>>
  /\ UNCHANGED <<fmt_mode, sector_count, events, moved>>

\* fmt_match_id finds another sector, or the one before which a write fills its
\* first buffer. It gives up once the sector wanted has passed, and at any other
\* before it: sector_timer, which no reset clears, may be at its limit of 32.
OtherSector ==
  /\ fmt_mode # "READ_ID"
  /\ gap # 0 \/ (fmt_mode = "WRITE" /\ ~write_timing)
  /\ gap' = IF gap \in {0, Passed} THEN Passed ELSE gap - 1
  /\ \E timeout \in CASE gap = Passed -> {TRUE}
                       [] gap = 0 -> {FALSE}
                       [] OTHER -> BOOLEAN :
       /\ fmt_mode' = IF timeout THEN "IDLE" ELSE fmt_mode
       /\ Signal("TIMEOUT", timeout)
  /\ \/ fmt_mode = "WRITE" /\ write_timing' = TRUE /\ ecc' = EccWrite(ecc)
     \/ fmt_mode # "WRITE" /\ UNCHANGED <<write_timing, ecc>>
  /\ UNCHANGED <<sector_count, moved>>

ReadId == /\ fmt_mode = "READ_ID"
          /\ Signal("OPER_COMPL", TRUE)
          /\ UNCHANGED <<fmt, ecc, moved>>

\* While the timer of the engine runs, it has had its steps since the last sector.
SectorDue == fmt_mode # "IDLE" /\ (since = Steps \/ ~ecc.armed)

Sector == /\ SectorDue
          /\ ReadSector \/ WriteSector \/ OtherSector \/ ReadId
          /\ since' = 0
          /\ UNCHANGED <<blocks, dma, taken, coded, op>>

-----------------------------------------------------------------------------
(***************************************************************************)
(* The guest.                                                              *)
(***************************************************************************)

\* A new operation, once the last one has ended: osp_formatter_cmd. The events are
\* acknowledged and the DMA channel is set up before.
Begin(mode, n, g) ==
  /\ fmt_mode = "IDLE" /\ ecc.state = "DONE"
  /\ fmt_mode' = mode /\ sector_count' = n /\ gap' = g /\ events' = {}
  /\ write_timing' = IF mode = "WRITE" THEN FALSE ELSE write_timing
  /\ dma' = IF mode \in {"READ", "WRITE"} THEN n ELSE 0
  /\ total' = n /\ taken' = 0 /\ coded' = 0 /\ moved' = <<>>
  /\ clean' = (/\ ~ecc.repeat /\ \A i \in {0, 1} : ecc.buf[i].limit = DATA
               /\ blocks => n % 2 = 0)
  /\ UNCHANGED <<ecc, blocks, since>>

\* FMT_RESET at any time. It leaves the timer, the buffers and ecc_repeat.
FormatterReset ==
  /\ fmt_mode' = "IDLE" /\ ecc' = [ecc EXCEPT !.state = "DONE"]
  /\ clean' = (clean /\ ecc.state = "DONE")
  /\ UNCHANGED <<sector_count, write_timing, gap, blocks, dma, events, since,
                 data, total>>

\* MO_Reset, in a Reset_NeXT that stops the timers.
MachineReset ==
  /\ fmt_mode' = "IDLE" /\ ecc' = [ecc EXCEPT !.state = "DONE", !.armed = FALSE]
  /\ clean' = (clean /\ ecc.state = "DONE")
  /\ UNCHANGED <<sector_count, write_timing, gap, blocks, dma, events, since,
                 data, total>>

\* osp_formatter_cmd2 between operations.
Control(b, clear) ==
  /\ fmt_mode = "IDLE" /\ ecc.state = "DONE"
  /\ blocks' = b
  /\ ecc' = [ecc EXCEPT !.buf = IF clear THEN Cleared ELSE @]
  /\ UNCHANGED <<fmt, dma, events, since, data, op>>

Guest == \/ \E mode \in {"READ", "WRITE", "VERIFY", "ERASE", "READ_ID"}, n \in Counts,
               g \in {0, 1, Passed} : Begin(mode, n, g)
         \/ FormatterReset \/ MachineReset
         \/ \E b, clear \in BOOLEAN : Control(b, clear)

Next == ECC_IO_Handler \/ Sector \/ Guest

\* The drive spirals and the scheduler serves the timers.
Spec == Init /\ [][Next]_vars /\ WF_vars(ECC_IO_Handler) /\ WF_vars(Sector)

-----------------------------------------------------------------------------
States == {"DONE", "FILLING", "ECCING", "WAITING", "DRAINING"}
Buffers == [size : {EMPTY, DATA, DISK}, limit : {DATA, DISK}, block : Nat]
Engine == [state : States, mode : {"READ", "WRITE", "VERIFY"},
           repeat : BOOLEAN, armed : BOOLEAN, in : {0, 1}, buf : [{0, 1} -> Buffers]]

\* The types, with the sectors of an operation never below zero.
TypeOK ==
  /\ fmt_mode \in {"IDLE", "READ", "WRITE", "VERIFY", "ERASE", "READ_ID"}
  /\ sector_count \in Nat /\ write_timing \in BOOLEAN /\ gap \in {Passed, 0, 1}
  /\ ecc \in Engine /\ blocks \in BOOLEAN /\ dma \in Nat
  /\ events \subseteq {"ECC_DONE", "STARVE", "OPER_COMPL", "TIMEOUT"}
  /\ since \in 0..Steps
  /\ total \in Nat /\ taken \in Nat /\ coded \in Nat /\ moved \in Seq(Nat)
  /\ clean \in BOOLEAN

Ended == fmt_mode = "IDLE" /\ "OPER_COMPL" \in events /\ ecc.state = "DONE"

\* Neither the disk nor the memory gets a block that is not the next one, and an
\* operation whose engine has come to rest has moved all of them.
BlocksInOrder ==
  clean => /\ \A i \in DOMAIN moved : moved[i] = i
           /\ Ended /\ total > 0 /\ coded + taken > 0 => Len(moved) = total

\* The assertions of the source hold: a buffer that is coded or written is ready
\* for that (ecc_encode, mo_write_sector).
NoAbort ==
  /\ ecc.armed /\ ecc.state = "ECCING" /\ ecc.mode = "WRITE" => ecc.buf[In].limit = DATA
  /\ SectorDue /\ fmt_mode = "WRITE" /\ gap = 0 /\ write_timing => ecc.buf[Out].limit = DISK

\* What the engine tells the guest is true: it is done when it is done with the
\* last block, and never without data when the channel was set up in time.
EventsTrue == clean => /\ "ECC_DONE" \in events => coded = total
                       /\ "STARVE" \notin events

\* Every operation ends, in time or with a timeout.
OperationEnds == fmt_mode \notin {"IDLE", "READ_ID"} ~> fmt_mode = "IDLE"

\* The engine comes to rest after an operation that found its sectors, so that it
\* accepts the next command.
EngineRests ==
  ecc.state # "DONE" ~> (ecc.state = "DONE" \/ ~clean \/ "TIMEOUT" \in events)
=============================================================================
