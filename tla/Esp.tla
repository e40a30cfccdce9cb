-------------------------------- MODULE Esp --------------------------------
(***************************************************************************)
(* The SCSI controller (esp.c): its dual ranked command register, the two  *)
(* delayed events by which a command ends (INTERRUPT_ESP) and a transfer   *)
(* goes on (INTERRUPT_ESP_IO), and the bus phases of the disk (scsi.c).    *)
(*                                                                         *)
(* A disk is the number of bytes it still has to send or to get; the DMA   *)
(* channel moves any number of those it may, none when it is not enabled.  *)
(* The FIFO is left out. Where the emulator aborts (a phase or a mode that *)
(* is not emulated) there is no next state.                                *)
(***************************************************************************)
EXTENDS Integers, FiniteSets

CONSTANTS
  Counts,      \* what the transfer count register is loaded with
  MaxData      \* the bytes of a data phase: a bound

ASSUME CountAssumption == Counts \subseteq Nat \ {0}
ASSUME DataAssumption == MaxData \in Nat \ {0}

VARIABLES
  esp,     \* the chip, a record
  bus,     \* SCSIbus and scsi_buffer: phase, left
  armed,   \* which of INTERRUPT_ESP and INTERRUPT_ESP_IO wait
  line     \* INT_SCSI

vars == <<esp, bus, armed, line>>

Phases == {"DO", "DI", "ST", "MI"}
Commands == {"NOP", "FLUSH", "RESET", "BUSRESET", "SELATN", "TI", "ICCS", "MSGACC", "PAD"}
Initiator == {"TI", "ICCS", "MSGACC", "PAD"}

Chip == [state : SUBSET {"INPROGRESS", "WAITING"},
         top : Commands, bottom : Commands, dmas : SUBSET {"top", "bottom"},
         status : SUBSET {"INT", "TC", "GE"},
         intstatus : SUBSET {"FC", "BS", "DC", "ILL", "RST"},
         esp_state : {"DISCONNECTED", "INITIATOR"},
         counter : Nat, mode_dma : BOOLEAN,
         io_state : {"TRANSFERING", "FLUSHING"},
         enable_int : BOOLEAN, resrept : BOOLEAN]

Init == /\ esp = [state |-> {}, top |-> "NOP", bottom |-> "NOP", dmas |-> {},
                  status |-> {}, intstatus |-> {}, esp_state |-> "DISCONNECTED",
                  counter |-> 0, mode_dma |-> FALSE, io_state |-> "TRANSFERING",
                  enable_int |-> FALSE, resrept |-> FALSE]
        /\ bus = [phase |-> "ST", left |-> 0]
        /\ armed = {} /\ line = FALSE

-----------------------------------------------------------------------------
(***************************************************************************)
(* The functions of esp.c as steps on a record of all the state; those     *)
(* that the disk or the DMA channel has a say in give a set of outcomes.   *)
(***************************************************************************)

\* ends: the function goes on with esp_finish_command.
System == [esp |-> esp, bus |-> bus, armed |-> armed, line |-> line, ends |-> FALSE]
Ends(s) == [s EXCEPT !.ends = TRUE]

\* CycInt_AddRelativeInterruptUs, of an event that may be armed already.
Arm(s, event) == [s EXCEPT !.armed = @ \cup {event}]

\* The command ends with an interrupt.
Interrupt(s, cause) == Arm([s EXCEPT !.esp.intstatus = cause], "ESP")

\* esp_command_clear: a chip reset stays in the bottom of the register.
CommandClear(s) ==
  IF s.esp.bottom = "RESET" THEN [s EXCEPT !.esp.top = "NOP", !.esp.dmas = @ \ {"top"}]
  ELSE [s EXCEPT !.esp.top = "NOP", !.esp.bottom = "NOP", !.esp.dmas = {},
                 !.esp.state = @ \ {"WAITING"}]

\* esp_reset_soft.
ResetSoft(s) ==
  [CommandClear(s) EXCEPT !.esp.status = @ \ {"TC"}, !.esp.mode_dma = FALSE,
                          !.esp.counter = 0, !.esp.esp_state = "DISCONNECTED"]

\* Mutant: the interrupt line is left as it is.
ResetHardLine(s) ==
  ResetSoft([s EXCEPT !.esp.status = @ \ {"INT", "GE"}, !.esp.intstatus = {},
                      !.esp.resrept = FALSE])

\* esp_reset_hard, up to its end of the command.
ResetHard(s) ==
  ResetSoft([s EXCEPT !.esp.status = @ \ {"INT", "GE"}, !.esp.intstatus = {},
                      !.esp.resrept = FALSE, !.line = FALSE])

\* k bytes go between disk and memory; after the last comes the status phase.
Moved(s, k) ==
  [s EXCEPT !.esp.counter = @ - k, !.bus.left = @ - k,
            !.bus.phase = IF k > 0 /\ s.bus.left = k THEN "ST" ELSE @]

Movable(s) == IF s.esp.counter < s.bus.left THEN s.esp.counter ELSE s.bus.left

\* esp_transfer_done, which ends the command or lets the transfer go on.
IsDone(s, phase) == s.esp.counter = 0 \/ s.bus.phase # phase
TransferDone(s, phase) ==
  IF s.esp.counter = 0 THEN Interrupt([s EXCEPT !.esp.status = @ \cup {"TC"}], {"FC"})
  ELSE IF s.bus.phase # phase THEN Interrupt(CommandClear(s), {"BS"})
  ELSE s

\* esp_select: nobody answers, or the disk takes the command (by DMA that
\* aborts) and goes to a data phase or straight to its status.
Select(s) ==
  {Interrupt([CommandClear(s) EXCEPT !.bus.phase = "ST", !.esp.esp_state = "DISCONNECTED"],
             {"DC"})} \cup
  {Interrupt([CommandClear(s) EXCEPT !.bus = b, !.esp.esp_state = "INITIATOR"], {"BS", "FC"}) :
     b \in IF s.esp.mode_dma THEN {}
           ELSE [phase : {"DI", "DO"}, left : 1..MaxData] \cup {[phase |-> "ST", left |-> 0]}}

\* esp_transfer_info: by DMA a piece at a time, else one byte or none.
TransferInfo(s) ==
  IF s.esp.mode_dma THEN {Arm([s EXCEPT !.esp.io_state = "TRANSFERING"], "ESP_IO")}
  ELSE CASE s.bus.phase = "DI" ->
              {Arm([s EXCEPT !.bus.left = @ - 1,
                             !.bus.phase = IF s.bus.left = 1 THEN "ST" ELSE @], "ESP")}
         [] s.bus.phase \in {"MI", "ST"} -> {Arm(s, "ESP")}
         [] s.bus.phase = "DO" -> {}        \* aborts

\* esp_transfer_pad: all that can be transferred at once.
TransferPad(s) == IF s.bus.phase \in {"DI", "DO"}
                  THEN {TransferDone(Moved(s, Movable(s)), s.bus.phase)}
                  ELSE {}                   \* aborts

\* Mutant: with reporting off the command does not end.
BusResetEndless(s) ==
  LET t == ResetSoft(s)
  IN IF t.esp.resrept THEN t
     ELSE Interrupt([t EXCEPT !.bus.phase = "MI"], {"RST"})

\* esp_bus_reset.
BusReset(s) ==
  LET t == ResetSoft(s)
  IN IF t.esp.resrept THEN Ends(t)
     ELSE Interrupt([t EXCEPT !.bus.phase = "MI"], {"RST"})

\* The part of esp_start_command that depends on the command.
Execute(s, cmd) ==
  CASE cmd \in {"NOP", "FLUSH"} -> {Ends(s)}
    [] cmd = "RESET" -> {Ends(ResetHard(s))}
    [] cmd = "BUSRESET" -> {BusReset(s)}
    [] cmd = "SELATN" -> Select(s)
    [] cmd = "TI" -> TransferInfo(s)
    [] cmd = "ICCS" -> IF s.esp.mode_dma THEN {}
                       ELSE {Interrupt([s EXCEPT !.bus.phase = "MI"], {"FC"})}
    [] cmd = "MSGACC" -> {Interrupt([s EXCEPT !.bus.phase = "ST",
                                              !.esp.esp_state = "DISCONNECTED"], {"BS"})}
    [] cmd = "PAD" -> TransferPad(s)

IsIllegal(s, cmd) == \/ s.esp.esp_state = "INITIATOR" /\ cmd = "SELATN"
                     \/ s.esp.esp_state = "DISCONNECTED" /\ cmd \in Initiator

\* Mutant: a new transfer count does not clear the old transfer's end.
LoadKeepsTC(s, dma) ==
  IF dma THEN {[s EXCEPT !.esp.counter = n, !.esp.mode_dma = TRUE] : n \in Counts}
  ELSE {[s EXCEPT !.esp.mode_dma = FALSE]}

\* A DMA command loads the counter.
Load(s, dma) ==
  IF dma THEN {[s EXCEPT !.esp.counter = n, !.esp.mode_dma = TRUE,
                         !.esp.status = @ \ {"TC"}] : n \in Counts}
  ELSE {[s EXCEPT !.esp.mode_dma = FALSE]}

\* esp_start_command.
Start(s, cmd, dma) ==
  LET t == [s EXCEPT !.esp.state = @ \cup {"INPROGRESS"}]
  IN IF IsIllegal(t, cmd)
     THEN {Interrupt(CommandClear(t), t.esp.intstatus \cup {"ILL"})}
     ELSE UNION {Execute(u, cmd) : u \in Load(t, dma)}

\* The command that waits in the bottom of the register moves to its top.
Promoted(s) ==
  [s EXCEPT !.esp.top = s.esp.bottom, !.esp.bottom = "NOP",
            !.esp.dmas = IF "bottom" \in s.esp.dmas THEN {"top"} ELSE {},
            !.esp.state = @ \ {"WAITING"}]

\* The command is no longer in progress.
Ended(s) == [s EXCEPT !.esp.state = @ \ {"INPROGRESS"}, !.ends = FALSE]

\* esp_finish_command. It starts the waiting command, which may end in turn,
\* but then no further one waits.
FinishCommand(s) ==
  LET t == Ended(s)
      u == Promoted(t)
  IN IF "WAITING" \in s.esp.state
     THEN {IF v.ends THEN Ended(v) ELSE v : v \in Start(u, u.esp.top, "top" \in u.esp.dmas)}
     ELSE {t}

\* esp_start_command as the guest's write calls it.
StartCommand(s, cmd, dma) ==
  UNION {IF v.ends THEN FinishCommand(v) ELSE {v} : v \in Start(s, cmd, dma)}

-----------------------------------------------------------------------------
\* A step of the system to one of the outcomes.
Becomes(outcomes) ==
  \E s \in outcomes : esp' = s.esp /\ bus' = s.bus /\ armed' = s.armed /\ line' = s.line

\* Mutant: any command leaves the chip reset.
WrittenAny(s, cmd, dma) ==
  [s EXCEPT !.esp.bottom = cmd, !.esp.dmas = IF dma THEN @ \cup {"bottom"} ELSE @ \ {"bottom"},
            !.esp.status = IF "WAITING" \in s.esp.state THEN @ \cup {"GE"} ELSE @]

\* esp_command_write, the bottom: after a chip reset only NOP gets in.
Written(s, cmd, dma) ==
  IF s.esp.bottom = "RESET" /\ cmd # "NOP" THEN s
  ELSE [s EXCEPT !.esp.bottom = cmd,
                 !.esp.dmas = IF dma THEN @ \cup {"bottom"} ELSE @ \ {"bottom"},
                 !.esp.status = IF "WAITING" \in s.esp.state THEN @ \cup {"GE"} ELSE @]

\* esp_command_write: resets start at once, the others when their turn comes.
CommandWrite(cmd, dma) ==
  LET s == Written(System, cmd, dma)
      u == Promoted(s)
  IN Becomes(IF s.esp.bottom \in {"RESET", "BUSRESET"}
             THEN StartCommand(s, s.esp.bottom, "bottom" \in s.esp.dmas)
             ELSE IF "INPROGRESS" \in s.esp.state
             THEN {[s EXCEPT !.esp.state = @ \cup {"WAITING"}]}
             ELSE StartCommand(u, u.esp.top, "top" \in u.esp.dmas))

\* ESP_IntStatus_Read, with esp_lower_irq: it ends the command.
IntStatusRead ==
  /\ "INT" \in esp.status
  /\ Becomes(FinishCommand([System EXCEPT !.esp.intstatus = {}, !.line = FALSE,
                                          !.esp.status = @ \ {"GE", "INT"}]))

\* ESP_DMA_CTRL_Write: a reset first, then the interrupt's gate.
Gated(s, on) == [s EXCEPT !.esp.enable_int = on,
                          !.line = on /\ (@ \/ "INT" \in s.esp.status)]
ControlWrite(on, reset) ==
  Becomes({Gated(s, on) : s \in IF reset THEN FinishCommand(ResetHard(System)) ELSE {System}})

\* ESP_Configuration_Write.
ConfigurationWrite(on) == /\ esp' = [esp EXCEPT !.resrept = on]
                          /\ UNCHANGED <<bus, armed, line>>

\* ESP_InterruptHandler, with esp_raise_irq.
InterruptHandler ==
  /\ "ESP" \in armed
  /\ armed' = armed \ {"ESP"}
  /\ esp' = [esp EXCEPT !.status = @ \cup {"INT"}]
  /\ line' = (line \/ ("INT" \notin esp.status /\ esp.enable_int))
  /\ UNCHANGED bus

\* ESP_IO_Handler, which the disk's time and the DMA channel keep coming back
\* to until the transfer ends; incoming data is flushed once more after that.
IoTransfer(s, k) ==
  LET phase == s.bus.phase
      moved == TransferDone(Moved(s, k), phase)
  IN IF ~IsDone(Moved(s, k), phase) THEN Arm(moved, "ESP_IO")
     ELSE IF phase = "DI" THEN Arm([moved EXCEPT !.esp.io_state = "FLUSHING"], "ESP_IO")
     ELSE moved

IoHandler ==
  LET s == [System EXCEPT !.armed = @ \ {"ESP_IO"}]
  IN /\ "ESP_IO" \in armed
     /\ Becomes(IF s.esp.io_state = "FLUSHING"
                THEN {Moved(s, k) : k \in IF s.bus.phase = "DI" THEN 0..Movable(s) ELSE {0}}
                ELSE IF s.bus.phase \in {"DI", "DO"}
                THEN {IoTransfer(s, k) : k \in 0..Movable(s)}
                ELSE {Arm(s, "ESP_IO")})

Next == \/ \E cmd \in Commands, dma \in BOOLEAN : CommandWrite(cmd, dma)
        \/ IntStatusRead
        \/ \E on, reset \in BOOLEAN : ControlWrite(on, reset)
        \/ \E on \in BOOLEAN : ConfigurationWrite(on)
        \/ InterruptHandler
        \/ IoHandler

Spec == Init /\ [][Next]_vars

-----------------------------------------------------------------------------
\* The types, with the bytes of a data phase never below zero.
TypeOK == /\ esp \in Chip
          /\ bus.phase \in Phases /\ bus.left \in 0..MaxData
          /\ armed \subseteq {"ESP", "ESP_IO"} /\ line \in BOOLEAN

\* A command in progress has an interrupt that the guest can acknowledge or an
\* event on its way to one, and a command waits only behind one in progress:
\* the register never jams, whatever resets and acknowledgements come between
\* (esp.c:394-470, 615, 666).
NoStuckCommand ==
  /\ "INPROGRESS" \in esp.state => "INT" \in esp.status \/ armed # {}
  /\ "WAITING" \in esp.state => "INPROGRESS" \in esp.state

\* The line to the CPU is the interrupt behind its gate (esp.c:187, 570, 615, 630).
LineFollows == line <=> "INT" \in esp.status /\ esp.enable_int

\* "Transfer complete" is never reported while bytes are to come (esp.c:454, 760).
CompleteMeansCounted == "TC" \in esp.status => esp.counter = 0

\* A chip reset in the command register is left by NOP only, which has no
\* effect of its own (esp.c:395, 420).
OnlyNopLeavesReset ==
  [][esp.bottom = "RESET" /\ esp'.bottom # "RESET" =>
       esp'.state = {} /\ armed' \subseteq armed]_vars

\* Data moves as part of a transfer command only (esp.c:747).
TransferHasCommand ==
  "ESP_IO" \in armed /\ esp.io_state = "TRANSFERING" /\ bus.phase \in {"DI", "DO"} =>
    "INPROGRESS" \in esp.state /\ esp.top = "TI"
=============================================================================
