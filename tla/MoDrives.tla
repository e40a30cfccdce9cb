------------------------------ MODULE MoDrives ------------------------------
(***************************************************************************)
(* The two magneto-optical drives (mo.c) and the signals they share:       *)
(* every command ends in "command complete", perhaps with "attention",     *)
(* which one timer delivers for both drives, and the controller shows the  *)
(* signals of the drive that is selected. A drive that spirals moves on    *)
(* with a second timer, again one for both.                                *)
(*                                                                         *)
(* Left out: head positions, the status words a drive returns, and the     *)
(* formatter, which is module MoEcc. Whether a head may be selected on a   *)
(* protected disk, or a command exists, is arbitrary.                      *)
(***************************************************************************)
EXTENDS Integers

CONSTANT Drives   \* 0..MO_MAX_DRIVES-1

ASSUME DrivesAssumption == Drives \subseteq Nat /\ 0 \in Drives

VARIABLES
  mo,             \* the drives
  dnum,           \* the selected one
  delayed_drive,  \* whose signals the timer will deliver, or -1
  delayed_attn,   \* and whether with attention; complete it is always
  armed,          \* INTERRUPT_MO, INTERRUPT_MO_IO
  intstatus       \* the two bits of the controller that a drive drives

delayed == <<delayed_drive, delayed_attn>>
vars == <<mo, dnum, delayed, armed, intstatus>>

Nobody == -1

\* A drive as MO_Reset leaves it.
Fresh(connected, inserted) ==
  [connected |-> connected, enabled |-> connected, complete |-> connected,
   attn |-> FALSE, inserted |-> inserted, spinning |-> FALSE,
   spiraling |-> FALSE, seeking |-> FALSE]

\* mo_connect_signals, for drive d of m.
Connected(m, d) == (IF m[d].complete THEN {"CMD_COMPL"} ELSE {})
                   \cup (IF m[d].attn THEN {"ATTN"} ELSE {})

\* The drives and disks that may be configured then.
Configurations == {[d \in Drives |-> Fresh(on[d], on[d] /\ disk[d])] :
                     on \in [Drives -> BOOLEAN], disk \in [Drives -> BOOLEAN]}

Init == /\ mo \in Configurations
        /\ dnum = 0 /\ delayed_drive = Nobody /\ delayed_attn = FALSE
        /\ armed = {} /\ intstatus = Connected(mo, 0)

-----------------------------------------------------------------------------
(***************************************************************************)
(* Signals.                                                                *)
(***************************************************************************)

\* mo_set_signals on a drive. Attention stays, and stops the spiral.
Signal(drive, complete, attn) ==
  [drive EXCEPT !.complete = complete,
                !.attn = drive.attn \/ attn,
                !.spiraling = drive.spiraling /\ ~(drive.attn \/ attn),
                !.seeking = FALSE]

Signalled(m, d, complete, attn) == [m EXCEPT ![d] = Signal(m[d], complete, attn)]

SetSignals(d, complete, attn) ==
  /\ mo' = Signalled(mo, d, complete, attn)
  /\ intstatus' = Connected(mo', dnum)

\* Mutant: the timer is taken over without a word to the drive it belongs to.
DelayedTakenOver(m, status, attn, spiral) ==
  /\ mo' = m /\ intstatus' = status
  /\ delayed_drive' = dnum /\ delayed_attn' = attn
  /\ armed' = armed \cup {"MO"} \cup spiral

\* mo_set_signals_delayed: what the timer holds for another drive is delivered
\* at once, what it holds for this one is replaced.
Delayed(m, status, attn, spiral) ==
  /\ \/ /\ delayed_drive \notin {Nobody, dnum}
        /\ mo' = Signalled(m, delayed_drive, TRUE, delayed_attn)
        /\ intstatus' = Connected(mo', dnum)
     \/ /\ delayed_drive \in {Nobody, dnum}
        /\ mo' = m /\ intstatus' = status
  /\ delayed_drive' = dnum /\ delayed_attn' = attn
  /\ armed' = armed \cup {"MO"} \cup spiral

MO_InterruptHandler ==
  /\ "MO" \in armed
  /\ armed' = armed \ {"MO"}
  /\ SetSignals(delayed_drive, TRUE, delayed_attn)
  /\ delayed_drive' = Nobody /\ delayed_attn' = FALSE
  /\ UNCHANGED dnum

-----------------------------------------------------------------------------
(***************************************************************************)
(* Commands (mo_drive_cmd).                                                *)
(***************************************************************************)

Selected == mo[dnum]

\* The drive with its signals off, and the status that shows that.
Begun == Signalled(mo, dnum, FALSE, FALSE)
Changed(field, value) == [Begun EXCEPT ![dnum] = [@ EXCEPT ![field] = value]]

\* A command that a drive accepts and that changes it to m.
Performed(m, attn, spiral) ==
  /\ Selected.connected /\ Selected.complete
  /\ Delayed(m, Connected(Begun, dnum), attn, spiral)
  /\ UNCHANGED dnum

\* A drive that has not completed its last command.
Busy == /\ Selected.connected /\ ~Selected.complete
        /\ SetSignals(dnum, TRUE, TRUE)
        /\ UNCHANGED <<dnum, delayed, armed>>

\* mo_stopped, mo_empty and mo_unimplemented_cmd.
Refused == Performed(Begun, TRUE, {})

\* The commands that return a status, and the self test.
Return == Performed(Begun, FALSE, {})

\* mo_select_head and mo_high_order_seek.
SelectHead == Selected.spinning /\ \E refused \in BOOLEAN : Performed(Begun, refused, {})

\* mo_seek, and mo_jump_head, which selects a head also.
Seek == /\ Selected.spinning
        /\ \E refused \in BOOLEAN : Performed(Changed("seeking", TRUE), refused, {})

\* mo_recalibrate and mo_stop_spiraling.
StopSpiraling == Selected.spinning /\ Performed(Changed("spiraling", FALSE), FALSE, {})

\* Mutant: only the drive's own spiral is looked at, once it is set.
StartSpiralingUnarmed ==
  /\ Selected.spinning
  /\ Performed(Changed("spiraling", TRUE), FALSE, {})

\* mo_start_spiraling: the timer runs already if a drive spirals.
StartSpiraling ==
  /\ Selected.spinning
  /\ Performed(Changed("spiraling", TRUE), FALSE,
               IF \E d \in Drives : Begun[d].spiraling THEN {} ELSE {"IO"})

\* mo_reset_attn_status: the controller shows it with the next signal.
ResetAttn == Performed(Changed("attn", FALSE), FALSE, {})

StartSpinning == Selected.inserted /\ Performed(Changed("spinning", TRUE), FALSE, {})

Stilled(m, d) == [m EXCEPT ![d] = [@ EXCEPT !.spinning = FALSE, !.spiraling = FALSE]]

StopSpinning == Selected.inserted /\ Performed(Stilled(Begun, dnum), FALSE, {})

Ejected(m, d) == [m EXCEPT ![d] = [@ EXCEPT !.inserted = FALSE, !.spinning = FALSE,
                                            !.spiraling = FALSE]]

Eject == Selected.inserted /\ Performed(Ejected(Begun, dnum), FALSE, {})

Command == \/ Busy \/ Refused \/ Return \/ SelectHead \/ Seek \/ StopSpiraling
           \/ StartSpiraling \/ ResetAttn \/ StartSpinning \/ StopSpinning \/ Eject

-----------------------------------------------------------------------------
(***************************************************************************)
(* The controller, the user and the second timer.                          *)
(***************************************************************************)

\* MO_IntStatus_Write with the reset bit: mo_stop.
Stop == /\ mo' = [mo EXCEPT ![dnum] =
                    [@ EXCEPT !.enabled = FALSE, !.complete = FALSE, !.attn = FALSE,
                              !.spinning = FALSE, !.spiraling = FALSE, !.seeking = FALSE]]
        /\ intstatus' = Connected(mo', dnum)
        /\ UNCHANGED <<dnum, delayed, armed>>

\* Mutant: the drive is switched on and does not report.
StartSilent == /\ Selected.connected /\ ~Selected.enabled
               /\ mo' = [mo EXCEPT ![dnum] = [@ EXCEPT !.enabled = TRUE]]
               /\ UNCHANGED <<dnum, delayed, armed, intstatus>>

\* MO_IntStatus_Write without it: mo_start.
Start == /\ Selected.connected /\ ~Selected.enabled
         /\ Delayed([mo EXCEPT ![dnum] = [@ EXCEPT !.enabled = TRUE]], intstatus, FALSE, {})
         /\ UNCHANGED dnum

\* A drive that is newly selected loses its attention.
Released(d) == IF d = dnum THEN mo ELSE [mo EXCEPT ![d] = [@ EXCEPT !.attn = FALSE]]

\* Mutant: the signals shown stay those of the drive selected before.
SelectUnconnected(d) ==
  /\ mo' = Released(d)
  /\ dnum' = d
  /\ UNCHANGED <<delayed, armed, intstatus>>

\* osp_select.
Select(d) == /\ mo' = Released(d)
             /\ dnum' = d
             /\ intstatus' = Connected(mo', d)
             /\ UNCHANGED <<delayed, armed>>

\* MO_Insert and MO_Eject from the user interface, at any drive, also at one
\* that is connected with the next reset.
UserInserts(d) ==
  /\ ~mo[d].inserted
  /\ mo' = Signalled([mo EXCEPT ![d] = [@ EXCEPT !.inserted = TRUE, !.spinning = FALSE,
                                                 !.spiraling = FALSE]], d, TRUE, FALSE)
  /\ intstatus' = Connected(mo', dnum)
  /\ UNCHANGED <<dnum, delayed, armed>>

UserEjects(d) == /\ mo[d].inserted
                 /\ mo' = Ejected(mo, d)
                 /\ UNCHANGED <<dnum, delayed, armed, intstatus>>

\* MO_IO_Handler: it comes back as long as a drive spirals.
MO_IO_Handler ==
  /\ "IO" \in armed
  /\ armed' = IF \E d \in Drives : mo[d].spiraling THEN armed ELSE armed \ {"IO"}
  /\ UNCHANGED <<mo, dnum, delayed, intstatus>>

\* MO_Reset, in a Reset_NeXT that empties the scheduler; delayed_drive keeps its
\* value.
MachineReset == /\ mo' \in Configurations
                /\ dnum' = 0 /\ armed' = {} /\ intstatus' = Connected(mo', 0)
                /\ UNCHANGED delayed

Next == \/ MO_InterruptHandler \/ MO_IO_Handler
        \/ Command \/ Stop \/ Start
        \/ \E d \in Drives : Select(d) \/ UserInserts(d) \/ UserEjects(d)
        \/ MachineReset

\* The scheduler serves the timer: TimersSpec of module CycInt.
Spec == Init /\ [][Next]_vars /\ WF_vars(MO_InterruptHandler)

-----------------------------------------------------------------------------
DriveStates == [connected : BOOLEAN, enabled : BOOLEAN, complete : BOOLEAN,
                attn : BOOLEAN, inserted : BOOLEAN, spinning : BOOLEAN,
                spiraling : BOOLEAN, seeking : BOOLEAN]

TypeOK == /\ mo \in [Drives -> DriveStates]
          /\ dnum \in Drives
          /\ delayed_drive \in Drives \cup {Nobody} /\ delayed_attn \in BOOLEAN
          /\ armed \subseteq {"MO", "IO"}
          /\ intstatus \subseteq {"CMD_COMPL", "ATTN"}

\* A drive that is on and executes a command, or seeks.
Waiting(d) == (mo[d].enabled /\ ~mo[d].complete) \/ mo[d].seeking

\* The timer holds the signal of every drive that waits, though there is one
\* timer and both drives may be given commands: two never wait at once. It does
\* not fire for nobody either, which aborts the emulator (mo.c:1635).
SignalScheduled ==
  /\ \A d \in Drives : Waiting(d) => "MO" \in armed /\ delayed_drive = d
  /\ "MO" \in armed => delayed_drive \in Drives

\* A spiral goes on: drives share the timer, and each may stop its own spiral.
SpiralScheduled == (\E d \in Drives : mo[d].spiraling) => "IO" \in armed

\* The guest sees the signals of the drive it selected, whichever drive changed
\* last; an attention it has reset is seen until the signal that ends the reset.
StatusShowsSelected ==
  /\ "CMD_COMPL" \in intstatus <=> Selected.complete
  /\ Selected.attn => "ATTN" \in intstatus
  /\ "ATTN" \in intstatus /\ ~Selected.attn => "MO" \in armed /\ delayed_drive = dnum

\* Every command and every seek ends, also when the other drive takes the timer
\* over, a disk is ejected, or the machine is reset in between.
CommandsEnd == \A d \in Drives : Waiting(d) ~> ~Waiting(d)
=============================================================================
