-------------------------------- MODULE Kms --------------------------------
(***************************************************************************)
(* The sound box (kms.c): keyboard, mouse, and the commands through which  *)
(* the guest drives sound. A step of the host's keyboard and mouse, of the *)
(* guest, of the scheduler or of the user is one action.                   *)
(*                                                                         *)
(* In one behaviour the guest uses either sound or keyboard and mouse      *)
(* (variable use): they share the enable bit and the resets only, and both *)
(* are subject to those.                                                   *)
(***************************************************************************)
EXTENDS Sound

CONSTANTS
  Steps,      \* the longest movement of the mouse, in steps
  MaxUnread   \* events counted that the guest has not read

ASSUME KmsAssumption == Steps \in Nat \ {0} /\ MaxUnread \in Nat \ {0, 1}

VARIABLES
  use,       \* what the guest uses
  km,        \* received and overrun, in the keyboard's status
  keymouse,  \* INT_KEYMOUSE
  km_mask,   \* devices that are polled
  m_move,    \* steps the mouse has left to go
  unread     \* events that came since the guest read or cleared one, counted

kmVars == <<km, keymouse, km_mask, m_move, unread>>
vars == <<soundVars, use, kmVars>>

Devices == {"keyboard", "mouse"}

Init == /\ SoundInit
        /\ use \in {"sound", "keyboard"}
        /\ km = {} /\ keymouse = FALSE /\ km_mask = {}
        /\ m_move = 0 /\ unread = 0

-----------------------------------------------------------------------------
(***************************************************************************)
(* From the keyboard and the mouse to the guest.                           *)
(***************************************************************************)

Counted(n) == IF unread + n < MaxUnread THEN unread + n ELSE MaxUnread

\* Mutant: an event that finds one unread does not say so.
ReceiveSilent(n) == /\ km' = km \cup {"received"}
                    /\ keymouse' = TRUE
                    /\ unread' = Counted(n)

\* kms_km_receive, n times: one register holds the last event.
Receive(n) == /\ km' = km \cup {"received"} \cup
                          (IF "received" \in km \/ n > 1 THEN {"overrun"} ELSE {})
              /\ keymouse' = TRUE
              /\ unread' = Counted(n)

\* The magic key combinations interrupt or reset the CPU and are no event.
Magic == UNCHANGED <<km, keymouse, unread>>

CommandOut(n) == IF "enable" \in transmit THEN Receive(n)
                 ELSE UNCHANGED <<km, keymouse, unread>>

\* km_internal_poll: only a device the guest has polled is heard.
InternalPoll(dev) == IF dev \in km_mask THEN CommandOut(1)
                     ELSE UNCHANGED <<km, keymouse, unread>>

\* kms_keydown, kms_keyup, kms_mouse_button.
KeyOrButton(dev) == /\ use = "keyboard"
                    /\ InternalPoll(dev) \/ Magic
                    /\ UNCHANGED <<soundVars, use, km_mask, m_move>>

\* Mutant: a movement is added to one that goes on, or else waits for the next.
MouseMoveUnarmed(steps) ==
  /\ use = "keyboard"
  /\ m_move' = steps
  /\ armed' = IF m_move = 0 THEN armed ELSE armed \cup {"mouse"}
  /\ UNCHANGED <<active, inited, device, snd_buffer, queue, recorded, channel, flags,
                 transmit, bEnableSound, paused, use, km, keymouse, km_mask, unread>>

\* kms_mouse_move: the new movement replaces what is left of the last.
MouseMove(steps) ==
  /\ use = "keyboard"
  /\ m_move' = steps
  /\ armed' = armed \cup {"mouse"}
  /\ UNCHANGED <<active, inited, device, snd_buffer, queue, recorded, channel, flags,
                 transmit, bEnableSound, paused, use, km, keymouse, km_mask, unread>>

Mouse_Handler ==
  /\ ~paused /\ "mouse" \in armed
  /\ IF m_move > 0
     THEN m_move' = m_move - 1 /\ InternalPoll("mouse") /\ UNCHANGED armed
     ELSE armed' = armed \ {"mouse"} /\ UNCHANGED <<m_move, km, keymouse, unread>>
  /\ UNCHANGED <<active, inited, device, snd_buffer, queue, recorded, channel, flags,
                 transmit, bEnableSound, paused, use, km_mask>>

-----------------------------------------------------------------------------
(***************************************************************************)
(* The guest's registers.                                                  *)
(***************************************************************************)

\* KMS_KM_Data_Read.
DataRead == /\ ~paused /\ use = "keyboard"
            /\ km' = km \ {"received"} /\ keymouse' = FALSE /\ unread' = 0
            /\ UNCHANGED <<soundVars, use, km_mask, m_move>>

\* KMS_Ctrl_KM_Write with the overrun bit.
CtrlKmWrite == /\ ~paused /\ use = "keyboard"
               /\ km' = {} /\ keymouse' = FALSE /\ unread' = 0
               /\ UNCHANGED <<soundVars, use, km_mask, m_move>>

\* KMS_Ctrl_Snd_Write: a flag is cleared when its loop is off.
CtrlSndWrite ==
  /\ ~paused /\ use = "sound"
  /\ \E clear \in SUBSET {"underrun", "overrun"} :
       flags' = flags \ {f \in clear : ~active[IF f = "underrun" THEN "out" ELSE "in"]}
  /\ UNCHANGED <<active, inited, device, snd_buffer, queue, recorded, channel, armed,
                 transmit, bEnableSound, paused, use, kmVars>>

\* km_reset.
KmReset == m_move' = 0 /\ km_mask' = {}

\* kms_reset, but for the sound it stops.
RegistersReset == /\ km' = {} /\ keymouse' = FALSE /\ unread' = 0
                  /\ flags' = {}
                  /\ KmReset

\* Mutant: the guest's reset leaves the sound loops on.
BoxResetSoundOn ==
  /\ RegistersReset
  /\ UNCHANGED <<active, inited, device>>

\* kms_reset with snd_stop_output and snd_stop_input.
BoxReset ==
  /\ RegistersReset
  /\ active' = [d \in Directions |-> FALSE]
  /\ inited' = [inited EXCEPT !["in"] = FALSE]
  /\ device' = [device EXCEPT !["in"] = UnInited(@)]

\* KMS_Ctrl_TX_Write.
CtrlTxWrite(value) ==
  /\ ~paused
  /\ transmit' = value
  /\ IF "enable" \in transmit \ value THEN BoxReset
     ELSE UNCHANGED <<active, inited, device, flags, kmVars>>
  /\ UNCHANGED <<snd_buffer, queue, recorded, channel, armed, bEnableSound, paused, use>>

\* With loop back on, the guest's command is one to itself (kms_command_out).
CodecIn == /\ \E c \in {channel["in"]} \cup Received(channel["in"]) :
                /\ channel' = [channel EXCEPT !["in"] = c]
                /\ flags' = Overrun(c)
           /\ UNCHANGED snd_buffer

SoundOutRequest == /\ \E a \in Answers : /\ snd_buffer' = a.buffer
                                        /\ channel' = [channel EXCEPT !["out"] = a.chan]
                   /\ UNCHANGED flags

Underrun == flags' = flags \cup {"underrun"} /\ UNCHANGED <<snd_buffer, channel>>

LoopBack ==
  /\ ~paused /\ {"loop", "enable"} \subseteq transmit
  /\ \/ /\ use = "keyboard"
        /\ CommandOut(1)
        /\ UNCHANGED <<channel, flags, snd_buffer>>
     \/ /\ use = "sound"
        /\ CodecIn \/ SoundOutRequest \/ Underrun
        /\ UNCHANGED <<km, keymouse, unread>>
  /\ UNCHANGED <<active, inited, device, queue, recorded, armed, transmit, bEnableSound,
                 paused, use, km_mask, m_move>>

\* KMSCMD_RESET writes the transmit register also.
ResetCommand ==
  /\ BoxReset
  /\ transmit' = {}
  /\ UNCHANGED <<snd_buffer, queue, recorded, channel, armed>>

SoundCommand == /\ use = "sound"
                /\ StartOutput \/ StopOutput \/ SendSample \/ StartInput \/ StopInput
                /\ UNCHANGED <<transmit, kmVars>>

\* KMSCMD_KMPOLL; KMSCMD_KMREG, answered by an event, and when it polls a device
\* by two: km_user_poll's and km_no_response's. Its reset is answered too.
KeyboardCommand ==
  /\ use = "keyboard"
  /\ \/ km_mask' \in SUBSET Devices /\ UNCHANGED <<km, keymouse, unread, m_move>>
     \/ \E n \in {1, 2} : CommandOut(n) /\ UNCHANGED <<km_mask, m_move>>
     \/ CommandOut(1) /\ KmReset
  /\ UNCHANGED <<active, inited, device, snd_buffer, queue, recorded, channel, armed, flags, transmit>>

\* KMS_Data_Write, kms_command_in.
CommandIn ==
  /\ ~paused /\ "loop" \notin transmit /\ "enable" \in transmit
  /\ ResetCommand \/ SoundCommand \/ KeyboardCommand
  /\ UNCHANGED <<bEnableSound, paused, use>>

-----------------------------------------------------------------------------
\* Reset_NeXT: CycInt_Reset, SCR_Reset, KMS_Reset, Sound_Reset. The DMA
\* channels keep their registers.
MachineReset ==
  /\ armed' = {}
  /\ RegistersReset
  /\ active' = [d \in Directions |-> FALSE]
  /\ inited' = [d \in Directions |-> d = "out" /\ bEnableSound]
  /\ \E dev \in Reopened(bEnableSound, FALSE) :
       device' = [d \in Directions |-> IF d = "out" THEN dev ELSE UnInited(device["in"])]
  /\ snd_buffer' = <<>> /\ queue' = 0
  /\ transmit' = {}
  /\ UNCHANGED <<recorded, channel, bEnableSound, paused, use>>

-----------------------------------------------------------------------------
Keyboard == \/ \E dev \in Devices : KeyOrButton(dev)
            \/ \E steps \in 1..Steps : MouseMove(steps)
            \/ DataRead \/ CtrlKmWrite \/ LoopBack

SoundStep == /\ \/ SND_Out_Handler \/ Play \/ SND_In_Handler \/ Record
                \/ Pause \/ UnPause \/ SoundOnOff
                \/ use = "sound" /\ \E d \in Directions : DmaWrite(d)
             /\ UNCHANGED <<use, kmVars>>

Next == \/ Keyboard \/ Mouse_Handler \/ SoundStep
        \/ CtrlSndWrite \/ CommandIn \/ MachineReset
        \/ \E value \in SUBSET {"enable", "loop"} : CtrlTxWrite(value)

\* A pause ends. Scheduled events are served between two pauses: the user is
\* heard by an event of the scheduler itself. The host's audio threads run.
Fairness == /\ WF_vars(UnPause /\ UNCHANGED <<use, kmVars>>)
            /\ SF_vars(SND_Out_Handler /\ UNCHANGED <<use, kmVars>>)
            /\ SF_vars(SND_In_Handler /\ UNCHANGED <<use, kmVars>>)
            /\ WF_vars(Play /\ UNCHANGED <<use, kmVars>>)
            /\ SF_vars(Record /\ UNCHANGED <<use, kmVars>>)

Spec == Init /\ [][Next]_vars /\ Fairness

-----------------------------------------------------------------------------
Channels == [enable : BOOLEAN, supdate : BOOLEAN, left : {0, 1}]
DeviceStates == [working : BOOLEAN, enabled : BOOLEAN, running : BOOLEAN]

TypeOK ==
  /\ active \in [Directions -> BOOLEAN] /\ inited \in [Directions -> BOOLEAN]
  /\ device \in [Directions -> DeviceStates] /\ channel \in [Directions -> Channels]
  /\ snd_buffer \in {<<>>, <<0>>, <<1>>} /\ queue \in 0..Full + 1
  /\ recorded \in BOOLEAN /\ bEnableSound \in BOOLEAN /\ paused \in BOOLEAN
  /\ armed \subseteq {"out", "in", "mouse"}
  /\ flags \subseteq {"underrun", "overrun"} /\ transmit \subseteq {"enable", "loop"}
  /\ use \in {"sound", "keyboard"}
  /\ km \subseteq {"received", "overrun"} /\ keymouse \in BOOLEAN
  /\ km_mask \subseteq Devices /\ m_move \in 0..Steps /\ unread \in 0..MaxUnread

\* A sound loop that is on is scheduled, or has told the guest why it ended.
LoopsAlive == /\ active["out"] => "out" \in armed
              /\ active["in"] => "in" \in armed \/ "overrun" \in flags

\* Sound runs only while the sound box is enabled: the handlers use the answer
\* of a request without a look at whether it was served.
ActiveOnlyEnabled == \A d \in Directions : active[d] => "enable" \in transmit

\* A mouse that has steps to go is scheduled.
MouseMoves == m_move > 0 => "mouse" \in armed

\* The interrupt tells of an unread event, and the guest of a lost one.
EventsTold == /\ keymouse <=> unread > 0
              /\ unread > 1 => "overrun" \in km

\* No block lasts for ever: pauses and switching sound off and on, if it stops
\* some day, lose none of the guest's blocks, and none waits for a queue that
\* does not drain.
Transferring(d, chained) == /\ active[d] /\ d \in armed
                            /\ channel[d].enable /\ channel[d].supdate = chained

BlocksEnd == (<>[][bEnableSound' = bEnableSound]_vars) =>
               \A d \in Directions, chained \in BOOLEAN :
                 Transferring(d, chained) ~> ~Transferring(d, chained)
=============================================================================
