------------------------------- MODULE Sound -------------------------------
(***************************************************************************)
(* Sound output and input: the two loops of snd.c on the interrupt         *)
(* scheduler, the host's audio devices of audio.c, and the two DMA         *)
(* channels of dma.c they serve. The guest's commands arrive through the   *)
(* sound box (module Kms); the user pauses the emulation and switches      *)
(* sound on and off; the host's audio threads play what is queued and      *)
(* record.                                                                 *)
(*                                                                         *)
(* A buffer of the guest is one unit of samples, as is an entry of the     *)
(* host's queue and what the record ring holds or does not hold.           *)
(***************************************************************************)
EXTENDS Naturals, Sequences

CONSTANTS
  Full,           \* units in the host's queue for which the output loop waits
  DeviceMayFail   \* whether the host may refuse to open an audio device

ASSUME SoundAssumption == Full \in Nat \ {0} /\ DeviceMayFail \in BOOLEAN

VARIABLES
  active,        \* sound_output_active, sound_input_active
  inited,        \* sndout_inited, sndin_inited
  device,        \* the host's devices, as audio.c sees them and as they are
  snd_buffer,    \* the block the output loop took, or nothing
  queue,         \* units queued at the host's device
  recorded,      \* the record ring holds a unit
  channel,       \* DMA channels: enable, supdate and what is left to limit
  armed,         \* events that are scheduled
  flags,         \* underrun and overrun, in the sound box's status
  transmit,      \* the sound box's enable and loop back bits
  bEnableSound,  \* the configuration
  paused         \* the emulation is paused

Directions == {"out", "in"}
soundVars == <<active, inited, device, snd_buffer, queue, recorded, channel,
               armed, flags, transmit, bEnableSound, paused>>

-----------------------------------------------------------------------------
(***************************************************************************)
(* The host's devices. enabled is bPlayingBuffer or bRecordingBuffer,      *)
(* running what SDL was told last.                                         *)
(***************************************************************************)

Closed == [working |-> FALSE, enabled |-> FALSE, running |-> FALSE]

\* Audio_Output_Init, Audio_Input_Init: a device is opened paused.
Opened(dev) == {[dev EXCEPT !.working = ok, !.running = FALSE] :
                  ok \in {TRUE} \cup (IF DeviceMayFail THEN {FALSE} ELSE {})}

\* Audio_Output_Enable(true), Audio_Input_Enable(true).
Enabled(dev) == IF dev.enabled THEN dev
                ELSE [dev EXCEPT !.enabled = TRUE, !.running = dev.working]

\* Audio_Output_UnInit, Audio_Input_UnInit: only a device that works.
UnInited(dev) == IF dev.working THEN Closed ELSE dev

-----------------------------------------------------------------------------
(***************************************************************************)
(* The DMA channels.                                                       *)
(***************************************************************************)

\* dma_interrupt: the block has been moved; go on with the chained one, or end.
Interrupted(c) == IF c.left # 0 THEN c
                  ELSE IF c.supdate THEN [c EXCEPT !.supdate = FALSE, !.left = 1]
                  ELSE [c EXCEPT !.enable = FALSE]

\* dma_sndin_intr, and that of dma_sndout_intr: only when it is enabled.
Completed(c) == IF c.enable THEN Interrupted(c) ELSE c

\* The guest writes a channel's CSR: stop, start, continue. It sets up buffers
\* of a channel that is stopped, and the chained one when there is none.
DmaWrite(d) ==
  /\ ~paused
  /\ \/ channel' = [channel EXCEPT ![d].enable = FALSE, ![d].supdate = FALSE]
     \/ /\ ~channel[d].enable
        /\ \E chained \in BOOLEAN :
             channel' = [channel EXCEPT ![d] = [enable |-> TRUE, supdate |-> chained, left |-> 1]]
     \/ /\ channel[d].enable
        /\ channel' = [channel EXCEPT ![d].supdate = TRUE]
  /\ UNCHANGED <<active, inited, device, snd_buffer, queue, recorded, armed, flags,
                 transmit, bEnableSound, paused>>

-----------------------------------------------------------------------------
(***************************************************************************)
(* Output.                                                                 *)
(***************************************************************************)

StartOutput ==
  /\ active' = [active EXCEPT !["out"] = TRUE]
  /\ device' = [device EXCEPT !["out"] = IF inited["out"] THEN Enabled(@) ELSE @]
  /\ queue' = IF active["out"] THEN queue ELSE 0
  /\ armed' = armed \cup {"out"}
  /\ UNCHANGED <<inited, snd_buffer, recorded, channel, flags>>

StopOutput ==
  /\ active' = [active EXCEPT !["out"] = FALSE]
  /\ flags' = flags \ {"underrun"}
  /\ UNCHANGED <<inited, device, snd_buffer, queue, recorded, channel, armed>>

\* snd_send_sample: the guest sends a sample itself, here up to a full queue.
SendSample == /\ active["out"] /\ device["out"].working /\ queue <= Full
              /\ queue' = queue + 1
              /\ UNCHANGED <<active, inited, device, snd_buffer, recorded, channel, armed, flags>>

\* dma_sndout_read_memory takes all of the block, or stops at a bus error.
Fetched(c) == {[c EXCEPT !.left = 0]} \cup
              (IF c.left = 0 THEN {} ELSE {[c EXCEPT !.enable = FALSE]})

\* kms_sndout_request: free the last block and interrupt for it, then take one.
Requested ==
  LET c == IF snd_buffer = <<>> THEN channel["out"] ELSE Completed(channel["out"])
  IN IF c.enable THEN {[chan |-> f, buffer |-> <<c.left>>] : f \in Fetched(c)}
     ELSE {[chan |-> c, buffer |-> <<>>]}

Answers == IF "enable" \in transmit THEN Requested
           ELSE {[chan |-> channel["out"], buffer |-> snd_buffer]}

OutEnds == /\ ~active["out"]
           /\ armed' = armed \ {"out"}
           /\ UNCHANGED <<snd_buffer, channel, queue, flags>>

OutWaits == /\ active["out"] /\ inited["out"] /\ queue > Full
            /\ UNCHANGED <<armed, snd_buffer, channel, queue, flags>>

OutPlays ==
  /\ active["out"] /\ ~(inited["out"] /\ queue > Full)
  /\ \E a \in Answers :
       /\ snd_buffer' = a.buffer
       /\ channel' = [channel EXCEPT !["out"] = a.chan]
       /\ IF a.buffer \in {<<>>, <<0>>}
          THEN /\ flags' = IF "enable" \in transmit THEN flags \cup {"underrun"} ELSE flags
               /\ UNCHANGED queue
          ELSE /\ queue' = IF device["out"].working THEN queue + 1 ELSE 0
               /\ UNCHANGED flags
  /\ UNCHANGED armed

SND_Out_Handler ==
  /\ ~paused /\ "out" \in armed
  /\ OutEnds \/ OutWaits \/ OutPlays
  /\ UNCHANGED <<active, inited, device, recorded, transmit, bEnableSound, paused>>

\* The host plays what is queued.
Play == /\ device["out"].running /\ queue > 0
        /\ queue' = queue - 1
        /\ UNCHANGED <<active, inited, device, snd_buffer, recorded, channel, armed, flags,
                       transmit, bEnableSound, paused>>

-----------------------------------------------------------------------------
(***************************************************************************)
(* Input.                                                                  *)
(***************************************************************************)

\* Audio_Input_InitBuf, of a recording that starts: some silence.
InitBuf(dev) == recorded' \in IF dev.enabled THEN {recorded} ELSE BOOLEAN

StartInput ==
  /\ active' = [active EXCEPT !["in"] = TRUE]
  /\ armed' = armed \cup {"in"}
  /\ IF inited["in"] \/ bEnableSound
     THEN /\ inited' = [inited EXCEPT !["in"] = TRUE]
          /\ \E dev \in IF inited["in"] THEN {device["in"]} ELSE Opened(device["in"]) :
               device' = [device EXCEPT !["in"] = Enabled(dev)]
          /\ InitBuf(device["in"])
     ELSE UNCHANGED <<inited, device, recorded>>
  /\ UNCHANGED <<snd_buffer, queue, channel, flags>>

StopInput ==
  /\ active' = [active EXCEPT !["in"] = FALSE]
  /\ inited' = [inited EXCEPT !["in"] = FALSE]
  /\ device' = [device EXCEPT !["in"] = UnInited(@)]
  /\ flags' = flags \ {"overrun"}
  /\ UNCHANGED <<snd_buffer, queue, recorded, channel, armed>>

\* Mutant: the loop ends without a word when the channel has ended.
OverrunUnsaid(c) == flags

\* kms_can_receive_codec: a channel that has ended is an overrun.
Overrun(c) == IF c.enable THEN flags ELSE flags \cup {"overrun"}

\* Silence is read from a device that does not work.
Samples == recorded \/ ~device["in"].working

\* kms_codec_receive: a unit arrives, or is lost, and may end the block.
Received(c) == IF ~c.enable THEN {c}
               ELSE {Completed([c EXCEPT !.left = 0]), [c EXCEPT !.enable = FALSE]}

InEnds == /\ ~active["in"]
          /\ armed' = armed \ {"in"}
          /\ UNCHANGED <<channel, flags, recorded>>

InRecords ==
  LET before == Completed(channel["in"])
  IN /\ active["in"]
     /\ \E c \in IF before.enable /\ Samples /\ "enable" \in transmit
                 THEN Received(before) ELSE {before} :
          LET after == Completed(c)
          IN /\ channel' = [channel EXCEPT !["in"] = after]
             /\ flags' = Overrun(after)
             /\ armed' = IF after.enable THEN armed ELSE armed \ {"in"}
     /\ recorded' = (recorded /\ ~before.enable)

SND_In_Handler ==
  /\ ~paused /\ "in" \in armed
  /\ InEnds \/ InRecords
  /\ UNCHANGED <<active, inited, device, snd_buffer, queue, transmit, bEnableSound, paused>>

\* Audio_Input_CallBack, on the host's audio thread.
Record == /\ device["in"].running
          /\ recorded' = TRUE
          /\ UNCHANGED <<active, inited, device, snd_buffer, queue, channel, armed, flags,
                         transmit, bEnableSound, paused>>

-----------------------------------------------------------------------------
(***************************************************************************)
(* The user.                                                               *)
(***************************************************************************)

\* Mutant: the device is opened again and not started.
ResumedIdle(d, on) ==
  IF inited[d] THEN {device[d]} ELSE IF on THEN Opened(device[d]) ELSE {device[d]}

\* Sound_Pause(false), for one direction: open it, and start it if it is used.
Resumed(d, on) ==
  LET devs == IF ~inited[d] /\ on THEN Opened(device[d]) ELSE {device[d]}
  IN IF active[d] /\ (inited[d] \/ on) THEN {Enabled(dev) : dev \in devs} ELSE devs

Pause ==
  /\ ~paused /\ paused' = TRUE
  /\ inited' = [d \in Directions |-> FALSE]
  /\ device' = [d \in Directions |-> IF inited[d] THEN UnInited(device[d]) ELSE device[d]]
  /\ queue' = IF inited["out"] THEN 0 ELSE queue
  /\ UNCHANGED <<active, snd_buffer, recorded, channel, armed, flags, transmit, bEnableSound>>

UnPause ==
  LET onIn == bEnableSound /\ active["in"]
  IN /\ paused /\ paused' = FALSE
     /\ inited' = [d \in Directions |-> inited[d] \/ IF d = "out" THEN bEnableSound ELSE onIn]
     /\ \E o \in Resumed("out", bEnableSound), i \in Resumed("in", onIn) :
          device' = [d \in Directions |-> IF d = "out" THEN o ELSE i]
     /\ IF active["in"] /\ (inited["in"] \/ onIn) THEN InitBuf(device["in"]) ELSE UNCHANGED recorded
     /\ UNCHANGED <<active, snd_buffer, queue, channel, armed, flags, transmit, bEnableSound>>

\* The output device after Sound_Reset, with the configuration that holds then.
Reopened(enable, playing) ==
  LET old == IF inited["out"] THEN UnInited(device["out"]) ELSE device["out"]
  IN IF ~enable THEN {old}
     ELSE {IF playing THEN Enabled(dev) ELSE dev : dev \in Opened(old)}

\* ShortCut_SoundOnOff, or the dialog when the emulation is paused: Sound_Reset.
SoundOnOff ==
  /\ bEnableSound' = ~bEnableSound
  /\ snd_buffer' = <<>>
  /\ inited' = [inited EXCEPT !["out"] = ~bEnableSound]
  /\ \E dev \in Reopened(~bEnableSound, active["out"]) :
       device' = [device EXCEPT !["out"] = dev]
  /\ queue' = 0
  /\ UNCHANGED <<active, recorded, channel, armed, flags, transmit, paused>>

-----------------------------------------------------------------------------
SoundInit ==
  /\ active = [d \in Directions |-> FALSE]
  /\ bEnableSound \in BOOLEAN
  /\ inited = [d \in Directions |-> d = "out" /\ bEnableSound]
  /\ \E dev \in Opened(Closed) :
       device = [d \in Directions |-> IF inited[d] THEN dev ELSE Closed]
  /\ snd_buffer = <<>> /\ queue = 0 /\ recorded = FALSE
  /\ channel = [d \in Directions |-> [enable |-> FALSE, supdate |-> FALSE, left |-> 0]]
  /\ armed = {} /\ flags = {} /\ transmit = {} /\ paused = FALSE
=============================================================================
