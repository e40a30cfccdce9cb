----------------------------- MODULE KmsProofs -----------------------------
(***************************************************************************)
(* Proofs about the sound box and the sound loops, for every length of the *)
(* host's queue and of a mouse movement, and whether or not a device of    *)
(* the host may fail to open.                                              *)
(***************************************************************************)
EXTENDS Kms, TLAPS

\* Only a device that was opened works: the loops count on it to know that what
\* they queue will drain.
WorkingIsInited == \A d \in Directions : device[d].working => inited[d]

-----------------------------------------------------------------------------
(***************************************************************************)
(* What the helpers return.                                                *)
(***************************************************************************)

LEMMA DeviceTypes ==
  ASSUME NEW dev \in DeviceStates
  PROVE  /\ Enabled(dev) \in DeviceStates /\ Enabled(dev).working = dev.working
         /\ UnInited(dev) \in DeviceStates /\ ~UnInited(dev).working
         /\ Opened(dev) \subseteq DeviceStates
BY DEF DeviceStates, Enabled, UnInited, Closed, Opened

LEMMA ChannelTypes ==
  ASSUME NEW c \in Channels
  PROVE  /\ Interrupted(c) \in Channels /\ Completed(c) \in Channels
         /\ Fetched(c) \subseteq Channels /\ Received(c) \subseteq Channels
         /\ \A b \in BOOLEAN : [c EXCEPT !.enable = b] \in Channels
         /\ c.left \in {0, 1}
<1>1. \A b \in BOOLEAN : [c EXCEPT !.enable = b] \in Channels BY DEF Channels
<1>2. [c EXCEPT !.left = 0] \in Channels /\ c.left \in {0, 1} BY DEF Channels
<1>3. \A e \in Channels : Interrupted(e) \in Channels BY DEF Channels, Interrupted
<1>4. \A e \in Channels : Completed(e) \in Channels BY <1>3 DEF Completed
<1>5. Fetched(c) \subseteq Channels BY <1>1, <1>2 DEF Fetched
<1>6. Received(c) \subseteq Channels BY <1>1, <1>2, <1>4 DEF Received
<1> QED BY <1>1, <1>2, <1>3, <1>4, <1>5, <1>6

LEMMA AnswerTypes ==
  ASSUME channel["out"] \in Channels, snd_buffer \in {<<>>, << 0 >>, << 1 >>},
         NEW a \in Answers
  PROVE  a.chan \in Channels /\ a.buffer \in {<<>>, <<0>>, <<1>>}
<1> DEFINE c == IF snd_buffer = <<>> THEN channel["out"] ELSE Completed(channel["out"])
<1>1. c \in Channels BY ChannelTypes
<1>2. c.left \in {0, 1} /\ Fetched(c) \subseteq Channels BY <1>1, ChannelTypes
<1>3. Requested = IF c.enable THEN {[chan |-> f, buffer |-> <<c.left>>] : f \in Fetched(c)}
                  ELSE {[chan |-> c, buffer |-> <<>>]}
  BY DEF Requested
<1> HIDE DEF c
<1>4. CASE a \in Requested
  <2>1. CASE c.enable
    <3>1. PICK f \in Fetched(c) : a = [chan |-> f, buffer |-> <<c.left>>]
      BY <1>3, <1>4, <2>1
    <3>2. a.chan = f /\ a.buffer = <<c.left>> BY <3>1
    <3> QED BY <3>2, <1>2
  <2>2. CASE ~c.enable
    <3>1. a = [chan |-> c, buffer |-> <<>>] BY <1>3, <1>4, <2>2
    <3> QED BY <3>1, <1>1
  <2> QED BY <2>1, <2>2
<1>5. CASE a \notin Requested
  <2>1. a = [chan |-> channel["out"], buffer |-> snd_buffer] BY <1>5 DEF Answers
  <2> QED BY <2>1
<1> QED BY <1>4, <1>5

-----------------------------------------------------------------------------
(***************************************************************************)
(* Types. The variables fall in three groups: what only the loops use, the *)
(* devices, and the sound box.                                             *)
(***************************************************************************)

LoopType ==
  /\ channel \in [Directions -> Channels]
  /\ snd_buffer \in {<<>>, <<0>>, <<1>>} /\ queue \in 0..Full + 1
  /\ recorded \in BOOLEAN /\ armed \subseteq {"out", "in", "mouse"}
  /\ flags \subseteq {"underrun", "overrun"}

DeviceType ==
  /\ active \in [Directions -> BOOLEAN] /\ inited \in [Directions -> BOOLEAN]
  /\ device \in [Directions -> DeviceStates]
  /\ bEnableSound \in BOOLEAN /\ paused \in BOOLEAN
  /\ WorkingIsInited

BoxType ==
  /\ transmit \subseteq {"enable", "loop"} /\ use \in {"sound", "keyboard"}
  /\ km \subseteq {"received", "overrun"} /\ keymouse \in BOOLEAN
  /\ km_mask \subseteq Devices /\ m_move \in 0..Steps /\ unread \in 0..MaxUnread

Typed == LoopType /\ DeviceType /\ BoxType

LEMMA TypedIsTypeOK == Typed => TypeOK
BY DEF Typed, LoopType, DeviceType, BoxType, TypeOK

deviceVars == <<active, inited, device, bEnableSound, paused>>

\* The loops and the channels: what is common to all steps that do not touch
\* the devices.
LEMMA LoopUnchanged ==
  ASSUME LoopType, UNCHANGED <<channel, snd_buffer, queue, recorded, armed, flags>>
  PROVE  LoopType'
BY DEF LoopType

LEMMA DeviceUnchanged ==
  ASSUME DeviceType, UNCHANGED deviceVars PROVE DeviceType'
BY DEF DeviceType, WorkingIsInited, deviceVars

LEMMA BoxUnchanged ==
  ASSUME BoxType, UNCHANGED <<transmit, use, kmVars>> PROVE BoxType'
BY DEF BoxType, kmVars

LEMMA InitTyped == Init => Typed
<1> SUFFICES ASSUME Init PROVE Typed OBVIOUS
<1> USE DEF Init, SoundInit
<1>1. LoopType
  <2>1. channel \in [Directions -> Channels] BY DEF Channels
  <2>2. snd_buffer \in {<<>>, <<0>>, <<1>>} OBVIOUS
  <2>3. queue \in 0..Full + 1 BY SoundAssumption
  <2> QED BY <2>1, <2>2, <2>3 DEF LoopType
<1>2. DeviceType
  <2>1. PICK dev \in Opened(Closed) :
          device = [d \in Directions |-> IF inited[d] THEN dev ELSE Closed]
    OBVIOUS
  <2>2. Closed \in DeviceStates /\ ~Closed.working BY DEF Closed, DeviceStates
  <2>3. dev \in DeviceStates BY <2>2, DeviceTypes
  <2> QED BY <2>1, <2>2, <2>3 DEF DeviceType, WorkingIsInited
<1>3. BoxType
  <2>1. m_move \in 0..Steps /\ unread \in 0..MaxUnread BY KmsAssumption
  <2> QED BY <2>1 DEF BoxType
<1> QED BY <1>1, <1>2, <1>3 DEF Typed

-----------------------------------------------------------------------------
(***************************************************************************)
(* Steps of the loops.                                                     *)
(***************************************************************************)

LEMMA DmaWriteTyped == ASSUME LoopType, NEW d \in Directions, DmaWrite(d) PROVE LoopType'
<1>1. channel[d] \in Channels BY DEF LoopType
<1>2. \A b \in BOOLEAN : [enable |-> TRUE, supdate |-> b, left |-> 1] \in Channels
  BY DEF Channels
<1>3. \A x \in Channels : /\ [x EXCEPT !.supdate = TRUE] \in Channels
                          /\ [x EXCEPT !.enable = FALSE, !.supdate = FALSE] \in Channels
  BY DEF Channels
<1>4. channel' \in [Directions -> Channels]
  <2>1. CASE channel' = [channel EXCEPT ![d].enable = FALSE, ![d].supdate = FALSE]
    <3>1. channel' = [channel EXCEPT ![d] = [@ EXCEPT !.enable = FALSE, !.supdate = FALSE]]
      BY <2>1 DEF LoopType
    <3> QED BY <3>1, <1>1, <1>3 DEF LoopType
  <2>2. CASE \E b \in BOOLEAN :
               channel' = [channel EXCEPT ![d] = [enable |-> TRUE, supdate |-> b, left |-> 1]]
    BY <2>2, <1>2 DEF LoopType
  <2>3. CASE channel' = [channel EXCEPT ![d].supdate = TRUE]
    BY <2>3, <1>1, <1>3 DEF LoopType
  <2> QED BY <2>1, <2>2, <2>3 DEF DmaWrite
<1> QED BY <1>4 DEF DmaWrite, LoopType

LEMMA OutHandlerTyped == ASSUME Typed, SND_Out_Handler PROVE LoopType'
<1> USE DEF Typed, LoopType
<1>1. CASE OutEnds BY <1>1 DEF OutEnds, SND_Out_Handler
<1>2. CASE OutWaits BY <1>2 DEF OutWaits, SND_Out_Handler
<1>3. CASE OutPlays
  <2>1. PICK a \in Answers :
          /\ snd_buffer' = a.buffer
          /\ channel' = [channel EXCEPT !["out"] = a.chan]
          /\ IF a.buffer \in {<<>>, <<0>>}
             THEN /\ flags' = IF "enable" \in transmit THEN flags \cup {"underrun"} ELSE flags
                  /\ UNCHANGED queue
             ELSE /\ queue' = IF device["out"].working THEN queue + 1 ELSE 0
                  /\ UNCHANGED flags
    BY <1>3 DEF OutPlays
  <2>2. channel["out"] \in Channels BY DEF Directions
  <2>3. a.chan \in Channels /\ a.buffer \in {<<>>, <<0>>, <<1>>}
    BY <2>2, AnswerTypes
  <2>4. channel' \in [Directions -> Channels] BY <2>1, <2>3
  <2>5. queue' \in 0..Full + 1
    <3>1. device["out"].working => inited["out"]
      BY DEF DeviceType, WorkingIsInited, Directions
    <3>2. ~(inited["out"] /\ queue > Full) BY <1>3 DEF OutPlays
    <3> QED BY <2>1, <3>1, <3>2, SoundAssumption
  <2>6. flags' \subseteq {"underrun", "overrun"} BY <2>1
  <2>7. UNCHANGED <<armed, recorded>> BY <1>3 DEF OutPlays, SND_Out_Handler
  <2> QED BY <2>1, <2>3, <2>4, <2>5, <2>6, <2>7
<1> QED BY <1>1, <1>2, <1>3 DEF SND_Out_Handler

LEMMA InHandlerTyped == ASSUME LoopType, SND_In_Handler PROVE LoopType'
<1> USE DEF LoopType
<1>1. CASE InEnds BY <1>1 DEF InEnds, SND_In_Handler
<1>2. CASE InRecords
  <2> DEFINE before == Completed(channel["in"])
  <2>1. channel["in"] \in Channels BY DEF Directions
  <2>2. before \in Channels BY <2>1, ChannelTypes
  <2>3. Received(before) \subseteq Channels BY <2>2, ChannelTypes
  <2> HIDE DEF before
  <2>4. PICK c \in IF before.enable /\ Samples /\ "enable" \in transmit
                   THEN Received(before) ELSE {before} :
          /\ channel' = [channel EXCEPT !["in"] = Completed(c)]
          /\ flags' = Overrun(Completed(c))
          /\ armed' = IF Completed(c).enable THEN armed ELSE armed \ {"in"}
    BY <1>2 DEF InRecords, before
  <2>5. Completed(c) \in Channels BY <2>2, <2>3, <2>4, ChannelTypes
  <2>6. flags' \subseteq {"underrun", "overrun"} BY <2>4 DEF Overrun
  <2>7. recorded' \in BOOLEAN BY <1>2 DEF InRecords
  <2>8. channel' \in [Directions -> Channels] BY <2>4, <2>5
  <2>9. UNCHANGED <<snd_buffer, queue>> BY DEF SND_In_Handler
  <2> QED BY <2>4, <2>6, <2>7, <2>8, <2>9
<1> QED BY <1>1, <1>2 DEF SND_In_Handler

-----------------------------------------------------------------------------
(***************************************************************************)
(* Steps that open, close and start devices.                               *)
(***************************************************************************)

\* A device that is what it was, or is closed, or is opened for good.
LEMMA DevicesKept ==
  ASSUME DeviceType,
         active' \in [Directions -> BOOLEAN], inited' \in [Directions -> BOOLEAN],
         bEnableSound' \in BOOLEAN, paused' \in BOOLEAN,
         NEW f \in [Directions -> DeviceStates], device' = f,
         \A d \in Directions : f[d].working => inited'[d]
  PROVE  DeviceType'
BY DEF DeviceType, WorkingIsInited

LEMMA SoundCommandTyped ==
  ASSUME Typed, SoundCommand, UNCHANGED <<bEnableSound, paused, use>>
  PROVE  LoopType' /\ DeviceType'
<1> USE DEF Typed
<1>0. /\ device["out"] \in DeviceStates /\ device["in"] \in DeviceStates
      /\ device["out"].working => inited["out"]
      /\ device["in"].working => inited["in"]
      /\ queue \in 0..Full + 1
  BY DEF DeviceType, WorkingIsInited, Directions, LoopType
<1>1. CASE StartOutput
  <2>1. Enabled(device["out"]) \in DeviceStates
        /\ Enabled(device["out"]).working = device["out"].working
    BY <1>0, DeviceTypes
  <2>2. queue' \in 0..Full + 1 BY <1>0, <1>1, SoundAssumption DEF StartOutput
  <2>3. LoopType' BY <1>1, <2>2 DEF StartOutput, LoopType
  <2>4. DeviceType' BY <1>0, <1>1, <2>1 DEF StartOutput, DeviceType, WorkingIsInited
  <2> QED BY <2>3, <2>4
<1>2. CASE StopOutput
  <2>1. LoopType' BY <1>2 DEF StopOutput, LoopType
  <2>2. DeviceType' BY <1>2 DEF StopOutput, DeviceType, WorkingIsInited
  <2> QED BY <2>1, <2>2
<1>3. CASE SendSample
  <2>1. queue' \in 0..Full + 1 BY <1>0, <1>3, SoundAssumption DEF SendSample
  <2>2. LoopType' BY <1>3, <2>1 DEF SendSample, LoopType
  <2>3. DeviceType' BY <1>3 DEF SendSample, DeviceType, WorkingIsInited
  <2> QED BY <2>2, <2>3
<1>4. CASE StartInput
  <2>1. recorded' \in BOOLEAN BY <1>4 DEF StartInput, InitBuf, LoopType
  <2>2. LoopType' BY <1>4, <2>1 DEF StartInput, LoopType
  <2>5. active' \in [Directions -> BOOLEAN] BY <1>4 DEF StartInput, DeviceType
  <2>3. CASE inited["in"] \/ bEnableSound
    <3>1. PICK dev \in IF inited["in"] THEN {device["in"]} ELSE Opened(device["in"]) :
            device' = [device EXCEPT !["in"] = Enabled(dev)]
      BY <1>4, <2>3 DEF StartInput
    <3>2. Opened(device["in"]) \subseteq DeviceStates BY <1>0, DeviceTypes
    <3>3. dev \in DeviceStates BY <1>0, <3>2
    <3>4. Enabled(dev) \in DeviceStates BY <3>3, DeviceTypes
    <3>5. inited' = [inited EXCEPT !["in"] = TRUE] BY <1>4, <2>3 DEF StartInput
    <3>6. \A d \in Directions : device'[d].working => inited'[d]
      BY <3>1, <3>4, <3>5 DEF DeviceType, WorkingIsInited
    <3>7. inited' \in [Directions -> BOOLEAN] BY <3>5 DEF DeviceType
    <3>8. device' \in [Directions -> DeviceStates] BY <3>1, <3>4 DEF DeviceType
    <3> QED BY <2>2, <2>5, <3>6, <3>7, <3>8 DEF DeviceType, WorkingIsInited
  <2>4. CASE ~(inited["in"] \/ bEnableSound)
    <3>1. UNCHANGED <<inited, device>> BY <1>4, <2>4 DEF StartInput
    <3> QED BY <2>2, <2>5, <3>1 DEF DeviceType, WorkingIsInited
  <2> QED BY <2>2, <2>3, <2>4
<1>5. CASE StopInput
  <2>1. UnInited(device["in"]) \in DeviceStates /\ ~UnInited(device["in"]).working
    BY <1>0, DeviceTypes
  <2>2. LoopType' BY <1>5 DEF StopInput, LoopType
  <2>3. DeviceType' BY <1>5, <2>1 DEF StopInput, DeviceType, WorkingIsInited
  <2> QED BY <2>2, <2>3
<1> QED BY <1>1, <1>2, <1>3, <1>4, <1>5 DEF SoundCommand

LEMMA BoxResetTyped ==
  ASSUME Typed, BoxReset, UNCHANGED <<bEnableSound, paused>>
  PROVE  DeviceType'
<1>1. device["in"] \in DeviceStates BY DEF Typed, DeviceType, Directions
<1>2. UnInited(device["in"]) \in DeviceStates /\ ~UnInited(device["in"]).working
  BY <1>1, DeviceTypes
<1> QED BY <1>2 DEF Typed, BoxReset, DeviceType, WorkingIsInited

LEMMA PauseTyped == ASSUME Typed, Pause PROVE LoopType' /\ DeviceType'
<1> USE DEF Typed
<1>1. \A d \in Directions : /\ UnInited(device[d]) \in DeviceStates
                            /\ ~UnInited(device[d]).working
  BY DeviceTypes DEF DeviceType
<1>2. queue' \in 0..Full + 1 BY SoundAssumption DEF Pause, LoopType
<1>3. LoopType' BY <1>2 DEF Pause, LoopType
<1>4. device' \in [Directions -> DeviceStates] BY <1>1 DEF Pause, DeviceType
<1>5. \A d \in Directions : ~device'[d].working
  BY <1>1 DEF Pause, DeviceType, WorkingIsInited
<1> QED BY <1>3, <1>4, <1>5 DEF Pause, DeviceType, WorkingIsInited

LEMMA ResumedTypes ==
  ASSUME DeviceType, NEW d \in Directions, NEW on \in BOOLEAN, NEW dev \in Resumed(d, on)
  PROVE  dev \in DeviceStates /\ (dev.working => inited[d] \/ on)
<1>1. device[d] \in DeviceStates /\ (device[d].working => inited[d])
  BY DEF DeviceType, WorkingIsInited
<1> DEFINE devs == IF ~inited[d] /\ on THEN Opened(device[d]) ELSE {device[d]}
<1>2. devs \subseteq DeviceStates BY <1>1, DeviceTypes
<1>3. \A x \in devs : x.working => inited[d] \/ on BY <1>1
<1>4. Resumed(d, on) = IF active[d] /\ (inited[d] \/ on) THEN {Enabled(x) : x \in devs}
                       ELSE devs
  BY DEF Resumed
<1> HIDE DEF devs
<1>5. \A x \in devs : Enabled(x) \in DeviceStates BY <1>2, DeviceTypes
<1>6. CASE active[d] /\ (inited[d] \/ on) BY <1>4, <1>5, <1>6
<1>7. CASE ~(active[d] /\ (inited[d] \/ on)) BY <1>2, <1>3, <1>4, <1>7
<1> QED BY <1>6, <1>7

LEMMA UnPauseTyped == ASSUME Typed, UnPause PROVE LoopType' /\ DeviceType'
<1> USE DEF Typed
<1> DEFINE onIn == bEnableSound /\ active["in"]
<1>1. bEnableSound \in BOOLEAN /\ onIn \in BOOLEAN BY DEF DeviceType, Directions
<1>2. PICK o \in Resumed("out", bEnableSound), i \in Resumed("in", onIn) :
        device' = [d \in Directions |-> IF d = "out" THEN o ELSE i]
  BY DEF UnPause
<1>3. inited' = [d \in Directions |-> inited[d] \/ IF d = "out" THEN bEnableSound ELSE onIn]
  BY DEF UnPause
<1> HIDE DEF onIn
<1>4. o \in DeviceStates /\ (o.working => inited["out"] \/ bEnableSound)
  BY <1>1, ResumedTypes DEF Directions
<1>5. i \in DeviceStates /\ (i.working => inited["in"] \/ onIn)
  BY <1>1, ResumedTypes DEF Directions
<1>6. device' \in [Directions -> DeviceStates] BY <1>2, <1>4, <1>5
<1>7. inited' \in [Directions -> BOOLEAN] BY <1>1, <1>3 DEF DeviceType
<1>8. \A d \in Directions : device'[d].working => inited'[d]
  BY <1>2, <1>3, <1>4, <1>5 DEF Directions
<1>9. recorded' \in BOOLEAN BY DEF UnPause, InitBuf, LoopType
<1>10. LoopType' BY <1>9 DEF UnPause, LoopType
<1> QED BY <1>6, <1>7, <1>8, <1>10 DEF UnPause, DeviceType, WorkingIsInited

\* Sound_Reset leaves no device working unless sound is on.
LEMMA ReopenedTypes ==
  ASSUME DeviceType, NEW enable \in BOOLEAN, NEW playing, NEW dev \in Reopened(enable, playing)
  PROVE  dev \in DeviceStates /\ (dev.working => enable)
<1> DEFINE old == IF inited["out"] THEN UnInited(device["out"]) ELSE device["out"]
<1>1. device["out"] \in DeviceStates /\ (device["out"].working => inited["out"])
  BY DEF DeviceType, WorkingIsInited, Directions
<1>2. old \in DeviceStates /\ ~old.working BY <1>1, DeviceTypes
<1>3. Reopened(enable, playing) =
        IF ~enable THEN {old}
        ELSE {IF playing THEN Enabled(x) ELSE x : x \in Opened(old)}
  BY DEF Reopened
<1> HIDE DEF old
<1>4. \A x \in Opened(old) : x \in DeviceStates /\ Enabled(x) \in DeviceStates
  BY <1>2, DeviceTypes
<1>5. CASE ~enable BY <1>2, <1>3, <1>5
<1>6. CASE enable BY <1>3, <1>4, <1>6
<1> QED BY <1>5, <1>6

LEMMA SoundOnOffTyped == ASSUME Typed, SoundOnOff PROVE LoopType' /\ DeviceType'
<1> USE DEF Typed
<1>1. PICK dev \in Reopened(~bEnableSound, active["out"]) :
        device' = [device EXCEPT !["out"] = dev]
  BY DEF SoundOnOff
<1>2. (~bEnableSound) \in BOOLEAN BY DEF DeviceType
<1>3. dev \in DeviceStates /\ (dev.working => ~bEnableSound) BY <1>2, ReopenedTypes
<1>4. LoopType' BY SoundAssumption DEF SoundOnOff, LoopType
<1>5. DeviceType' BY <1>1, <1>2, <1>3 DEF SoundOnOff, DeviceType, WorkingIsInited
<1> QED BY <1>4, <1>5

LEMMA RegistersResetTyped ==
  ASSUME BoxType, RegistersReset
  PROVE  /\ flags' = {} /\ km' = {} /\ keymouse' = FALSE /\ unread' \in 0..MaxUnread
         /\ km_mask' = {} /\ m_move' \in 0..Steps
BY KmsAssumption DEF RegistersReset, KmReset

LEMMA MachineResetTyped == ASSUME Typed, MachineReset PROVE Typed'
<1> USE DEF Typed
<1>1. PICK dev \in Reopened(bEnableSound, FALSE) :
        device' = [d \in Directions |-> IF d = "out" THEN dev ELSE UnInited(device["in"])]
  BY DEF MachineReset
<1>2. dev \in DeviceStates /\ (dev.working => bEnableSound)
  BY ReopenedTypes DEF DeviceType
<1>3. device["in"] \in DeviceStates BY DEF DeviceType, Directions
<1>4. UnInited(device["in"]) \in DeviceStates /\ ~UnInited(device["in"]).working
  BY <1>3, DeviceTypes
<1>5. DeviceType' BY <1>1, <1>2, <1>4 DEF MachineReset, DeviceType, WorkingIsInited
<1>6. LoopType' BY SoundAssumption, RegistersResetTyped DEF MachineReset, LoopType
<1>7. BoxType' BY RegistersResetTyped DEF MachineReset, BoxType
<1> QED BY <1>5, <1>6, <1>7

-----------------------------------------------------------------------------
(***************************************************************************)
(* Steps of the box, and all of them.                                      *)
(***************************************************************************)

LEMMA CountedType == ASSUME BoxType, NEW n \in {1, 2} PROVE Counted(n) \in 0..MaxUnread
BY KmsAssumption DEF BoxType, Counted

LEMMA CommandOutTyped ==
  ASSUME BoxType, NEW n \in {1, 2}, CommandOut(n)
  PROVE  km' \subseteq {"received", "overrun"} /\ keymouse' \in BOOLEAN /\ unread' \in 0..MaxUnread
BY CountedType DEF BoxType, CommandOut, Receive

LEMMA InternalPollTyped ==
  ASSUME BoxType, NEW dev \in Devices, InternalPoll(dev) \/ Magic
  PROVE  km' \subseteq {"received", "overrun"} /\ keymouse' \in BOOLEAN /\ unread' \in 0..MaxUnread
<1>1. CASE InternalPoll(dev) BY <1>1, CommandOutTyped DEF BoxType, InternalPoll
<1>2. CASE Magic BY <1>2 DEF BoxType, Magic
<1> QED BY <1>1, <1>2

LEMMA KeyboardTyped == ASSUME Typed, Keyboard PROVE Typed'
<1> USE DEF Typed
<1>1. ASSUME NEW dev \in Devices, KeyOrButton(dev) PROVE Typed'
  <2>1. BoxType' BY <1>1, InternalPollTyped DEF KeyOrButton, soundVars, BoxType
  <2>2. LoopType' BY <1>1, LoopUnchanged DEF KeyOrButton, soundVars
  <2>3. DeviceType' BY <1>1, DeviceUnchanged DEF KeyOrButton, soundVars, deviceVars
  <2> QED BY <2>1, <2>2, <2>3
<1>2. ASSUME NEW steps \in 1..Steps, MouseMove(steps) PROVE Typed'
  <2>1. BoxType' BY <1>2, KmsAssumption DEF MouseMove, BoxType
  <2>2. LoopType' BY <1>2 DEF MouseMove, LoopType
  <2>3. DeviceType' BY <1>2, DeviceUnchanged DEF MouseMove, deviceVars
  <2> QED BY <2>1, <2>2, <2>3
<1>3. CASE DataRead \/ CtrlKmWrite
  <2>0. /\ km' \subseteq km /\ keymouse' = FALSE /\ unread' = 0
        /\ UNCHANGED <<transmit, use, km_mask, m_move>>
    BY <1>3 DEF DataRead, CtrlKmWrite, soundVars
  <2>4. 0 \in 0..MaxUnread BY KmsAssumption
  <2>1. BoxType' BY <2>0, <2>4 DEF BoxType
  <2>2. LoopType' BY <1>3, LoopUnchanged DEF DataRead, CtrlKmWrite, soundVars
  <2>3. DeviceType' BY <1>3, DeviceUnchanged DEF DataRead, CtrlKmWrite, soundVars, deviceVars
  <2> QED BY <2>1, <2>2, <2>3
<1>4. CASE LoopBack
  <2> USE DEF LoopBack
  <2>1. DeviceType' BY <1>4, DeviceUnchanged DEF deviceVars
  <2>2. CASE use = "keyboard" /\ CommandOut(1) /\ UNCHANGED <<channel, flags, snd_buffer>>
    <3>1. BoxType' BY <1>4, <2>2, CommandOutTyped DEF BoxType
    <3>2. LoopType' BY <1>4, <2>2, LoopUnchanged
    <3> QED BY <2>1, <3>1, <3>2
  <2>3. CASE (CodecIn \/ SoundOutRequest \/ Underrun) /\ UNCHANGED <<km, keymouse, unread>>
    <3>1. BoxType' BY <1>4, <2>3 DEF BoxType
    <3>2. channel["in"] \in Channels /\ channel["out"] \in Channels
      BY DEF LoopType, Directions
    <3>3. CASE CodecIn
      <4>1. PICK c \in {channel["in"]} \cup Received(channel["in"]) :
              channel' = [channel EXCEPT !["in"] = c] /\ flags' = Overrun(c)
        BY <3>3 DEF CodecIn
      <4>2. c \in Channels BY <3>2, ChannelTypes
      <4> QED BY <1>4, <2>1, <3>1, <3>3, <4>1, <4>2 DEF CodecIn, LoopType, Overrun
    <3>4. CASE SoundOutRequest
      <4>1. PICK a \in Answers : /\ snd_buffer' = a.buffer
                                 /\ channel' = [channel EXCEPT !["out"] = a.chan]
        BY <3>4 DEF SoundOutRequest
      <4>2. a.chan \in Channels /\ a.buffer \in {<<>>, <<0>>, <<1>>}
        BY <3>2, AnswerTypes DEF LoopType
      <4> QED BY <1>4, <2>1, <3>1, <3>4, <4>1, <4>2 DEF SoundOutRequest, LoopType
    <3>5. CASE Underrun
      BY <1>4, <2>1, <3>1, <3>5 DEF Underrun, LoopType
    <3> QED BY <2>3, <3>3, <3>4, <3>5
  <2> QED BY <1>4, <2>2, <2>3
<1> QED BY <1>1, <1>2, <1>3, <1>4 DEF Keyboard

LEMMA MouseHandlerTyped == ASSUME Typed, Mouse_Handler PROVE Typed'
<1> USE DEF Typed, Mouse_Handler
<1>1. LoopType' BY DEF LoopType
<1>2. DeviceType' BY DeviceUnchanged DEF deviceVars
<1>3. CASE m_move > 0
  <2>1. m_move' \in 0..Steps BY <1>3, KmsAssumption DEF BoxType
  <2>2. BoxType' BY <1>3, <2>1, InternalPollTyped DEF BoxType, Devices
  <2> QED BY <1>1, <1>2, <2>2
<1>4. CASE ~(m_move > 0)
  <2>1. BoxType' BY <1>4 DEF BoxType
  <2> QED BY <1>1, <1>2, <2>1
<1> QED BY <1>3, <1>4

LEMMA SoundStepTyped == ASSUME Typed, SoundStep PROVE Typed'
<1> USE DEF Typed, SoundStep
<1>1. BoxType' \/ transmit' # transmit BY BoxUnchanged DEF kmVars
<1>2. CASE SND_Out_Handler
  BY <1>1, <1>2, OutHandlerTyped, DeviceUnchanged DEF SND_Out_Handler, deviceVars
<1>3. CASE SND_In_Handler
  BY <1>1, <1>3, InHandlerTyped, DeviceUnchanged DEF SND_In_Handler, deviceVars
<1>4. CASE Play
  <2>1. LoopType' BY <1>4, SoundAssumption DEF Play, LoopType
  <2> QED BY <1>1, <1>4, <2>1, DeviceUnchanged DEF Play, deviceVars
<1>5. CASE Record
  <2>1. LoopType' BY <1>5 DEF Record, LoopType
  <2> QED BY <1>1, <1>5, <2>1, DeviceUnchanged DEF Record, deviceVars
<1>6. CASE Pause BY <1>1, <1>6, PauseTyped DEF Pause
<1>7. CASE UnPause BY <1>1, <1>7, UnPauseTyped DEF UnPause
<1>8. CASE SoundOnOff BY <1>1, <1>8, SoundOnOffTyped DEF SoundOnOff
<1>9. ASSUME NEW d \in Directions, DmaWrite(d) PROVE Typed'
  BY <1>1, <1>9, DmaWriteTyped, DeviceUnchanged DEF DmaWrite, deviceVars
<1> QED BY <1>2, <1>3, <1>4, <1>5, <1>6, <1>7, <1>8, <1>9

LEMMA CommandInTyped == ASSUME Typed, CommandIn PROVE Typed'
<1> USE DEF Typed, CommandIn
<1>1. CASE ResetCommand
  <2>1. BoxReset /\ RegistersReset BY <1>1 DEF ResetCommand, BoxReset
  <2>2. BoxType' BY <1>1, <2>1, RegistersResetTyped DEF ResetCommand, BoxType
  <2>3. DeviceType' BY <2>1, BoxResetTyped
  <2>4. LoopType' BY <1>1, <2>1, RegistersResetTyped DEF ResetCommand, LoopType
  <2> QED BY <2>2, <2>3, <2>4
<1>2. CASE SoundCommand
  <2>1. BoxType' BY <1>2, BoxUnchanged DEF SoundCommand
  <2> QED BY <1>2, <2>1, SoundCommandTyped
<1>3. CASE KeyboardCommand
  <2> USE DEF KeyboardCommand
  <2>1. LoopType' BY <1>3, LoopUnchanged
  <2>2. DeviceType' BY <1>3, DeviceUnchanged DEF deviceVars
  <2>3. CASE km_mask' \in SUBSET Devices /\ UNCHANGED <<km, keymouse, unread, m_move>>
    BY <1>3, <2>1, <2>2, <2>3 DEF BoxType
  <2>4. ASSUME NEW n \in {1, 2}, CommandOut(n), UNCHANGED <<km_mask, m_move>> PROVE Typed'
    BY <1>3, <2>1, <2>2, <2>4, CommandOutTyped DEF BoxType
  <2>5. CASE CommandOut(1) /\ KmReset
    BY <1>3, <2>1, <2>2, <2>5, CommandOutTyped, KmsAssumption DEF BoxType, KmReset
  <2> QED BY <1>3, <2>3, <2>4, <2>5
<1> QED BY <1>1, <1>2, <1>3

LEMMA CtrlSndWriteTyped == ASSUME Typed, CtrlSndWrite PROVE Typed'
<1>1. flags' \subseteq {"underrun", "overrun"} BY DEF Typed, CtrlSndWrite, LoopType
<1>2. LoopType' BY <1>1 DEF Typed, CtrlSndWrite, LoopType
<1> QED BY <1>2, DeviceUnchanged, BoxUnchanged DEF Typed, CtrlSndWrite, deviceVars

LEMMA CtrlTxWriteTyped ==
  ASSUME Typed, NEW value \in SUBSET {"enable", "loop"}, CtrlTxWrite(value)
  PROVE  Typed'
<1> USE DEF Typed, CtrlTxWrite
<1>1. CASE BoxReset
  <2>1. RegistersReset BY <1>1 DEF BoxReset
  <2>2. BoxType' BY <2>1, RegistersResetTyped DEF BoxType
  <2>3. LoopType' BY <2>1, RegistersResetTyped DEF LoopType
  <2> QED BY <1>1, <2>2, <2>3, BoxResetTyped
<1>2. CASE UNCHANGED <<active, inited, device, flags, kmVars>>
  <2>1. BoxType' BY <1>2 DEF BoxType, kmVars
  <2> QED BY <1>2, <2>1, LoopUnchanged, DeviceUnchanged DEF deviceVars
<1> QED BY <1>1, <1>2

LEMMA StepTyped == Typed /\ [Next]_vars => Typed'
<1> SUFFICES ASSUME Typed, [Next]_vars PROVE Typed' OBVIOUS
<1>1. CASE UNCHANGED vars
  BY <1>1, LoopUnchanged, DeviceUnchanged, BoxUnchanged
     DEF Typed, vars, soundVars, kmVars, deviceVars
<1> QED BY <1>1, KeyboardTyped, MouseHandlerTyped, SoundStepTyped, CtrlSndWriteTyped,
           CommandInTyped, MachineResetTyped, CtrlTxWriteTyped DEF Next

\* The sound box, both loops and the host's devices keep their types.
THEOREM TypeCorrect == Spec => []TypeOK
BY InitTyped, StepTyped, TypedIsTypeOK, PTL DEF Spec

-----------------------------------------------------------------------------
(***************************************************************************)
(* Safety.                                                                 *)
(***************************************************************************)

\* The loops: what each step may do to active, armed, overrun and enable.
LoopsInv == LoopsAlive /\ ActiveOnlyEnabled

LEMMA OverrunKept == \A c : flags \subseteq Overrun(c)
BY DEF Overrun

LEMMA LoopsFrame ==
  ASSUME LoopsInv, active' = active, "out" \in armed' \/ "out" \notin armed,
         "in" \in armed' \/ "in" \notin armed,
         "overrun" \in flags' \/ "overrun" \notin flags,
         "enable" \in transmit' \/ "enable" \notin transmit
  PROVE  LoopsInv'
BY DEF LoopsInv, LoopsAlive, ActiveOnlyEnabled

LEMMA LoopsOff ==
  ASSUME active' = [d \in Directions |-> FALSE] PROVE LoopsInv'
BY DEF LoopsInv, LoopsAlive, ActiveOnlyEnabled, Directions

LEMMA SoundStepLoops == ASSUME Typed, LoopsInv, SoundStep PROVE LoopsInv'
<1> USE DEF SoundStep
<1>1. CASE SND_Out_Handler
  <2>1. CASE OutEnds
    BY <1>1, <2>1 DEF SND_Out_Handler, OutEnds, LoopsInv, LoopsAlive, ActiveOnlyEnabled
  <2>2. CASE OutWaits \/ OutPlays
    <3>1. armed' = armed /\ flags \subseteq flags'
      BY <2>2 DEF OutWaits, OutPlays
    <3> QED BY <1>1, <3>1, LoopsFrame DEF SND_Out_Handler
  <2> QED BY <1>1, <2>1, <2>2 DEF SND_Out_Handler
<1>2. CASE SND_In_Handler
  <2>1. CASE InEnds
    BY <1>2, <2>1 DEF SND_In_Handler, InEnds, LoopsInv, LoopsAlive, ActiveOnlyEnabled
  <2>2. CASE InRecords
    <3>1. PICK after : /\ flags' = Overrun(after)
                       /\ armed' = IF after.enable THEN armed ELSE armed \ {"in"}
      BY <2>2 DEF InRecords
    <3>2. "overrun" \in flags' \/ armed' = armed BY <3>1 DEF Overrun
    <3>3. flags \subseteq flags' BY <3>1, OverrunKept
    <3>4. active' = active /\ transmit' = transmit BY <1>2 DEF SND_In_Handler
    <3>5. "out" \in armed' \/ "out" \notin armed BY <3>1
    <3> QED BY <3>2, <3>3, <3>4, <3>5 DEF LoopsInv, LoopsAlive, ActiveOnlyEnabled
  <2> QED BY <1>2, <2>1, <2>2 DEF SND_In_Handler
<1>3. CASE Play BY <1>3, LoopsFrame DEF Play
<1>4. CASE Record BY <1>4, LoopsFrame DEF Record
<1>5. CASE Pause BY <1>5, LoopsFrame DEF Pause
<1>6. CASE UnPause BY <1>6, LoopsFrame DEF UnPause
<1>7. CASE SoundOnOff BY <1>7, LoopsFrame DEF SoundOnOff
<1>8. ASSUME NEW d \in Directions, DmaWrite(d) PROVE LoopsInv'
  BY <1>8, LoopsFrame DEF DmaWrite
<1> QED BY <1>1, <1>2, <1>3, <1>4, <1>5, <1>6, <1>7, <1>8

LEMMA CommandInLoops == ASSUME Typed, LoopsInv, CommandIn PROVE LoopsInv'
<1> USE DEF CommandIn
<1>0. active \in [Directions -> BOOLEAN] BY DEF Typed, DeviceType
<1>1. CASE ResetCommand BY <1>1, LoopsOff DEF ResetCommand, BoxReset
<1>2. CASE SoundCommand
  <2> USE DEF SoundCommand, LoopsInv, LoopsAlive, ActiveOnlyEnabled, Directions
  <2>1. CASE StartOutput BY <1>0, <1>2, <2>1 DEF StartOutput
  <2>2. CASE StopOutput BY <1>0, <1>2, <2>2 DEF StopOutput
  <2>3. CASE SendSample BY <1>2, <2>3, LoopsFrame DEF SendSample
  <2>4. CASE StartInput
    <3>1. /\ active' = [active EXCEPT !["in"] = TRUE] /\ armed' = armed \cup {"in"}
          /\ UNCHANGED <<flags, transmit>>
      BY <1>2, <2>4 DEF StartInput
    <3> QED BY <1>0, <3>1
  <2>5. CASE StopInput BY <1>0, <1>2, <2>5 DEF StopInput
  <2> QED BY <1>2, <2>1, <2>2, <2>3, <2>4, <2>5
<1>3. CASE KeyboardCommand BY <1>3, LoopsFrame DEF KeyboardCommand
<1> QED BY <1>1, <1>2, <1>3

LEMMA StepLoops == Typed /\ LoopsInv /\ [Next]_vars => LoopsInv'
<1> SUFFICES ASSUME Typed, LoopsInv, [Next]_vars PROVE LoopsInv' OBVIOUS
<1>1. CASE UNCHANGED vars BY <1>1, LoopsFrame DEF vars, soundVars
<1>2. CASE Keyboard
  <2>1. CASE LoopBack
    <3>1. "overrun" \in flags' \/ "overrun" \notin flags
      BY <2>1, OverrunKept DEF LoopBack, CodecIn, SoundOutRequest, Underrun
    <3> QED BY <2>1, <3>1, LoopsFrame DEF LoopBack
  <2>2. ASSUME NEW dev \in Devices, KeyOrButton(dev) PROVE LoopsInv'
    BY <2>2, LoopsFrame DEF KeyOrButton, soundVars
  <2>3. ASSUME NEW steps \in 1..Steps, MouseMove(steps) PROVE LoopsInv'
    BY <2>3, LoopsFrame DEF MouseMove
  <2>4. CASE DataRead \/ CtrlKmWrite BY <2>4, LoopsFrame DEF DataRead, CtrlKmWrite, soundVars
  <2> QED BY <1>2, <2>1, <2>2, <2>3, <2>4 DEF Keyboard
<1>3. CASE Mouse_Handler BY <1>3, LoopsFrame DEF Mouse_Handler
<1>4. CASE CtrlSndWrite
  <2>1. PICK clear \in SUBSET {"underrun", "overrun"} :
          flags' = flags \ {f \in clear : ~active[IF f = "underrun" THEN "out" ELSE "in"]}
    BY <1>4 DEF CtrlSndWrite
  <2>2. active["in"] /\ "overrun" \in flags => "overrun" \in flags' BY <2>1
  <2>3. UNCHANGED <<active, armed, transmit>> BY <1>4 DEF CtrlSndWrite
  <2> QED BY <2>2, <2>3 DEF LoopsInv, LoopsAlive, ActiveOnlyEnabled
<1>5. ASSUME NEW value \in SUBSET {"enable", "loop"}, CtrlTxWrite(value) PROVE LoopsInv'
  <2>1. CASE BoxReset BY <2>1, LoopsOff DEF BoxReset
  <2>2. CASE "enable" \notin transmit \ value
    BY <1>5, <2>2, LoopsFrame DEF CtrlTxWrite
  <2> QED BY <1>5, <2>1, <2>2 DEF CtrlTxWrite
<1>6. CASE MachineReset BY <1>6, LoopsOff DEF MachineReset
<1> QED BY <1>1, <1>2, <1>3, <1>4, <1>5, <1>6, SoundStepLoops, CommandInLoops DEF Next

\* A sound loop that is on stays scheduled, or the guest is told that its block
\* has ended.
THEOREM LoopsStayAlive == Spec => []LoopsAlive
<1>1. Init => LoopsInv
  BY DEF Init, SoundInit, LoopsInv, LoopsAlive, ActiveOnlyEnabled, Directions
<1>2. LoopsInv => LoopsAlive BY DEF LoopsInv
<1> QED BY <1>1, <1>2, InitTyped, StepTyped, StepLoops, PTL DEF Spec

\* Sound never runs behind a sound box that is off.
THEOREM RunsOnlyEnabled == Spec => []ActiveOnlyEnabled
<1>1. Init => LoopsInv
  BY DEF Init, SoundInit, LoopsInv, LoopsAlive, ActiveOnlyEnabled, Directions
<1>2. LoopsInv => ActiveOnlyEnabled BY DEF LoopsInv
<1> QED BY <1>1, <1>2, InitTyped, StepTyped, StepLoops, PTL DEF Spec

-----------------------------------------------------------------------------
\* The mouse: only a reset of its steps takes them away with the timer.
LEMMA MouseFrame ==
  ASSUME MouseMoves, m_move' = m_move, "mouse" \in armed' \/ "mouse" \notin armed
  PROVE  MouseMoves'
BY DEF MouseMoves

LEMMA MouseStill == ASSUME m_move' = 0 PROVE MouseMoves'
BY DEF MouseMoves

LEMMA CommandInMouse == ASSUME MouseMoves, CommandIn PROVE MouseMoves'
<1> USE DEF CommandIn
<1>1. CASE ResetCommand
  BY <1>1, MouseStill DEF ResetCommand, BoxReset, RegistersReset, KmReset
<1>2. CASE SoundCommand
  <2>1. m_move' = m_move BY <1>2 DEF SoundCommand, kmVars
  <2>2. armed \subseteq armed'
    BY <1>2 DEF SoundCommand, StartOutput, StopOutput, SendSample, StartInput, StopInput
  <2> QED BY <2>1, <2>2, MouseFrame
<1>3. CASE KeyboardCommand
  <2>1. m_move' = m_move \/ m_move' = 0 BY <1>3 DEF KeyboardCommand, KmReset
  <2>2. armed' = armed BY <1>3 DEF KeyboardCommand
  <2> QED BY <2>1, <2>2, MouseFrame, MouseStill
<1> QED BY <1>1, <1>2, <1>3

LEMMA StepMouse == MouseMoves /\ [Next]_vars => MouseMoves'
<1> SUFFICES ASSUME MouseMoves, [Next]_vars PROVE MouseMoves' OBVIOUS
<1>1. CASE UNCHANGED vars BY <1>1, MouseFrame DEF vars, soundVars, kmVars
<1>2. CASE Keyboard
  <2>1. CASE LoopBack BY <2>1, MouseFrame DEF LoopBack
  <2>2. ASSUME NEW dev \in Devices, KeyOrButton(dev) PROVE MouseMoves'
    BY <2>2, MouseFrame DEF KeyOrButton, soundVars
  <2>3. ASSUME NEW steps \in 1..Steps, MouseMove(steps) PROVE MouseMoves'
    BY <2>3 DEF MouseMove, MouseMoves
  <2>4. CASE DataRead \/ CtrlKmWrite BY <2>4, MouseFrame DEF DataRead, CtrlKmWrite, soundVars
  <2> QED BY <1>2, <2>1, <2>2, <2>3, <2>4 DEF Keyboard
<1>3. CASE Mouse_Handler BY <1>3 DEF Mouse_Handler, MouseMoves
<1>4. CASE SoundStep
  <2>1. m_move' = m_move BY <1>4 DEF SoundStep, kmVars
  <2>2. "mouse" \in armed' \/ "mouse" \notin armed
    BY <1>4 DEF SoundStep, SND_Out_Handler, OutEnds, OutWaits, OutPlays, Play,
                SND_In_Handler, InEnds, InRecords, Record, Pause, UnPause, SoundOnOff, DmaWrite
  <2> QED BY <2>1, <2>2, MouseFrame
<1>5. CASE CtrlSndWrite BY <1>5, MouseFrame DEF CtrlSndWrite, kmVars
<1>6. ASSUME NEW value \in SUBSET {"enable", "loop"}, CtrlTxWrite(value) PROVE MouseMoves'
  <2>1. CASE BoxReset BY <2>1, MouseStill DEF BoxReset, RegistersReset, KmReset
  <2>2. CASE UNCHANGED kmVars BY <1>6, <2>2, MouseFrame DEF CtrlTxWrite, kmVars
  <2> QED BY <1>6, <2>1, <2>2 DEF CtrlTxWrite
<1>7. CASE MachineReset BY <1>7, MouseStill DEF MachineReset, RegistersReset, KmReset
<1> QED BY <1>1, <1>2, <1>3, <1>4, <1>5, <1>6, <1>7, CommandInMouse DEF Next

\* A mouse that has steps to go is scheduled, through every reset.
THEOREM MouseGoesOn == Spec => []MouseMoves
<1>1. Init => MouseMoves BY DEF Init, MouseMoves
<1> QED BY <1>1, StepMouse, PTL DEF Spec

-----------------------------------------------------------------------------
\* Events: that one is unread is told by the status too, which is what makes the
\* next one an overrun.
EventsInv == EventsTold /\ (unread > 0 => "received" \in km)

LEMMA EventsFrame ==
  ASSUME EventsInv, UNCHANGED <<km, keymouse, unread>> PROVE EventsInv'
BY DEF EventsInv, EventsTold

LEMMA EventsCleared ==
  ASSUME keymouse' = FALSE, unread' = 0 PROVE EventsInv'
BY DEF EventsInv, EventsTold

LEMMA CommandOutEvents ==
  ASSUME BoxType, EventsInv, NEW n \in {1, 2}, CommandOut(n) PROVE EventsInv'
<1>1. CASE Receive(n)
  <2>1. unread' > 0 BY <1>1, KmsAssumption DEF Receive, Counted, BoxType
  <2>2. n > 1 \/ unread > 0 \/ unread' = 1
    BY <1>1, KmsAssumption DEF Receive, Counted, BoxType
  <2>3. /\ "received" \in km'
        /\ ("received" \in km \/ n > 1 => "overrun" \in km')
        /\ keymouse' = TRUE
    BY <1>1 DEF Receive
  <2>4. unread' > 1 => "overrun" \in km' BY <2>2, <2>3 DEF EventsInv
  <2> QED BY <2>1, <2>3, <2>4 DEF EventsInv, EventsTold
<1>2. CASE UNCHANGED <<km, keymouse, unread>> BY <1>2, EventsFrame
<1> QED BY <1>1, <1>2 DEF CommandOut

LEMMA InternalPollEvents ==
  ASSUME BoxType, EventsInv, NEW dev \in Devices, InternalPoll(dev) \/ Magic PROVE EventsInv'
<1>1. CASE CommandOut(1) BY <1>1, CommandOutEvents
<1>2. CASE UNCHANGED <<km, keymouse, unread>> BY <1>2, EventsFrame
<1> QED BY <1>1, <1>2 DEF InternalPoll, Magic

LEMMA ResetEvents == ASSUME RegistersReset PROVE EventsInv'
BY EventsCleared DEF RegistersReset

LEMMA StepEvents == Typed /\ EventsInv /\ [Next]_vars => EventsInv'
<1> SUFFICES ASSUME Typed, EventsInv, [Next]_vars PROVE EventsInv' OBVIOUS
<1>0. BoxType BY DEF Typed
<1>1. CASE UNCHANGED vars BY <1>1, EventsFrame DEF vars, kmVars
<1>2. CASE Keyboard
  <2>1. CASE LoopBack
    <3>1. CASE CommandOut(1) BY <1>0, <3>1, CommandOutEvents
    <3> QED BY <2>1, <3>1, EventsFrame DEF LoopBack
  <2>2. ASSUME NEW dev \in Devices, KeyOrButton(dev) PROVE EventsInv'
    BY <1>0, <2>2, InternalPollEvents DEF KeyOrButton
  <2>3. ASSUME NEW steps \in 1..Steps, MouseMove(steps) PROVE EventsInv'
    BY <2>3, EventsFrame DEF MouseMove
  <2>4. CASE DataRead \/ CtrlKmWrite BY <2>4, EventsCleared DEF DataRead, CtrlKmWrite
  <2> QED BY <1>2, <2>1, <2>2, <2>3, <2>4 DEF Keyboard
<1>3. CASE Mouse_Handler
  <2>1. CASE InternalPoll("mouse") BY <1>0, <2>1, InternalPollEvents DEF Devices
  <2> QED BY <1>3, <2>1, EventsFrame DEF Mouse_Handler
<1>4. CASE SoundStep BY <1>4, EventsFrame DEF SoundStep, kmVars
<1>5. CASE CtrlSndWrite BY <1>5, EventsFrame DEF CtrlSndWrite, kmVars
<1>6. ASSUME NEW value \in SUBSET {"enable", "loop"}, CtrlTxWrite(value) PROVE EventsInv'
  BY <1>6, ResetEvents, EventsFrame DEF CtrlTxWrite, BoxReset, kmVars
<1>7. CASE MachineReset BY <1>7, ResetEvents DEF MachineReset
<1>8. CASE CommandIn
  <2>1. CASE ResetCommand BY <2>1, ResetEvents DEF ResetCommand, BoxReset
  <2>2. CASE SoundCommand BY <2>2, EventsFrame DEF SoundCommand, kmVars
  <2>3. CASE KeyboardCommand
    BY <1>0, <2>3, CommandOutEvents, EventsFrame DEF KeyboardCommand
  <2> QED BY <1>8, <2>1, <2>2, <2>3 DEF CommandIn
<1> QED BY <1>1, <1>2, <1>3, <1>4, <1>5, <1>6, <1>7, <1>8 DEF Next

\* The interrupt stands while an event is unread, and the guest can tell when one
\* was lost.
THEOREM NoEventLostUnsaid == Spec => []EventsTold
<1>1. Init => EventsInv BY DEF Init, EventsInv, EventsTold
<1>2. EventsInv => EventsTold BY DEF EventsInv
<1> QED BY <1>1, <1>2, InitTyped, StepTyped, StepEvents, PTL DEF Spec
=============================================================================
