--------------------------- MODULE MoDrivesProofs ---------------------------
(***************************************************************************)
(* The invariants of MoDrives, for any number of drives. Together they are *)
(* inductive: that no two drives wait at once needs that the timer belongs *)
(* to the one that does, and what the status shows of an attention needs   *)
(* the timer that ends its reset.                                          *)
(***************************************************************************)
EXTENDS MoDrives, TLAPS

IInv == TypeOK /\ SignalScheduled /\ SpiralScheduled /\ StatusShowsSelected

USE DrivesAssumption

-----------------------------------------------------------------------------
\* What mo_set_signals does to a drive at the end of a command and at its start;
\* it leaves the others alone.
LEMMA Completed ==
  ASSUME NEW m \in [Drives -> DriveStates], NEW d \in Drives, NEW attn \in BOOLEAN
  PROVE  /\ Signalled(m, d, TRUE, attn) \in [Drives -> DriveStates]
         /\ \A e \in Drives \ {d} : Signalled(m, d, TRUE, attn)[e] = m[e]
         /\ Signalled(m, d, TRUE, attn)[d].complete
         /\ ~Signalled(m, d, TRUE, attn)[d].seeking
         /\ Signalled(m, d, TRUE, attn)[d].spiraling => m[d].spiraling
<1> DEFINE r == Signal(m[d], TRUE, attn)
<1>1. m[d] \in DriveStates
  OBVIOUS
<1>2. r \in DriveStates
  BY <1>1 DEF Signal, DriveStates
<1>3. r.complete /\ ~r.seeking
  BY <1>1 DEF Signal, DriveStates
<1>4. r.spiraling => m[d].spiraling
  BY <1>1 DEF Signal, DriveStates
<1>5. Signalled(m, d, TRUE, attn) = [m EXCEPT ![d] = r]
  BY DEF Signalled
<1> HIDE DEF r
<1>6. Signalled(m, d, TRUE, attn)[d] = r
  BY <1>5
<1>7. Signalled(m, d, TRUE, attn) \in [Drives -> DriveStates]
  BY <1>2, <1>5
<1>8. \A e \in Drives \ {d} : Signalled(m, d, TRUE, attn)[e] = m[e]
  BY <1>5
<1> QED BY <1>3, <1>4, <1>6, <1>7, <1>8

LEMMA Started ==
  ASSUME NEW m \in [Drives -> DriveStates], NEW d \in Drives
  PROVE  /\ Signalled(m, d, FALSE, FALSE) \in [Drives -> DriveStates]
         /\ \A e \in Drives \ {d} : Signalled(m, d, FALSE, FALSE)[e] = m[e]
         /\ ~Signalled(m, d, FALSE, FALSE)[d].complete
         /\ ~Signalled(m, d, FALSE, FALSE)[d].seeking
         /\ Signalled(m, d, FALSE, FALSE)[d].spiraling => m[d].spiraling
<1> DEFINE r == Signal(m[d], FALSE, FALSE)
<1>1. m[d] \in DriveStates
  OBVIOUS
<1>2. r \in DriveStates
  BY <1>1 DEF Signal, DriveStates
<1>3. ~r.complete /\ ~r.seeking
  BY <1>1 DEF Signal, DriveStates
<1>4. r.spiraling => m[d].spiraling
  BY <1>1 DEF Signal, DriveStates
<1>5. Signalled(m, d, FALSE, FALSE) = [m EXCEPT ![d] = r]
  BY DEF Signalled
<1> HIDE DEF r
<1>6. Signalled(m, d, FALSE, FALSE)[d] = r
  BY <1>5
<1>7. Signalled(m, d, FALSE, FALSE) \in [Drives -> DriveStates]
  BY <1>2, <1>5
<1>8. \A e \in Drives \ {d} : Signalled(m, d, FALSE, FALSE)[e] = m[e]
  BY <1>5
<1> QED BY <1>3, <1>4, <1>6, <1>7, <1>8

\* What mo_connect_signals shows.
LEMMA ConnectedShows ==
  ASSUME NEW m \in [Drives -> DriveStates], NEW d \in Drives
  PROVE  /\ Connected(m, d) \subseteq {"CMD_COMPL", "ATTN"}
         /\ "CMD_COMPL" \in Connected(m, d) <=> m[d].complete
         /\ "ATTN" \in Connected(m, d) <=> m[d].attn
BY DEF Connected, DriveStates

\* The timer handed to the selected drive keeps the invariant, if what the
\* drive became and the status agree.
LEMMA DelayedKeeps ==
  ASSUME IInv, NEW m \in [Drives -> DriveStates], NEW status \in SUBSET {"CMD_COMPL", "ATTN"},
         NEW attn \in BOOLEAN, NEW spiral \in SUBSET {"IO"},
         \A e \in Drives \ {dnum} : m[e] = mo[e],
         "CMD_COMPL" \in status <=> m[dnum].complete,
         m[dnum].attn => "ATTN" \in status,
         m[dnum].spiraling => "IO" \in armed \cup spiral,
         Delayed(m, status, attn, spiral), dnum' = dnum
  PROVE  IInv'
<1> USE DEF TypeOK
<1>1. /\ delayed_drive' = dnum /\ delayed_attn' = attn
      /\ armed' = armed \cup {"MO"} \cup spiral
  BY DEF Delayed
<1>2. CASE delayed_drive \notin {Nobody, dnum}
  <2>1. /\ mo' = Signalled(m, delayed_drive, TRUE, delayed_attn)
        /\ intstatus' = Connected(mo', dnum)
    BY <1>2 DEF Delayed
  <2>2. delayed_drive \in Drives /\ delayed_attn \in BOOLEAN
    BY <1>2 DEF IInv
  <2>3. /\ mo' \in [Drives -> DriveStates]
        /\ \A e \in Drives \ {delayed_drive} : mo'[e] = m[e]
        /\ mo'[delayed_drive].complete /\ ~mo'[delayed_drive].seeking
        /\ mo'[delayed_drive].spiraling => m[delayed_drive].spiraling
    <3> DEFINE s == Signalled(m, delayed_drive, TRUE, delayed_attn)
    <3>1. s \in [Drives -> DriveStates]
      BY <2>2, Completed
    <3>2. \A e \in Drives \ {delayed_drive} : s[e] = m[e]
      BY <2>2, Completed
    <3>3. s[delayed_drive].complete /\ ~s[delayed_drive].seeking
      BY <2>2, Completed
    <3>4. s[delayed_drive].spiraling => m[delayed_drive].spiraling
      BY <2>2, Completed
    <3>5. mo' = s
      BY <2>1
    <3> HIDE DEF s
    <3> QED BY <3>1, <3>2, <3>3, <3>4, <3>5
  <2>4. TypeOK'
    BY <1>1, <2>1, <2>3, ConnectedShows DEF IInv
  <2>5. \A e \in Drives : Waiting(e)' => e = dnum
    BY <1>2, <2>3 DEF IInv, SignalScheduled, Waiting
  <2>6. SignalScheduled'
    BY <1>1, <2>5 DEF IInv, SignalScheduled
  <2>7. SpiralScheduled'
    BY <1>1, <2>2, <2>3 DEF IInv, SpiralScheduled
  <2>8. StatusShowsSelected'
    BY <1>1, <2>1, <2>3, ConnectedShows DEF IInv, StatusShowsSelected, Selected
  <2> QED BY <2>4, <2>6, <2>7, <2>8 DEF IInv
<1>3. CASE delayed_drive \in {Nobody, dnum}
  <2>1. mo' = m /\ intstatus' = status
    BY <1>3 DEF Delayed
  <2>2. TypeOK'
    BY <1>1, <2>1 DEF IInv
  <2>3. \A e \in Drives : Waiting(e)' => e = dnum
    <3> SUFFICES ASSUME NEW e \in Drives \ {dnum} PROVE ~Waiting(e)'
      OBVIOUS
    <3> QED BY <1>3, <2>1 DEF IInv, SignalScheduled, Waiting, Nobody
  <2>4. SignalScheduled'
    BY <1>1, <2>3 DEF IInv, SignalScheduled
  <2>5. SpiralScheduled'
    BY <1>1, <2>1 DEF IInv, SpiralScheduled
  <2>6. StatusShowsSelected'
    BY <1>1, <2>1 DEF IInv, StatusShowsSelected, Selected
  <2> QED BY <2>2, <2>4, <2>5, <2>6 DEF IInv
<1> QED BY <1>2, <1>3

\* The drive the commands start from.
LEMMA BegunDrive ==
  ASSUME IInv
  PROVE  /\ dnum \in Drives /\ Begun \in [Drives -> DriveStates]
         /\ \A e \in Drives \ {dnum} : Begun[e] = mo[e]
         /\ ~Begun[dnum].complete
         /\ Begun[dnum].spiraling => "IO" \in armed
<1>1. mo \in [Drives -> DriveStates] /\ dnum \in Drives
  BY DEF IInv, TypeOK
<1>2. Begun \in [Drives -> DriveStates]
  BY <1>1, Started DEF Begun
<1>3. \A e \in Drives \ {dnum} : Begun[e] = mo[e]
  BY <1>1, Started DEF Begun
<1>4. ~Begun[dnum].complete
  BY <1>1, Started DEF Begun
<1>5. Begun[dnum].spiraling => mo[dnum].spiraling
  BY <1>1, Started DEF Begun
<1> QED BY <1>1, <1>2, <1>3, <1>4, <1>5 DEF IInv, SpiralScheduled

\* A command that leaves the drive's signals off, and its spiral no more than
\* the timer allows, keeps the invariant.
LEMMA PerformedKeeps ==
  ASSUME IInv, NEW r \in DriveStates, NEW attn \in BOOLEAN,
         NEW spiral \in SUBSET {"IO"},
         ~r.complete, r.attn => Begun[dnum].attn,
         r.spiraling => "IO" \in armed \cup spiral,
         Performed([Begun EXCEPT ![dnum] = r], attn, spiral)
  PROVE  IInv'
<1> DEFINE m == [Begun EXCEPT ![dnum] = r]
<1>1. /\ m \in [Drives -> DriveStates] /\ m[dnum] = r
      /\ \A e \in Drives \ {dnum} : m[e] = mo[e]
  BY BegunDrive
<1>2. Delayed(m, Connected(Begun, dnum), attn, spiral) /\ dnum' = dnum
  BY DEF Performed
<1>3. /\ Connected(Begun, dnum) \in SUBSET {"CMD_COMPL", "ATTN"}
      /\ "CMD_COMPL" \in Connected(Begun, dnum) <=> r.complete
      /\ r.attn => "ATTN" \in Connected(Begun, dnum)
  BY BegunDrive, ConnectedShows
<1> HIDE DEF m
<1> QED BY <1>1, <1>2, <1>3, DelayedKeeps

\* A completion signal keeps the invariant, whichever drive it is for: the timer
\* goes on for the others.
LEMMA SignalsKeep ==
  ASSUME IInv, NEW m \in [Drives -> DriveStates], NEW d \in Drives, NEW attn \in BOOLEAN,
         \A e \in Drives \ {d} : m[e] = mo[e],
         m[d].spiraling => mo[d].spiraling,
         mo' = Signalled(m, d, TRUE, attn), intstatus' = Connected(mo', dnum),
         dnum' = dnum, armed' \subseteq armed, "IO" \in armed => "IO" \in armed',
         delayed_drive' \in Drives \cup {Nobody}, delayed_attn' \in BOOLEAN,
         "MO" \in armed' => delayed_drive' \in Drives,
         \A e \in Drives \ {d} : "MO" \in armed /\ delayed_drive = e
                                   => "MO" \in armed' /\ delayed_drive' = e
  PROVE  IInv'
<1> DEFINE s == Signalled(m, d, TRUE, attn)
<1>1. s \in [Drives -> DriveStates]
  BY Completed
<1>2. \A e \in Drives \ {d} : s[e] = m[e]
  BY Completed
<1>3. s[d].complete /\ ~s[d].seeking
  BY Completed
<1>4. s[d].spiraling => mo[d].spiraling
  BY Completed
<1>5. mo' = s
  OBVIOUS
<1> HIDE DEF s
<1>6. TypeOK'
  BY <1>1, <1>5, ConnectedShows DEF IInv, TypeOK
<1>7. SignalScheduled'
  <2>1. ASSUME NEW e \in Drives, Waiting(e)' PROVE "MO" \in armed' /\ delayed_drive' = e
    <3>1. e # d
      BY <1>3, <1>5, <2>1 DEF Waiting
    <3>2. Waiting(e)
      BY <1>2, <1>5, <2>1, <3>1 DEF Waiting
    <3> QED BY <3>1, <3>2 DEF IInv, SignalScheduled
  <2> QED BY <2>1 DEF SignalScheduled
<1>8. SpiralScheduled'
  BY <1>2, <1>4, <1>5 DEF IInv, SpiralScheduled
<1>9. StatusShowsSelected'
  <2>1. dnum \in Drives /\ s[dnum] \in DriveStates
    BY <1>1 DEF IInv, TypeOK
  <2> QED BY <1>1, <1>5, <2>1, ConnectedShows DEF StatusShowsSelected, Selected
<1> QED BY <1>6, <1>7, <1>8, <1>9 DEF IInv

-----------------------------------------------------------------------------
LEMMA CommandKeeps == ASSUME IInv, Command PROVE IInv'
<1> USE BegunDrive
<1> DEFINE b == Begun[dnum]
<1>1. ASSUME Busy PROVE IInv'
  <2>1. /\ mo' = Signalled(mo, dnum, TRUE, TRUE) /\ intstatus' = Connected(mo', dnum)
        /\ UNCHANGED <<dnum, delayed, armed>>
    BY <1>1 DEF Busy, SetSignals
  <2> QED BY <2>1, SignalsKeep DEF IInv, TypeOK, SignalScheduled, delayed
<1>2. ASSUME NEW attn \in BOOLEAN, Performed(Begun, attn, {}) PROVE IInv'
  <2>1. b \in DriveStates /\ Begun = [Begun EXCEPT ![dnum] = b]
    OBVIOUS
  <2> QED BY <1>2, <2>1, PerformedKeeps
<1>3. ASSUME NEW r \in DriveStates, NEW attn \in BOOLEAN,
             Performed([Begun EXCEPT ![dnum] = r], attn, {}),
             ~r.complete, r.attn => b.attn, r.spiraling => b.spiraling
      PROVE  IInv'
  <2>1. r.spiraling => "IO" \in armed \cup {}
    BY <1>3
  <2>2. {} \in SUBSET {"IO"}
    OBVIOUS
  <2> QED BY <1>3, <2>1, <2>2, PerformedKeeps
<1>4. ASSUME Refused \/ Return \/ SelectHead PROVE IInv'
  BY <1>2, <1>4 DEF Refused, Return, SelectHead
<1>5. ASSUME Seek PROVE IInv'
  <2>1. PICK refused \in BOOLEAN :
          Performed([Begun EXCEPT ![dnum] = [b EXCEPT !["seeking"] = TRUE]], refused, {})
    BY <1>5 DEF Seek, Changed
  <2>2. [b EXCEPT !["seeking"] = TRUE] \in DriveStates
    BY DEF DriveStates
  <2> QED BY <1>3, <2>1, <2>2 DEF DriveStates
<1>6. ASSUME StopSpiraling PROVE IInv'
  <2>1. Performed([Begun EXCEPT ![dnum] = [b EXCEPT !["spiraling"] = FALSE]], FALSE, {})
    BY <1>6 DEF StopSpiraling, Changed
  <2>2. [b EXCEPT !["spiraling"] = FALSE] \in DriveStates
    BY DEF DriveStates
  <2> QED BY <1>3, <2>1, <2>2 DEF DriveStates
<1>7. ASSUME StartSpiraling PROVE IInv'
  <2> DEFINE r == [b EXCEPT !["spiraling"] = TRUE]
             spiral == IF \E d \in Drives : Begun[d].spiraling THEN {} ELSE {"IO"}
  <2>1. Performed([Begun EXCEPT ![dnum] = r], FALSE, spiral)
    BY <1>7 DEF StartSpiraling, Changed
  <2>2. r \in DriveStates /\ ~r.complete /\ (r.attn => b.attn)
    BY DEF DriveStates
  <2>3. spiral \in SUBSET {"IO"} /\ "IO" \in armed \cup spiral
    BY DEF IInv, SpiralScheduled
  <2> HIDE DEF r, spiral
  <2> QED BY <2>1, <2>2, <2>3, PerformedKeeps
<1>8. ASSUME ResetAttn PROVE IInv'
  <2>1. Performed([Begun EXCEPT ![dnum] = [b EXCEPT !["attn"] = FALSE]], FALSE, {})
    BY <1>8 DEF ResetAttn, Changed
  <2>2. [b EXCEPT !["attn"] = FALSE] \in DriveStates
    BY DEF DriveStates
  <2> QED BY <1>3, <2>1, <2>2 DEF DriveStates
<1>9. ASSUME StartSpinning PROVE IInv'
  <2>1. Performed([Begun EXCEPT ![dnum] = [b EXCEPT !["spinning"] = TRUE]], FALSE, {})
    BY <1>9 DEF StartSpinning, Changed
  <2>2. [b EXCEPT !["spinning"] = TRUE] \in DriveStates
    BY DEF DriveStates
  <2> QED BY <1>3, <2>1, <2>2 DEF DriveStates
<1>10. ASSUME StopSpinning PROVE IInv'
  <2> DEFINE r == [b EXCEPT !.spinning = FALSE, !.spiraling = FALSE]
  <2>1. Performed([Begun EXCEPT ![dnum] = r], FALSE, {})
    BY <1>10 DEF StopSpinning, Stilled
  <2>2. r \in DriveStates /\ ~r.complete /\ (r.attn => b.attn) /\ ~r.spiraling
    BY DEF DriveStates
  <2> HIDE DEF r
  <2> QED BY <1>3, <2>1, <2>2
<1>11. ASSUME Eject PROVE IInv'
  <2> DEFINE r == [b EXCEPT !.inserted = FALSE, !.spinning = FALSE, !.spiraling = FALSE]
  <2>1. Performed([Begun EXCEPT ![dnum] = r], FALSE, {})
    BY <1>11 DEF Eject, Ejected
  <2>2. r \in DriveStates /\ ~r.complete /\ (r.attn => b.attn) /\ ~r.spiraling
    BY DEF DriveStates
  <2> HIDE DEF r
  <2> QED BY <1>3, <2>1, <2>2
<1> QED BY <1>1, <1>4, <1>5, <1>6, <1>7, <1>8, <1>9, <1>10, <1>11 DEF Command

\* A drive that is changed without a signal keeps the invariant, if it waits for
\* no more than before and the status follows the selection.
LEMMA QuietKeeps ==
  ASSUME IInv, NEW r \in DriveStates, NEW d \in Drives,
         mo' = [mo EXCEPT ![d] = r],
         (r.enabled /\ ~r.complete) \/ r.seeking => Waiting(d),
         r.spiraling => mo[d].spiraling,
         dnum' \in Drives, intstatus' = Connected(mo', dnum'), UNCHANGED <<delayed, armed>>
  PROVE  IInv'
<1>1. /\ mo' \in [Drives -> DriveStates] /\ mo'[d] = r
      /\ \A e \in Drives \ {d} : mo'[e] = mo[e]
  BY DEF IInv, TypeOK
<1>2. TypeOK'
  BY <1>1, ConnectedShows DEF IInv, TypeOK, delayed
<1>3. SignalScheduled'
  <2>1. \A e \in Drives : Waiting(e)' => Waiting(e)
    BY <1>1 DEF Waiting
  <2> QED BY <2>1 DEF IInv, SignalScheduled, delayed
<1>4. SpiralScheduled'
  BY <1>1 DEF IInv, SpiralScheduled
<1>5. StatusShowsSelected'
  BY <1>1, ConnectedShows DEF StatusShowsSelected, Selected
<1> QED BY <1>2, <1>3, <1>4, <1>5 DEF IInv

\* A drive after a reset waits for nothing.
LEMMA FreshFacts ==
  ASSUME NEW connected \in BOOLEAN, NEW inserted \in BOOLEAN
  PROVE  /\ Fresh(connected, inserted) \in DriveStates
         /\ ~Fresh(connected, inserted).spiraling /\ ~Fresh(connected, inserted).seeking
         /\ Fresh(connected, inserted).enabled => Fresh(connected, inserted).complete
<1>1. Fresh(connected, inserted) \in DriveStates
  BY DEF Fresh, DriveStates
<1> QED BY <1>1 DEF Fresh

LEMMA ConfiguredFacts ==
  ASSUME NEW m \in Configurations
  PROVE  /\ m \in [Drives -> DriveStates]
         /\ \A d \in Drives : /\ ~m[d].spiraling /\ ~m[d].seeking
                              /\ m[d].enabled => m[d].complete
<1>1. PICK on \in [Drives -> BOOLEAN], disk \in [Drives -> BOOLEAN] :
        m = [d \in Drives |-> Fresh(on[d], on[d] /\ disk[d])]
  BY DEF Configurations
<1>2. \A d \in Drives : \E connected, inserted \in BOOLEAN : m[d] = Fresh(connected, inserted)
  BY <1>1
<1>3. \A d \in Drives : /\ m[d] \in DriveStates /\ ~m[d].spiraling /\ ~m[d].seeking
                        /\ m[d].enabled => m[d].complete
  BY <1>2, FreshFacts
<1> QED BY <1>1, <1>3

LEMMA InitEstablishes == Init => IInv
<1> SUFFICES ASSUME Init PROVE IInv
  OBVIOUS
<1>1. \A d \in Drives : ~mo[d].spiraling /\ ~mo[d].seeking /\ (mo[d].enabled => mo[d].complete)
  BY ConfiguredFacts DEF Init
<1>2. mo \in [Drives -> DriveStates]
  BY ConfiguredFacts DEF Init
<1>3. TypeOK
  BY <1>2, ConnectedShows DEF Init, TypeOK
<1>4. SignalScheduled /\ SpiralScheduled
  BY <1>1 DEF Init, SignalScheduled, SpiralScheduled, Waiting
<1>5. StatusShowsSelected
  BY <1>2, ConnectedShows DEF Init, StatusShowsSelected, Selected
<1> QED BY <1>3, <1>4, <1>5 DEF IInv

LEMMA NextKeeps == IInv /\ [Next]_vars => IInv'
<1> SUFFICES ASSUME IInv, [Next]_vars PROVE IInv'
  OBVIOUS
<1>1. CASE MO_InterruptHandler
  <2>1. delayed_drive \in Drives /\ delayed_attn \in BOOLEAN
    BY <1>1 DEF MO_InterruptHandler, IInv, TypeOK, SignalScheduled
  <2>2. /\ mo' = Signalled(mo, delayed_drive, TRUE, delayed_attn)
        /\ intstatus' = Connected(mo', dnum) /\ dnum' = dnum
        /\ armed' = armed \ {"MO"} /\ delayed_drive' = Nobody /\ delayed_attn' = FALSE
    BY <1>1 DEF MO_InterruptHandler, SetSignals
  <2> QED BY <2>1, <2>2, SignalsKeep DEF IInv, TypeOK
<1>2. CASE MO_IO_Handler
  <2>1. /\ UNCHANGED <<mo, dnum, delayed, intstatus>>
        /\ armed' = IF \E d \in Drives : mo[d].spiraling THEN armed ELSE armed \ {"IO"}
    BY <1>2 DEF MO_IO_Handler
  <2> QED BY <2>1 DEF IInv, TypeOK, SignalScheduled, SpiralScheduled,
                      StatusShowsSelected, Selected, Waiting, delayed
<1>3. CASE Command
  BY <1>3, CommandKeeps
<1>4. CASE Stop
  <2> DEFINE r == [mo[dnum] EXCEPT !.enabled = FALSE, !.complete = FALSE, !.attn = FALSE,
                     !.spinning = FALSE, !.spiraling = FALSE, !.seeking = FALSE]
  <2>1. mo[dnum] \in DriveStates /\ dnum \in Drives
    BY DEF IInv, TypeOK
  <2>2. r \in DriveStates /\ ~r.enabled /\ ~r.seeking /\ ~r.spiraling
    BY <2>1 DEF DriveStates
  <2>3. /\ mo' = [mo EXCEPT ![dnum] = r] /\ intstatus' = Connected(mo', dnum')
        /\ UNCHANGED <<dnum, delayed, armed>>
    BY <1>4 DEF Stop
  <2> HIDE DEF r
  <2> QED BY <2>1, <2>2, <2>3, QuietKeeps
<1>5. CASE Start
  <2> DEFINE r == [mo[dnum] EXCEPT !.enabled = TRUE]
             m == [mo EXCEPT ![dnum] = r]
  <2>1. mo[dnum] \in DriveStates /\ dnum \in Drives /\ mo \in [Drives -> DriveStates]
    BY DEF IInv, TypeOK
  <2>2. /\ r \in DriveStates /\ r.complete = mo[dnum].complete /\ r.attn = mo[dnum].attn
        /\ r.spiraling = mo[dnum].spiraling
    BY <2>1 DEF DriveStates
  <2>3. Delayed(m, intstatus, FALSE, {}) /\ dnum' = dnum
    BY <1>5 DEF Start
  <2> HIDE DEF r
  <2>4. /\ m \in [Drives -> DriveStates] /\ m[dnum] = r
        /\ \A e \in Drives \ {dnum} : m[e] = mo[e]
    BY <2>1, <2>2
  <2>5. /\ "CMD_COMPL" \in intstatus <=> m[dnum].complete
        /\ m[dnum].attn => "ATTN" \in intstatus
        /\ m[dnum].spiraling => "IO" \in armed \cup {}
        /\ intstatus \in SUBSET {"CMD_COMPL", "ATTN"} /\ {} \in SUBSET {"IO"}
    BY <2>1, <2>2, <2>4 DEF IInv, TypeOK, StatusShowsSelected, Selected, SpiralScheduled
  <2> HIDE DEF m
  <2> QED BY <2>3, <2>4, <2>5, DelayedKeeps
<1>6. ASSUME NEW d \in Drives, Select(d) PROVE IInv'
  <2> DEFINE r == IF d = dnum THEN mo[d] ELSE [mo[d] EXCEPT !.attn = FALSE]
  <2>1. mo[d] \in DriveStates /\ mo \in [Drives -> DriveStates]
    BY DEF IInv, TypeOK
  <2>2. /\ r \in DriveStates /\ r.enabled = mo[d].enabled /\ r.complete = mo[d].complete
        /\ r.seeking = mo[d].seeking /\ r.spiraling = mo[d].spiraling
    BY <2>1 DEF DriveStates
  <2>3. mo' = [mo EXCEPT ![d] = r]
    BY <1>6, <2>1 DEF Select, Released
  <2>4. dnum' = d /\ intstatus' = Connected(mo', dnum') /\ UNCHANGED <<delayed, armed>>
    BY <1>6 DEF Select
  <2> HIDE DEF r
  <2> QED BY <2>2, <2>3, <2>4, QuietKeeps DEF Waiting
<1>7. ASSUME NEW d \in Drives, UserInserts(d) PROVE IInv'
  <2> DEFINE r == [mo[d] EXCEPT !.inserted = TRUE, !.spinning = FALSE, !.spiraling = FALSE]
             m == [mo EXCEPT ![d] = r]
  <2>1. mo[d] \in DriveStates /\ mo \in [Drives -> DriveStates]
    BY DEF IInv, TypeOK
  <2>2. r \in DriveStates /\ ~r.spiraling
    BY <2>1 DEF DriveStates
  <2>3. /\ mo' = Signalled(m, d, TRUE, FALSE) /\ intstatus' = Connected(mo', dnum)
        /\ UNCHANGED <<dnum, delayed, armed>>
    BY <1>7 DEF UserInserts
  <2> HIDE DEF r
  <2>4. /\ m \in [Drives -> DriveStates] /\ m[d] = r
        /\ \A e \in Drives \ {d} : m[e] = mo[e]
    BY <2>1, <2>2
  <2> HIDE DEF m
  <2> QED BY <2>2, <2>3, <2>4, SignalsKeep DEF IInv, TypeOK, SignalScheduled, delayed
<1>8. ASSUME NEW d \in Drives, UserEjects(d) PROVE IInv'
  <2> DEFINE r == [mo[d] EXCEPT !.inserted = FALSE, !.spinning = FALSE, !.spiraling = FALSE]
  <2>1. mo[d] \in DriveStates /\ mo \in [Drives -> DriveStates]
    BY DEF IInv, TypeOK
  <2>2. /\ r \in DriveStates /\ r.enabled = mo[d].enabled /\ r.complete = mo[d].complete
        /\ r.seeking = mo[d].seeking /\ r.attn = mo[d].attn
    BY <2>1 DEF DriveStates
  <2>3. ~r.spiraling
    BY <2>1 DEF DriveStates
  <2>4. mo' = [mo EXCEPT ![d] = r] /\ UNCHANGED <<dnum, delayed, armed, intstatus>>
    BY <1>8 DEF UserEjects, Ejected
  <2> HIDE DEF r
  <2>5. /\ mo' \in [Drives -> DriveStates] /\ mo'[d] = r
        /\ \A e \in Drives \ {d} : mo'[e] = mo[e]
    BY <2>1, <2>2, <2>4
  <2>6. \A e \in Drives : Waiting(e)' <=> Waiting(e)
    BY <2>2, <2>5 DEF Waiting
  <2>7. Selected'.complete = Selected.complete /\ Selected'.attn = Selected.attn
    BY <2>2, <2>4, <2>5 DEF Selected, IInv, TypeOK
  <2>8. TypeOK' /\ SignalScheduled'
    BY <2>4, <2>5, <2>6 DEF IInv, TypeOK, SignalScheduled, delayed
  <2>9. SpiralScheduled'
    BY <2>3, <2>4, <2>5 DEF IInv, SpiralScheduled
  <2>10. StatusShowsSelected'
    BY <2>4, <2>7 DEF IInv, StatusShowsSelected, delayed
  <2> QED BY <2>8, <2>9, <2>10 DEF IInv
<1>9. CASE MachineReset
  <2>1. mo' \in Configurations
    BY <1>9 DEF MachineReset
  <2>2. \A d \in Drives : /\ ~mo'[d].spiraling /\ ~mo'[d].seeking
                          /\ mo'[d].enabled => mo'[d].complete
    BY <2>1, ConfiguredFacts
  <2>3. mo' \in [Drives -> DriveStates]
    BY <2>1, ConfiguredFacts
  <2>4. dnum' = 0 /\ armed' = {} /\ intstatus' = Connected(mo', dnum') /\ UNCHANGED delayed
    BY <1>9 DEF MachineReset
  <2>5. TypeOK'
    BY <2>3, <2>4, ConnectedShows DEF IInv, TypeOK, delayed
  <2>6. SignalScheduled' /\ SpiralScheduled'
    BY <2>2, <2>4 DEF SignalScheduled, SpiralScheduled, Waiting
  <2>7. StatusShowsSelected'
    BY <2>3, <2>4, ConnectedShows DEF StatusShowsSelected, Selected
  <2> QED BY <2>5, <2>6, <2>7 DEF IInv
<1>10. CASE UNCHANGED vars
  BY <1>10 DEF vars, delayed, IInv, TypeOK, SignalScheduled, SpiralScheduled,
               StatusShowsSelected, Selected, Waiting
<1> QED BY <1>1, <1>2, <1>3, <1>4, <1>5, <1>6, <1>7, <1>8, <1>9, <1>10 DEF Next

-----------------------------------------------------------------------------
\* The model keeps its types.
THEOREM TypeCorrect == Spec => []TypeOK
BY InitEstablishes, NextKeeps, PTL DEF Spec, IInv

\* The timer the drives share holds the signal of every drive that waits, and
\* never fires for nobody (mo_set_signals_delayed, MO_InterruptHandler).
THEOREM TimerHoldsSignal == Spec => []SignalScheduled
BY InitEstablishes, NextKeeps, PTL DEF Spec, IInv

\* A drive that spirals is moved on (mo_start_spiraling, MO_IO_Handler).
THEOREM SpiralGoesOn == Spec => []SpiralScheduled
BY InitEstablishes, NextKeeps, PTL DEF Spec, IInv

\* The controller shows the signals of the selected drive (mo_connect_signals).
THEOREM StatusIsSelected == Spec => []StatusShowsSelected
BY InitEstablishes, NextKeeps, PTL DEF Spec, IInv
=============================================================================
