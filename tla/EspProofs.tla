----------------------------- MODULE EspProofs -----------------------------
(***************************************************************************)
(* Proofs about the SCSI controller, for every set of transfer counts and  *)
(* every length of a data phase.                                           *)
(*                                                                         *)
(* The functions of esp.c are operators on a record of the whole state.    *)
(* Good is what each of them keeps; Outcome is what a command that starts  *)
(* comes to: its end, or an event on its way.                              *)
(***************************************************************************)
EXTENDS Esp, TLAPS

Buses == [phase : Phases, left : 0..MaxData]
Systems == [esp : Chip, bus : Buses, armed : SUBSET {"ESP", "ESP_IO"},
            line : BOOLEAN, ends : BOOLEAN]

\* A data phase has a byte left.
DataLeft(s) == s.bus.phase \in {"DI", "DO"} => s.bus.left > 0
Follows(s) == s.line <=> "INT" \in s.esp.status /\ s.esp.enable_int
Counted(s) == "TC" \in s.esp.status => s.esp.counter = 0

Good(s) == s \in Systems /\ DataLeft(s) /\ Follows(s) /\ Counted(s)

\* An event that ends the command, or that goes on with its transfer.
Pending(s) == "ESP" \in s.armed \/ ("ESP_IO" \in s.armed /\ s.esp.io_state = "TRANSFERING")

Settled(s) ==
  /\ "INPROGRESS" \in s.esp.state => "INT" \in s.esp.status \/ Pending(s)
  /\ "WAITING" \in s.esp.state => "INPROGRESS" \in s.esp.state
  /\ s.esp.bottom = "RESET" => s.esp.state = {}

\* Whether a chip reset is in the command register.
SameReset(s, t) == t.esp.bottom = "RESET" <=> s.esp.bottom = "RESET"

\* A command that was started.
Outcome(s, t) == /\ Good(t) /\ SameReset(s, t)
                 /\ t.esp.state \subseteq s.esp.state /\ "INPROGRESS" \in t.esp.state
                 /\ t.ends \/ Pending(t)

-----------------------------------------------------------------------------
(***************************************************************************)
(* What changes a part of the system.                                      *)
(***************************************************************************)

LEMMA SystemParts ==
  ASSUME NEW s \in Systems
  PROVE  /\ s.esp \in Chip /\ s.bus \in Buses /\ s.armed \in SUBSET {"ESP", "ESP_IO"}
         /\ s.line \in BOOLEAN /\ s.ends \in BOOLEAN
         /\ s.bus.phase \in Phases /\ s.bus.left \in Nat /\ s.bus.left <= MaxData
         /\ s.esp.counter \in Nat
BY DataAssumption DEF Systems, Buses, Chip

\* A change of the chip that the line and the counter do not see.
LEMMA ChipGood ==
  ASSUME NEW s, Good(s), NEW e \in Chip,
         "INT" \in e.status <=> "INT" \in s.esp.status, e.enable_int = s.esp.enable_int,
         "TC" \in e.status => e.counter = 0,
         NEW t, t = [s EXCEPT !.esp = e]
  PROVE  Good(t) /\ t.esp = e /\ t.bus = s.bus /\ t.armed = s.armed /\ t.ends = s.ends
         /\ t.line = s.line
<1>1. s \in Systems BY DEF Good
<1>2. /\ t \in Systems /\ t.esp = e /\ t.bus = s.bus /\ t.armed = s.armed /\ t.line = s.line
      /\ t.ends = s.ends
  BY <1>1 DEF Systems
<1> QED BY <1>2 DEF Good, DataLeft, Follows, Counted

LEMMA EndsGood ==
  ASSUME NEW s, Good(s), NEW t, t = Ends(s)
  PROVE  Good(t) /\ t.esp = s.esp /\ t.ends
<1>1. s \in Systems BY DEF Good
<1>2. /\ t \in Systems /\ t.esp = s.esp /\ t.bus = s.bus /\ t.armed = s.armed /\ t.line = s.line
      /\ t.ends
  BY <1>1 DEF Systems, Ends
<1> QED BY <1>2 DEF Good, DataLeft, Follows, Counted

LEMMA ArmGood ==
  ASSUME NEW s, Good(s), NEW event \in {"ESP", "ESP_IO"}, NEW t, t = Arm(s, event)
  PROVE  Good(t) /\ t.esp = s.esp /\ t.bus = s.bus /\ t.armed = s.armed \cup {event}
<1>1. s \in Systems BY DEF Good
<1>2. s.armed \cup {event} \in SUBSET {"ESP", "ESP_IO"} BY <1>1, SystemParts
<1>3. /\ t \in Systems /\ t.esp = s.esp /\ t.bus = s.bus /\ t.armed = s.armed \cup {event}
      /\ t.line = s.line /\ t.ends = s.ends
  BY <1>1, <1>2 DEF Systems, Arm
<1> QED BY <1>3 DEF Good, DataLeft, Follows, Counted

LEMMA BusGood ==
  ASSUME NEW s, Good(s), NEW b \in Buses, b.phase \in {"DI", "DO"} => b.left > 0,
         NEW t, t = [s EXCEPT !.bus = b]
  PROVE  Good(t) /\ t.esp = s.esp /\ t.bus = b /\ t.armed = s.armed
<1>1. s \in Systems BY DEF Good
<1>2. /\ t \in Systems /\ t.esp = s.esp /\ t.bus = b /\ t.armed = s.armed
      /\ t.line = s.line /\ t.ends = s.ends
  BY <1>1 DEF Systems
<1> QED BY <1>2 DEF Good, DataLeft, Follows, Counted

LEMMA InterruptGood ==
  ASSUME NEW s, Good(s), NEW cause \in SUBSET {"FC", "BS", "DC", "ILL", "RST"},
         NEW t, t = Interrupt(s, cause)
  PROVE  /\ Good(t) /\ "ESP" \in t.armed /\ t.esp.state = s.esp.state /\ t.bus = s.bus
         /\ SameReset(s, t)
<1> DEFINE e == [s.esp EXCEPT !.intstatus = cause]
           u == [s EXCEPT !.esp = e]
<1>1. s \in Systems BY DEF Good
<1>2. s.esp \in Chip BY <1>1, SystemParts
<1>3. /\ e \in Chip /\ e.status = s.esp.status /\ e.enable_int = s.esp.enable_int
      /\ e.counter = s.esp.counter /\ e.state = s.esp.state /\ e.bottom = s.esp.bottom
  BY <1>2 DEF Chip
<1>4. t = Arm(u, "ESP") BY <1>1 DEF Interrupt, Systems
<1>5. Counted(s) BY DEF Good
<1> HIDE DEF e
<1>6. Good(u) /\ u.esp = e /\ u.bus = s.bus BY <1>3, <1>5, ChipGood DEF Counted
<1> HIDE DEF u
<1>7. Good(t) /\ t.esp = u.esp /\ t.bus = u.bus /\ "ESP" \in t.armed BY <1>4, <1>6, ArmGood
<1> QED BY <1>3, <1>6, <1>7 DEF SameReset

LEMMA CommandClearGood ==
  ASSUME NEW s, Good(s), NEW t, t = CommandClear(s)
  PROVE  /\ Good(t) /\ SameReset(s, t) /\ t.bus = s.bus /\ t.esp.status = s.esp.status
         /\ t.esp.state \subseteq s.esp.state
         /\ "INPROGRESS" \in s.esp.state => "INPROGRESS" \in t.esp.state
<1> DEFINE e == [s.esp EXCEPT !.top = "NOP", !.dmas = @ \ {"top"}]
           f == [s.esp EXCEPT !.top = "NOP", !.bottom = "NOP", !.dmas = {},
                              !.state = @ \ {"WAITING"}]
<1>1. s \in Systems BY DEF Good
<1>2. s.esp \in Chip /\ Counted(s) BY <1>1, SystemParts DEF Good
<1>3. CASE s.esp.bottom = "RESET"
  <2>1. /\ e \in Chip /\ e.status = s.esp.status /\ e.enable_int = s.esp.enable_int
        /\ e.counter = s.esp.counter /\ e.state = s.esp.state /\ e.bottom = s.esp.bottom
    BY <1>2 DEF Chip, Commands
  <2>2. t = [s EXCEPT !.esp = e] BY <1>1, <1>3 DEF CommandClear, Systems
  <2> HIDE DEF e
  <2> QED BY <1>2, <2>1, <2>2, ChipGood DEF Counted, SameReset
<1>4. CASE s.esp.bottom # "RESET"
  <2>1. /\ f \in Chip /\ f.status = s.esp.status /\ f.enable_int = s.esp.enable_int
        /\ f.counter = s.esp.counter /\ f.state = s.esp.state \ {"WAITING"}
        /\ f.bottom = "NOP"
    BY <1>2 DEF Chip, Commands
  <2>2. t = [s EXCEPT !.esp = f] BY <1>1, <1>4 DEF CommandClear, Systems
  <2> HIDE DEF f
  <2> QED BY <1>2, <1>4, <2>1, <2>2, ChipGood DEF Counted, SameReset
<1> QED BY <1>3, <1>4

LEMMA ResetSoftGood ==
  ASSUME NEW s, Good(s), NEW t, t = ResetSoft(s)
  PROVE  /\ Good(t) /\ SameReset(s, t) /\ t.bus = s.bus /\ t.esp.state \subseteq s.esp.state
         /\ "INPROGRESS" \in s.esp.state => "INPROGRESS" \in t.esp.state
<1> DEFINE u == CommandClear(s)
           e == [u.esp EXCEPT !.status = @ \ {"TC"}, !.mode_dma = FALSE,
                              !.counter = 0, !.esp_state = "DISCONNECTED"]
<1>1. /\ Good(u) /\ SameReset(s, u) /\ u.bus = s.bus /\ u.esp.state \subseteq s.esp.state
      /\ "INPROGRESS" \in s.esp.state => "INPROGRESS" \in u.esp.state
  BY CommandClearGood
<1>2. t = ResetSoft(s) /\ ResetSoft(s) = [u EXCEPT !.esp.status = @ \ {"TC"}, !.esp.mode_dma = FALSE,
                   !.esp.counter = 0, !.esp.esp_state = "DISCONNECTED"]
  BY DEF ResetSoft
<1> HIDE DEF u
<1>3. u \in Systems BY <1>1 DEF Good
<1>4. u.esp \in Chip BY <1>3, SystemParts
<1>5. /\ e \in Chip /\ e.status = u.esp.status \ {"TC"} /\ e.enable_int = u.esp.enable_int
      /\ e.state = u.esp.state /\ e.bottom = u.esp.bottom
  BY <1>4 DEF Chip
<1>6. t = [u EXCEPT !.esp = e] BY <1>2, <1>3 DEF Systems
<1> HIDE DEF e
<1>7. Good(t) /\ t.esp = e /\ t.bus = u.bus BY <1>1, <1>5, <1>6, ChipGood
<1> QED BY <1>1, <1>5, <1>7 DEF SameReset

LEMMA ResetHardGood ==
  ASSUME NEW s, Good(s), NEW t, t = ResetHard(s)
  PROVE  /\ Good(t) /\ SameReset(s, t) /\ t.bus = s.bus /\ t.esp.state \subseteq s.esp.state
         /\ "INPROGRESS" \in s.esp.state => "INPROGRESS" \in t.esp.state
<1> DEFINE e == [s.esp EXCEPT !.status = @ \ {"INT", "GE"}, !.intstatus = {}, !.resrept = FALSE]
           u == [s EXCEPT !.esp = e, !.line = FALSE]
<1>1. s \in Systems /\ Counted(s) BY DEF Good
<1>2. s.esp \in Chip BY <1>1, SystemParts
<1>3. /\ e \in Chip /\ e.status = s.esp.status \ {"INT", "GE"} /\ e.state = s.esp.state
      /\ e.counter = s.esp.counter /\ e.bottom = s.esp.bottom
  BY <1>2 DEF Chip
<1>4. t = ResetSoft(u) BY <1>1 DEF ResetHard, Systems
<1> HIDE DEF e
<1>5. /\ FALSE <=> "INT" \in e.status /\ e.enable_int
      /\ "TC" \in e.status => e.counter = 0
  BY <1>1, <1>3 DEF Counted
<1>6. u \in Systems /\ u.esp = e /\ u.bus = s.bus /\ u.line = FALSE
  BY <1>1, <1>3 DEF Systems
<1>7. Good(u) BY <1>5, <1>6 DEF Good, DataLeft, Follows, Counted
<1>8. SameReset(s, u) BY <1>3, <1>6 DEF SameReset
<1> HIDE DEF u
<1>9. /\ Good(t) /\ SameReset(u, t) /\ t.bus = u.bus /\ t.esp.state \subseteq u.esp.state
      /\ "INPROGRESS" \in u.esp.state => "INPROGRESS" \in t.esp.state
  BY <1>4, <1>7, ResetSoftGood
<1> QED BY <1>3, <1>6, <1>8, <1>9 DEF SameReset

-----------------------------------------------------------------------------
(***************************************************************************)
(* Data: it moves in a data phase, or none of it does.                     *)
(***************************************************************************)

LEMMA MovableBounds ==
  ASSUME NEW s \in Systems
  PROVE  Movable(s) \in Nat /\ Movable(s) <= s.esp.counter /\ Movable(s) <= s.bus.left
BY SystemParts DEF Movable

LEMMA MovedGood ==
  ASSUME NEW s, Good(s), NEW k \in 0..Movable(s), NEW t, t = Moved(s, k)
  PROVE  /\ Good(t) /\ t.armed = s.armed /\ t.esp.state = s.esp.state
         /\ t.esp.status = s.esp.status /\ t.esp.io_state = s.esp.io_state
         /\ SameReset(s, t)
<1> DEFINE e == [s.esp EXCEPT !.counter = @ - k]
           b == [s.bus EXCEPT !.left = @ - k,
                              !.phase = IF k > 0 /\ s.bus.left = k THEN "ST" ELSE @]
           u == [s EXCEPT !.esp = e]
<1>1. s \in Systems /\ DataLeft(s) /\ Counted(s) BY DEF Good
<1>2. /\ s.esp \in Chip /\ s.bus \in Buses /\ s.bus.phase \in Phases /\ s.bus.left \in Nat
      /\ s.bus.left <= MaxData /\ s.esp.counter \in Nat
  BY <1>1, SystemParts
<1>3. k \in Nat /\ k <= s.esp.counter /\ k <= s.bus.left BY <1>1, <1>2, MovableBounds
<1>4. s.esp.counter - k \in Nat BY <1>2, <1>3
<1>5. /\ e \in Chip /\ e.counter = s.esp.counter - k /\ e.status = s.esp.status
      /\ e.state = s.esp.state /\ e.enable_int = s.esp.enable_int
      /\ e.io_state = s.esp.io_state /\ e.bottom = s.esp.bottom
  BY <1>2, <1>4 DEF Chip
<1>6. s.bus.left - k \in 0..MaxData BY <1>2, <1>3, DataAssumption
<1>7. /\ b \in Buses /\ b.left = s.bus.left - k
      /\ b.phase = IF k > 0 /\ s.bus.left = k THEN "ST" ELSE s.bus.phase
  BY <1>2, <1>6 DEF Buses, Phases
<1>8. b.phase \in {"DI", "DO"} => b.left > 0 BY <1>1, <1>2, <1>3, <1>7 DEF DataLeft
<1>9. "TC" \in e.status => e.counter = 0 BY <1>1, <1>2, <1>3, <1>5 DEF Counted
<1>10. t = [u EXCEPT !.bus = b] BY <1>1, <1>2 DEF Moved, Systems, Chip, Buses
<1> HIDE DEF e, b
<1>11. Good(u) /\ u.esp = e /\ u.armed = s.armed BY <1>5, <1>9, ChipGood
<1> HIDE DEF u
<1>12. Good(t) /\ t.esp = u.esp /\ t.armed = u.armed BY <1>7, <1>8, <1>10, <1>11, BusGood
<1> QED BY <1>5, <1>11, <1>12 DEF SameReset

LEMMA TransferDoneGood ==
  ASSUME NEW s, Good(s), NEW phase, NEW t, t = TransferDone(s, phase)
  PROVE  /\ Good(t) /\ SameReset(s, t) /\ t.esp.state \subseteq s.esp.state
         /\ "INPROGRESS" \in s.esp.state => "INPROGRESS" \in t.esp.state
         /\ IsDone(s, phase) => "ESP" \in t.armed
         /\ ~IsDone(s, phase) => t = s
<1>1. s \in Systems BY DEF Good
<1>2. s.esp \in Chip BY <1>1, SystemParts
<1>3. CASE s.esp.counter = 0
  <2> DEFINE e == [s.esp EXCEPT !.status = @ \cup {"TC"}]
             u == [s EXCEPT !.esp = e]
  <2>1. /\ e \in Chip /\ e.status = s.esp.status \cup {"TC"} /\ e.counter = s.esp.counter
        /\ e.state = s.esp.state /\ e.enable_int = s.esp.enable_int
        /\ e.bottom = s.esp.bottom
    BY <1>2 DEF Chip
  <2>2. t = Interrupt(u, {"FC"}) BY <1>1, <1>3 DEF TransferDone, Systems
  <2> HIDE DEF e
  <2>3. Good(u) /\ u.esp = e BY <1>3, <2>1, ChipGood
  <2> HIDE DEF u
  <2>4. Good(t) /\ SameReset(u, t) /\ "ESP" \in t.armed /\ t.esp.state = u.esp.state
    BY <2>2, <2>3, InterruptGood
  <2> QED BY <1>3, <2>1, <2>3, <2>4 DEF IsDone, SameReset
<1>4. CASE s.esp.counter # 0 /\ s.bus.phase # phase
  <2> DEFINE u == CommandClear(s)
  <2>1. /\ Good(u) /\ SameReset(s, u) /\ u.esp.state \subseteq s.esp.state
        /\ "INPROGRESS" \in s.esp.state => "INPROGRESS" \in u.esp.state
    BY CommandClearGood
  <2>2. t = Interrupt(u, {"BS"}) BY <1>4 DEF TransferDone
  <2> HIDE DEF u
  <2>3. Good(t) /\ SameReset(u, t) /\ "ESP" \in t.armed /\ t.esp.state = u.esp.state
    BY <2>1, <2>2, InterruptGood
  <2> QED BY <1>4, <2>1, <2>3 DEF IsDone, SameReset
<1>5. CASE s.esp.counter # 0 /\ s.bus.phase = phase
  BY <1>5 DEF TransferDone, IsDone, SameReset
<1> QED BY <1>3, <1>4, <1>5

-----------------------------------------------------------------------------
(***************************************************************************)
(* The commands: each comes to an outcome.                                 *)
(***************************************************************************)

\* What an interrupt makes of a command in progress.
LEMMA InterruptOutcome ==
  ASSUME NEW s, NEW u, Good(u), SameReset(s, u),
         u.esp.state \subseteq s.esp.state, "INPROGRESS" \in u.esp.state,
         NEW cause \in SUBSET {"FC", "BS", "DC", "ILL", "RST"}, NEW t, t = Interrupt(u, cause)
  PROVE  Outcome(s, t)
BY InterruptGood DEF Outcome, Pending, SameReset

LEMMA EndsOutcome ==
  ASSUME NEW s, NEW u, Good(u), SameReset(s, u),
         u.esp.state \subseteq s.esp.state, "INPROGRESS" \in u.esp.state,
         NEW t, t = Ends(u)
  PROVE  Outcome(s, t)
BY EndsGood DEF Outcome, SameReset

\* The chip's own view of the bus, with the phase of the disk.
LEMMA AtPhaseGood ==
  ASSUME NEW s, Good(s), NEW p \in {"ST", "MI"}, NEW t, t = [s EXCEPT !.bus.phase = p]
  PROVE  Good(t) /\ t.esp = s.esp /\ t.armed = s.armed
<1> DEFINE b == [s.bus EXCEPT !.phase = p]
<1>1. s \in Systems BY DEF Good
<1>2. s.bus \in Buses BY <1>1, SystemParts
<1>3. b \in Buses /\ b.phase = p BY <1>2 DEF Buses, Phases
<1>4. t = [s EXCEPT !.bus = b] BY <1>1 DEF Systems
<1> HIDE DEF b
<1> QED BY <1>3, <1>4, BusGood

\* ... and with the state that the chip is in.
InState(s, d) == [s EXCEPT !.esp.esp_state = d]

LEMMA AtStateGood ==
  ASSUME NEW s, Good(s), NEW d \in {"DISCONNECTED", "INITIATOR"},
         NEW t, t = InState(s, d)
  PROVE  /\ Good(t) /\ SameReset(s, t)
         /\ t.esp.state = s.esp.state /\ t.bus = s.bus /\ t.armed = s.armed
<1> DEFINE e == [s.esp EXCEPT !.esp_state = d]
<1>1. s \in Systems /\ Counted(s) BY DEF Good
<1>2. s.esp \in Chip BY <1>1, SystemParts
<1>3. /\ e \in Chip /\ e.status = s.esp.status /\ e.enable_int = s.esp.enable_int
      /\ e.counter = s.esp.counter /\ e.state = s.esp.state /\ e.bottom = s.esp.bottom
  BY <1>2 DEF Chip
<1>4. t = [s EXCEPT !.esp = e] BY <1>1 DEF Systems, InState
<1>5. "TC" \in e.status => e.counter = 0 BY <1>1, <1>3 DEF Counted
<1> HIDE DEF e
<1>6. Good(t) /\ t.esp = e /\ t.bus = s.bus /\ t.armed = s.armed
  BY <1>3, <1>4, <1>5, ChipGood
<1> QED BY <1>3, <1>6 DEF SameReset

LEMMA SelectOutcome ==
  ASSUME NEW s, Good(s), "INPROGRESS" \in s.esp.state, NEW t \in Select(s)
  PROVE  Outcome(s, t)
<1> DEFINE u == CommandClear(s)
           B == [phase : {"DI", "DO"}, left : 1..MaxData] \cup {[phase |-> "ST", left |-> 0]}
           nobody == [u EXCEPT !.bus.phase = "ST", !.esp.esp_state = "DISCONNECTED"]
           taken(b) == [u EXCEPT !.bus = b, !.esp.esp_state = "INITIATOR"]
<1>1. /\ Good(u) /\ SameReset(s, u)
      /\ u.esp.state \subseteq s.esp.state /\ "INPROGRESS" \in u.esp.state
  BY CommandClearGood
<1>2. t = Interrupt(nobody, {"DC"}) \/ \E b \in B : t = Interrupt(taken(b), {"BS", "FC"})
  BY DEF Select
<1> HIDE DEF u
<1>3. u \in Systems BY <1>1 DEF Good
<1>4. CASE t = Interrupt(nobody, {"DC"})
  <2> DEFINE w == [u EXCEPT !.bus.phase = "ST"]
  <2>1. Good(w) /\ w.esp = u.esp BY <1>1, AtPhaseGood
  <2>2. nobody = InState(w, "DISCONNECTED") BY <1>3 DEF Systems, InState
  <2> HIDE DEF w, nobody
  <2>3. Good(nobody) /\ SameReset(w, nobody) /\ nobody.esp.state = w.esp.state
    BY <2>1, <2>2, AtStateGood
  <2>4. SameReset(s, nobody) BY <1>1, <2>1, <2>3 DEF SameReset
  <2> QED BY <1>1, <1>4, <2>1, <2>3, <2>4, InterruptOutcome
<1>5. ASSUME NEW b \in B, t = Interrupt(taken(b), {"BS", "FC"}) PROVE Outcome(s, t)
  <2> DEFINE w == [u EXCEPT !.bus = b]
             v == taken(b)
  <2>1. b \in Buses /\ (b.phase \in {"DI", "DO"} => b.left > 0)
    BY <1>5, DataAssumption DEF Buses, Phases
  <2> HIDE DEF B
  <2>2. Good(w) /\ w.esp = u.esp BY <1>1, <2>1, BusGood
  <2>3. v = InState(w, "INITIATOR") BY <1>3 DEF Systems, InState
  <2>4. t = Interrupt(v, {"BS", "FC"}) BY <1>5
  <2> HIDE DEF w, v
  <2>5. Good(v) /\ SameReset(w, v) /\ v.esp.state = w.esp.state BY <2>2, <2>3, AtStateGood
  <2>6. SameReset(s, v) BY <1>1, <2>2, <2>5 DEF SameReset
  <2> QED BY <1>1, <2>2, <2>4, <2>5, <2>6, InterruptOutcome
<1> QED BY <1>2, <1>4, <1>5

LEMMA TransferInfoOutcome ==
  ASSUME NEW s, Good(s), "INPROGRESS" \in s.esp.state, NEW t \in TransferInfo(s)
  PROVE  Outcome(s, t)
<1>1. s \in Systems /\ DataLeft(s) /\ Counted(s) BY DEF Good
<1>2. s.esp \in Chip /\ s.bus \in Buses /\ s.bus.phase \in Phases /\ s.bus.left \in Nat
  BY <1>1, SystemParts
<1>3. CASE s.esp.mode_dma
  <2> DEFINE e == [s.esp EXCEPT !.io_state = "TRANSFERING"]
             u == [s EXCEPT !.esp = e]
  <2>1. /\ e \in Chip /\ e.status = s.esp.status /\ e.enable_int = s.esp.enable_int
        /\ e.counter = s.esp.counter /\ e.state = s.esp.state /\ e.io_state = "TRANSFERING"
        /\ e.bottom = s.esp.bottom
    BY <1>2 DEF Chip
  <2>2. t = Arm(u, "ESP_IO") BY <1>1, <1>3 DEF TransferInfo, Systems
  <2> HIDE DEF e
  <2>3. Good(u) /\ u.esp = e BY <1>1, <2>1, ChipGood DEF Counted
  <2> HIDE DEF u
  <2>4. Good(t) /\ t.esp = u.esp /\ "ESP_IO" \in t.armed BY <2>2, <2>3, ArmGood
  <2> QED BY <2>1, <2>3, <2>4 DEF Outcome, Pending, SameReset
<1>4. CASE ~s.esp.mode_dma /\ s.bus.phase = "DI"
  <2> DEFINE b == [s.bus EXCEPT !.left = @ - 1, !.phase = IF s.bus.left = 1 THEN "ST" ELSE @]
             u == [s EXCEPT !.bus = b]
  <2>1. s.bus.left > 0 /\ s.bus.left <= MaxData BY <1>1, <1>4, SystemParts DEF DataLeft
  <2>2. s.bus.left - 1 \in 0..MaxData BY <1>2, <2>1, DataAssumption
  <2>3. /\ b \in Buses /\ b.left = s.bus.left - 1
        /\ b.phase = IF s.bus.left = 1 THEN "ST" ELSE s.bus.phase
    BY <1>2, <2>2 DEF Buses, Phases
  <2>4. t = Arm(u, "ESP") BY <1>1, <1>2, <1>4 DEF TransferInfo, Systems, Buses
  <2>5. b.phase \in {"DI", "DO"} => b.left > 0 BY <1>2, <2>1, <2>3
  <2> HIDE DEF b
  <2>6. Good(u) /\ u.esp = s.esp BY <2>3, <2>5, BusGood
  <2> HIDE DEF u
  <2> QED BY <2>4, <2>6, ArmGood DEF Outcome, Pending, SameReset
<1>5. CASE ~s.esp.mode_dma /\ s.bus.phase \in {"MI", "ST"}
  <2>1. t = Arm(s, "ESP") BY <1>5 DEF TransferInfo
  <2> QED BY <2>1, ArmGood DEF Outcome, Pending, SameReset
<1>6. ~(~s.esp.mode_dma /\ s.bus.phase = "DO") BY DEF TransferInfo
<1> QED BY <1>2, <1>3, <1>4, <1>5, <1>6 DEF Phases

LEMMA TransferPadOutcome ==
  ASSUME NEW s, Good(s), "INPROGRESS" \in s.esp.state, NEW t \in TransferPad(s)
  PROVE  Outcome(s, t)
<1> DEFINE u == Moved(s, Movable(s))
<1>1. s \in Systems BY DEF Good
<1>2. /\ Movable(s) \in 0..Movable(s) /\ Movable(s) \in Nat
      /\ Movable(s) = s.esp.counter \/ Movable(s) = s.bus.left
  BY <1>1, MovableBounds DEF Movable
<1>3. s.bus.phase \in {"DI", "DO"} /\ t = TransferDone(u, s.bus.phase) BY DEF TransferPad
<1>4. Good(u) /\ SameReset(s, u) /\ u.esp.state = s.esp.state BY <1>2, MovedGood
<1>5. IsDone(u, s.bus.phase)
  <2>1. s.bus.left > 0 BY <1>3 DEF Good, DataLeft
  <2>2. /\ u.esp.counter = s.esp.counter - Movable(s)
        /\ u.bus.phase = IF Movable(s) > 0 /\ s.bus.left = Movable(s) THEN "ST" ELSE s.bus.phase
    BY <1>1 DEF Moved, Systems, Chip, Buses
  <2>3. s.esp.counter \in Nat /\ s.bus.left \in Nat BY <1>1, SystemParts
  <2>4. CASE Movable(s) = s.esp.counter BY <2>2, <2>3, <2>4 DEF IsDone
  <2>5. CASE Movable(s) = s.bus.left
    <3>1. Movable(s) > 0 BY <2>1, <2>5
    <3>2. u.bus.phase = "ST" BY <2>2, <2>5, <3>1
    <3> QED BY <1>3, <3>2 DEF IsDone
  <2> QED BY <1>2, <2>4, <2>5
<1> HIDE DEF u
<1> QED BY <1>3, <1>4, <1>5, TransferDoneGood DEF Outcome, Pending, SameReset

LEMMA BusResetOutcome ==
  ASSUME NEW s, Good(s), "INPROGRESS" \in s.esp.state, NEW t, t = BusReset(s)
  PROVE  Outcome(s, t)
<1> DEFINE u == ResetSoft(s)
           w == [u EXCEPT !.bus.phase = "MI"]
<1>1. /\ Good(u) /\ SameReset(s, u)
      /\ u.esp.state \subseteq s.esp.state /\ "INPROGRESS" \in u.esp.state
  BY ResetSoftGood
<1>2. t = IF u.esp.resrept THEN Ends(u) ELSE Interrupt(w, {"RST"}) BY DEF BusReset
<1> HIDE DEF u
<1>3. Good(w) /\ w.esp = u.esp BY <1>1, AtPhaseGood
<1>4. SameReset(s, w) BY <1>1, <1>3 DEF SameReset
<1> HIDE DEF w
<1>5. CASE u.esp.resrept BY <1>1, <1>2, <1>5, EndsOutcome
<1>6. CASE ~u.esp.resrept BY <1>1, <1>2, <1>3, <1>4, <1>6, InterruptOutcome
<1> QED BY <1>5, <1>6

LEMMA ExecuteOutcome ==
  ASSUME NEW s, Good(s), "INPROGRESS" \in s.esp.state,
         NEW cmd \in Commands, NEW t \in Execute(s, cmd)
  PROVE  Outcome(s, t)
<1>1. CASE cmd \in {"NOP", "FLUSH"}
  <2>1. t = Ends(s) BY <1>1 DEF Execute
  <2>2. SameReset(s, s) BY DEF SameReset
  <2> QED BY <2>1, <2>2, EndsOutcome
<1>2. CASE cmd = "RESET"
  <2>1. t = Ends(ResetHard(s)) BY <1>2 DEF Execute
  <2> QED BY <2>1, ResetHardGood, EndsOutcome
<1>3. CASE cmd = "BUSRESET"
  <2>1. t = BusReset(s) BY <1>3 DEF Execute
  <2> QED BY <2>1, BusResetOutcome
<1>4. CASE cmd = "SELATN"
  <2>1. t \in Select(s) BY <1>4 DEF Execute
  <2> QED BY <2>1, SelectOutcome
<1>5. CASE cmd = "TI"
  <2>1. t \in TransferInfo(s) BY <1>5 DEF Execute
  <2> QED BY <2>1, TransferInfoOutcome
<1>6. CASE cmd = "ICCS"
  <2> DEFINE u == [s EXCEPT !.bus.phase = "MI"]
  <2>1. t = Interrupt(u, {"FC"}) BY <1>6 DEF Execute
  <2>2. Good(u) /\ u.esp = s.esp BY AtPhaseGood
  <2>3. SameReset(s, u) BY <2>2 DEF SameReset
  <2> HIDE DEF u
  <2> QED BY <2>1, <2>2, <2>3, InterruptOutcome
<1>7. CASE cmd = "MSGACC"
  <2> DEFINE u == [s EXCEPT !.bus.phase = "ST"]
             w == InState(u, "DISCONNECTED")
  <2>1. s \in Systems BY DEF Good
  <2>2. Good(u) /\ u.esp = s.esp BY AtPhaseGood
  <2>3. w = [s EXCEPT !.bus.phase = "ST", !.esp.esp_state = "DISCONNECTED"]
    BY <2>1 DEF Systems, InState
  <2>4. t = Interrupt([s EXCEPT !.bus.phase = "ST", !.esp.esp_state = "DISCONNECTED"], {"BS"})
    BY <1>7 DEF Execute
  <2> HIDE DEF u
  <2>5. Good(w) /\ SameReset(u, w) /\ w.esp.state = u.esp.state BY <2>2, AtStateGood
  <2>6. SameReset(s, w) BY <2>2, <2>5 DEF SameReset
  <2> HIDE DEF w
  <2> QED BY <2>2, <2>3, <2>4, <2>5, <2>6, InterruptOutcome
<1>8. CASE cmd = "PAD"
  <2>1. t \in TransferPad(s) BY <1>8 DEF Execute
  <2> QED BY <2>1, TransferPadOutcome
<1> QED BY <1>1, <1>2, <1>3, <1>4, <1>5, <1>6, <1>7, <1>8 DEF Commands

LEMMA LoadGood ==
  ASSUME NEW s, Good(s), NEW dma \in BOOLEAN, NEW t \in Load(s, dma)
  PROVE  /\ Good(t) /\ SameReset(s, t) /\ t.esp.state = s.esp.state
         /\ t.armed = s.armed
<1>1. s \in Systems /\ Counted(s) BY DEF Good
<1>2. s.esp \in Chip BY <1>1, SystemParts
<1>3. ASSUME NEW n \in Counts, t = [s EXCEPT !.esp.counter = n, !.esp.mode_dma = TRUE,
                                             !.esp.status = @ \ {"TC"}]
      PROVE  Good(t) /\ SameReset(s, t) /\ t.esp.state = s.esp.state /\ t.armed = s.armed
  <2> DEFINE e == [s.esp EXCEPT !.counter = n, !.mode_dma = TRUE, !.status = @ \ {"TC"}]
             u == [s EXCEPT !.esp = e]
  <2>1. /\ e \in Chip /\ e.status = s.esp.status \ {"TC"} /\ e.state = s.esp.state
        /\ e.enable_int = s.esp.enable_int /\ e.bottom = s.esp.bottom
    BY <1>2, CountAssumption DEF Chip
  <2>2. t = u BY <1>1, <1>3 DEF Systems
  <2> HIDE DEF e
  <2>3. Good(u) /\ u.esp = e /\ u.armed = s.armed BY <2>1, ChipGood
  <2> HIDE DEF u
  <2> QED BY <2>1, <2>2, <2>3 DEF SameReset
<1>4. ASSUME t = [s EXCEPT !.esp.mode_dma = FALSE]
      PROVE  Good(t) /\ SameReset(s, t) /\ t.esp.state = s.esp.state /\ t.armed = s.armed
  <2> DEFINE e == [s.esp EXCEPT !.mode_dma = FALSE]
             u == [s EXCEPT !.esp = e]
  <2>1. /\ e \in Chip /\ e.status = s.esp.status /\ e.state = s.esp.state
        /\ e.enable_int = s.esp.enable_int /\ e.counter = s.esp.counter
        /\ e.bottom = s.esp.bottom
    BY <1>2 DEF Chip
  <2>2. t = u BY <1>1, <1>4 DEF Systems
  <2> HIDE DEF e
  <2>3. Good(u) /\ u.esp = e /\ u.armed = s.armed BY <1>1, <2>1, ChipGood DEF Counted
  <2> HIDE DEF u
  <2> QED BY <2>1, <2>2, <2>3 DEF SameReset
<1> QED BY <1>3, <1>4 DEF Load

\* A change of which commands are there and how far they are.
LEMMA StateGood ==
  ASSUME NEW s, Good(s), NEW states \in SUBSET {"INPROGRESS", "WAITING"},
         NEW t, t = [s EXCEPT !.esp.state = states]
  PROVE  /\ Good(t) /\ t.esp = [s.esp EXCEPT !.state = states] /\ t.esp.state = states
         /\ t.armed = s.armed /\ t.ends = s.ends /\ SameReset(s, t)
<1> DEFINE e == [s.esp EXCEPT !.state = states]
           u == [s EXCEPT !.esp = e]
<1>1. s \in Systems /\ Counted(s) BY DEF Good
<1>2. s.esp \in Chip BY <1>1, SystemParts
<1>3. /\ e \in Chip /\ e.status = s.esp.status /\ e.state = states /\ e.bottom = s.esp.bottom
      /\ e.enable_int = s.esp.enable_int /\ e.counter = s.esp.counter
  BY <1>2 DEF Chip
<1>4. t = u BY <1>1 DEF Systems
<1>5. e = [s.esp EXCEPT !.state = states] OBVIOUS
<1> HIDE DEF e
<1>6. Good(u) /\ u.esp = e /\ u.armed = s.armed /\ u.ends = s.ends
  BY <1>1, <1>3, ChipGood DEF Counted
<1> HIDE DEF u
<1> QED BY <1>3, <1>4, <1>5, <1>6 DEF SameReset

LEMMA StartOutcome ==
  ASSUME NEW s, Good(s), NEW cmd \in Commands, NEW dma \in BOOLEAN, NEW t \in Start(s, cmd, dma)
  PROVE  /\ Good(t) /\ t.esp.state \subseteq s.esp.state \cup {"INPROGRESS"}
         /\ "INPROGRESS" \in t.esp.state /\ (t.ends \/ Pending(t))
         /\ SameReset(s, t)
<1> DEFINE r == [s EXCEPT !.esp.state = @ \cup {"INPROGRESS"}]
           states == s.esp.state \cup {"INPROGRESS"}
<1>1. s \in Systems BY DEF Good
<1>2. s.esp \in Chip BY <1>1, SystemParts
<1>3. states \in SUBSET {"INPROGRESS", "WAITING"} BY <1>2 DEF Chip
<1>4. r = [s EXCEPT !.esp.state = states] BY <1>1 DEF Systems
<1>5. t \in IF IsIllegal(r, cmd) THEN {Interrupt(CommandClear(r), r.esp.intstatus \cup {"ILL"})}
            ELSE UNION {Execute(u, cmd) : u \in Load(r, dma)}
  BY DEF Start
<1> HIDE DEF r, states
<1>6. Good(r) /\ SameReset(s, r) /\ r.esp.state = states BY <1>3, <1>4, StateGood
<1>7. "INPROGRESS" \in states /\ states = s.esp.state \cup {"INPROGRESS"} BY DEF states
<1>8. CASE IsIllegal(r, cmd)
  <2> DEFINE u == CommandClear(r)
             cause == r.esp.intstatus \cup {"ILL"}
  <2>1. /\ Good(u) /\ SameReset(r, u)
        /\ u.esp.state \subseteq r.esp.state /\ "INPROGRESS" \in u.esp.state
    BY <1>6, <1>7, CommandClearGood
  <2>2. r \in Systems BY <1>6 DEF Good
  <2>3. cause \in SUBSET {"FC", "BS", "DC", "ILL", "RST"} BY <2>2, SystemParts DEF Chip
  <2>4. t = Interrupt(u, cause) BY <1>5, <1>8
  <2> HIDE DEF u, cause
  <2>5. Outcome(r, t) BY <2>1, <2>3, <2>4, InterruptOutcome
  <2> QED BY <1>6, <1>7, <2>5 DEF Outcome, SameReset
<1>9. CASE ~IsIllegal(r, cmd)
  <2>1. PICK u \in Load(r, dma) : t \in Execute(u, cmd) BY <1>5, <1>9
  <2>2. Good(u) /\ SameReset(r, u) /\ u.esp.state = r.esp.state BY <1>6, LoadGood
  <2>3. Outcome(u, t) BY <1>6, <1>7, <2>1, <2>2, ExecuteOutcome
  <2> QED BY <1>6, <1>7, <2>2, <2>3 DEF Outcome, SameReset
<1> QED BY <1>8, <1>9

\* Two commands that end at once in every state of the chip.
LEMMA StartEnds ==
  ASSUME NEW s, Good(s), NEW cmd \in {"NOP", "RESET"}, NEW dma \in BOOLEAN,
         NEW t \in Start(s, cmd, dma)
  PROVE  t.ends /\ (cmd = "NOP" => t.armed = s.armed)
<1> DEFINE r == [s EXCEPT !.esp.state = @ \cup {"INPROGRESS"}]
           states == s.esp.state \cup {"INPROGRESS"}
<1>1. s \in Systems BY DEF Good
<1>2. states \in SUBSET {"INPROGRESS", "WAITING"} BY <1>1, SystemParts DEF Chip
<1>3. r = [s EXCEPT !.esp.state = states] BY <1>1 DEF Systems
<1>4. ~IsIllegal(r, cmd) BY DEF IsIllegal, Initiator
<1>5. t \in UNION {Execute(u, cmd) : u \in Load(r, dma)} BY <1>4 DEF Start
<1> HIDE DEF r, states
<1>6. Good(r) /\ r.esp.state = states /\ r.armed = s.armed BY <1>2, <1>3, StateGood
<1>7. PICK u \in Load(r, dma) : t \in Execute(u, cmd) BY <1>5
<1>8. Good(u) /\ u.armed = s.armed BY <1>6, <1>7, LoadGood
<1>9. CASE cmd = "NOP"
  <2>1. t = Ends(u) BY <1>7, <1>9 DEF Execute
  <2>2. u \in Systems BY <1>8 DEF Good
  <2>3. t.armed = u.armed BY <2>1, <2>2 DEF Ends, Systems
  <2> QED BY <1>8, <2>1, <2>3, EndsGood
<1>10. CASE cmd = "RESET"
  <2>1. t = Ends(ResetHard(u)) BY <1>7, <1>10 DEF Execute
  <2>2. Good(ResetHard(u)) BY <1>8, ResetHardGood
  <2>3. t.ends BY <2>1, <2>2, EndsGood
  <2> QED BY <1>10, <2>3
<1> QED BY <1>9, <1>10

-----------------------------------------------------------------------------
(***************************************************************************)
(* A command that ends lets the next one start, once.                      *)
(***************************************************************************)

LEMMA EndedGood ==
  ASSUME NEW s, Good(s), NEW t, t = Ended(s)
  PROVE  /\ Good(t) /\ t.esp = [s.esp EXCEPT !.state = @ \ {"INPROGRESS"}]
         /\ t.esp.state = s.esp.state \ {"INPROGRESS"}
         /\ SameReset(s, t) /\ t.armed = s.armed
<1> DEFINE states == s.esp.state \ {"INPROGRESS"}
           e == [s.esp EXCEPT !.state = states]
           u == [s EXCEPT !.esp.state = states]
<1>1. s \in Systems BY DEF Good
<1>2. s.esp \in Chip BY <1>1, SystemParts
<1>3. states \in SUBSET {"INPROGRESS", "WAITING"} BY <1>2 DEF Chip
<1>4. t = [u EXCEPT !.ends = FALSE] BY <1>1 DEF Ended, Systems
<1>5. e = [s.esp EXCEPT !.state = @ \ {"INPROGRESS"}] BY <1>2 DEF Chip
<1> HIDE DEF states
<1>6. /\ Good(u) /\ u.esp = e /\ u.esp.state = states /\ SameReset(s, u)
      /\ u.armed = s.armed
  BY <1>3, StateGood
<1> HIDE DEF u
<1>7. u \in Systems BY <1>6 DEF Good
<1>8. /\ t \in Systems /\ t.esp = u.esp /\ t.bus = u.bus /\ t.armed = u.armed /\ t.line = u.line
  BY <1>4, <1>7 DEF Systems
<1>9. Good(t) BY <1>6, <1>8 DEF Good, DataLeft, Follows, Counted
<1>10. SameReset(s, t) BY <1>6, <1>8 DEF SameReset
<1> QED BY <1>5, <1>6, <1>8, <1>9, <1>10 DEF states

LEMMA PromotedGood ==
  ASSUME NEW s, Good(s), NEW t, t = Promoted(s)
  PROVE  /\ Good(t) /\ t.esp.top \in Commands /\ t.esp.dmas \in SUBSET {"top", "bottom"}
         /\ t.esp.state = s.esp.state \ {"WAITING"} /\ t.esp.bottom = "NOP"
         /\ t.armed = s.armed
<1> DEFINE e == [s.esp EXCEPT !.top = s.esp.bottom, !.bottom = "NOP",
                              !.dmas = IF "bottom" \in s.esp.dmas THEN {"top"} ELSE {},
                              !.state = @ \ {"WAITING"}]
           u == [s EXCEPT !.esp = e]
<1>1. s \in Systems /\ Counted(s) BY DEF Good
<1>2. s.esp \in Chip BY <1>1, SystemParts
<1>3. /\ e \in Chip /\ e.status = s.esp.status /\ e.state = s.esp.state \ {"WAITING"}
      /\ e.enable_int = s.esp.enable_int /\ e.counter = s.esp.counter /\ e.bottom = "NOP"
  BY <1>2 DEF Chip, Commands
<1>4. t = u BY <1>1 DEF Promoted, Systems
<1>5. e.top \in Commands /\ e.dmas \in SUBSET {"top", "bottom"} BY <1>3 DEF Chip
<1> HIDE DEF e
<1>6. Good(u) /\ u.esp = e /\ u.armed = s.armed BY <1>1, <1>3, ChipGood DEF Counted
<1> HIDE DEF u
<1> QED BY <1>3, <1>4, <1>5, <1>6

LEMMA FinishAlone ==
  ASSUME NEW s, Good(s), "WAITING" \notin s.esp.state, NEW w \in FinishCommand(s)
  PROVE  /\ SameReset(s, w) /\ w.esp.state = s.esp.state \ {"INPROGRESS"}
         /\ w.armed = s.armed /\ w.esp.state = {} /\ Good(w)
<1>1. w = Ended(s) BY DEF FinishCommand
<1>2. s.esp \in Chip BY SystemParts DEF Good
<1>3. s.esp.state \subseteq {"INPROGRESS"} BY <1>2 DEF Chip
<1> QED BY <1>1, <1>3, EndedGood

LEMMA FinishSettled ==
  ASSUME NEW s, Good(s), NEW w \in FinishCommand(s)
  PROVE  Good(w) /\ Settled(w)
<1> DEFINE t == Ended(s)
           u == Promoted(t)
<1>1. w \in IF "WAITING" \in s.esp.state
            THEN {IF v.ends THEN Ended(v) ELSE v : v \in Start(u, u.esp.top, "top" \in u.esp.dmas)}
            ELSE {t}
  BY DEF FinishCommand
<1>2. Good(t) /\ t.esp.state = s.esp.state \ {"INPROGRESS"} BY EndedGood
<1> HIDE DEF t
<1>3. CASE "WAITING" \notin s.esp.state BY <1>3, FinishAlone DEF Settled
<1>4. CASE "WAITING" \in s.esp.state
  <2>1. /\ Good(u) /\ u.esp.top \in Commands /\ u.esp.dmas \in SUBSET {"top", "bottom"}
        /\ u.esp.state = t.esp.state \ {"WAITING"} /\ u.esp.bottom = "NOP"
    BY <1>2, PromotedGood
  <2> HIDE DEF u
  <2>2. "WAITING" \notin u.esp.state BY <2>1
  <2> DEFINE dma == "top" \in u.esp.dmas
  <2>3. dma \in BOOLEAN OBVIOUS
  <2>4. PICK v \in Start(u, u.esp.top, dma) : w = IF v.ends THEN Ended(v) ELSE v
    BY <1>1, <1>4
  <2>5. /\ Good(v) /\ v.esp.state \subseteq u.esp.state \cup {"INPROGRESS"}
        /\ "INPROGRESS" \in v.esp.state /\ (v.ends \/ Pending(v)) /\ v.esp.bottom # "RESET"
    BY <2>1, <2>3, <2>4, StartOutcome DEF SameReset
  <2>6. CASE v.ends
    <3>1. w = Ended(v) BY <2>4, <2>6
    <3>2. Good(w) /\ w.esp.state = v.esp.state \ {"INPROGRESS"} /\ SameReset(v, w)
      BY <2>5, <3>1, EndedGood
    <3> QED BY <2>2, <2>5, <3>2 DEF Settled, SameReset
  <2>7. CASE ~v.ends
    BY <2>2, <2>4, <2>5, <2>7 DEF Settled
  <2> QED BY <2>6, <2>7
<1> QED BY <1>3, <1>4

LEMMA StartSettled ==
  ASSUME NEW s, Good(s), NEW cmd \in Commands, s.esp.bottom = "RESET" => cmd = "RESET",
         NEW dma \in BOOLEAN, NEW w \in StartCommand(s, cmd, dma)
  PROVE  Good(w) /\ Settled(w)
<1>1. PICK v \in Start(s, cmd, dma) : w \in IF v.ends THEN FinishCommand(v) ELSE {v}
  BY DEF StartCommand
<1>2. Good(v) /\ "INPROGRESS" \in v.esp.state /\ (v.ends \/ Pending(v)) /\ SameReset(s, v)
  BY StartOutcome
<1>3. CASE v.ends BY <1>1, <1>2, <1>3, FinishSettled
<1>4. CASE ~v.ends
  <2>1. s.esp.bottom # "RESET" BY <1>4, StartEnds
  <2> QED BY <1>1, <1>2, <1>4, <2>1 DEF Settled, SameReset
<1> QED BY <1>3, <1>4

-----------------------------------------------------------------------------
(***************************************************************************)
(* The inductive invariant. NoStuckCommand alone is not one: an event that *)
(* only flushes goes and leaves nothing behind, and the end of a phase     *)
(* needs the phase to have had data. And while a chip reset is in the      *)
(* register no command is in progress, which lets NOP pass without effect. *)
(***************************************************************************)
IInv == Good(System) /\ Settled(System)

LEMMA SystemIs ==
  /\ System.esp = esp /\ System.bus = bus /\ System.armed = armed /\ System.line = line
  /\ System.ends = FALSE
BY DEF System

LEMMA BecomesInv ==
  ASSUME NEW S, \A w \in S : Good(w) /\ Settled(w), Becomes(S)
  PROVE  IInv'
<1>1. PICK w \in S : esp' = w.esp /\ bus' = w.bus /\ armed' = w.armed /\ line' = w.line
  BY DEF Becomes
<1>2. Good(w) /\ Settled(w) BY <1>1
<1> DEFINE t == [esp |-> w.esp, bus |-> w.bus, armed |-> w.armed, line |-> w.line, ends |-> FALSE]
<1>3. System' = t BY <1>1 DEF System
<1>4. t \in Systems BY <1>2 DEF Good, Systems
<1>5. t.esp = w.esp /\ t.bus = w.bus /\ t.armed = w.armed /\ t.line = w.line OBVIOUS
<1> HIDE DEF t
<1>6. Good(t) BY <1>2, <1>4, <1>5 DEF Good, DataLeft, Follows, Counted
<1>7. Settled(t) BY <1>2, <1>5 DEF Settled, Pending
<1> QED BY <1>3, <1>6, <1>7 DEF IInv

LEMMA WrittenGood ==
  ASSUME NEW s, Good(s), NEW cmd \in Commands, NEW dma \in BOOLEAN, NEW t, t = Written(s, cmd, dma)
  PROVE  /\ Good(t) /\ t.esp.bottom \in Commands /\ t.esp.state = s.esp.state
         /\ t.armed = s.armed /\ t.esp.io_state = s.esp.io_state
         /\ "INT" \in s.esp.status => "INT" \in t.esp.status
<1> DEFINE e == [s.esp EXCEPT !.bottom = cmd,
                   !.dmas = IF dma THEN @ \cup {"bottom"} ELSE @ \ {"bottom"},
                   !.status = IF "WAITING" \in s.esp.state THEN @ \cup {"GE"} ELSE @]
           u == [s EXCEPT !.esp = e]
<1>1. s \in Systems /\ Counted(s) BY DEF Good
<1>2. s.esp \in Chip BY <1>1, SystemParts
<1>3. CASE s.esp.bottom = "RESET" /\ cmd # "NOP"
  BY <1>2, <1>3 DEF Written, Chip
<1>4. CASE ~(s.esp.bottom = "RESET" /\ cmd # "NOP")
  <2>1. /\ e \in Chip /\ e.state = s.esp.state /\ e.bottom \in Commands
        /\ e.status = IF "WAITING" \in s.esp.state THEN s.esp.status \cup {"GE"} ELSE s.esp.status
        /\ e.enable_int = s.esp.enable_int /\ e.counter = s.esp.counter
        /\ e.io_state = s.esp.io_state
    BY <1>2 DEF Chip
  <2>2. t = u BY <1>1, <1>4 DEF Written, Systems
  <2> HIDE DEF e
  <2>3. Good(u) /\ u.esp = e /\ u.armed = s.armed BY <1>1, <2>1, ChipGood DEF Counted
  <2> HIDE DEF u
  <2> QED BY <2>1, <2>2, <2>3
<1> QED BY <1>3, <1>4

LEMMA CommandWriteInv ==
  ASSUME IInv, NEW cmd \in Commands, NEW dma \in BOOLEAN, CommandWrite(cmd, dma)
  PROVE  IInv'
<1> DEFINE s == Written(System, cmd, dma)
           u == Promoted(s)
           r == [s EXCEPT !.esp.state = @ \cup {"WAITING"}]
           atBottom == "bottom" \in s.esp.dmas
           atTop == "top" \in u.esp.dmas
           S == IF s.esp.bottom \in {"RESET", "BUSRESET"}
                THEN StartCommand(s, s.esp.bottom, atBottom)
                ELSE IF "INPROGRESS" \in s.esp.state THEN {r}
                ELSE StartCommand(u, u.esp.top, atTop)
<1>1. Becomes(S) BY DEF CommandWrite
<1>2. Good(System) /\ Settled(System) BY DEF IInv
<1>3. /\ Good(s) /\ s.esp.bottom \in Commands /\ s.esp.state = System.esp.state
      /\ s.armed = System.armed /\ s.esp.io_state = System.esp.io_state
      /\ "INT" \in System.esp.status => "INT" \in s.esp.status
  BY <1>2, WrittenGood
<1> HIDE DEF s
<1>4. Good(u) /\ u.esp.top \in Commands /\ u.esp.bottom = "NOP" BY <1>3, PromotedGood
<1>5. "INPROGRESS" \in s.esp.state /\ s.esp.bottom # "RESET" => Good(r) /\ Settled(r)
  <2> DEFINE states == s.esp.state \cup {"WAITING"}
  <2>1. s \in Systems BY <1>3 DEF Good
  <2>2. states \in SUBSET {"INPROGRESS", "WAITING"} BY <2>1, SystemParts DEF Chip
  <2>3. r = [s EXCEPT !.esp.state = states] BY <2>1 DEF Systems
  <2>4. s.esp \in Chip BY <2>1, SystemParts
  <2>5. states = s.esp.state \cup {"WAITING"} OBVIOUS
  <2> HIDE DEF r, states
  <2>6. /\ Good(r) /\ r.esp = [s.esp EXCEPT !.state = states] /\ r.esp.state = states
        /\ r.armed = s.armed /\ SameReset(s, r)
    BY <1>3, <2>2, <2>3, StateGood
  <2>7. r.esp.status = s.esp.status /\ r.esp.io_state = s.esp.io_state BY <2>4, <2>6 DEF Chip
  <2> QED BY <1>2, <1>3, <2>5, <2>6, <2>7 DEF Settled, Pending, SameReset
<1>6. atBottom \in BOOLEAN /\ atTop \in BOOLEAN OBVIOUS
<1> HIDE DEF u, r, atBottom, atTop
<1>7. \A w \in S : Good(w) /\ Settled(w)
  <2> SUFFICES ASSUME NEW w \in S PROVE Good(w) /\ Settled(w) OBVIOUS
  <2>1. CASE s.esp.bottom \in {"RESET", "BUSRESET"}
    <3>1. w \in StartCommand(s, s.esp.bottom, atBottom) BY <2>1
    <3> QED BY <1>3, <1>6, <3>1, StartSettled
  <2>2. CASE s.esp.bottom \notin {"RESET", "BUSRESET"} /\ "INPROGRESS" \in s.esp.state
    BY <1>5, <2>2
  <2>3. CASE s.esp.bottom \notin {"RESET", "BUSRESET"} /\ "INPROGRESS" \notin s.esp.state
    <3>1. w \in StartCommand(u, u.esp.top, atTop) BY <2>3
    <3> QED BY <1>4, <1>6, <3>1, StartSettled
  <2> QED BY <2>1, <2>2, <2>3
<1> HIDE DEF S
<1> QED BY <1>1, <1>7, BecomesInv

LEMMA IntStatusReadInv ==
  ASSUME IInv, IntStatusRead
  PROVE  IInv'
<1> DEFINE e == [esp EXCEPT !.intstatus = {}, !.status = @ \ {"GE", "INT"}]
           r == [System EXCEPT !.esp.intstatus = {}, !.line = FALSE,
                               !.esp.status = @ \ {"GE", "INT"}]
<1>1. Becomes(FinishCommand(r)) BY DEF IntStatusRead
<1>2. Good(System) BY DEF IInv
<1>3. System \in Systems /\ Counted(System) BY <1>2 DEF Good
<1>4. esp \in Chip BY <1>3, SystemParts, SystemIs
<1>5. /\ e \in Chip /\ e.status = esp.status \ {"GE", "INT"} /\ e.counter = esp.counter
  BY <1>4 DEF Chip
<1>6. r \in Systems /\ r.esp = e /\ r.bus = bus /\ r.line = FALSE
  BY <1>3, <1>5 DEF System, Systems
<1> HIDE DEF e, r
<1>7. Good(r) BY <1>2, <1>3, <1>5, <1>6, SystemIs DEF Good, DataLeft, Follows, Counted
<1>8. \A w \in FinishCommand(r) : Good(w) /\ Settled(w) BY <1>7, FinishSettled
<1> QED BY <1>1, <1>8, BecomesInv

LEMMA GatedSettled ==
  ASSUME NEW s, Good(s), Settled(s), NEW on \in BOOLEAN, NEW t, t = Gated(s, on)
  PROVE  Good(t) /\ Settled(t) /\ SameReset(s, t)
<1> DEFINE e == [s.esp EXCEPT !.enable_int = on]
           l == on /\ (s.line \/ "INT" \in s.esp.status)
<1>1. s \in Systems BY DEF Good
<1>2. s.esp \in Chip BY <1>1, SystemParts
<1>3. /\ e \in Chip /\ e.status = s.esp.status /\ e.counter = s.esp.counter
      /\ e.enable_int = on /\ e.state = s.esp.state /\ e.io_state = s.esp.io_state
      /\ e.bottom = s.esp.bottom
  BY <1>2 DEF Chip
<1>4. t = [s EXCEPT !.esp = e, !.line = l] BY <1>1 DEF Gated, Systems
<1>5. l \in BOOLEAN OBVIOUS
<1> HIDE DEF e, l
<1>6. t \in Systems /\ t.esp = e /\ t.bus = s.bus /\ t.armed = s.armed /\ t.line = l
  BY <1>1, <1>3, <1>4, <1>5 DEF Systems
<1>7. DataLeft(t) /\ Counted(t) BY <1>3, <1>6 DEF Good, DataLeft, Counted
<1>8. Follows(t) BY <1>3, <1>6 DEF l, Good, Follows
<1>9. Settled(t) BY <1>3, <1>6 DEF Settled, Pending
<1> QED BY <1>3, <1>6, <1>7, <1>8, <1>9 DEF Good, SameReset

LEMMA ControlWriteInv ==
  ASSUME IInv, NEW on \in BOOLEAN, NEW reset \in BOOLEAN, ControlWrite(on, reset)
  PROVE  IInv'
<1> DEFINE R == IF reset THEN FinishCommand(ResetHard(System)) ELSE {System}
           S == {Gated(s, on) : s \in R}
<1>1. Becomes(S) BY DEF ControlWrite
<1>2. Good(System) /\ Settled(System) BY DEF IInv
<1>3. Good(ResetHard(System)) BY <1>2, ResetHardGood
<1>4. \A s \in R : Good(s) /\ Settled(s) BY <1>2, <1>3, FinishSettled
<1> HIDE DEF R
<1>5. \A w \in S : Good(w) /\ Settled(w) BY <1>4, GatedSettled
<1> HIDE DEF S
<1> QED BY <1>1, <1>5, BecomesInv

LEMMA ConfigurationWriteInv ==
  ASSUME IInv, NEW on \in BOOLEAN, ConfigurationWrite(on)
  PROVE  IInv'
<1> DEFINE e == [esp EXCEPT !.resrept = on]
           t == [esp |-> e, bus |-> bus, armed |-> armed, line |-> line, ends |-> FALSE]
<1>1. Good(System) /\ Settled(System) BY DEF IInv
<1>2. System \in Systems BY <1>1 DEF Good
<1>3. esp \in Chip BY <1>2, SystemParts, SystemIs
<1>4. /\ e \in Chip /\ e.status = esp.status /\ e.counter = esp.counter
      /\ e.enable_int = esp.enable_int /\ e.state = esp.state /\ e.io_state = esp.io_state
      /\ e.bottom = esp.bottom
  BY <1>3 DEF Chip
<1>5. System' = t BY DEF ConfigurationWrite, System
<1> HIDE DEF e
<1>6. /\ t \in Systems /\ t.esp = e /\ t.bus = bus /\ t.armed = armed /\ t.line = line
  BY <1>2, <1>4 DEF System, Systems
<1> HIDE DEF t
<1>7. Good(t) BY <1>1, <1>4, <1>6, SystemIs DEF Good, DataLeft, Follows, Counted
<1>8. Settled(t) BY <1>1, <1>4, <1>6, SystemIs DEF Settled, Pending
<1> QED BY <1>5, <1>7, <1>8 DEF IInv

LEMMA InterruptHandlerInv ==
  ASSUME IInv, InterruptHandler
  PROVE  IInv'
<1> DEFINE e == [esp EXCEPT !.status = @ \cup {"INT"}]
           l == line \/ ("INT" \notin esp.status /\ esp.enable_int)
           t == [esp |-> e, bus |-> bus, armed |-> armed \ {"ESP"}, line |-> l, ends |-> FALSE]
<1>1. Good(System) /\ Settled(System) BY DEF IInv
<1>2. System \in Systems BY <1>1 DEF Good
<1>3. esp \in Chip BY <1>2, SystemParts, SystemIs
<1>4. /\ e \in Chip /\ e.status = esp.status \cup {"INT"} /\ e.counter = esp.counter
      /\ e.enable_int = esp.enable_int /\ e.state = esp.state /\ e.bottom = esp.bottom
  BY <1>3 DEF Chip
<1>5. System' = t BY DEF InterruptHandler, System
<1>6. l \in BOOLEAN /\ armed \ {"ESP"} \in SUBSET {"ESP", "ESP_IO"}
  BY <1>2, SystemParts, SystemIs
<1> HIDE DEF e, l
<1>7. /\ t \in Systems /\ t.esp = e /\ t.bus = bus /\ t.line = l
  BY <1>2, <1>4, <1>6 DEF System, Systems
<1> HIDE DEF t
<1>8. DataLeft(t) /\ Counted(t) BY <1>1, <1>4, <1>7, SystemIs DEF Good, DataLeft, Counted
<1>9. Follows(t) BY <1>1, <1>4, <1>7, SystemIs DEF l, Good, Follows
<1>10. Settled(t) BY <1>1, <1>4, <1>7, SystemIs DEF Settled
<1> QED BY <1>5, <1>7, <1>8, <1>9, <1>10 DEF IInv, Good

\* One call of the handler in a data phase.
LEMMA IoTransferSettled ==
  ASSUME NEW s, Good(s), NEW k \in 0..Movable(s), NEW t, t = IoTransfer(s, k),
         s.esp.io_state = "TRANSFERING",
         "WAITING" \in s.esp.state => "INPROGRESS" \in s.esp.state,
         s.esp.bottom = "RESET" => s.esp.state = {}
  PROVE  Good(t) /\ Settled(t) /\ SameReset(s, t)
<1> DEFINE phase == s.bus.phase
           m == Moved(s, k)
           u == TransferDone(m, phase)
<1>1. /\ Good(m) /\ SameReset(s, m) /\ m.esp.state = s.esp.state
      /\ m.esp.io_state = s.esp.io_state
  BY MovedGood
<1>2. t = IF ~IsDone(m, phase) THEN Arm(u, "ESP_IO")
          ELSE IF phase = "DI" THEN Arm([u EXCEPT !.esp.io_state = "FLUSHING"], "ESP_IO")
          ELSE u
  BY DEF IoTransfer
<1> HIDE DEF m, phase
<1>3. /\ Good(u) /\ SameReset(m, u) /\ u.esp.state \subseteq m.esp.state
      /\ "INPROGRESS" \in m.esp.state => "INPROGRESS" \in u.esp.state
      /\ IsDone(m, phase) => "ESP" \in u.armed
      /\ ~IsDone(m, phase) => u = m
  BY <1>1, TransferDoneGood
<1> HIDE DEF u
<1>4. /\ "WAITING" \in u.esp.state => "INPROGRESS" \in u.esp.state
      /\ u.esp.bottom = "RESET" => u.esp.state = {}
      /\ SameReset(s, u)
  BY <1>1, <1>3 DEF SameReset
<1>5. CASE ~IsDone(m, phase)
  \* The transfer goes on.
  <2>1. Good(t) /\ t.esp = u.esp /\ "ESP_IO" \in t.armed BY <1>2, <1>3, <1>5, ArmGood
  <2>2. t.esp.io_state = "TRANSFERING" BY <1>1, <1>3, <1>5, <2>1
  <2> QED BY <1>4, <2>1, <2>2 DEF Settled, Pending, SameReset
<1>6. CASE IsDone(m, phase) /\ phase # "DI"
  BY <1>2, <1>3, <1>4, <1>6 DEF Settled, Pending, SameReset
<1>7. CASE IsDone(m, phase) /\ phase = "DI"
  <2> DEFINE e == [u.esp EXCEPT !.io_state = "FLUSHING"]
             w == [u EXCEPT !.esp = e]
  <2>1. u \in Systems /\ Counted(u) BY <1>3 DEF Good
  <2>2. u.esp \in Chip BY <2>1, SystemParts
  <2>3. /\ e \in Chip /\ e.status = u.esp.status /\ e.state = u.esp.state
        /\ e.enable_int = u.esp.enable_int /\ e.counter = u.esp.counter
        /\ e.bottom = u.esp.bottom
    BY <2>2 DEF Chip
  <2>4. t = Arm(w, "ESP_IO") BY <1>2, <1>7, <2>1 DEF Systems
  <2> HIDE DEF e
  <2>5. Good(w) /\ w.esp = e /\ w.armed = u.armed BY <1>3, <2>1, <2>3, ChipGood DEF Counted
  <2> HIDE DEF w
  <2>6. Good(t) /\ t.esp = w.esp /\ t.armed = w.armed \cup {"ESP_IO"} BY <2>4, <2>5, ArmGood
  <2> QED BY <1>3, <1>4, <1>7, <2>3, <2>5, <2>6 DEF Settled, Pending, SameReset
<1> QED BY <1>5, <1>6, <1>7

LEMMA IoHandlerInv ==
  ASSUME IInv, IoHandler
  PROVE  IInv'
<1> DEFINE s == [System EXCEPT !.armed = @ \ {"ESP_IO"}]
           F == {Moved(s, k) : k \in IF s.bus.phase = "DI" THEN 0..Movable(s) ELSE {0}}
           T == {IoTransfer(s, k) : k \in 0..Movable(s)}
           S == IF s.esp.io_state = "FLUSHING" THEN F
                ELSE IF s.bus.phase \in {"DI", "DO"} THEN T ELSE {Arm(s, "ESP_IO")}
<1>1. Becomes(S) BY DEF IoHandler
<1>2. Good(System) /\ Settled(System) BY DEF IInv
<1>3. System \in Systems BY <1>2 DEF Good
<1>4. System.armed \ {"ESP_IO"} \in SUBSET {"ESP", "ESP_IO"} BY <1>3, SystemParts
<1>5. /\ s \in Systems /\ s.esp = System.esp /\ s.bus = System.bus /\ s.line = System.line
      /\ s.armed = System.armed \ {"ESP_IO"}
  BY <1>3, <1>4 DEF Systems
<1> HIDE DEF s
<1>6. Good(s) BY <1>2, <1>5 DEF Good, DataLeft, Follows, Counted
<1>7. /\ "WAITING" \in s.esp.state => "INPROGRESS" \in s.esp.state
      /\ s.esp.bottom = "RESET" => s.esp.state = {}
  BY <1>2, <1>5 DEF Settled
<1>8. Movable(s) \in Nat BY <1>5, MovableBounds
<1>9. s.esp.io_state \in {"TRANSFERING", "FLUSHING"} BY <1>5, SystemParts DEF Chip
<1>10. ASSUME s.esp.io_state = "FLUSHING", NEW w \in F PROVE Good(w) /\ Settled(w)
  <2>1. PICK k \in 0..Movable(s) : w = Moved(s, k) BY <1>8
  <2>2. /\ Good(w) /\ w.armed = s.armed /\ w.esp.state = s.esp.state
        /\ w.esp.status = s.esp.status /\ w.esp.io_state = s.esp.io_state
        /\ SameReset(s, w)
    BY <1>6, <2>1, MovedGood
  <2>3. "INPROGRESS" \in s.esp.state => "INT" \in s.esp.status \/ "ESP" \in s.armed
    BY <1>2, <1>5, <1>10 DEF Settled, Pending
  <2> QED BY <1>7, <2>2, <2>3 DEF Settled, Pending, SameReset
<1>11. ASSUME s.esp.io_state = "TRANSFERING", NEW w \in T PROVE Good(w) /\ Settled(w)
  BY <1>6, <1>7, <1>11, IoTransferSettled
<1>12. ASSUME s.esp.io_state = "TRANSFERING", NEW w, w = Arm(s, "ESP_IO")
       PROVE Good(w) /\ Settled(w)
  <2>1. Good(w) /\ w.esp = s.esp /\ "ESP_IO" \in w.armed BY <1>6, <1>12, ArmGood
  <2> QED BY <1>7, <1>12, <2>1 DEF Settled, Pending
<1> HIDE DEF F, T
<1>13. \A w \in S : Good(w) /\ Settled(w) BY <1>9, <1>10, <1>11, <1>12
<1> HIDE DEF S
<1> QED BY <1>1, <1>13, BecomesInv

LEMMA InitInv == ASSUME Init PROVE IInv
<1>1. esp \in Chip BY DEF Init, Chip, Commands
<1>2. bus \in Buses BY DataAssumption DEF Init, Buses, Phases
<1>3. System \in Systems BY <1>1, <1>2 DEF Init, System, Systems
<1>4. DataLeft(System) /\ Follows(System) /\ Counted(System) /\ Settled(System)
  BY SystemIs DEF Init, DataLeft, Follows, Counted, Settled
<1> QED BY <1>3, <1>4 DEF IInv, Good

LEMMA NextInv == ASSUME IInv, [Next]_vars PROVE IInv'
<1>1. CASE Next
  BY <1>1, CommandWriteInv, IntStatusReadInv, ControlWriteInv, ConfigurationWriteInv,
     InterruptHandlerInv, IoHandlerInv DEF Next
<1>2. CASE UNCHANGED vars
  BY <1>2 DEF vars, IInv, System
<1> QED BY <1>1, <1>2

LEMMA Invariant == Spec => []IInv
BY InitInv, NextInv, PTL DEF Spec

-----------------------------------------------------------------------------
\* The state of the controller keeps its types, and a data phase never counts
\* below zero (scsi.c, esp.c).
THEOREM TypeCorrect == Spec => []TypeOK
<1>1. ASSUME IInv PROVE TypeOK
  <2>1. System \in Systems BY <1>1 DEF IInv, Good
  <2>2. /\ esp \in Chip /\ bus.phase \in Phases /\ bus.left \in Nat /\ bus.left <= MaxData
        /\ armed \in SUBSET {"ESP", "ESP_IO"} /\ line \in BOOLEAN
    BY <2>1, SystemParts, SystemIs
  <2> QED BY <2>2, DataAssumption DEF TypeOK
<1> QED BY <1>1, Invariant, PTL

\* The line to the CPU is raised and lowered with the interrupt and its gate,
\* in whatever order the guest acknowledges, resets and gates (esp.c:187, 570,
\* 615, 630).
THEOREM LineFollowsInterrupt == Spec => []LineFollows
<1>1. ASSUME IInv PROVE LineFollows
  BY <1>1, SystemIs DEF IInv, Good, Follows, LineFollows
<1> QED BY <1>1, Invariant, PTL

\* A transfer that is reported complete has counted all its bytes, however
\* often DMA moved some of them (esp.c:454, 760).
THEOREM CompleteIsCounted == Spec => []CompleteMeansCounted
<1>1. ASSUME IInv PROVE CompleteMeansCounted
  BY <1>1, SystemIs DEF IInv, Good, Counted, CompleteMeansCounted
<1> QED BY <1>1, Invariant, PTL

\* The command register never jams: what is in progress ends or is
\* acknowledged, and then what waits starts (esp.c:394-470, 615, 666).
THEOREM NeverJams == Spec => []NoStuckCommand
<1>1. ASSUME IInv PROVE NoStuckCommand
  BY <1>1, SystemIs DEF IInv, Settled, Pending, NoStuckCommand
<1> QED BY <1>1, Invariant, PTL

-----------------------------------------------------------------------------
(***************************************************************************)
(* How a chip reset leaves the command register.                           *)
(***************************************************************************)

\* A write of the command register while a chip reset is in it: any command but
\* NOP resets the chip once more.
LEMMA ResetWrite ==
  ASSUME IInv, esp.bottom = "RESET", NEW cmd \in Commands, NEW dma \in BOOLEAN,
         CommandWrite(cmd, dma), esp'.bottom # "RESET"
  PROVE  esp'.state = {} /\ armed' \subseteq armed
<1> DEFINE s == Written(System, cmd, dma)
           u == Promoted(s)
           atBottom == "bottom" \in s.esp.dmas
           atTop == "top" \in u.esp.dmas
<1>1. /\ Good(System) /\ System.esp.state = {} /\ System.esp.bottom = "RESET"
      /\ System.armed = armed
  BY SystemIs DEF IInv, Settled
<1>2. Good(s) /\ s.esp.state = {} /\ s.armed = armed BY <1>1, WrittenGood
<1>3. Becomes(IF s.esp.bottom \in {"RESET", "BUSRESET"}
              THEN StartCommand(s, s.esp.bottom, atBottom)
              ELSE IF "INPROGRESS" \in s.esp.state
              THEN {[s EXCEPT !.esp.state = @ \cup {"WAITING"}]}
              ELSE StartCommand(u, u.esp.top, atTop))
  BY DEF CommandWrite
<1>4. atBottom \in BOOLEAN /\ atTop \in BOOLEAN OBVIOUS
<1>5. System \in Systems BY <1>1 DEF Good
<1>6. CASE cmd # "NOP"
  <2>1. s = System BY <1>1, <1>6 DEF Written
  <2>2. PICK w \in StartCommand(s, "RESET", atBottom) : esp' = w.esp
    BY <1>1, <1>3, <2>1 DEF Becomes
  <2>3. PICK v \in Start(s, "RESET", atBottom) : w \in IF v.ends THEN FinishCommand(v) ELSE {v}
    BY DEF StartCommand
  <2>4. /\ Good(v) /\ SameReset(s, v) /\ v.esp.state \subseteq {"INPROGRESS"}
    BY <1>2, <1>4, <2>3, StartOutcome DEF Commands
  <2>5. v.ends BY <1>2, <1>4, <2>3, StartEnds
  <2>6. SameReset(v, w) BY <2>3, <2>4, <2>5, FinishAlone
  <2> QED BY <1>1, <2>1, <2>2, <2>4, <2>6 DEF SameReset
<1>7. CASE cmd = "NOP"
  <2>1. s.esp.bottom = "NOP"
    <3>1. System.esp \in Chip BY <1>5, SystemParts
    <3> QED BY <1>5, <1>7, <3>1 DEF Written, Systems, Chip
  <2>2. u.esp.top = "NOP"
    <3>1. s \in Systems BY <1>2 DEF Good
    <3>2. s.esp \in Chip BY <3>1, SystemParts
    <3> QED BY <2>1, <3>1, <3>2 DEF Promoted, Systems, Chip
  <2> HIDE DEF s
  <2>3. Good(u) /\ u.esp.state = {} /\ u.armed = armed BY <1>2, PromotedGood
  <2> HIDE DEF u
  <2>4. PICK w \in StartCommand(u, "NOP", atTop) : esp' = w.esp /\ armed' = w.armed
    BY <1>2, <1>3, <2>1, <2>2 DEF Becomes
  <2>5. PICK v \in Start(u, "NOP", atTop) : w \in IF v.ends THEN FinishCommand(v) ELSE {v}
    BY <2>4 DEF StartCommand
  <2>6. Good(v) /\ v.esp.state \subseteq {"INPROGRESS"}
    BY <1>4, <2>3, <2>5, StartOutcome DEF Commands
  <2>7. v.ends /\ v.armed = armed BY <1>4, <2>3, <2>5, StartEnds
  <2>8. w.esp.state = {} /\ w.armed = v.armed BY <2>5, <2>6, <2>7, FinishAlone
  <2> QED BY <2>4, <2>7, <2>8
<1> QED BY <1>6, <1>7

\* Nothing but a write of the command register takes a chip reset out of it.
LEMMA ResetStays ==
  ASSUME IInv, esp.bottom = "RESET", Next,
         \A cmd \in Commands, dma \in BOOLEAN : ~CommandWrite(cmd, dma)
  PROVE  esp'.bottom = "RESET"
<1>1. /\ Good(System) /\ Settled(System) /\ System.esp.state = {}
      /\ System.esp.bottom = "RESET" /\ System \in Systems
  BY SystemIs DEF IInv, Settled, Good
<1>2. esp \in Chip BY <1>1, SystemParts, SystemIs
<1>3. CASE IntStatusRead
  <2> DEFINE e == [esp EXCEPT !.intstatus = {}, !.status = @ \ {"GE", "INT"}]
             r == [System EXCEPT !.esp.intstatus = {}, !.line = FALSE,
                                 !.esp.status = @ \ {"GE", "INT"}]
  <2>1. PICK w \in FinishCommand(r) : esp' = w.esp BY <1>3 DEF IntStatusRead, Becomes
  <2>2. /\ e \in Chip /\ e.status = esp.status \ {"GE", "INT"} /\ e.counter = esp.counter
        /\ e.bottom = esp.bottom /\ e.state = esp.state
    BY <1>2 DEF Chip
  <2>3. r \in Systems /\ r.esp = e /\ r.bus = bus /\ r.line = FALSE
    BY <1>1, <2>2 DEF System, Systems
  <2> HIDE DEF e, r
  <2>4. Good(r) BY <1>1, <2>2, <2>3, SystemIs DEF Good, DataLeft, Follows, Counted
  <2>5. SameReset(r, w) BY <1>1, <2>1, <2>2, <2>3, <2>4, SystemIs, FinishAlone
  <2> QED BY <2>1, <2>2, <2>3, <2>5 DEF SameReset
<1>4. ASSUME NEW on \in BOOLEAN, NEW reset \in BOOLEAN, ControlWrite(on, reset)
      PROVE  esp'.bottom = "RESET"
  <2> DEFINE h == ResetHard(System)
             R == IF reset THEN FinishCommand(h) ELSE {System}
  <2>1. PICK s \in R : esp' = Gated(s, on).esp BY <1>4 DEF ControlWrite, Becomes
  <2>2. Good(h) /\ SameReset(System, h) /\ h.esp.state = {} BY <1>1, ResetHardGood
  <2> HIDE DEF h
  <2>3. Good(s) /\ Settled(s) /\ SameReset(System, s)
    <3>1. CASE reset
      <4>1. s \in FinishCommand(h) BY <2>1, <3>1
      <4>2. Good(s) /\ Settled(s) BY <2>2, <4>1, FinishSettled
      <4>3. SameReset(h, s) BY <2>2, <4>1, FinishAlone
      <4> QED BY <2>2, <4>2, <4>3 DEF SameReset
    <3>2. CASE ~reset
      BY <1>1, <2>1, <3>2 DEF SameReset
    <3> QED BY <3>1, <3>2
  <2>4. SameReset(s, Gated(s, on)) BY <2>3, GatedSettled
  <2> QED BY <1>1, <2>1, <2>3, <2>4 DEF SameReset
<1>5. CASE IoHandler
  <2> DEFINE s == [System EXCEPT !.armed = @ \ {"ESP_IO"}]
             F == {Moved(s, k) : k \in IF s.bus.phase = "DI" THEN 0..Movable(s) ELSE {0}}
             T == {IoTransfer(s, k) : k \in 0..Movable(s)}
             S == IF s.esp.io_state = "FLUSHING" THEN F
                  ELSE IF s.bus.phase \in {"DI", "DO"} THEN T ELSE {Arm(s, "ESP_IO")}
  <2>1. PICK w \in S : esp' = w.esp BY <1>5 DEF IoHandler, Becomes
  <2>2. System.armed \ {"ESP_IO"} \in SUBSET {"ESP", "ESP_IO"} BY <1>1, SystemParts
  <2>3. s \in Systems /\ s.esp = System.esp /\ s.bus = System.bus /\ s.line = System.line
    BY <1>1, <2>2 DEF Systems
  <2> HIDE DEF s
  <2>4. Good(s) BY <1>1, <2>3 DEF Good, DataLeft, Follows, Counted
  <2>5. Movable(s) \in Nat BY <2>3, MovableBounds
  <2>6. s.esp.io_state \in {"TRANSFERING", "FLUSHING"} BY <2>3, SystemParts DEF Chip
  <2>7. CASE w \in F
    <3>1. PICK k \in 0..Movable(s) : w = Moved(s, k) BY <2>5, <2>7
    <3>2. SameReset(s, w) BY <2>4, <3>1, MovedGood
    <3> QED BY <1>1, <2>1, <2>3, <3>2 DEF SameReset
  <2>8. CASE w \in T /\ s.esp.io_state = "TRANSFERING"
    <3>1. SameReset(s, w) BY <1>1, <2>3, <2>4, <2>8, IoTransferSettled
    <3> QED BY <1>1, <2>1, <2>3, <3>1 DEF SameReset
  <2>9. CASE w = Arm(s, "ESP_IO")
    BY <1>1, <2>1, <2>3, <2>4, <2>9, ArmGood
  <2> HIDE DEF F, T
  <2> QED BY <2>1, <2>6, <2>7, <2>8, <2>9
<1>6. CASE InterruptHandler BY <1>2, <1>6 DEF InterruptHandler, Chip
<1>7. ASSUME NEW on \in BOOLEAN, ConfigurationWrite(on) PROVE esp'.bottom = "RESET"
  BY <1>2, <1>7 DEF ConfigurationWrite, Chip
<1> QED BY <1>3, <1>4, <1>5, <1>6, <1>7 DEF Next

\* After a chip reset the command register takes nothing but NOP, and that NOP
\* starts nothing and arms nothing (esp.c:395, 420).
THEOREM ResetIsLeftByNop == Spec => OnlyNopLeavesReset
<1>1. ASSUME IInv, [Next]_vars
      PROVE  [esp.bottom = "RESET" /\ esp'.bottom # "RESET" =>
                esp'.state = {} /\ armed' \subseteq armed]_vars
  BY <1>1, ResetWrite, ResetStays
<1> QED BY <1>1, Invariant, PTL DEF Spec, OnlyNopLeavesReset
=============================================================================
