------------------------------- MODULE Timers -------------------------------
(***************************************************************************)
(* What the emulator's devices expect of the interrupt scheduler: every    *)
(* armed timer counts down by the cycles that elapse, whatever happens to  *)
(* the other timers; a handler runs only when its own count is used up,    *)
(* and the timer that is due longest runs first.                           *)
(*                                                                         *)
(* CycInt implements this with one table, one copy of the next entry and   *)
(* one counter of cycles that the table does not know of yet.              *)
(***************************************************************************)
EXTENDS Integers

CONSTANTS Ids,      \* the timers
          Delays,   \* the delays, in cycles, a timer can be armed with
          Quanta,   \* the numbers of cycles that can elapse at once
          Off       \* what a timer that is not armed has left

VARIABLES left,     \* left[h]: cycles until timer h is due, or Off
          called    \* the handler that ran last since cycles elapsed, 0 if none

vars == <<left, called>>

Armed(h) == left[h] # Off

Init == /\ left \in [Ids -> Delays \cup {Off}]
        /\ called = 0

\* Every armed timer moves by the same amount.
Elapse(c) == /\ left' = [h \in Ids |-> IF Armed(h) THEN left[h] - c ELSE Off]
             /\ called' = 0

\* A device arms or re-arms a timer from now, or gives it up.
Set(h) == /\ \E d \in Delays \cup {Off} : left' = [left EXCEPT ![h] = d]
          /\ UNCHANGED called

\* The timer that is due longest runs. Its handler may arm itself and others.
Fire(h) == /\ Armed(h)
           /\ left[h] <= 0
           /\ \A g \in Ids : Armed(g) => left[h] <= left[g]
           /\ called' = h
           /\ left' \in [Ids -> Int \cup {Off}]
           /\ \A g \in Ids : \/ left'[g] \in Delays \cup {Off}
                             \/ g # h /\ left'[g] = left[g]

\* The processor goes on only when nothing is due any more.
Resume == /\ \A h \in Ids : Armed(h) => left[h] > 0
          /\ called' = 0
          /\ UNCHANGED left

Next == \/ \E c \in Quanta : Elapse(c)
        \/ \E h \in Ids : Set(h) \/ Fire(h)
        \/ Resume

Spec == Init /\ [][Next]_vars
=============================================================================
