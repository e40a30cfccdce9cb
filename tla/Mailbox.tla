------------------------------ MODULE Mailbox ------------------------------
(***************************************************************************)
(* What the message port of a NeXTdimension board promises: a message once *)
(* posted stays until the board's processor takes all that is there, and   *)
(* nothing is taken that was not posted. A message has no count: posting   *)
(* one that is still there changes nothing.                                *)
(***************************************************************************)
CONSTANT Messages

VARIABLES
  posted,   \* sent and not yet taken
  taken     \* what the last look at the box returned

box == <<posted, taken>>

Init == posted = {"reset"} /\ taken = {}

Put(m) == posted' = posted \cup {m} /\ UNCHANGED taken

Take == taken' = posted /\ posted' = {}

\* A box whose owner was told to end is replaced, with what is in it.
New == "kill" \in taken /\ posted' = {"reset"} /\ UNCHANGED taken

Next == Take \/ New \/ \E m \in Messages : Put(m)

Spec == Init /\ [][Next]_box
=============================================================================
