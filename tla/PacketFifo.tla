----------------------------- MODULE PacketFifo -----------------------------
(***************************************************************************)
(* What the guest may rely on between the host's network and the emulated  *)
(* Ethernet: packets arrive in the order the network produced them, none   *)
(* twice. A packet that the network puts out waits for the guest until the *)
(* interface is stopped. There are two exceptions: the interface is gone   *)
(* already, or Capacity packets wait, which is an overrun, an error of the *)
(* caller and not the behaviour the queue promises (queue.h).              *)
(***************************************************************************)
EXTENDS Naturals, Sequences

CONSTANTS Capacity, Packets, NoPacket

VARIABLES running,   \* whether the interface is started
          waiting,   \* the packets on their way to the guest
          received,  \* the packet the guest received last
          output,    \* the packet put out last and the parity of all so far
          overrun    \* whether a packet was put out while Capacity waited

vars == <<running, waiting, received, output, overrun>>

Init == /\ running = FALSE /\ waiting = << >> /\ received = NoPacket
        /\ output = [packet |-> NoPacket, parity |-> 0] /\ overrun = FALSE

Start == /\ ~running /\ running'
         /\ waiting' = << >>
         /\ UNCHANGED <<received, output, overrun>>

Stop == /\ running /\ ~running'
        /\ UNCHANGED <<waiting, received, output, overrun>>

Flush == /\ ~running
         /\ waiting' = << >>
         /\ UNCHANGED <<running, received, output, overrun>>

PutOut(p) == output' = [packet |-> p, parity |-> 1 - output.parity]

Produce(p) == /\ PutOut(p)
              /\ Len(waiting) < Capacity
              /\ waiting' = Append(waiting, p)
              /\ UNCHANGED <<running, received, overrun>>

Overrun(p) == /\ PutOut(p)
              /\ Len(waiting) = Capacity
              /\ overrun'
              /\ UNCHANGED <<running, waiting, received>>

TooLate(p) == /\ PutOut(p)
              /\ ~running /\ waiting = << >>
              /\ UNCHANGED <<running, waiting, received, overrun>>

Receive == /\ running
           /\ waiting # << >>
           /\ received' = Head(waiting)
           /\ waiting' = Tail(waiting)
           /\ UNCHANGED <<running, output, overrun>>

Next == \/ Start \/ Stop \/ Flush \/ Receive
        \/ \E p \in Packets : Produce(p) \/ Overrun(p) \/ TooLate(p)

Spec == Init /\ [][Next]_vars
=============================================================================
