------------------------------- MODULE Queue -------------------------------
(***************************************************************************)
(* The packet queue between a host network thread and the emulated         *)
(* Ethernet controller (queue.c): a ring of MaxQueueSize slots. A queue is *)
(* a value here; the module that owns it makes it a variable.              *)
(***************************************************************************)
EXTENDS Integers, Sequences

CONSTANTS MaxQueueSize,  \* MAX_QUEUE_SIZE
          Packets,       \* the elements
          NoPacket       \* NULL

ASSUME QueueAssumption == MaxQueueSize \in Nat \ {0}
ASSUME PacketAssumption == NoPacket \notin Packets

Slots == 0..(MaxQueueSize - 1)

QueueType == [contents : [Slots -> Packets \cup {NoPacket}],
              front : Slots, count : 0..MaxQueueSize]

\* The slots of a new queue are not initialised and never read; NoPacket
\* stands for what malloc left there.
QueueCreate == [contents |-> [i \in Slots |-> NoPacket], front |-> 0, count |-> 0]

QueuePeek(q) == q.count
QueueIsFull(q) == q.count >= MaxQueueSize

\* Mutant: the slot after the first free one.
QueueEnterOffByOne(q, element) ==
  IF QueueIsFull(q) THEN q
  ELSE [q EXCEPT !.contents[(q.front + q.count + 1) % MaxQueueSize] = element,
                 !.count = @ + 1]

QueueEnter(q, element) ==
  IF QueueIsFull(q) THEN q
  ELSE [q EXCEPT !.contents[(q.front + q.count) % MaxQueueSize] = element,
                 !.count = @ + 1]

\* What QueueDelete returns, and the queue it leaves.
Oldest(q) == IF q.count <= 0 THEN NoPacket ELSE q.contents[q.front]

QueueDelete(q) ==
  IF q.count <= 0 THEN q
  ELSE [q EXCEPT !.front = (@ + 1) % MaxQueueSize, !.count = @ - 1]

\* What the queue stands for: its elements, oldest first.
Elements(q) ==
  [i \in 1..q.count |-> q.contents[(q.front + i - 1) % MaxQueueSize]]
=============================================================================
