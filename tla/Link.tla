-------------------------------- MODULE Link --------------------------------
(***************************************************************************)
(* One direction of the path between two peers.  Every datagram passes the *)
(* drop-tail queue of hupsim.pl (package NSQueue) and UDP, which may lose, *)
(* repeat or reorder what it carries.  A queue is a sequence of packets in *)
(* flight, oldest first.                                                   *)
(***************************************************************************)
EXTENDS Integers, SequencesExt

CONSTANTS
  CAP,     \* packets one queue holds (queueSize in hupsim.pl, column 4 of topo.map)
  Faults   \* the faults of the network: a subset of the names below

LinkAssumption ==
  /\ CAP \in Nat \ {0}
  /\ Faults \subseteq {"lose", "duplicate", "reorder"}

ASSUME LinkAssumption

\* What is in flight after a burst is sent: enQ appends a packet while there is
\* room and drops it when the queue is full.
Enqueue(queue, burst) ==
  LET sent == queue \o burst
  IN  SubSeq(sent, 1, IF Len(sent) <= CAP THEN Len(sent) ELSE CAP)

\* The positions whose packet may be the next to arrive: run() serves the head.
Arrivals(queue) ==
  IF "reorder" \in Faults THEN DOMAIN queue ELSE {1} \cap DOMAIN queue

\* What may be in flight after the packet at position i has arrived.
After(queue, i) ==
  {RemoveAt(queue, i)} \cup (IF "duplicate" \in Faults THEN {queue} ELSE {})

\* A step of a network that loses packets, on the queue before and after it.
Loses(queue, rest) ==
  /\ "lose" \in Faults
  /\ \E i \in Arrivals(queue) : rest = RemoveAt(queue, i)
=============================================================================
