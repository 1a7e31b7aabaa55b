------------------------------ MODULE MCNetwork ------------------------------
(***************************************************************************)
(* Instances of Network for TLC: every topology of up to four routers, a   *)
(* ring of five, and the topology of the repository.                       *)
(***************************************************************************)
EXTENDS Network

Small == SUBSET {link \in SUBSET (1..4) : Cardinality(link) = 2}

Ring == {{1, 2}, {2, 3}, {3, 5}, {5, 4}, {4, 1}}

\* topo.map
Topo == {{1, 2}, {4, 2}, {2, 3}, {3, 5}, {3, 6}, {3, 7}, {1, 8}, {8, 9}, {9, 3}}

\* nodes.map
MapNodes == 1..7

AllMaps == Small \cup {Ring, Topo}

\* One flow that shares links with two others, one of them the way back, and
\* datagrams for an address that belongs to no node.
MeetingFlows == {<<1, 3>>, <<2, 3>>, <<3, 1>>, <<2, 99>>}
=============================================================================
