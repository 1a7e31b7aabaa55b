------------------------------- MODULE Network -------------------------------
(***************************************************************************)
(* The network simulator hupsim.pl: routers joined by links, the routing   *)
(* table each of them computes when the simulator starts, and datagrams    *)
(* that travel from queue to queue.  A link is the set of its two ends, a  *)
(* queue belongs to one direction of it, and Link has what a queue does.   *)
(*                                                                         *)
(* When a datagram leaves a queue is a matter of sizes, rates and the      *)
(* clock; here the head of any queue may leave at any time.                *)
(*                                                                         *)
(* A definition named X_Slip is X with a slip a programmer could make; the *)
(* specification never uses it.                                            *)
(***************************************************************************)
EXTENDS Link, FiniteSets, FiniteSetsExt

CONSTANTS
  Maps,       \* the topologies considered: sets of links
  Nodes,      \* the nodes that nodes.map has an address of
  Flows,      \* pairs of nodes between which datagrams are sent
  SENDS       \* bound: datagrams that peers send

INFINITY == 65535

\* Links join two routers, and INFINITY is "bigger than # of routers".
NetworkAssumption ==
  /\ \A m \in Maps :
       /\ IsFiniteSet(UNION m) /\ Cardinality(UNION m) < INFINITY
       /\ \A link \in m : link \subseteq Nat \ {0} /\ Cardinality(link) = 2
  /\ Flows \subseteq (Nat \ {0}) \X (Nat \ {0})
  /\ SENDS \in Nat

ASSUME NetworkAssumption

VARIABLES
  map,            \* the topology read from topo.map
  self,           \* the router whose createTable runs, or None
  done,           \* the vertices it has visited
  distance,       \* vertex |-> its distance from self, as far as known
  predecessor,    \* vertex |-> its predecessor; createTable never resets them
  startRoute,     \* how far the way back to self has been followed, or None
  routingTable,   \* router |-> destination |-> the neighbour behind the queue to
                  \* use, or None
  queues,         \* <<router, neighbour>> |-> the datagrams in that queue
  sent,           \* datagrams sent so far
  arrived,        \* flow |-> the numbers of its datagrams, as they arrived
  died            \* the simulator has died

tableVars == <<self, done, distance, predecessor, startRoute, routingTable>>
packetVars == <<queues, sent, arrived>>
vars == <<map, tableVars, packetVars, died>>

None == 0         \* undef

\* The routers of topology m, and of the one that was read.
RoutersOf(m) == UNION m
Routers == RoutersOf(map)

Directions == {d \in Routers \X Routers : {d[1], d[2]} \in map}
Packet == [flow : Flows, n : 1..SENDS]

TypeOK ==
  /\ map \in Maps
  /\ self \in Routers \cup {None} /\ done \subseteq Routers
  /\ distance \in [Routers -> 0..INFINITY]
  /\ predecessor \in [Routers -> Routers \cup {None}]
  /\ startRoute \in Routers \cup {None}
  /\ routingTable \in [Routers -> [Routers -> Routers \cup {None}]]
  /\ queues \in [Directions -> Seq(Packet)]
  /\ \A d \in Directions : Len(queues[d]) <= CAP
  /\ sent \in 0..SENDS
  /\ arrived \in [Flows -> Seq(1..SENDS)]
  /\ died \in BOOLEAN

\* main: every line of topo.map adds a route in both directions.
Init ==
  /\ map \in Maps
  /\ self = None /\ done = {}
  /\ distance = [v \in Routers |-> INFINITY]
  /\ predecessor = [v \in Routers |-> None]
  /\ startRoute = None
  /\ routingTable = [r \in Routers |-> [v \in Routers |-> None]]
  /\ queues = [d \in Directions |-> <<>>]
  /\ sent = 0 /\ arrived = [f \in Flows |-> <<>>]
  /\ died = FALSE

-----------------------------------------------------------------------------
(* createTable: the routes from one router after the other, by Dijkstra's  *)
(* algorithm; a step is one round of one of its loops.                     *)

\* The routers linked to r in topology m.
Neighbours(m, r) == {v \in RoutersOf(m) : {r, v} \in m}

\* The destinations for which router r has no route yet.
Left(r) == {v \in Routers \ {r} : routingTable[r][v] = None}

First(S) == IF S = {} THEN None ELSE Min(S)

\* Slip: the distances of an earlier computation are kept.
Base_Kept(r) == [v \in Routers |-> IF v = r THEN 0 ELSE distance[v]]

\* The distances of the base state.
Base(r) == [v \in Routers |-> IF v = r THEN 0 ELSE INFINITY]

\* main calls createTable for the next router, in the order of their numbers.
CreateTable(r) ==
  /\ self = None
  /\ Left(r) # {} /\ \A q \in Routers : q < r => Left(q) = {}
  /\ self' = r
  /\ done' = {}
  /\ distance' = Base(r)
  /\ UNCHANGED <<predecessor, startRoute, routingTable, died>>

\* Slip: the first vertex not done is taken, whatever its distance.
Nearest_First == Min(Routers \ done)

\* The vertex to visit next: the first of the nearest ones that are not done.
Nearest ==
  Min({v \in Routers \ done : \A w \in Routers \ done : distance[v] <= distance[w]})

\* Slip: the weight of the link is forgotten.
Weight_Flat(d) == d

\* The distance of a neighbour over a vertex at distance d.
Weight(d) == d + 1

\* The vertices that vertex next brings nearer.
Closer(next) == {v \in Neighbours(map, next) : distance[v] > Weight(distance[next])}

\* The next vertex is visited and its edges are relaxed.
Visit ==
  /\ self # None /\ done # Routers
  /\ LET next == Nearest
     IN  /\ done' = done \cup {next}
         /\ distance' = [v \in Routers |->
              IF v \in Closer(next) THEN Weight(distance[next]) ELSE distance[v]]
         /\ predecessor' = [v \in Routers |->
              IF v \in Closer(next) THEN next ELSE predecessor[v]]
  /\ startRoute' = IF done' = Routers THEN First(Left(self)) ELSE None
  /\ UNCHANGED <<self, routingTable, died>>

\* The while loop takes one step back.  Where no predecessor is defined it goes on
\* for ever: to read the id of one brings it into being.
Follow ==
  /\ startRoute # None /\ predecessor[startRoute] # self
  /\ startRoute' = predecessor[startRoute]
  /\ UNCHANGED <<self, done, distance, predecessor, routingTable, died>>

\* The loop has come to a neighbour of self, which is the route for the vertex it
\* started from; the next vertex follows.
Enter ==
  /\ startRoute # None /\ predecessor[startRoute] = self
  /\ LET vertex == First(Left(self))
     IN  /\ routingTable' = [routingTable EXCEPT ![self][vertex] = startRoute]
         /\ startRoute' = First(Left(self) \ {vertex})
         /\ self' = IF Left(self) = {vertex} THEN None ELSE self
  /\ died' = (startRoute \notin Neighbours(map, self))
  /\ UNCHANGED <<done, distance, predecessor>>

Start ==
  /\ ~died
  /\ (\E r \in Routers : CreateTable(r)) \/ Visit \/ Follow \/ Enter
  /\ UNCHANGED <<map, packetVars>>

-----------------------------------------------------------------------------
(* recv and run. *)

\* Slip: the first queue of the router is taken.
NextHop_First(r, dest) == Min(Neighbours(map, r))

\* getQ: the neighbour behind the queue for a destination.
NextHop(r, dest) == routingTable[r][dest]

\* Slip: > instead of >=, one datagram more than the queue holds.
Queued_More(queue, p) == IF Len(queue) > CAP THEN queue ELSE Append(queue, p)

\* enQ
Queued(queue, p) == Enqueue(queue, <<p>>)

\* recv, for a destination that is no node: the datagram is dropped.
Drop(p, qs) ==
  /\ p.flow[2] \notin Nodes
  /\ queues' = qs
  /\ UNCHANGED <<arrived, died>>

\* recv, where the datagram has arrived: it is sent to the peer, and spiffy_recvfrom
\* tells the peer that it is from the node its header names.
Hand(r, p, qs) ==
  /\ p.flow[2] \in Nodes /\ r = p.flow[2]
  /\ arrived' = [arrived EXCEPT ![p.flow] = Append(@, p.n)]
  /\ queues' = qs
  /\ UNCHANGED died

\* recv, elsewhere: the datagram goes into the queue for its destination.
Pass(r, p, qs) ==
  /\ p.flow[2] \in Nodes /\ r # p.flow[2] /\ p.flow[2] \in Routers
  /\ queues' = [qs EXCEPT ![<<r, NextHop(r, p.flow[2])>>] = Queued(@, p)]
  /\ UNCHANGED <<arrived, died>>

\* recv, for a node of nodes.map that topo.map does not connect: no queue is found.
Die(r, p) ==
  /\ p.flow[2] \in Nodes /\ r # p.flow[2] /\ p.flow[2] \notin Routers
  /\ died' = TRUE
  /\ UNCHANGED <<queues, arrived>>

Recv(r, p, qs) == Drop(p, qs) \/ Hand(r, p, qs) \/ Pass(r, p, qs) \/ Die(r, p)

\* All tables are there and main listens; without routers, nothing can be sent.
Ready == Routers # {} /\ \A r \in Routers : Left(r) = {}

Up == Ready /\ ~died

\* spiffy_sendto: a header names the node that sends and the one it is meant for.
Headed(f, n) == [flow |-> f, n |-> n]

\* A peer sends a datagram to the simulator, which inserts it at the peer's router;
\* main ignores one from a node without a router.
Insert(f) ==
  /\ sent < SENDS
  /\ f[1] \in Routers
  /\ Up
  /\ sent' = sent + 1
  /\ Recv(f[1], Headed(f, sent + 1), queues)
  /\ UNCHANGED <<map, tableVars>>

\* Slip: pop instead of shift.
Due_Last(queue) == Len(queue)

\* The datagram that leaves a queue.
Due(queue) == 1

\* run: the head of a queue is due, and the router at the other end receives it.
Run(d) ==
  /\ queues[d] # <<>>
  /\ Up
  /\ LET i == Due(queues[d])
     IN  Recv(d[2], queues[d][i], [queues EXCEPT ![d] = RemoveAt(@, i)])
  /\ UNCHANGED <<map, tableVars, sent>>

Next ==
  \/ Start
  \/ \E f \in Flows : Insert(f)
  \/ \E d \in Directions : Run(d)

Spec == Init /\ [][Next]_vars

-----------------------------------------------------------------------------
(* What routes should be, said without an algorithm. *)

\* The routers that can be reached from r over at most k links of topology m.
Within(m, r, k) ==
  LET within[i \in Nat] ==
        IF i = 0 THEN {r} ELSE UNION {{v} \cup Neighbours(m, v) : v \in within[i - 1]}
  IN  within[k]

Distance(m, r, v) == Min({k \in 0..Cardinality(RoutersOf(m)) : v \in Within(m, r, k)})

Connected ==
  /\ Routers # {}
  /\ \A r \in Routers : Within(map, r, Cardinality(Routers)) = Routers

\* Every route is a shortest one, although each router computes its own table and
\* starts with the predecessors of another: the neighbour used is one step nearer.
RoutesAreShortest ==
  [][ \A r, v \in Routers : routingTable'[r][v] # routingTable[r][v] =>
        /\ routingTable'[r][v] \in Neighbours(map, r)
        /\ Distance(map, routingTable'[r][v], v) + 1 = Distance(map, r, v) ]_vars

\* The loop that follows predecessors back to self has them to follow, and each leads
\* one link nearer, whatever the routers before have left: if the topology is
\* connected, it ends.
WayBackGetsShorter ==
  startRoute # None /\ Connected =>
    /\ predecessor[startRoute] # None
    /\ Distance(map, self, predecessor[startRoute]) + 1 = Distance(map, self, startRoute)

\* The datagrams from one node to another arrive in the order in which they were
\* sent, whatever other traffic they meet and whichever are dropped on the way: it
\* is this that makes one queue per direction enough for two peers.
ArriveInOrder ==
  \A f \in Flows : \A i, j \in DOMAIN arrived[f] :
    i < j => arrived[f][i] < arrived[f][j]

-----------------------------------------------------------------------------
\* The simulator computes its tables, and some queue whose head is due is served again
\* and again.
Fairness == WF_vars(Start) /\ WF_vars(\E d \in Directions : Run(d))

FairSpec == Spec /\ Fairness

\* The simulator starts if the topology is connected: the loops of createTable end
\* for every router.
Starts == <>(Ready \/ ~Connected)

\* No datagram travels for ever: unless the simulator dies, every queue is empty in
\* the end.
Drains == <>[](died \/ \A d \in Directions : queues[d] = <<>>)
=============================================================================
