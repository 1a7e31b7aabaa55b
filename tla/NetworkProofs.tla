---------------------------- MODULE NetworkProofs ----------------------------
(***************************************************************************)
(* The simulator, for every topology and any flows: the tables it computes *)
(* are shortest routes, and the datagrams of a flow arrive in order.       *)
(***************************************************************************)
EXTENDS Network, LinkProofs, SListProofs, FiniteSetTheorems

TableTypes ==
  /\ map \in Maps
  /\ self \in Routers \cup {None} /\ done \subseteq Routers
  /\ distance \in [Routers -> 0..INFINITY]
  /\ predecessor \in [Routers -> Routers \cup {None}]
  /\ startRoute \in Routers \cup {None}
  /\ routingTable \in [Routers -> [Routers -> Routers \cup {None}]]
  /\ died \in BOOLEAN

\* What a predecessor is, even one that was left over.
PredInv == \A v \in Routers : predecessor[v] \in Neighbours(map, v) \cup {None}

\* Dijkstra's algorithm: what is known is known of a way, a vertex whose distance is
\* known has a predecessor that is done and one link nearer, the edges of vertices that
\* are done are relaxed, and these are no farther than the others.
DijkstraInv ==
  /\ distance[self] = 0
  /\ \A v \in Routers : distance[v] < INFINITY =>
       /\ v \in Within(map, self, distance[v])
       /\ v # self => /\ predecessor[v] \in Neighbours(map, v) \cap done
                      /\ distance[predecessor[v]] + 1 = distance[v]
  /\ \A u \in done : \A v \in Neighbours(map, u) : distance[v] <= distance[u] + 1
  /\ \A u \in done : \A v \in Routers \ done : distance[u] <= distance[v]

\* The way back from a vertex: what was followed of it is a way to the vertex, and it
\* never leaves the vertices of which no distance is known.
WalkInv ==
  LET vertex == First(Left(self))
  IN  /\ done = Routers /\ Left(self) # {}
      /\ distance[vertex] < INFINITY =>
           /\ startRoute # self /\ distance[startRoute] <= distance[vertex]
           /\ vertex \in Within(map, startRoute, distance[vertex] - distance[startRoute])
      /\ distance[vertex] = INFINITY => distance[startRoute] = INFINITY

\* A route leads to a neighbour that is one link nearer to the destination.
IsRoute(m, r, v, w) ==
  /\ w \in Neighbours(m, r)
  /\ Distance(m, r, v) \in Nat /\ Distance(m, w, v) \in Nat
  /\ Distance(m, w, v) + 1 = Distance(m, r, v)

TablesInv ==
  \A r, v \in Routers :
    routingTable[r][v] # None => v # r /\ IsRoute(map, r, v, routingTable[r][v])

TableInv ==
  /\ TableTypes
  /\ PredInv
  /\ self # None => Left(self) # {} /\ DijkstraInv
  /\ startRoute # None => self # None /\ WalkInv
  /\ TablesInv

-----------------------------------------------------------------------------
\* The datagrams have their types.
QueueTypes(qs) == qs \in [Directions -> Seq(Packet)] /\ \A d \in Directions : Len(qs[d]) <= CAP

PacketInv ==
  /\ QueueTypes(queues)
  /\ sent \in 0..SENDS
  /\ arrived \in [Flows -> Seq(1..SENDS)]

\* A set of routers that a datagram of flow f does not leave, with tables t.
Closed(t, S, f) ==
  /\ f[1] \in S
  /\ \A r \in S : r # f[2] => t[r][f[2]] \in S

\* The way of flow f: the routers that are in every such set.
OnWay(m, t, f) == {r \in RoutersOf(m) : \A S \in SUBSET RoutersOf(m) : Closed(t, S, f) => r \in S}

\* The places of datagrams of flow f in queues qs, and the number of the one at a place.
Places(qs, f) == {x \in (DOMAIN qs) \X (Nat \ {0}) :
                    x[2] \in DOMAIN qs[x[1]] /\ qs[x[1]][x[2]].flow = f}
At(qs, x) == qs[x[1]][x[2]].n

\* How far a datagram of flow f has to go from place x, and which of two is ahead.
ToGo(m, f, x) == Distance(m, x[1][1], f[2])

Ahead(m, f, x, y) ==
  \/ ToGo(m, f, x) < ToGo(m, f, y)
  \/ x[1] = y[1] /\ x[2] < y[2]

\* The datagrams of flow f are in the queues of its way, and who is ahead was sent
\* first: a are those that arrived, n have been sent.
InOrder(a) == \A i, j \in DOMAIN a : i < j => a[i] < a[j]

Placed(m, t, qs, a, n, f) ==
  \A x \in Places(qs, f) :
    /\ f[1] \in RoutersOf(m) /\ f[2] \in RoutersOf(m)
    /\ x[1][1] \in OnWay(m, t, f) /\ x[1][1] # f[2]
    /\ x[1][2] = t[x[1][1]][f[2]]
    /\ At(qs, x) <= n
    /\ \A i \in DOMAIN a : a[i] < At(qs, x)

Ordered(m, qs, f) ==
  \A x, y \in Places(qs, f) : Ahead(m, f, x, y) => At(qs, x) < At(qs, y)

Flown(m, t, qs, a, n, f) ==
  /\ Placed(m, t, qs, a, n, f)
  /\ Ordered(m, qs, f)
  /\ \A i \in DOMAIN a : a[i] <= n
  /\ InOrder(a)

Silent ==
  /\ \A d \in Directions : queues[d] = <<>>
  /\ \A f \in Flows : arrived[f] = <<>>

FlightInv ==
  /\ Ready => \A f \in Flows : Flown(map, routingTable, queues, arrived[f], sent, f)
  /\ ~Ready => Silent

-----------------------------------------------------------------------------
(* Topologies. *)

LEMMA Topology ==
  ASSUME NEW m \in Maps
  PROVE  /\ RoutersOf(m) \subseteq Nat \ {0} /\ None \notin RoutersOf(m)
         /\ IsFiniteSet(RoutersOf(m)) /\ Cardinality(RoutersOf(m)) \in Nat
         /\ Cardinality(RoutersOf(m)) < INFINITY
         /\ \A r : Neighbours(m, r) \subseteq RoutersOf(m)
         /\ \A r \in RoutersOf(m) : \A w \in Neighbours(m, r) : r \in Neighbours(m, w)
<1>1. /\ IsFiniteSet(RoutersOf(m)) /\ Cardinality(RoutersOf(m)) < INFINITY
      /\ \A link \in m : link \subseteq Nat \ {0}
  BY NetworkAssumption DEF NetworkAssumption, RoutersOf
<1>2. RoutersOf(m) \subseteq Nat \ {0}
  BY <1>1 DEF RoutersOf
<1>3. \A r : Neighbours(m, r) \subseteq RoutersOf(m)
  BY DEF Neighbours
<1>4. \A r \in RoutersOf(m) : \A w \in Neighbours(m, r) : r \in Neighbours(m, w)
  <2> TAKE r \in RoutersOf(m)
  <2> TAKE w \in Neighbours(m, r)
  <2>1. {r, w} = {w, r}
    OBVIOUS
  <2> QED  BY <2>1 DEF Neighbours
<1>5. Cardinality(RoutersOf(m)) \in Nat
  BY <1>1, FS_CardinalityType
<1> QED  BY <1>1, <1>2, <1>3, <1>4, <1>5 DEF None

Spread(m, S) == UNION {{v} \cup Neighbours(m, v) : v \in S}

LEMMA SpreadHas ==
  ASSUME NEW m, NEW S, NEW x
  PROVE  x \in Spread(m, S) <=> \E v \in S : x = v \/ x \in Neighbours(m, v)
BY DEF Spread

\* What can be reached over no link, and over one more link.
LEMMA WithinSteps ==
  ASSUME NEW m, NEW r
  PROVE  /\ Within(m, r, 0) = {r}
         /\ \A k \in Nat : Within(m, r, k + 1) = Spread(m, Within(m, r, k))
<1> DEFINE G(g, i) == IF i = 0 THEN {r} ELSE Spread(m, g[i - 1])
           Sat(g, n) == g = [i \in 0..n |-> G(g, i)]
<1>1. ASSUME NEW n \in Nat, NEW l \in Nat, NEW g, NEW h, Sat(g, n), Sat(h, l),
             NEW k \in Nat, k <= n, k <= l
      PROVE  g[k] = h[k]
  <2> DEFINE D == {i \in Nat : i <= n /\ i <= l /\ g[i] # h[i]}
             j == Min(D)
  <2> SUFFICES ASSUME g[k] # h[k] PROVE FALSE
    OBVIOUS
  <2>1. j \in D /\ \A i \in D : j <= i
    <3>1. D \subseteq Nat /\ k \in D
      BY <1>1
    <3> QED  BY <3>1, NatMin
  <2> HIDE DEF j
  <2>2. j \in 0..n /\ j \in 0..l /\ g[j] # h[j]
    BY <2>1
  <2>3. g[j] = G(g, j) /\ h[j] = G(h, j)
    BY <1>1, <2>2
  <2>4. j # 0
    BY <2>2, <2>3
  <2>5. j - 1 \notin D /\ j - 1 \in Nat /\ j - 1 <= n /\ j - 1 <= l
    BY <2>1, <2>2, <2>4
  <2>6. g[j - 1] = h[j - 1]
    BY <2>5
  <2> QED  BY <2>2, <2>3, <2>4, <2>6
<1>2. ASSUME NEW n \in Nat
      PROVE  \E g : Sat(g, n)
  <2> DEFINE D == {i \in Nat : ~ \E g : Sat(g, i)}
             j == Min(D)
  <2> SUFFICES ASSUME ~ \E g : Sat(g, n) PROVE FALSE
    OBVIOUS
  <2>1. j \in D /\ \A i \in D : j <= i
    <3>1. D \subseteq Nat /\ n \in D
      OBVIOUS
    <3> QED  BY <3>1, NatMin
  <2> HIDE DEF j
  <2>2. j \in Nat /\ ~ \E g : Sat(g, j)
    BY <2>1
  <2>3. CASE j = 0
    <3> DEFINE g == [i \in 0..0 |-> {r}]
    <3>1. \A i \in 0..0 : G(g, i) = {r}
      OBVIOUS
    <3>2. Sat(g, 0)
      BY <3>1
    <3> QED  BY <2>2, <2>3, <3>2
  <2>4. CASE j # 0
    <3> HIDE DEF D
    <3>0. j - 1 \in Nat /\ ~ (j <= j - 1)
      BY <2>2, <2>4
    <3>1. j - 1 \notin D
      BY <2>1, <3>0
    <3> USE DEF D
    <3>2. PICK g : Sat(g, j - 1)
      BY <3>0, <3>1
    <3> DEFINE h == [i \in 0..j |-> IF i = j THEN Spread(m, g[j - 1]) ELSE g[i]]
    <3>3. ASSUME NEW i \in 0..j PROVE h[i] = G(h, i)
      <4>1. CASE i = j
        <5>1. h[i] = Spread(m, g[j - 1]) /\ h[i - 1] = g[j - 1] /\ i # 0
          BY <2>2, <2>4, <4>1
        <5> QED  BY <4>1, <5>1
      <4>2. CASE i # j
        <5>1. i \in 0..j - 1 /\ h[i] = g[i]
          BY <2>2, <4>2
        <5>2. g[i] = G(g, i)
          BY <3>2, <5>1
        <5>3. i # 0 => h[i - 1] = g[i - 1]
          BY <2>2, <5>1
        <5> QED  BY <5>1, <5>2, <5>3
      <4> QED  BY <4>1, <4>2
    <3>4. Sat(h, j)
      BY <3>3
    <3> QED  BY <2>2, <3>4
  <2> QED  BY <2>3, <2>4
<1> DEFINE at(k) == CHOOSE g : Sat(g, k)
           f == [k \in Nat |-> at(k)[k]]
           w == CHOOSE w : w = [i \in Nat |-> G(w, i)]
<1>3. \A k \in Nat : Sat(at(k), k)
  BY <1>2
<1> HIDE DEF at
<1>4. ASSUME NEW i \in Nat PROVE f[i] = G(f, i)
  <2>1. Sat(at(i), i) /\ f[i] = at(i)[i]
    BY <1>3
  <2>2. at(i)[i] = G(at(i), i)
    <3> DEFINE g == at(i)
    <3>1. Sat(g, i)
      BY <2>1
    <3> HIDE DEF g
    <3>2. g = [x \in 0..i |-> G(g, x)]
      BY <3>1
    <3> HIDE DEF G
    <3>3. g[i] = G(g, i)
      BY <3>2
    <3> QED  BY <3>3 DEF g
  <2>3. CASE i = 0
    BY <2>1, <2>2, <2>3
  <2>4. CASE i # 0
    <3> HIDE DEF Sat
    <3>0. i - 1 \in Nat /\ i - 1 <= i /\ i - 1 <= i - 1
      BY <2>4
    <3>1. Sat(at(i - 1), i - 1) /\ f[i - 1] = at(i - 1)[i - 1]
      BY <1>3, <3>0
    <3>2. at(i)[i - 1] = at(i - 1)[i - 1]
      BY <1>1, <2>1, <3>0, <3>1
    <3> QED  BY <2>1, <2>2, <2>4, <3>1, <3>2
  <2> QED  BY <2>3, <2>4
<1>5. f = [i \in Nat |-> G(f, i)]
  BY <1>4
<1>6. w = [i \in Nat |-> G(w, i)]
  BY <1>5
<1>7. \A k : Within(m, r, k) = w[k]
  BY DEF Within, Spread
<1> HIDE DEF w
<1>8. \A i \in Nat : w[i] = G(w, i)
  <2> HIDE DEF G
  <2> QED  BY <1>6
<1>9. w[0] = {r}
  BY <1>8
<1>10. ASSUME NEW k \in Nat PROVE w[k + 1] = Spread(m, w[k])
  <2>1. k + 1 \in Nat /\ k + 1 # 0 /\ k + 1 - 1 = k
    OBVIOUS
  <2> QED  BY <1>8, <2>1
<1> QED  BY <1>7, <1>9, <1>10

\* Over one more link everything is reached that a neighbour reaches.
LEMMA WithinShift ==
  ASSUME NEW m, NEW r, NEW w \in Neighbours(m, r)
  PROVE  \A k \in Nat : Within(m, w, k) \subseteq Within(m, r, k + 1)
<1> DEFINE D == {k \in Nat : ~ (Within(m, w, k) \subseteq Within(m, r, k + 1))}
           j == Min(D)
<1> SUFFICES ASSUME D # {} PROVE FALSE
  OBVIOUS
<1>1. j \in D /\ \A i \in D : j <= i
  BY NatMin
<1> HIDE DEF j
<1>2. j \in Nat /\ ~ (Within(m, w, j) \subseteq Within(m, r, j + 1))
  BY <1>1
<1>3. j # 0
  <2> SUFFICES ASSUME j = 0 PROVE FALSE
    OBVIOUS
  <2>1. Within(m, w, 0) = {w} /\ Within(m, r, 0) = {r} /\ Within(m, r, 0 + 1) = Spread(m, Within(m, r, 0))
    BY WithinSteps
  <2>2. w \in Within(m, r, 0 + 1)
    BY <2>1, SpreadHas
  <2> QED  BY <1>2, <2>1, <2>2
<1>4. j - 1 \in Nat /\ j - 1 + 1 = j /\ ~ (j <= j - 1)
  BY <1>2, <1>3
<1>5. Within(m, w, j - 1) \subseteq Within(m, r, j)
  <2> HIDE DEF D
  <2>1. j - 1 \notin D
    BY <1>1, <1>4
  <2> QED  BY <1>4, <2>1 DEF D
<1>6. Within(m, w, j) = Spread(m, Within(m, w, j - 1)) /\ Within(m, r, j + 1) = Spread(m, Within(m, r, j))
  <2>1. \A k \in Nat : Within(m, w, k + 1) = Spread(m, Within(m, w, k))
    BY WithinSteps
  <2>2. \A k \in Nat : Within(m, r, k + 1) = Spread(m, Within(m, r, k))
    BY WithinSteps
  <2> QED  BY <1>2, <1>4, <2>1, <2>2
<1> QED  BY <1>2, <1>5, <1>6, SpreadHas

\* A function that grows by no more than one along a link is no more than the distance.
LEMMA WithinBound ==
  ASSUME NEW m \in Maps, NEW r \in RoutersOf(m), NEW d \in [RoutersOf(m) -> Nat], d[r] = 0,
         \A u \in RoutersOf(m) : \A v \in Neighbours(m, u) : d[v] <= d[u] + 1
  PROVE  \A k \in Nat : \A v \in Within(m, r, k) : v \in RoutersOf(m) /\ d[v] <= k
<1> DEFINE D == {k \in Nat : ~ \A v \in Within(m, r, k) : v \in RoutersOf(m) /\ d[v] <= k}
           j == Min(D)
<1> SUFFICES ASSUME D # {} PROVE FALSE
  OBVIOUS
<1>1. j \in D /\ \A i \in D : j <= i
  BY NatMin
<1> HIDE DEF j
<1>2. j \in Nat
  BY <1>1
<1>3. PICK v \in Within(m, r, j) : ~ (v \in RoutersOf(m) /\ d[v] <= j)
  BY <1>1
<1>4. j # 0
  <2> SUFFICES ASSUME j = 0 PROVE FALSE
    OBVIOUS
  <2>1. v = r
    BY <1>3, WithinSteps
  <2> QED  BY <1>3, <2>1
<1>5. j - 1 \in Nat /\ j - 1 + 1 = j /\ ~ (j <= j - 1)
  BY <1>2, <1>4
<1>6. \A u \in Within(m, r, j - 1) : u \in RoutersOf(m) /\ d[u] <= j - 1
  <2> HIDE DEF D
  <2>1. j - 1 \notin D
    BY <1>1, <1>5
  <2> QED  BY <1>5, <2>1 DEF D
<1>7. Within(m, r, j) = Spread(m, Within(m, r, j - 1))
  <2>1. \A k \in Nat : Within(m, r, k + 1) = Spread(m, Within(m, r, k))
    BY WithinSteps
  <2> QED  BY <1>5, <2>1
<1>8. PICK u \in Within(m, r, j - 1) : v = u \/ v \in Neighbours(m, u)
  BY <1>3, <1>7, SpreadHas
<1>9. u \in RoutersOf(m) /\ d[u] <= j - 1 /\ d[u] \in Nat
  BY <1>6
<1>10. CASE v = u
  BY <1>2, <1>3, <1>9, <1>10
<1>11. CASE v \in Neighbours(m, u)
  <2>1. v \in RoutersOf(m) /\ d[v] <= d[u] + 1 /\ d[v] \in Nat
    BY <1>9, <1>11, Topology
  <2> QED  BY <1>2, <1>3, <1>9, <2>1
<1> QED  BY <1>8, <1>10, <1>11

LEMMA DistanceLeast ==
  ASSUME NEW m \in Maps, NEW r, NEW v, NEW n \in Nat, n <= Cardinality(RoutersOf(m)),
         v \in Within(m, r, n), \A k \in Nat : v \in Within(m, r, k) => n <= k
  PROVE  Distance(m, r, v) = n
<1> DEFINE T == {k \in 0..Cardinality(RoutersOf(m)) : v \in Within(m, r, k)}
<1>1. n \in T /\ T \subseteq Nat /\ \A k \in T : n <= k
  BY Topology
<1>2. Min(T) \in T /\ Min(T) <= n
  BY <1>1, NatMin
<1>3. Min(T) = n
  <2> DEFINE t == Min(T)
  <2>1. t \in Nat /\ n <= t /\ t <= n
    BY <1>1, <1>2
  <2> HIDE DEF t
  <2>2. t = n
    BY <2>1
  <2> QED  BY <2>2 DEF t
<1> QED  BY <1>3 DEF Distance

\* If what lies below a limit and above 0 has something one lower, then it lies below
\* the number of routers.
LEMMA BelowCount ==
  ASSUME NEW m \in Maps, NEW d \in [RoutersOf(m) -> Nat], NEW limit \in Nat,
         \A u \in RoutersOf(m) : 0 < d[u] /\ d[u] < limit => \E p \in RoutersOf(m) : d[p] + 1 = d[u],
         NEW v \in RoutersOf(m), d[v] < limit
  PROVE  d[v] < Cardinality(RoutersOf(m))
<1> DEFINE A == {d[u] : u \in RoutersOf(m)}
<1>1. ASSUME NEW j \in 0..d[v], j \notin A PROVE FALSE
  <2> DEFINE D == {i \in Nat : i > j /\ i <= d[v] /\ i \in A}
             l == Min(D)
  <2>1. d[v] \in D
    <3>1. d[v] \in A /\ d[v] \in Nat
      OBVIOUS
    <3>2. d[v] # j
      BY <1>1
    <3> QED  BY <3>1, <3>2
  <2>2. l \in D /\ \A i \in D : l <= i
    BY <2>1, NatMin
  <2> HIDE DEF l
  <2>3. l \in Nat /\ l > j /\ l <= d[v] /\ l \in A
    BY <2>2
  <2>4. PICK u \in RoutersOf(m) : d[u] = l
    BY <2>3
  <2>5. PICK p \in RoutersOf(m) : d[p] + 1 = d[u]
    BY <2>3, <2>4
  <2>6. d[p] = l - 1 /\ d[p] \in A /\ d[p] \in Nat
    BY <2>4, <2>5
  <2>7. d[p] # j
    BY <1>1, <2>6
  <2>8. d[p] > j /\ d[p] <= d[v] /\ ~ (l <= d[p])
    BY <2>3, <2>6, <2>7
  <2>9. d[p] \in D
    BY <2>6, <2>8
  <2> QED  BY <2>2, <2>8, <2>9
<1> DEFINE f == [k \in 0..d[v] |-> CHOOSE u \in RoutersOf(m) : d[u] = k]
<1>2. \A k \in 0..d[v] : f[k] \in RoutersOf(m) /\ d[f[k]] = k
  BY <1>1
<1> HIDE DEF A
<1>3. f \in Injection(0..d[v], RoutersOf(m))
  <2>1. DOMAIN f = 0..d[v] /\ f \in [0..d[v] -> RoutersOf(m)]
    BY <1>2
  <2> HIDE DEF f
  <2>2. \A k, l \in 0..d[v] : f[k] = f[l] => k = l
    BY <1>2
  <2> QED  BY <2>1, <2>2 DEF Injection, IsInjective
<1>4. Cardinality(0..d[v]) <= Cardinality(RoutersOf(m))
  BY <1>3, FS_Injection, Topology
<1>5. Cardinality(0..d[v]) = d[v] + 1
  BY FS_Interval
<1> QED  BY <1>4, <1>5, Topology

-----------------------------------------------------------------------------
(* What the computed distances say. *)

LEMMA Infinite == INFINITY \in Nat /\ INFINITY > 1
BY DEF INFINITY

LEMMA FirstIn ==
  ASSUME NEW S, S \subseteq Nat \ {0}
  PROVE  /\ S = {} => First(S) = None
         /\ S # {} => First(S) \in S /\ First(S) # None
<1>1. CASE S = {}
  BY <1>1 DEF First
<1>2. CASE S # {}
  <2>1. Min(S) \in S
    <3>1. S \subseteq Nat
      OBVIOUS
    <3> QED  BY <1>2, <3>1, NatMin
  <2>2. First(S) = Min(S)
    BY <1>2 DEF First
  <2> QED  BY <1>2, <2>1, <2>2 DEF None
<1> QED  BY <1>1, <1>2

\* The topology that was read.
LEMMA Read ==
  ASSUME map \in Maps
  PROVE  /\ Routers \subseteq Nat \ {0} /\ None \notin Routers
         /\ IsFiniteSet(Routers) /\ Cardinality(Routers) \in Nat
         /\ Cardinality(Routers) < INFINITY
         /\ \A r : Neighbours(map, r) \subseteq Routers
         /\ \A r \in Routers : \A w \in Neighbours(map, r) : r \in Neighbours(map, w)
BY Topology DEF Routers

\* When every vertex is done, no way is shorter than the distance found.
LEMMA NoShorterWay ==
  ASSUME TableTypes, self \in Routers, DijkstraInv, done = Routers
  PROVE  \A k \in Nat : \A v \in Within(map, self, k) : distance[v] <= k
<1>1. distance \in [RoutersOf(map) -> Nat]
  BY DEF TableTypes, Routers
<1>2. map \in Maps /\ self \in RoutersOf(map) /\ distance[self] = 0
  BY DEF TableTypes, DijkstraInv, Routers
<1>3. \A u \in RoutersOf(map) : \A v \in Neighbours(map, u) : distance[v] <= distance[u] + 1
  BY DEF DijkstraInv, Routers
<1> QED  BY <1>1, <1>2, <1>3, WithinBound

LEMMA KnownIsDistance ==
  ASSUME TableTypes, self \in Routers, DijkstraInv, done = Routers,
         NEW v \in Routers, distance[v] < INFINITY
  PROVE  /\ distance[v] \in Nat /\ distance[v] < Cardinality(Routers)
         /\ Distance(map, self, v) = distance[v]
<1>1. distance \in [RoutersOf(map) -> Nat] /\ map \in Maps /\ v \in RoutersOf(map)
  BY DEF TableTypes, Routers
<1>2. \A u \in Routers : 0 < distance[u] /\ distance[u] < INFINITY =>
         \E p \in Routers : distance[p] + 1 = distance[u]
  <2> TAKE u \in Routers
  <2> HAVE 0 < distance[u] /\ distance[u] < INFINITY
  <2>1. u # self
    BY DEF DijkstraInv
  <2>2. predecessor[u] \in done /\ distance[predecessor[u]] + 1 = distance[u]
    BY <2>1 DEF DijkstraInv
  <2> QED  BY <2>2
<1>3. distance[v] < Cardinality(Routers)
  BY <1>1, <1>2, BelowCount, Infinite DEF Routers
<1>4. v \in Within(map, self, distance[v])
  BY DEF DijkstraInv
<1>5. \A k \in Nat : v \in Within(map, self, k) => distance[v] <= k
  BY NoShorterWay
<1>6. distance[v] \in Nat /\ distance[v] <= Cardinality(Routers)
  BY <1>1, <1>3, Read
<1>7. Distance(map, self, v) = distance[v]
  BY <1>1, <1>4, <1>5, <1>6, DistanceLeast DEF Routers
<1> QED  BY <1>3, <1>6, <1>7

\* A vertex without a known distance has neighbours without one.
LEMMA FarIsFar ==
  ASSUME TableTypes, self \in Routers, DijkstraInv, done = Routers,
         NEW v \in Routers, distance[v] = INFINITY, NEW w \in Neighbours(map, v)
  PROVE  distance[w] = INFINITY
<1>1. w \in Routers /\ v \in Neighbours(map, w)
  BY Read DEF TableTypes
<1>2. distance[w] \in 0..INFINITY
  BY <1>1 DEF TableTypes
<1>3. distance[v] <= distance[w] + 1
  BY <1>1 DEF DijkstraInv
<1>4. SUFFICES ASSUME distance[w] < INFINITY PROVE FALSE
  BY <1>2, Infinite
<1>5. distance[w] < Cardinality(Routers) /\ Cardinality(Routers) < INFINITY /\ Cardinality(Routers) \in Nat
  BY <1>1, <1>4, KnownIsDistance, Read DEF TableTypes
<1> QED  BY <1>2, <1>3, <1>5, Infinite

\* A neighbour on a way of that length is the route.
LEMMA RouteFound ==
  ASSUME TableTypes, self \in Routers, DijkstraInv, done = Routers,
         NEW v \in Routers, distance[v] < INFINITY, distance[v] > 0,
         NEW w \in Neighbours(map, self), v \in Within(map, w, distance[v] - 1)
  PROVE  IsRoute(map, self, v, w)
<1>1. /\ distance[v] \in Nat /\ distance[v] < Cardinality(Routers)
      /\ Distance(map, self, v) = distance[v]
  BY KnownIsDistance
<1> DEFINE n == distance[v] - 1
<1>2. n \in Nat /\ n <= Cardinality(Routers) /\ n + 1 = distance[v]
  BY <1>1, Read DEF TableTypes
<1>3. ASSUME NEW k \in Nat, v \in Within(map, w, k) PROVE n <= k
  <2>1. v \in Within(map, self, k + 1)
    BY <1>3, WithinShift
  <2>2. distance[v] <= k + 1
    BY <2>1, NoShorterWay
  <2> QED  BY <1>1, <2>2
<1>4. map \in Maps /\ v \in Within(map, w, n)
  BY DEF TableTypes
<1> HIDE DEF n
<1>5. Distance(map, w, v) = n
  BY <1>2, <1>3, <1>4, DistanceLeast DEF Routers
<1> QED  BY <1>1, <1>2, <1>5 DEF IsRoute

-----------------------------------------------------------------------------
(* createTable keeps its invariant. *)

LEMMA TableInit == Init => TableInv
<1> SUFFICES ASSUME Init PROVE TableInv
  OBVIOUS
<1>1. None \notin Routers
  BY Read DEF Init
<1>2. TableTypes
  <2>1. INFINITY \in 0..INFINITY
    BY Infinite
  <2> QED  BY <2>1 DEF Init, TableTypes
<1>5. PredInv
  BY DEF Init, PredInv
<1>3. self = None /\ startRoute = None
  BY DEF Init
<1>4. TablesInv
  BY DEF Init, TablesInv
<1> QED  BY <1>2, <1>3, <1>4, <1>5 DEF TableInv

\* The distances at the start of a computation.
LEMMA CreateTableKeeps ==
  ASSUME TableInv, NEW r \in Routers, CreateTable(r), map' = map
  PROVE  TableInv'
<1>1. /\ Routers' = Routers /\ self' = r /\ done' = {} /\ distance' = Base(r)
      /\ predecessor' = predecessor /\ startRoute' = startRoute
      /\ routingTable' = routingTable /\ died' = died /\ self = None /\ Left(r) # {}
  BY DEF CreateTable, Routers
<1>2. TableTypes /\ PredInv /\ TablesInv /\ r # None /\ startRoute = None
  BY <1>1, Read DEF TableInv, TableTypes
<1>3. TableTypes'
  <2>1. Base(r) \in [Routers -> 0..INFINITY]
    BY Infinite DEF Base
  <2> QED  BY <1>1, <1>2, <2>1 DEF TableTypes
<1>4. PredInv' /\ TablesInv'
  <2>1. PredInv'
    BY <1>1, <1>2 DEF PredInv
  <2>2. TablesInv'
    BY <1>1, <1>2 DEF TablesInv, IsRoute
  <2> QED  BY <2>1, <2>2
<1>5. (Left(self) # {})'
  BY <1>1 DEF Left
<1>6. DijkstraInv'
  <2>1. distance'[r] = 0
    BY <1>1 DEF Base
  <2>2. \A v \in Routers : distance'[v] < INFINITY => v = r
    BY <1>1, Infinite DEF Base
  <2>3. r \in Within(map, r, 0)
    BY WithinSteps
  <2> QED  BY <1>1, <2>1, <2>2, <2>3 DEF DijkstraInv
<1> QED  BY <1>1, <1>2, <1>3, <1>4, <1>5, <1>6 DEF TableInv

\* The next vertex is not done and as near as any other that is not.
LEMMA NearestIs ==
  ASSUME TableTypes, done # Routers
  PROVE  /\ Nearest \in Routers \ done
         /\ \A w \in Routers \ done : distance[Nearest] <= distance[w]
<1> DEFINE R == Routers \ done
           D == {distance[v] : v \in R}
           S == {v \in R : \A w \in R : distance[v] <= distance[w]}
<1>1. R # {} /\ D \subseteq Nat /\ D # {}
  <2>1. R # {}
    BY DEF TableTypes
  <2>2. \A v \in R : distance[v] \in Nat
    BY DEF TableTypes
  <2> QED  BY <2>1, <2>2
<1>2. Min(D) \in D /\ \A y \in D : Min(D) <= y
  <2> HIDE DEF D
  <2> QED  BY <1>1, NatMin
<1>3. PICK v \in R : distance[v] = Min(D)
  BY <1>2
<1>4. v \in S
  BY <1>2, <1>3
<1>5. S \subseteq Nat /\ S # {}
  BY <1>4, Read DEF TableTypes
<1>6. Min(S) \in S
  <2> HIDE DEF S
  <2> QED  BY <1>5, NatMin
<1>7. Nearest = Min(S)
  BY DEF Nearest
<1> HIDE DEF D
<1> QED  BY <1>6, <1>7

\* What a visit does to the distances and to the predecessors.
LEMMA VisitDoes ==
  ASSUME TableInv, Visit, map' = map
  PROVE  /\ Routers' = Routers /\ self' = self /\ routingTable' = routingTable /\ died' = died
         /\ self \in Routers /\ done # Routers /\ DijkstraInv /\ TableTypes
         /\ Nearest \in Routers \ done /\ done' = done \cup {Nearest}
         /\ \A w \in Routers \ done : distance[Nearest] <= distance[w]
         /\ \A v \in Routers : distance[v] \in 0..INFINITY
         /\ DOMAIN distance' = Routers
         /\ \A v \in Routers :
              distance'[v] = IF v \in Closer(Nearest) THEN distance[Nearest] + 1 ELSE distance[v]
         /\ predecessor' = [v \in Routers |->
              IF v \in Closer(Nearest) THEN Nearest ELSE predecessor[v]]
         /\ \A v \in Closer(Nearest) :
              /\ v \in Neighbours(map, Nearest) /\ v \in Routers /\ v \notin done /\ v # Nearest
              /\ v # self /\ distance[v] > distance[Nearest] + 1
              /\ distance[Nearest] + 1 < INFINITY
<1>1. TableTypes /\ self # None /\ done # Routers /\ DijkstraInv /\ Routers' = Routers
  BY DEF TableInv, Visit, Routers
<1>2. /\ Nearest \in Routers \ done
      /\ \A w \in Routers \ done : distance[Nearest] <= distance[w]
  BY <1>1, NearestIs
<1>3. self \in Routers /\ \A v \in Routers : distance[v] \in 0..INFINITY
  BY <1>1 DEF TableTypes
<1>4. /\ self' = self /\ routingTable' = routingTable /\ died' = died
      /\ done' = done \cup {Nearest}
      /\ predecessor' = [v \in Routers |->
              IF v \in Closer(Nearest) THEN Nearest ELSE predecessor[v]]
      /\ distance' = [v \in Routers |->
              IF v \in Closer(Nearest) THEN Weight(distance[Nearest]) ELSE distance[v]]
  BY DEF Visit
<1>5. ASSUME NEW v \in Closer(Nearest)
      PROVE  /\ v \in Neighbours(map, Nearest) /\ v \in Routers /\ v \notin done /\ v # Nearest
             /\ v # self /\ distance[v] > distance[Nearest] + 1
             /\ distance[Nearest] + 1 < INFINITY
  <2>1. v \in Neighbours(map, Nearest) /\ distance[v] > distance[Nearest] + 1
    BY DEF Closer, Weight
  <2>2. v \in Routers
    BY <1>1, <2>1, Read DEF TableTypes
  <2>3. distance[v] \in 0..INFINITY /\ distance[Nearest] \in 0..INFINITY
    BY <1>2, <1>3, <2>2
  <2>4. v # Nearest /\ distance[Nearest] + 1 < INFINITY
    BY <2>1, <2>3, Infinite
  <2>5. v # self
    BY <1>1, <2>1, <2>3 DEF DijkstraInv
  <2>6. v \notin done
    <3> SUFFICES ASSUME v \in done PROVE FALSE
      OBVIOUS
    <3>1. distance[v] <= distance[Nearest]
      BY <1>1, <1>2 DEF DijkstraInv
    <3> QED  BY <2>1, <2>3, <3>1
  <2> QED  BY <2>1, <2>2, <2>4, <2>5, <2>6
<1>6. /\ DOMAIN distance' = Routers
      /\ \A v \in Routers :
           distance'[v] = IF v \in Closer(Nearest) THEN distance[Nearest] + 1 ELSE distance[v]
  BY <1>4 DEF Weight
<1> QED  BY <1>1, <1>2, <1>3, <1>4, <1>5, <1>6

LEMMA VisitTypes ==
  ASSUME TableInv, Visit, map' = map
  PROVE  TableTypes' /\ PredInv' /\ TablesInv' /\ (Left(self))' = Left(self)
<1> USE VisitDoes
<1>1. PredInv /\ TablesInv /\ map \in Maps
  BY DEF TableInv, TableTypes
<1>2. PredInv'
  <2> SUFFICES ASSUME NEW v \in Routers PROVE predecessor'[v] \in Neighbours(map, v) \cup {None}
    BY DEF PredInv
  <2>1. CASE v \in Closer(Nearest)
    BY <1>1, <2>1, Read
  <2>2. CASE v \notin Closer(Nearest)
    BY <1>1, <2>2 DEF PredInv
  <2> QED  BY <2>1, <2>2
<1>3. (Left(self))' = Left(self)
  BY DEF Left
<1>4. TablesInv'
  BY <1>1 DEF TablesInv, IsRoute
<1>5. \A v \in Routers : distance'[v] \in 0..INFINITY
  <2> TAKE v \in Routers
  <2>1. CASE v \in Closer(Nearest)
    <3>1. distance'[v] = distance[Nearest] + 1 /\ distance[Nearest] + 1 < INFINITY
      BY <2>1
    <3>2. distance[Nearest] \in 0..INFINITY
      OBVIOUS
    <3> QED  BY <3>1, <3>2, Infinite
  <2>2. CASE v \notin Closer(Nearest)
    BY <2>2
  <2> QED  BY <2>1, <2>2
<1>6. distance' \in [Routers -> 0..INFINITY]
  <2>1. \E g : distance' = [v \in Routers |-> g[v]]
    BY DEF Visit
  <2> QED  BY <1>5, <2>1
<1>7. predecessor' \in [Routers -> Routers \cup {None}]
  <2>1. \A v \in Routers : predecessor[v] \in Routers \cup {None}
    BY DEF TableTypes
  <2> QED  BY <2>1
<1>8. startRoute' \in Routers \cup {None}
  <2>1. Left(self) \subseteq Routers /\ Left(self) \subseteq Nat \ {0}
    BY <1>1, Read DEF Left
  <2>2. First(Left(self)) \in Routers \cup {None}
    BY <2>1, FirstIn
  <2> QED  BY <2>2 DEF Visit
<1>9. TableTypes'
  BY <1>6, <1>7, <1>8 DEF TableTypes
<1> QED  BY <1>2, <1>3, <1>4, <1>9

\* Among vertices that are not done, one more that is nearest becomes done.
LEMMA VisitKeepsDijkstra ==
  ASSUME TableInv, Visit, map' = map
  PROVE  DijkstraInv'
<1> USE VisitDoes
<1> DEFINE next == Nearest
           d == distance[next]
<1>0. map \in Maps /\ d \in 0..INFINITY /\ next \in Routers /\ next \notin done
  BY DEF TableTypes
<1>1. distance'[next] = d /\ \A u \in done : u \in Routers /\ distance'[u] = distance[u]
  BY DEF TableTypes
<1>2. distance'[self] = 0
  BY DEF DijkstraInv
<1>3. ASSUME NEW v \in Routers, distance'[v] < INFINITY
      PROVE  /\ v \in Within(map, self, distance'[v])
             /\ v # self => /\ predecessor'[v] \in Neighbours(map, v) \cap done'
                            /\ distance'[predecessor'[v]] + 1 = distance'[v]
  <2>1. CASE v \in Closer(next)
    <3>0. v \in Neighbours(map, next) /\ d + 1 < INFINITY
      BY <2>1
    <3>1. distance'[v] = d + 1 /\ predecessor'[v] = next /\ v \in Neighbours(map, next) /\ d < INFINITY
      BY <1>0, <2>1, <3>0, Infinite
    <3>2. next \in Within(map, self, d)
      BY <1>0, <3>1 DEF DijkstraInv
    <3>3. Within(map, self, d + 1) = Spread(map, Within(map, self, d))
      <4>1. d \in Nat
        BY <1>0
      <4> HIDE DEF d
      <4> QED  BY <4>1, WithinSteps
    <3>4. v \in Within(map, self, d + 1)
      BY <3>1, <3>2, <3>3, SpreadHas
    <3>5. next \in Neighbours(map, v)
      BY <1>0, <3>1, Read
    <3> QED  BY <1>0, <1>1, <3>1, <3>4, <3>5
  <2>2. CASE v \notin Closer(next)
    <3>1. distance'[v] = distance[v] /\ predecessor'[v] = predecessor[v]
      BY <2>2
    <3>2. v \in Within(map, self, distance[v])
      BY <1>3, <3>1 DEF DijkstraInv
    <3>3. ASSUME v # self
          PROVE  /\ predecessor[v] \in Neighbours(map, v) \cap done
                 /\ distance[predecessor[v]] + 1 = distance[v]
      BY <1>3, <3>1, <3>3 DEF DijkstraInv
    <3> QED  BY <1>1, <3>1, <3>2, <3>3
  <2> QED  BY <2>1, <2>2
<1>4. ASSUME NEW u \in done', NEW v \in Neighbours(map, u)
      PROVE  distance'[v] <= distance'[u] + 1
  <2>1. u \in Routers /\ v \in Routers /\ distance'[u] = distance[u]
    BY <1>0, <1>1, Read
  <2>2. distance[v] \in 0..INFINITY /\ distance[u] \in 0..INFINITY
    BY <2>1
  <2>3. distance'[v] <= distance[v]
    <3>1. CASE v \in Closer(next)
      BY <1>0, <2>1, <2>2, <3>1
    <3>2. CASE v \notin Closer(next)
      BY <2>1, <2>2, <3>2
    <3> QED  BY <3>1, <3>2
  <2>4. distance'[v] \in Nat
    <3>1. CASE v \in Closer(next)
      BY <1>0, <2>1, <3>1
    <3>2. CASE v \notin Closer(next)
      BY <2>1, <2>2, <3>2
    <3> QED  BY <3>1, <3>2
  <2>5. CASE u = next
    <3>1. CASE v \in Closer(next)
      BY <1>0, <2>1, <2>5, <3>1
    <3>2. CASE v \notin Closer(next)
      <4>1. ~ (distance[v] > d + 1)
        BY <1>0, <2>1, <2>5, <3>2 DEF Closer, Weight, Routers, Neighbours
      <4> QED  BY <1>0, <2>1, <2>2, <2>5, <3>2, <4>1
    <3> QED  BY <3>1, <3>2
  <2>6. CASE u \in done
    <3>1. distance[v] <= distance[u] + 1
      BY <2>6 DEF DijkstraInv
    <3> QED  BY <2>1, <2>2, <2>3, <2>4, <3>1
  <2> QED  BY <2>5, <2>6
<1>5. ASSUME NEW u \in done', NEW v \in Routers \ done'
      PROVE  distance'[u] <= distance'[v]
  <2>1. u \in Routers /\ distance'[u] = distance[u] /\ v \in Routers \ done
    BY <1>0, <1>1
  <2>2. distance[u] \in 0..INFINITY /\ distance[v] \in 0..INFINITY
    BY <2>1
  <2>3. distance[u] <= d
    <3>1. CASE u = next
      BY <1>0, <3>1
    <3>2. CASE u \in done
      BY <1>0, <3>2 DEF DijkstraInv
    <3> QED  BY <3>1, <3>2
  <2>4. d <= distance[v]
    BY <2>1
  <2>5. CASE v \in Closer(next)
    BY <1>0, <2>1, <2>2, <2>3, <2>5
  <2>6. CASE v \notin Closer(next)
    BY <1>0, <2>1, <2>2, <2>3, <2>4, <2>6
  <2> QED  BY <2>5, <2>6
<1> QED  BY <1>2, <1>3, <1>4, <1>5 DEF DijkstraInv

\* A way back that starts is a way back.
LEMMA VisitKeeps ==
  ASSUME TableInv, Visit, map' = map
  PROVE  TableInv'
<1>1. /\ Routers' = Routers /\ self' = self /\ self \in Routers
      /\ TableTypes' /\ PredInv' /\ TablesInv' /\ DijkstraInv'
      /\ (Left(self))' = Left(self) /\ map \in Maps
  BY VisitDoes, VisitTypes, VisitKeepsDijkstra DEF TableTypes
<1>2. self # None /\ Left(self) # {}
  BY DEF TableInv, Visit
<1>3. (Left(self) # {})'
  BY <1>1, <1>2
<1>4. ASSUME startRoute' # None PROVE WalkInv'
  <2> DEFINE vertex == First(Left(self))
  <2>1. startRoute' = vertex /\ done' = Routers
    BY <1>4 DEF Visit
  <2>2. vertex \in Left(self)
    <3>1. Left(self) \subseteq Nat \ {0}
      BY <1>1, Read DEF Left
    <3> QED  BY <1>2, <3>1, FirstIn
  <2>3. vertex # self /\ vertex \in Routers
    BY <2>2 DEF Left
  <2>4. distance'[vertex] \in 0..INFINITY
    BY <1>1, <2>3 DEF TableTypes
  <2>5. (First(Left(self)))' = vertex
    BY <1>1 DEF First
  <2> HIDE DEF vertex
  <2>6. vertex \in Within(map, vertex, distance'[vertex] - distance'[vertex])
    <3>1. distance'[vertex] - distance'[vertex] = 0
      BY <2>4
    <3> QED  BY <3>1, WithinSteps
  <2>7. distance'[startRoute'] <= distance'[vertex]
    BY <2>1, <2>4
  <2>8. map' = map
    OBVIOUS
  <2> QED  BY <1>1, <1>3, <2>1, <2>3, <2>5, <2>6, <2>7, <2>8 DEF WalkInv
<1> QED  BY <1>1, <1>2, <1>3, <1>4 DEF TableInv

\* The loop goes one link back.
LEMMA FollowKeeps ==
  ASSUME TableInv, Follow, map' = map
  PROVE  TableInv'
<1>1. /\ Routers' = Routers /\ self' = self /\ done' = done /\ distance' = distance
      /\ predecessor' = predecessor /\ routingTable' = routingTable /\ died' = died
      /\ startRoute # None /\ predecessor[startRoute] # self
      /\ startRoute' = predecessor[startRoute]
  BY DEF Follow, Routers
<1>2. /\ TableTypes /\ PredInv /\ TablesInv /\ self # None /\ Left(self) # {}
      /\ DijkstraInv /\ WalkInv /\ map \in Maps
  BY <1>1 DEF TableInv, TableTypes
<1>3. self \in Routers /\ startRoute \in Routers /\ done = Routers /\ None \notin Routers
  BY <1>1, <1>2, Read DEF TableTypes, WalkInv
<1>4. TableTypes' /\ PredInv' /\ TablesInv' /\ (Left(self))' = Left(self)
  <2>1. TableTypes'
    BY <1>1, <1>2, <1>3 DEF TableTypes
  <2>2. PredInv'
    BY <1>1, <1>2 DEF PredInv
  <2>3. TablesInv'
    BY <1>1, <1>2 DEF TablesInv, IsRoute
  <2>4. (Left(self))' = Left(self)
    BY <1>1 DEF Left
  <2> QED  BY <2>1, <2>2, <2>3, <2>4
<1>5. DijkstraInv'
  BY <1>1, <1>2 DEF DijkstraInv
<1>6. ASSUME startRoute' # None PROVE WalkInv'
  <2> DEFINE vertex == First(Left(self))
             p == startRoute'
  <2>1. (First(Left(self)))' = vertex
    BY <1>1, <1>4 DEF First
  <2>2. p \in Neighbours(map, startRoute) /\ p # self
    BY <1>1, <1>2, <1>3, <1>6 DEF PredInv
  <2>3. p \in Routers /\ startRoute \in Neighbours(map, p)
    BY <1>2, <1>3, <2>2, Read
  <2>4. vertex \in Routers
    <3>1. Left(self) \subseteq Nat \ {0} /\ Left(self) \subseteq Routers
      BY <1>2, Read DEF Left
    <3> QED  BY <1>2, <3>1, FirstIn
  <2>5. /\ distance[p] \in 0..INFINITY /\ distance[startRoute] \in 0..INFINITY
        /\ distance[vertex] \in 0..INFINITY
    BY <1>2, <1>3, <2>3, <2>4 DEF TableTypes
  <2>6. ASSUME distance[vertex] < INFINITY
        PROVE  /\ distance[p] <= distance[vertex]
               /\ vertex \in Within(map, p, distance[vertex] - distance[p])
    <3>1. /\ distance[startRoute] <= distance[vertex] /\ startRoute # self
          /\ vertex \in Within(map, startRoute, distance[vertex] - distance[startRoute])
      BY <1>2, <2>6 DEF WalkInv
    <3> HIDE DEF vertex
    <3>2. distance[p] + 1 = distance[startRoute]
      <4>1. distance[startRoute] < INFINITY
        BY <2>5, <2>6, <3>1, Infinite
      <4>2. distance[predecessor[startRoute]] + 1 = distance[startRoute]
        BY <1>2, <1>3, <3>1, <4>1 DEF DijkstraInv
      <4> QED  BY <1>1, <4>2
    <3> DEFINE n == distance[vertex] - distance[startRoute]
    <3>3. n \in Nat /\ n + 1 = distance[vertex] - distance[p] /\ distance[p] <= distance[vertex]
      BY <2>5, <3>1, <3>2
    <3>4. vertex \in Within(map, startRoute, n)
      BY <3>1
    <3> HIDE DEF n, p
    <3>5. vertex \in Within(map, p, n + 1)
      BY <2>3, <3>3, <3>4, WithinShift
    <3> QED  BY <3>3, <3>5
  <2>7. ASSUME distance[vertex] = INFINITY PROVE distance[p] = INFINITY
    <3>1. distance[startRoute] = INFINITY
      BY <1>2, <2>7 DEF WalkInv
    <3> QED  BY <1>2, <1>3, <2>2, <3>1, FarIsFar
  <2>8. done' = Routers' /\ (Left(self) # {})' /\ startRoute' = p /\ startRoute' # self'
    BY <1>1, <1>2, <1>3, <1>4, <2>2
  <2> HIDE DEF vertex, p
  <2> QED  BY <1>1, <2>1, <2>6, <2>7, <2>8 DEF WalkInv
<1> QED  BY <1>1, <1>2, <1>4, <1>5, <1>6 DEF TableInv

\* What is entered is a route.
LEMMA EnteredIsRoute ==
  ASSUME TableInv, Enter
  PROVE  /\ self \in Routers /\ First(Left(self)) \in Left(self)
         /\ First(Left(self)) \in Routers /\ First(Left(self)) # self
         /\ IsRoute(map, self, First(Left(self)), startRoute)
<1> DEFINE vertex == First(Left(self))
<1>1. /\ startRoute # None /\ predecessor[startRoute] = self
  BY DEF Enter
<1>2. /\ TableTypes /\ PredInv /\ self # None /\ Left(self) # {}
      /\ DijkstraInv /\ WalkInv /\ map \in Maps
  BY <1>1 DEF TableInv, TableTypes
<1>3. self \in Routers /\ startRoute \in Routers /\ done = Routers /\ None \notin Routers
  BY <1>1, <1>2, Read DEF TableTypes, WalkInv
<1>4. vertex \in Left(self) /\ vertex \in Routers /\ vertex # self
  <2>1. Left(self) \subseteq Nat \ {0} /\ Left(self) \subseteq Routers /\ self \notin Left(self)
    BY <1>2, Read DEF Left
  <2> QED  BY <1>2, <2>1, FirstIn
<1>5. self \in Neighbours(map, startRoute) /\ startRoute \in Neighbours(map, self)
  <2>1. self \in Neighbours(map, startRoute)
    BY <1>1, <1>2, <1>3 DEF PredInv
  <2> QED  BY <1>2, <1>3, <2>1, Read
<1>6. distance[self] = 0 /\ distance[vertex] \in 0..INFINITY /\ distance[startRoute] \in 0..INFINITY
  BY <1>2, <1>3, <1>4 DEF DijkstraInv, TableTypes
<1>7. distance[vertex] < INFINITY
  <2> SUFFICES ASSUME distance[vertex] = INFINITY PROVE FALSE
    BY <1>6, Infinite
  <2>1. distance[startRoute] = INFINITY
    BY <1>2 DEF WalkInv
  <2>2. distance[self] = INFINITY
    BY <1>2, <1>3, <1>5, <2>1, FarIsFar
  <2> QED  BY <1>6, <2>2, Infinite
<1>8. /\ distance[startRoute] <= distance[vertex] /\ startRoute # self
      /\ vertex \in Within(map, startRoute, distance[vertex] - distance[startRoute])
  BY <1>2, <1>7 DEF WalkInv
<1> HIDE DEF vertex
<1>9. distance[startRoute] = 1
  <2>1. distance[startRoute] < INFINITY
    BY <1>6, <1>7, <1>8, Infinite
  <2>2. distance[predecessor[startRoute]] + 1 = distance[startRoute]
    BY <1>2, <1>3, <1>8, <2>1 DEF DijkstraInv
  <2> QED  BY <1>1, <1>6, <2>2
<1>10. distance[vertex] > 0
  BY <1>6, <1>8, <1>9
<1>11. IsRoute(map, self, vertex, startRoute)
  BY <1>2, <1>3, <1>4, <1>5, <1>7, <1>8, <1>9, <1>10, RouteFound
<1> QED  BY <1>3, <1>4, <1>11 DEF vertex

LEMMA EnterKeeps ==
  ASSUME TableInv, Enter, map' = map
  PROVE  TableInv'
<1> DEFINE vertex == First(Left(self))
           rest == Left(self) \ {vertex}
<1>1. /\ startRoute # None /\ Routers' = Routers
      /\ routingTable' = [routingTable EXCEPT ![self][vertex] = startRoute]
      /\ startRoute' = First(rest)
      /\ self' = IF Left(self) = {vertex} THEN None ELSE self
      /\ died' \in BOOLEAN
      /\ done' = done /\ distance' = distance /\ predecessor' = predecessor
  BY DEF Enter, Routers
<1>2. /\ self \in Routers /\ vertex \in Left(self) /\ vertex \in Routers /\ vertex # self
      /\ IsRoute(map, self, vertex, startRoute)
  BY EnteredIsRoute
<1>3. /\ TableTypes /\ PredInv /\ TablesInv /\ DijkstraInv /\ WalkInv /\ map \in Maps
      /\ done = Routers /\ None \notin Routers /\ startRoute \in Routers
  BY <1>1, <1>2, Read DEF TableInv, TableTypes, WalkInv
<1> HIDE DEF vertex
<1>4. \A r, v \in Routers : routingTable'[r][v] =
           IF r = self /\ v = vertex THEN startRoute ELSE routingTable[r][v]
  BY <1>1, <1>2, <1>3 DEF TableTypes
<1>5. (Left(self))' = IF rest = {} THEN (Left(None))' ELSE rest
  <2>1. CASE rest = {}
    <3>1. Left(self) = {vertex}
      BY <1>2, <2>1
    <3> QED  BY <1>1, <2>1, <3>1 DEF Left
  <2>2. CASE rest # {}
    <3>1. self' = self
      BY <1>1, <2>2
    <3> QED  BY <1>1, <1>2, <1>3, <1>4, <2>2, <3>1 DEF Left
  <2> QED  BY <2>1, <2>2
<1>6. rest \subseteq Routers \ {self} /\ rest \subseteq Nat \ {0}
  BY <1>3, Read DEF Left
<1>7. (rest = {} /\ self' = None /\ startRoute' = None) \/ (rest # {} /\ self' = self /\ startRoute' \in rest)
  <2>1. CASE rest = {}
    BY <1>1, <1>2, <1>6, <2>1, FirstIn
  <2>2. CASE rest # {}
    BY <1>1, <1>2, <1>6, <2>2, FirstIn
  <2> QED  BY <2>1, <2>2
<1>8. TableTypes'
  <2>1. routingTable' \in [Routers -> [Routers -> Routers \cup {None}]]
    BY <1>1, <1>2, <1>3 DEF TableTypes
  <2>2. self' \in Routers \cup {None} /\ startRoute' \in Routers \cup {None}
    BY <1>2, <1>6, <1>7
  <2>3. map' = map
    OBVIOUS
  <2> QED  BY <1>1, <1>3, <2>1, <2>2, <2>3 DEF TableTypes
<1>9. PredInv'
  BY <1>1, <1>3 DEF PredInv
<1>10. TablesInv'
  <2> SUFFICES ASSUME NEW r \in Routers, NEW v \in Routers, routingTable'[r][v] # None
               PROVE  v # r /\ IsRoute(map, r, v, routingTable'[r][v])
    BY <1>1 DEF TablesInv, IsRoute
  <2>1. CASE r = self /\ v = vertex
    <3>1. routingTable'[r][v] = startRoute
      BY <1>4, <2>1
    <3> QED  BY <1>2, <2>1, <3>1
  <2>2. CASE ~ (r = self /\ v = vertex)
    <3>1. routingTable'[r][v] = routingTable[r][v]
      BY <1>4, <2>2
    <3> QED  BY <1>3, <3>1 DEF TablesInv
  <2> QED  BY <2>1, <2>2
<1>11. ASSUME self' # None PROVE (Left(self) # {})' /\ DijkstraInv' /\ WalkInv'
  <2>1. rest # {} /\ self' = self /\ startRoute' \in rest /\ (Left(self))' = rest
    BY <1>5, <1>7, <1>11
  <2>2. DijkstraInv'
    BY <1>1, <1>3, <2>1 DEF DijkstraInv
  <2>3. (First(Left(self)))' = startRoute'
    BY <1>1, <2>1 DEF First
  <2>4. startRoute' \in Routers /\ startRoute' # self
    BY <1>6, <2>1
  <2>5. distance[startRoute'] \in 0..INFINITY
    BY <1>3, <2>4 DEF TableTypes
  <2>6. startRoute' \in Within(map, startRoute', distance[startRoute'] - distance[startRoute'])
    <3>1. distance[startRoute'] - distance[startRoute'] = 0
      BY <2>5
    <3> QED  BY <3>1, WithinSteps
  <2>7. distance[startRoute'] <= distance[startRoute']
    BY <2>5
  <2>8. map' = map
    OBVIOUS
  <2>9. WalkInv'
    BY <1>1, <1>3, <2>1, <2>3, <2>4, <2>6, <2>7, <2>8 DEF WalkInv
  <2> QED  BY <2>1, <2>2, <2>9
<1>12. startRoute' # None => self' # None
  BY <1>2, <1>3, <1>7
<1> QED  BY <1>8, <1>9, <1>10, <1>11, <1>12 DEF TableInv

\* Steps that leave the tables alone.
LEMMA OthersKeep ==
  ASSUME TableInv, UNCHANGED <<map, tableVars>>, died' \in BOOLEAN
  PROVE  TableInv'
<1>1. Routers' = Routers
  BY DEF Routers
<1>2. TableTypes' /\ PredInv'
  BY <1>1 DEF TableInv, TableTypes, PredInv, tableVars
<1>3. TablesInv'
  BY <1>1 DEF TableInv, TablesInv, IsRoute, tableVars
<1>4. (Left(self))' = Left(self)
  BY <1>1 DEF Left, tableVars
<1>5. DijkstraInv' = DijkstraInv
  BY <1>1 DEF DijkstraInv, tableVars
<1>6. (First(Left(self)))' = First(Left(self))
  BY <1>4 DEF First
<1>7. WalkInv' = WalkInv
  BY <1>1, <1>4, <1>6 DEF WalkInv, tableVars
<1> QED  BY <1>2, <1>3, <1>4, <1>5, <1>7 DEF TableInv, tableVars

LEMMA RecvLeaves ==
  ASSUME NEW r, NEW p, NEW qs, Recv(r, p, qs), died \in BOOLEAN
  PROVE  died' \in BOOLEAN
BY DEF Recv, Drop, Hand, Pass, Die

LEMMA TableSteps == TableInv /\ [Next]_vars => TableInv'
<1> SUFFICES ASSUME TableInv, [Next]_vars PROVE TableInv'
  OBVIOUS
<1>0. died \in BOOLEAN
  BY DEF TableInv, TableTypes
<1>1. CASE Start
  <2>1. map' = map
    BY <1>1 DEF Start
  <2>2. ASSUME NEW r \in Routers, CreateTable(r) PROVE TableInv'
    BY <2>1, <2>2, CreateTableKeeps
  <2> QED  BY <1>1, <2>1, <2>2, VisitKeeps, FollowKeeps, EnterKeeps DEF Start
<1>2. ASSUME NEW f \in Flows, Insert(f) PROVE TableInv'
  <2>1. UNCHANGED <<map, tableVars>> /\ died' \in BOOLEAN
    BY <1>0, <1>2, RecvLeaves DEF Insert
  <2> QED  BY <2>1, OthersKeep
<1>3. ASSUME NEW d \in Directions, Run(d) PROVE TableInv'
  <2>1. UNCHANGED <<map, tableVars>> /\ died' \in BOOLEAN
    BY <1>0, <1>3, RecvLeaves DEF Run
  <2> QED  BY <2>1, OthersKeep
<1>4. CASE UNCHANGED vars
  BY <1>0, <1>4, OthersKeep DEF vars
<1> QED  BY <1>1, <1>2, <1>3, <1>4 DEF Next

\* The invariant of createTable, for every topology: distances, predecessors, the way
\* back and the tables entered so far.
THEOREM TableInvariance == Spec => []TableInv
<1> QED  BY TableInit, TableSteps, PTL DEF Spec

\* Every entry of a table, once it is made, is the first link of a shortest way.
THEOREM EveryRouteIsShortest == Spec => RoutesAreShortest
<1> DEFINE A == \A r, v \in Routers : routingTable'[r][v] # routingTable[r][v] =>
                  /\ routingTable'[r][v] \in Neighbours(map, r)
                  /\ Distance(map, routingTable'[r][v], v) + 1 = Distance(map, r, v)
<1>1. ASSUME TableInv, [Next]_vars PROVE A
  <2>1. CASE Start
    <3>1. CASE routingTable' = routingTable
      BY <3>1
    <3>2. CASE Enter
      <4> DEFINE vertex == First(Left(self))
      <4>1. /\ self \in Routers /\ vertex \in Routers
            /\ IsRoute(map, self, vertex, startRoute)
        BY <1>1, <3>2, EnteredIsRoute
      <4>2. routingTable' = [routingTable EXCEPT ![self][vertex] = startRoute]
        BY <3>2 DEF Enter
      <4> HIDE DEF vertex
      <4>3. \A r, v \in Routers : routingTable'[r][v] =
                IF r = self /\ v = vertex THEN startRoute ELSE routingTable[r][v]
        BY <1>1, <4>1, <4>2 DEF TableInv, TableTypes
      <4> QED  BY <4>1, <4>3 DEF IsRoute
    <3> QED  BY <2>1, <3>1, <3>2 DEF Start, CreateTable, Visit, Follow
  <2>2. CASE ~ Start
    <3>1. routingTable' = routingTable
      BY <1>1, <2>2 DEF Next, Insert, Run, vars, tableVars
    <3> QED  BY <3>1
  <2> QED  BY <2>1, <2>2
<1>2. TableInv /\ [Next]_vars => [A]_vars
  BY <1>1
<1> QED  BY <1>2, TableInvariance, PTL DEF Spec, RoutesAreShortest

\* createTable never ends the simulator for want of a queue: what it finds at the end of
\* the way back is a neighbour, even if its predecessor is one that an earlier
\* computation has left.
THEOREM CreateTableNeverDies == Spec => [](died => Ready)
<1>1. Init => (died => Ready)
  BY DEF Init
<1>2. TableInv /\ (died => Ready) /\ [Next]_vars => (died => Ready)'
  <2> SUFFICES ASSUME TableInv, died => Ready, [Next]_vars, died' PROVE Ready'
    OBVIOUS
  <2>1. ASSUME UNCHANGED <<map, routingTable>>, Ready PROVE Ready'
    BY <2>1 DEF Ready, Left, Routers
  <2>2. CASE Start
    <3>1. ~ died
      BY <2>2 DEF Start
    <3>2. CASE Enter
      <4>1. startRoute \in Neighbours(map, self)
        BY <3>2, EnteredIsRoute DEF IsRoute
      <4>2. died' = (startRoute \notin Neighbours(map, self))
        BY <3>2 DEF Enter
      <4> QED  BY <4>1, <4>2
    <3>3. CASE ~ Enter
      BY <2>2, <3>1, <3>3 DEF Start, CreateTable, Visit, Follow
    <3> QED  BY <3>2, <3>3
  <2>3. ASSUME NEW f \in Flows, Insert(f) PROVE Ready'
    BY <2>1, <2>3 DEF Insert, Up, tableVars
  <2>4. ASSUME NEW d \in Directions, Run(d) PROVE Ready'
    BY <2>1, <2>4 DEF Run, Up, tableVars
  <2>5. CASE UNCHANGED vars
    BY <2>1, <2>5 DEF vars, tableVars
  <2> QED  BY <2>2, <2>3, <2>4, <2>5 DEF Next
<1> QED  BY <1>1, <1>2, TableInvariance, PTL DEF Spec

\* In a connected topology the way back from a vertex comes one link nearer with every
\* step, for each router whose table is computed.
THEOREM WayBackAlwaysGetsShorter == Spec => []WayBackGetsShorter
<1>1. TableInv => WayBackGetsShorter
  <2> SUFFICES ASSUME TableInv, startRoute # None, Connected
               PROVE  /\ predecessor[startRoute] # None
                      /\ Distance(map, self, predecessor[startRoute]) + 1 = Distance(map, self, startRoute)
    BY DEF WayBackGetsShorter
  <2>1. /\ TableTypes /\ self # None /\ DijkstraInv /\ WalkInv /\ map \in Maps /\ Left(self) # {}
    BY DEF TableInv, TableTypes
  <2>2. /\ self \in Routers /\ startRoute \in Routers /\ done = Routers /\ None \notin Routers
        /\ Cardinality(Routers) \in Nat /\ Cardinality(Routers) < INFINITY
    BY <2>1, Read DEF TableTypes, WalkInv
  <2>3. ASSUME NEW v \in Routers PROVE distance[v] < INFINITY
    <3>1. v \in Within(map, self, Cardinality(Routers))
      BY <2>2 DEF Connected
    <3>2. distance[v] <= Cardinality(Routers)
      BY <2>1, <2>2, <3>1, NoShorterWay
    <3>3. distance[v] \in 0..INFINITY
      BY <2>1 DEF TableTypes
    <3> QED  BY <2>2, <3>2, <3>3, Infinite
  <2>4. First(Left(self)) \in Routers
    <3>1. Left(self) \subseteq Nat \ {0} /\ Left(self) \subseteq Routers
      BY <2>1, Read DEF Left
    <3> QED  BY <2>1, <3>1, FirstIn
  <2>5. startRoute # self
    BY <2>1, <2>3, <2>4 DEF WalkInv
  <2>6. /\ predecessor[startRoute] \in done
        /\ distance[predecessor[startRoute]] + 1 = distance[startRoute]
    BY <2>1, <2>2, <2>3, <2>5 DEF DijkstraInv
  <2>7. /\ Distance(map, self, startRoute) = distance[startRoute]
        /\ Distance(map, self, predecessor[startRoute]) = distance[predecessor[startRoute]]
    BY <2>1, <2>2, <2>3, <2>6, KnownIsDistance
  <2> QED  BY <2>2, <2>6, <2>7
<1> QED  BY <1>1, TableInvariance, PTL

-----------------------------------------------------------------------------
(* Queues. *)

\* A datagram joins a queue at its end, or the queue is full and it is dropped.
LEMMA Join ==
  ASSUME NEW S, NEW q \in Seq(S), Len(q) <= CAP, NEW p \in S
  PROVE  /\ Queued(q, p) \in Seq(S) /\ Len(Queued(q, p)) <= CAP
         /\ \/ Queued(q, p) = q
            \/ /\ Len(Queued(q, p)) = Len(q) + 1
               /\ \A i \in 1..Len(q) : Queued(q, p)[i] = q[i]
               /\ Queued(q, p)[Len(q) + 1] = p
<1> DEFINE s == Append(q, p)
           n == IF Len(s) <= CAP THEN Len(s) ELSE CAP
<1>1. q \o <<p>> = s
  BY AppendIsConcat
<1>2. Queued(q, p) = SubSeq(s, 1, n)
  BY <1>1 DEF Queued, Enqueue
<1>3. /\ s \in Seq(S) /\ Len(s) = Len(q) + 1 /\ Len(q) \in Nat
      /\ \A i \in 1..Len(q) : s[i] = q[i]
      /\ s[Len(q) + 1] = p
  BY AppendProperties, LenProperties
<1> HIDE DEF s
<1>4. n \in Nat /\ n <= Len(s) /\ n <= CAP /\ CAP \in Nat
  BY <1>3, LinkAssumption DEF LinkAssumption
<1>5. /\ SubSeq(s, 1, n) \in Seq(S) /\ Len(SubSeq(s, 1, n)) = n
      /\ \A i \in 1..n : SubSeq(s, 1, n)[i] = s[i]
  BY <1>3, <1>4, SubSeqProperties
<1>6. CASE Len(s) <= CAP
  BY <1>2, <1>3, <1>4, <1>5, <1>6
<1>7. CASE ~ (Len(s) <= CAP)
  <2>1. n = Len(q) /\ n = CAP
    BY <1>3, <1>4, <1>7
  <2> HIDE DEF n
  <2>2. \A i \in 1..Len(q) : Queued(q, p)[i] = q[i]
    BY <1>2, <1>3, <1>5, <2>1
  <2>3. Queued(q, p) \in Seq(S) /\ Len(Queued(q, p)) = Len(q)
    BY <1>2, <1>5, <2>1
  <2>4. Queued(q, p) = q
    <3> DEFINE t == Queued(q, p)
    <3>1. t \in Seq(S) /\ Len(t) = Len(q) /\ \A i \in 1..Len(q) : t[i] = q[i]
      BY <2>2, <2>3
    <3> HIDE DEF t
    <3>2. t = q
      BY <3>1, SeqEqual
    <3> QED  BY <3>2 DEF t
  <2> QED  BY <2>3, <2>4
<1> QED  BY <1>6, <1>7

\* The head of a queue leaves it.
LEMMA Leave ==
  ASSUME NEW S, NEW q \in Seq(S), q # <<>>
  PROVE  /\ 1 \in DOMAIN q /\ q[1] \in S /\ RemoveAt(q, 1) \in Seq(S)
         /\ Len(q) \in Nat \ {0} /\ Len(RemoveAt(q, 1)) = Len(q) - 1
         /\ \A i \in 1..Len(q) - 1 : RemoveAt(q, 1)[i] = q[i + 1]
<1>1. Len(q) \in Nat \ {0} /\ DOMAIN q = 1..Len(q)
  BY EmptySeq, LenProperties
<1>2. 1 \in DOMAIN q /\ q[1] \in S
  BY <1>1
<1> DEFINE front == SubSeq(q, 1, 0)
           back == SubSeq(q, 2, Len(q))
<1>3. front \in Seq(S) /\ Len(front) = 0
  BY <1>1, SubSeqProperties
<1>4. back \in Seq(S) /\ Len(back) = Len(q) - 1 /\ \A i \in 1..Len(q) - 1 : back[i] = q[i + 1]
  BY <1>1, SubSeqProperties
<1>5. RemoveAt(q, 1) = front \o back
  BY DEF RemoveAt
<1> HIDE DEF front, back
<1>6. front = <<>>
  BY <1>3, EmptySeq
<1>7. front \o back = back
  BY <1>4, <1>6, ConcatEmptySeq
<1> QED  BY <1>1, <1>2, <1>4, <1>5, <1>7

-----------------------------------------------------------------------------
(* The way of a flow, for topology m and complete tables t. *)

Complete(m, t) ==
  /\ m \in Maps
  /\ \A r, v \in RoutersOf(m) : v # r => IsRoute(m, r, v, t[r][v])

LEMMA ToGoIsNat ==
  ASSUME NEW m, NEW t, Complete(m, t), NEW r \in RoutersOf(m), NEW v \in RoutersOf(m)
  PROVE  /\ Distance(m, r, v) \in Nat
         /\ Distance(m, v, v) = 0
         /\ r # v => /\ t[r][v] \in RoutersOf(m)
                     /\ Distance(m, r, v) > 0 /\ Distance(m, t[r][v], v) \in Nat
                     /\ Distance(m, t[r][v], v) + 1 = Distance(m, r, v)
<1>1. m \in Maps
  BY DEF Complete
<1>2. Distance(m, v, v) = 0
  <2>1. v \in Within(m, v, 0) /\ 0 <= Cardinality(RoutersOf(m))
    BY <1>1, WithinSteps, Topology
  <2>2. \A k \in Nat : v \in Within(m, v, k) => 0 <= k
    OBVIOUS
  <2> QED  BY <1>1, <2>1, <2>2, DistanceLeast
<1>3. ASSUME r # v
      PROVE  /\ t[r][v] \in RoutersOf(m)
             /\ Distance(m, r, v) \in Nat /\ Distance(m, r, v) > 0
             /\ Distance(m, t[r][v], v) \in Nat
             /\ Distance(m, t[r][v], v) + 1 = Distance(m, r, v)
  <2>1. IsRoute(m, r, v, t[r][v])
    BY <1>3 DEF Complete
  <2>2. t[r][v] \in RoutersOf(m)
    BY <1>1, <2>1, Topology DEF IsRoute
  <2> QED  BY <2>1, <2>2 DEF IsRoute
<1> QED  BY <1>2, <1>3

\* The way starts at the source and goes where the tables say.
LEMMA WayGoesOn ==
  ASSUME NEW m, NEW t, Complete(m, t), NEW f, f[1] \in RoutersOf(m)
  PROVE  /\ f[1] \in OnWay(m, t, f) /\ OnWay(m, t, f) \subseteq RoutersOf(m)
         /\ f[2] \in RoutersOf(m) =>
              \A r \in OnWay(m, t, f) : r # f[2] => t[r][f[2]] \in OnWay(m, t, f)
<1>1. f[1] \in OnWay(m, t, f) /\ OnWay(m, t, f) \subseteq RoutersOf(m)
  BY DEF OnWay, Closed
<1>2. ASSUME f[2] \in RoutersOf(m), NEW r \in OnWay(m, t, f), r # f[2]
      PROVE  t[r][f[2]] \in OnWay(m, t, f)
  <2>1. t[r][f[2]] \in RoutersOf(m)
    BY <1>1, <1>2, ToGoIsNat
  <2>2. ASSUME NEW S \in SUBSET RoutersOf(m), Closed(t, S, f) PROVE t[r][f[2]] \in S
    <3>1. r \in S
      BY <2>2 DEF OnWay
    <3> QED  BY <1>2, <2>2, <3>1 DEF Closed
  <2> QED  BY <2>1, <2>2 DEF OnWay
<1> QED  BY <1>1, <1>2

\* The source is farther from the destination than the rest of the way.
LEMMA WayGoesDown ==
  ASSUME NEW m, NEW t, Complete(m, t), NEW f, f[1] \in RoutersOf(m), f[2] \in RoutersOf(m),
         NEW r \in OnWay(m, t, f), r # f[1]
  PROVE  Distance(m, r, f[2]) < Distance(m, f[1], f[2])
<1> DEFINE S == {s \in RoutersOf(m) : s = f[1] \/ Distance(m, s, f[2]) < Distance(m, f[1], f[2])}
<1>1. ASSUME NEW s \in S, s # f[2] PROVE t[s][f[2]] \in S
  <2>1. /\ t[s][f[2]] \in RoutersOf(m) /\ Distance(m, s, f[2]) \in Nat
        /\ Distance(m, t[s][f[2]], f[2]) \in Nat /\ Distance(m, f[1], f[2]) \in Nat
        /\ Distance(m, t[s][f[2]], f[2]) + 1 = Distance(m, s, f[2])
    BY <1>1, ToGoIsNat
  <2> QED  BY <2>1
<1>2. Closed(t, S, f)
  BY <1>1 DEF Closed
<1>3. r \in S
  <2> HIDE DEF S
  <2>1. S \in SUBSET RoutersOf(m)
    BY DEF S
  <2> QED  BY <1>2, <2>1 DEF OnWay
<1> QED  BY <1>3

\* Every other router of the way comes after one of the way.
LEMMA WayComesFrom ==
  ASSUME NEW m, NEW t, Complete(m, t), NEW f, f[1] \in RoutersOf(m), f[2] \in RoutersOf(m),
         NEW s \in OnWay(m, t, f), s # f[1]
  PROVE  \E u \in OnWay(m, t, f) : u # f[2] /\ t[u][f[2]] = s
<1> SUFFICES ASSUME \A u \in OnWay(m, t, f) : u # f[2] => t[u][f[2]] # s PROVE FALSE
  OBVIOUS
<1> DEFINE S == OnWay(m, t, f) \ {s}
<1>1. Closed(t, S, f)
  <2>1. f[1] \in S
    BY WayGoesOn
  <2>2. ASSUME NEW r \in S, r # f[2] PROVE t[r][f[2]] \in S
    BY <2>2, WayGoesOn
  <2> QED  BY <2>1, <2>2 DEF Closed
<1>2. S \in SUBSET RoutersOf(m)
  BY DEF OnWay
<1>3. s \in S
  <2> HIDE DEF S
  <2> QED  BY <1>1, <1>2 DEF OnWay
<1> QED  BY <1>3

\* So no two routers of the way are as far from the destination.
LEMMA WayIsLine ==
  ASSUME NEW m, NEW t, Complete(m, t), NEW f, f[1] \in RoutersOf(m), f[2] \in RoutersOf(m),
         NEW r \in OnWay(m, t, f), NEW s \in OnWay(m, t, f),
         Distance(m, r, f[2]) = Distance(m, s, f[2])
  PROVE  r = s
<1> DEFINE W == OnWay(m, t, f)
           far(q) == Distance(m, q, f[2])
           S == {q \in W : \A p \in W : far(p) = far(q) => p = q}
<1>0. \A q \in W : far(q) \in Nat
  BY WayGoesOn, ToGoIsNat
<1>1. f[1] \in S
  <2>1. \A p \in W : p # f[1] => far(p) < far(f[1])
    BY WayGoesDown
  <2>2. f[1] \in W
    BY WayGoesOn
  <2> HIDE DEF far, W
  <2> QED  BY <1>0, <2>1, <2>2
<1>2. ASSUME NEW q \in S, q # f[2] PROVE t[q][f[2]] \in S
  <2> DEFINE w == t[q][f[2]]
  <2>1. q \in W /\ w \in W /\ far(w) + 1 = far(q)
    BY <1>2, WayGoesOn, ToGoIsNat
  <2>2. ASSUME NEW p \in W, far(p) = far(w) PROVE p = w
    <3>1. p # f[1]
      <4>1. far(q) <= far(f[1])
        <5>1. q # f[1] => far(q) < far(f[1])
          BY <2>1, WayGoesDown
        <5>2. far(f[1]) \in Nat /\ far(q) \in Nat
          BY <1>0, <1>1, <2>1
        <5> HIDE DEF far
        <5> QED  BY <5>1, <5>2
      <4>2. far(w) < far(f[1])
        <5>1. far(w) \in Nat /\ far(f[1]) \in Nat /\ far(q) \in Nat
          BY <1>0, <1>1, <2>1
        <5> HIDE DEF far, w
        <5> QED  BY <2>1, <4>1, <5>1
      <4>3. far(f[1]) \in Nat
        BY <1>0, <1>1
      <4> HIDE DEF far
      <4> QED  BY <2>2, <4>2, <4>3
    <3>2. PICK u \in W : u # f[2] /\ t[u][f[2]] = p
      BY <3>1, WayComesFrom
    <3>3. far(p) + 1 = far(u)
      BY <3>2, WayGoesOn, ToGoIsNat
    <3>4. far(u) = far(q)
      BY <2>1, <2>2, <3>3
    <3>5. u = q
      BY <1>2, <3>4
    <3> QED  BY <3>2, <3>5
  <2> HIDE DEF far, W, w
  <2>3. w \in S
    BY <2>1, <2>2
  <2> QED  BY <2>3 DEF w
<1>3. Closed(t, S, f)
  <2> HIDE DEF S
  <2> QED  BY <1>1, <1>2 DEF Closed
<1>4. S \in SUBSET RoutersOf(m)
  BY DEF OnWay
<1>5. r \in S
  <2> HIDE DEF S, W
  <2>1. r \in W
    BY DEF W
  <2> QED  BY <1>3, <1>4, <2>1 DEF OnWay, W
<1> QED  BY <1>5

-----------------------------------------------------------------------------
(* What a step does to the datagrams of a flow; qs are queues of directions D. *)

\* Datagram p may be received at router r: it is on its way, behind those that are
\* nearer to its destination or as near, and ahead of the others.
MayCome(m, t, qs, a, n, r, p) ==
  /\ p.flow[1] \in RoutersOf(m) /\ r \in OnWay(m, t, p.flow)
  /\ p.n <= n /\ \A i \in DOMAIN a : a[i] < p.n
  /\ \A x \in Places(qs, p.flow) :
       IF Distance(m, r, p.flow[2]) < ToGo(m, p.flow, x) THEN p.n < At(qs, x) ELSE At(qs, x) < p.n

\* Queues of datagrams, and what is left of them when the head of one leaves.
Queues(qs) == DOMAIN qs \subseteq Nat \X Nat /\ qs \in [DOMAIN qs -> Seq(Packet)]

Popped(qs, d) == [qs EXCEPT ![d] = RemoveAt(@, 1)]

\* The place that a datagram had before the head of queue d left.
Behind(d, x) == IF x[1] = d THEN <<d, x[2] + 1>> ELSE x

LEMMA PlaceIs ==
  ASSUME NEW qs, Queues(qs), NEW f, NEW x \in Places(qs, f)
  PROVE  /\ x = <<x[1], x[2]>> /\ x[1] \in DOMAIN qs /\ x[2] \in 1..Len(qs[x[1]]) /\ x[2] \in Nat
         /\ qs[x[1]][x[2]].flow = f
         /\ At(qs, x) = qs[x[1]][x[2]].n /\ At(qs, x) \in 1..SENDS
<1>1. x = <<x[1], x[2]>> /\ x[1] \in DOMAIN qs /\ x[2] \in Nat
  <2> DEFINE D == DOMAIN qs
  <2>1. x \in D \X (Nat \ {0})
    BY DEF Places
  <2> HIDE DEF D
  <2>2. x = <<x[1], x[2]>> /\ x[1] \in D /\ x[2] \in Nat
    BY <2>1
  <2> QED  BY <2>2 DEF D
<1>2. qs[x[1]] \in Seq(Packet)
  BY <1>1 DEF Queues
<1>3. x[2] \in 1..Len(qs[x[1]]) /\ qs[x[1]][x[2]].flow = f
  BY <1>2, LenProperties DEF Places
<1>4. qs[x[1]][x[2]] \in Packet
  BY <1>2, <1>3
<1>5. qs[x[1]][x[2]].n \in 1..SENDS
  BY <1>4 DEF Packet
<1> QED  BY <1>1, <1>3, <1>5 DEF At

LEMMA IsPlace ==
  ASSUME NEW qs, Queues(qs), NEW d \in DOMAIN qs, NEW i \in 1..Len(qs[d])
  PROVE  /\ <<d, i>> \in Places(qs, qs[d][i].flow)
         /\ At(qs, <<d, i>>) = qs[d][i].n
<1> DEFINE x == <<d, i>>
<1>1. qs[d] \in Seq(Packet)
  BY DEF Queues
<1>2. i \in DOMAIN qs[d] /\ i \in Nat \ {0}
  BY <1>1, LenProperties
<1>3. x \in (DOMAIN qs) \X (Nat \ {0}) /\ x[1] = d /\ x[2] = i
  BY <1>2
<1> HIDE DEF x
<1>4. x \in Places(qs, qs[d][i].flow) /\ At(qs, x) = qs[d][i].n
  BY <1>2, <1>3 DEF Places, At
<1> QED  BY <1>4 DEF x

LEMMA PoppedIs ==
  ASSUME NEW qs, Queues(qs), NEW d \in DOMAIN qs, qs[d] # <<>>
  PROVE  /\ Queues(Popped(qs, d)) /\ DOMAIN Popped(qs, d) = DOMAIN qs
         /\ Len(qs[d]) \in Nat \ {0} /\ Len(Popped(qs, d)[d]) = Len(qs[d]) - 1
         /\ \A i \in 1..Len(qs[d]) - 1 : Popped(qs, d)[d][i] = qs[d][i + 1]
         /\ \A e \in DOMAIN qs : e # d => Popped(qs, d)[e] = qs[e]
<1>1. /\ qs[d] \in Seq(Packet) /\ RemoveAt(qs[d], 1) \in Seq(Packet) /\ Len(qs[d]) \in Nat \ {0}
      /\ Len(RemoveAt(qs[d], 1)) = Len(qs[d]) - 1
      /\ \A i \in 1..Len(qs[d]) - 1 : RemoveAt(qs[d], 1)[i] = qs[d][i + 1]
  BY Leave DEF Queues
<1>2. Popped(qs, d)[d] = RemoveAt(qs[d], 1) /\ DOMAIN Popped(qs, d) = DOMAIN qs
  BY DEF Popped
<1>3. \A e \in DOMAIN qs : e # d => Popped(qs, d)[e] = qs[e]
  BY DEF Popped
<1>4. Popped(qs, d) \in [DOMAIN qs -> Seq(Packet)]
  BY <1>1 DEF Queues, Popped
<1> QED  BY <1>1, <1>2, <1>3, <1>4 DEF Queues

\* When the head of a queue leaves, every other datagram had a place before.
LEMMA PlaceBehind ==
  ASSUME NEW qs, Queues(qs), NEW d \in DOMAIN qs, qs[d] # <<>>, NEW f,
         NEW x \in Places(Popped(qs, d), f)
  PROVE  /\ Behind(d, x) \in Places(qs, f) /\ At(qs, Behind(d, x)) = At(Popped(qs, d), x)
         /\ Behind(d, x)[1] = x[1] /\ x[2] \in Nat /\ x[2] > 0
         /\ Behind(d, x)[2] = IF x[1] = d THEN x[2] + 1 ELSE x[2]
<1> DEFINE rest == Popped(qs, d)
<1>1. /\ Queues(rest) /\ DOMAIN rest = DOMAIN qs
      /\ Len(qs[d]) \in Nat \ {0} /\ Len(rest[d]) = Len(qs[d]) - 1
      /\ \A i \in 1..Len(qs[d]) - 1 : rest[d][i] = qs[d][i + 1]
      /\ \A e \in DOMAIN qs : e # d => rest[e] = qs[e]
  BY PoppedIs
<1> HIDE DEF rest
<1>2. /\ x = <<x[1], x[2]>> /\ x[1] \in DOMAIN qs /\ x[2] \in 1..Len(rest[x[1]])
      /\ rest[x[1]][x[2]].flow = f /\ At(rest, x) = rest[x[1]][x[2]].n
  BY <1>1, PlaceIs DEF rest
<1>3. CASE x[1] = d
  <2>1. x[2] \in 1..Len(qs[d]) - 1 /\ rest[d][x[2]] = qs[d][x[2] + 1] /\ x[2] + 1 \in 1..Len(qs[d])
    BY <1>1, <1>2, <1>3
  <2>2. Behind(d, x) = <<d, x[2] + 1>>
    BY <1>3 DEF Behind
  <2>3. <<d, x[2] + 1>> \in Places(qs, f) /\ At(qs, <<d, x[2] + 1>>) = qs[d][x[2] + 1].n
    <3> DEFINE i == x[2] + 1
    <3>1. i \in 1..Len(qs[d]) /\ qs[d][i].flow = f
      BY <1>2, <1>3, <2>1
    <3> HIDE DEF i
    <3>2. <<d, i>> \in Places(qs, f) /\ At(qs, <<d, i>>) = qs[d][i].n
      BY <3>1, IsPlace
    <3> QED  BY <3>2 DEF i
  <2> QED  BY <1>2, <1>3, <2>1, <2>2, <2>3 DEF rest
<1>4. CASE x[1] # d
  <2>1. rest[x[1]] = qs[x[1]] /\ Behind(d, x) = x
    BY <1>1, <1>2, <1>4 DEF Behind
  <2>2. <<x[1], x[2]>> \in Places(qs, f) /\ At(qs, <<x[1], x[2]>>) = qs[x[1]][x[2]].n
    BY <1>2, <2>1, IsPlace
  <2> QED  BY <1>2, <1>4, <2>1, <2>2 DEF rest
<1> QED  BY <1>3, <1>4

\* The others keep their order.
LEMMA LeaveKeeps ==
  ASSUME NEW qs, Queues(qs), NEW d \in DOMAIN qs, qs[d] # <<>>,
         NEW m, NEW t, NEW a, NEW n, NEW f, Flown(m, t, qs, a, n, f)
  PROVE  Flown(m, t, Popped(qs, d), a, n, f)
<1> DEFINE rest == Popped(qs, d)
<1>1. ASSUME NEW x \in Places(rest, f)
      PROVE  /\ Behind(d, x) \in Places(qs, f) /\ At(qs, Behind(d, x)) = At(rest, x)
             /\ Behind(d, x)[1] = x[1] /\ x[2] \in Nat
             /\ Behind(d, x)[2] = IF x[1] = d THEN x[2] + 1 ELSE x[2]
  BY PlaceBehind
<1> HIDE DEF rest
<1>2. Placed(m, t, rest, a, n, f)
  BY <1>1 DEF Flown, Placed
<1>3. ASSUME NEW x \in Places(rest, f), NEW y \in Places(rest, f), Ahead(m, f, x, y)
      PROVE  At(rest, x) < At(rest, y)
  <2>1. Ahead(m, f, Behind(d, x), Behind(d, y))
    <3>1. CASE ToGo(m, f, x) < ToGo(m, f, y)
      BY <1>1, <3>1 DEF Ahead, ToGo
    <3>2. CASE x[1] = y[1] /\ x[2] < y[2]
      BY <1>1, <3>2 DEF Ahead
    <3> QED  BY <1>3, <3>1, <3>2 DEF Ahead
  <2> QED  BY <1>1, <2>1 DEF Flown, Ordered
<1> QED  BY <1>2, <1>3 DEF Flown, Ordered, rest

\* Who leaves a queue may come to the router at its other end.
LEMMA LeaverMayCome ==
  ASSUME NEW qs, Queues(qs), NEW d \in DOMAIN qs, qs[d] # <<>>,
         NEW m, NEW t, Complete(m, t), NEW a, NEW n,
         NEW p, p = qs[d][1], Flown(m, t, qs, a, n, p.flow)
  PROVE  MayCome(m, t, Popped(qs, d), a, n, d[2], p)
<1> DEFINE f == p.flow
           h == <<d, 1>>
           rest == Popped(qs, d)
           far(r) == Distance(m, r, f[2])
<1>1. h \in Places(qs, f) /\ At(qs, h) = p.n /\ h[1] = d /\ h[2] = 1
  <2>1. 1 \in 1..Len(qs[d])
    BY PoppedIs
  <2> QED  BY <2>1, IsPlace
<1>2. /\ f[1] \in RoutersOf(m) /\ f[2] \in RoutersOf(m)
      /\ d[1] \in OnWay(m, t, f) /\ d[1] # f[2] /\ d[2] = t[d[1]][f[2]]
      /\ p.n <= n /\ \A i \in DOMAIN a : a[i] < p.n
  BY <1>1 DEF Flown, Placed
<1>3. /\ d[2] \in OnWay(m, t, f) /\ far(d[1]) \in Nat /\ far(d[2]) \in Nat
      /\ far(d[2]) + 1 = far(d[1])
  BY <1>2, WayGoesOn, ToGoIsNat
<1>4. ASSUME NEW x \in Places(rest, f)
      PROVE  IF far(d[2]) < ToGo(m, f, x) THEN p.n < At(rest, x) ELSE At(rest, x) < p.n
  <2> DEFINE y == Behind(d, x)
  <2>1. /\ y \in Places(qs, f) /\ At(qs, y) = At(rest, x)
        /\ y[1] = x[1] /\ x[2] \in Nat /\ x[2] > 0
        /\ y[2] = IF x[1] = d THEN x[2] + 1 ELSE x[2]
    BY PlaceBehind
  <2> HIDE DEF rest, h, y
  <2>2. /\ x[1][1] \in OnWay(m, t, f) /\ x[1][1] # f[2] /\ x[1][2] = t[x[1][1]][f[2]]
    BY <2>1 DEF Flown, Placed
  <2>3. ToGo(m, f, x) = far(x[1][1]) /\ far(x[1][1]) \in Nat
    BY <1>2, <2>2, WayGoesOn, ToGoIsNat DEF ToGo
  <2>4. CASE x[1] = d
    <3>1. y[2] = x[2] + 1
      BY <2>1, <2>4
    <3>2. Ahead(m, f, h, y)
      BY <1>1, <2>1, <2>4, <3>1 DEF Ahead
    <3>3. p.n < At(rest, x)
      BY <1>1, <2>1, <3>2 DEF Flown, Ordered
    <3>4. far(d[2]) < ToGo(m, f, x)
      <4> HIDE DEF far
      <4> QED  BY <1>3, <2>3, <2>4
    <3> QED  BY <3>3, <3>4
  <2>5. CASE far(d[1]) < far(x[1][1])
    <3>1. Ahead(m, f, h, y)
      BY <1>1, <2>1, <2>5 DEF Ahead, ToGo
    <3>2. p.n < At(rest, x)
      BY <1>1, <2>1, <3>1 DEF Flown, Ordered
    <3>3. far(d[2]) < ToGo(m, f, x)
      <4> HIDE DEF far
      <4> QED  BY <1>3, <2>3, <2>5
    <3> QED  BY <3>2, <3>3
  <2>6. CASE far(x[1][1]) < far(d[1])
    <3>1. Ahead(m, f, y, h)
      BY <1>1, <2>1, <2>6 DEF Ahead, ToGo
    <3>2. At(rest, x) < p.n
      BY <1>1, <2>1, <3>1 DEF Flown, Ordered
    <3>3. ~ (far(d[2]) < ToGo(m, f, x))
      <4> HIDE DEF far
      <4> QED  BY <1>3, <2>3, <2>6
    <3> QED  BY <3>2, <3>3
  <2>7. CASE far(x[1][1]) = far(d[1])
    <3>1. x[1][1] = d[1]
      BY <1>2, <2>2, <2>7, WayIsLine
    <3>2. x[1][2] = d[2]
      BY <1>2, <2>2, <3>1
    <3>3. x[1] \in DOMAIN qs
      BY <2>1, PlaceIs
    <3>4. x[1] \in Nat \X Nat /\ d \in Nat \X Nat
      BY <3>3 DEF Queues
    <3>5. x[1] = <<x[1][1], x[1][2]>> /\ d = <<d[1], d[2]>>
      BY <3>4
    <3>6. x[1] = d
      BY <3>1, <3>2, <3>5
    <3> QED  BY <2>4, <3>6
  <2>8. far(d[1]) < far(x[1][1]) \/ far(x[1][1]) < far(d[1]) \/ far(x[1][1]) = far(d[1])
    <3> HIDE DEF far
    <3> QED  BY <1>3, <2>3
  <2> QED  BY <2>5, <2>6, <2>7, <2>8
<1> QED  BY <1>2, <1>3, <1>4 DEF MayCome

\* What is left of the queues when a datagram has joined queue d or was dropped there.
Joined(qs, d, p) == [qs EXCEPT ![d] = Queued(@, p)]

LEMMA JoinedIs ==
  ASSUME NEW qs, Queues(qs), NEW d \in DOMAIN qs, Len(qs[d]) <= CAP, NEW p \in Packet
  PROVE  /\ Queues(Joined(qs, d, p)) /\ DOMAIN Joined(qs, d, p) = DOMAIN qs
         /\ \A e \in DOMAIN qs : e # d => Joined(qs, d, p)[e] = qs[e]
         /\ Len(Joined(qs, d, p)[d]) <= CAP /\ Len(qs[d]) \in Nat
         /\ \/ Joined(qs, d, p)[d] = qs[d]
            \/ /\ Len(Joined(qs, d, p)[d]) = Len(qs[d]) + 1
               /\ \A i \in 1..Len(qs[d]) : Joined(qs, d, p)[d][i] = qs[d][i]
               /\ Joined(qs, d, p)[d][Len(qs[d]) + 1] = p
<1>1. qs[d] \in Seq(Packet) /\ Len(qs[d]) \in Nat
  BY LenProperties DEF Queues
<1>2. /\ DOMAIN Joined(qs, d, p) = DOMAIN qs /\ Joined(qs, d, p)[d] = Queued(qs[d], p)
      /\ \A e \in DOMAIN qs : e # d => Joined(qs, d, p)[e] = qs[e]
  BY DEF Joined
<1>3. /\ Queued(qs[d], p) \in Seq(Packet) /\ Len(Queued(qs[d], p)) <= CAP
      /\ \/ Queued(qs[d], p) = qs[d]
         \/ /\ Len(Queued(qs[d], p)) = Len(qs[d]) + 1
            /\ \A i \in 1..Len(qs[d]) : Queued(qs[d], p)[i] = qs[d][i]
            /\ Queued(qs[d], p)[Len(qs[d]) + 1] = p
  BY <1>1, Join
<1>4. Joined(qs, d, p) \in [DOMAIN qs -> Seq(Packet)]
  BY <1>3 DEF Queues, Joined
<1> QED  BY <1>1, <1>2, <1>3, <1>4 DEF Queues

LEMMA PlaceJoined ==
  ASSUME NEW qs, Queues(qs), NEW d \in DOMAIN qs, Len(qs[d]) <= CAP, NEW p \in Packet, NEW f,
         NEW x \in Places(Joined(qs, d, p), f)
  PROVE  /\ x[2] \in Nat /\ Len(qs[d]) \in Nat
         /\ \/ /\ x \in Places(qs, f) /\ At(Joined(qs, d, p), x) = At(qs, x)
               /\ x[1] = d => x[2] <= Len(qs[d])
            \/ /\ x[1] = d /\ x[2] = Len(qs[d]) + 1
               /\ p.flow = f /\ At(Joined(qs, d, p), x) = p.n
<1> DEFINE more == Joined(qs, d, p)
<1>1. /\ Queues(more) /\ DOMAIN more = DOMAIN qs /\ Len(qs[d]) \in Nat
      /\ \A e \in DOMAIN qs : e # d => more[e] = qs[e]
      /\ \/ more[d] = qs[d]
         \/ /\ Len(more[d]) = Len(qs[d]) + 1
            /\ \A i \in 1..Len(qs[d]) : more[d][i] = qs[d][i]
            /\ more[d][Len(qs[d]) + 1] = p
  BY JoinedIs
<1> HIDE DEF more
<1>2. /\ x = <<x[1], x[2]>> /\ x[1] \in DOMAIN more /\ x[2] \in 1..Len(more[x[1]])
      /\ x[2] \in Nat /\ more[x[1]][x[2]].flow = f /\ At(more, x) = more[x[1]][x[2]].n
  BY <1>1, PlaceIs DEF more
<1>3. ASSUME x[2] \in 1..Len(qs[x[1]]), more[x[1]][x[2]] = qs[x[1]][x[2]]
      PROVE  x \in Places(qs, f) /\ At(more, x) = At(qs, x)
  <2> DEFINE i == x[2]
             e == x[1]
  <2>1. /\ e \in DOMAIN qs /\ i \in 1..Len(qs[e]) /\ qs[e][i].flow = f
        /\ At(more, x) = qs[e][i].n /\ x = <<e, i>>
    BY <1>1, <1>2, <1>3
  <2> HIDE DEF e, i
  <2>2. <<e, i>> \in Places(qs, f) /\ At(qs, <<e, i>>) = qs[e][i].n
    BY <2>1, IsPlace
  <2> QED  BY <2>1, <2>2
<1>4. CASE x[1] # d
  <2>1. more[x[1]] = qs[x[1]]
    BY <1>1, <1>2, <1>4
  <2> QED  BY <1>1, <1>2, <1>3, <1>4, <2>1 DEF more
<1>5. CASE x[1] = d /\ x[2] <= Len(qs[d])
  <2>1. x[2] \in 1..Len(qs[d])
    BY <1>1, <1>2, <1>5
  <2>2. more[x[1]][x[2]] = qs[x[1]][x[2]]
    BY <1>1, <1>5, <2>1
  <2> QED  BY <1>1, <1>2, <1>3, <1>5, <2>1, <2>2 DEF more
<1>6. CASE x[1] = d /\ ~ (x[2] <= Len(qs[d]))
  <2>1. x[2] = Len(qs[d]) + 1 /\ more[d][Len(qs[d]) + 1] = p
    BY <1>1, <1>2, <1>6
  <2> QED  BY <1>1, <1>2, <1>6, <2>1 DEF more
<1> QED  BY <1>4, <1>5, <1>6

\* A datagram that may come joins the queue for its destination.
LEMMA PassKeeps ==
  ASSUME NEW qs, Queues(qs), NEW p \in Packet, NEW m, NEW t, Complete(m, t), NEW n,
         NEW r, r # p.flow[2], p.flow[2] \in RoutersOf(m),
         NEW d \in DOMAIN qs, d = <<r, t[r][p.flow[2]]>>, Len(qs[d]) <= CAP,
         NEW f, NEW a, Flown(m, t, qs, a, n, f),
         f = p.flow => MayCome(m, t, qs, a, n, r, p)
  PROVE  Flown(m, t, Joined(qs, d, p), a, n, f)
<1> DEFINE more == Joined(qs, d, p)
           Old(x) == /\ x \in Places(qs, f) /\ At(more, x) = At(qs, x)
                     /\ x[1] = d => x[2] <= Len(qs[d])
           New(x) == /\ x[1] = d /\ x[2] = Len(qs[d]) + 1
                     /\ p.flow = f /\ At(more, x) = p.n
<1>1. \A x \in Places(more, f) : x[2] \in Nat /\ Len(qs[d]) \in Nat /\ (Old(x) \/ New(x))
  BY PlaceJoined
<1>2. d[1] = r /\ d[2] = t[r][p.flow[2]]
  OBVIOUS
<1> HIDE DEF more
<1>3. Placed(m, t, more, a, n, f)
  <2> SUFFICES ASSUME NEW x \in Places(more, f)
               PROVE  /\ f[1] \in RoutersOf(m) /\ f[2] \in RoutersOf(m)
                      /\ x[1][1] \in OnWay(m, t, f) /\ x[1][1] # f[2]
                      /\ x[1][2] = t[x[1][1]][f[2]]
                      /\ At(more, x) <= n
                      /\ \A i \in DOMAIN a : a[i] < At(more, x)
    BY DEF Placed
  <2>1. CASE Old(x)
    BY <2>1 DEF Flown, Placed
  <2>2. CASE New(x)
    BY <1>2, <2>2 DEF MayCome
  <2> QED  BY <1>1, <2>1, <2>2
<1>4. ASSUME NEW x \in Places(more, f), NEW y \in Places(more, f), Ahead(m, f, x, y)
      PROVE  At(more, x) < At(more, y)
  <2>1. CASE Old(x) /\ Old(y)
    BY <1>4, <2>1 DEF Flown, Ordered
  <2>2. ASSUME New(x) \/ New(y)
        PROVE  /\ MayCome(m, t, qs, a, n, r, p) /\ Distance(m, r, f[2]) \in Nat /\ p.flow = f
    <3>1. MayCome(m, t, qs, a, n, r, p) /\ p.flow = f
      BY <2>2
    <3>2. r \in RoutersOf(m)
      BY <3>1, WayGoesOn DEF MayCome
    <3> QED  BY <3>1, <3>2, ToGoIsNat
  <2>3. CASE Old(x) /\ New(y)
    <3>1. ToGo(m, f, y) = Distance(m, r, f[2])
      BY <1>2, <2>3 DEF ToGo
    <3>2. ~ (Distance(m, r, f[2]) < ToGo(m, f, x))
      <4>1. CASE ToGo(m, f, x) < ToGo(m, f, y)
        <5>1. ToGo(m, f, x) \in Nat
          <6>1. x[1][1] \in RoutersOf(m) /\ f[2] \in RoutersOf(m)
            BY <2>2, <2>3, WayGoesOn DEF Flown, Placed
          <6> QED  BY <6>1, ToGoIsNat DEF ToGo
        <5> QED  BY <2>2, <2>3, <3>1, <4>1, <5>1
      <4>2. CASE x[1] = y[1]
        <5>1. ToGo(m, f, x) = Distance(m, r, f[2])
          BY <3>1, <4>2 DEF ToGo
        <5> QED  BY <2>2, <2>3, <5>1
      <4> QED  BY <1>4, <4>1, <4>2 DEF Ahead
    <3>3. At(qs, x) < p.n
      BY <2>2, <2>3, <3>2 DEF MayCome
    <3> QED  BY <2>3, <3>3
  <2>4. CASE New(x) /\ Old(y)
    <3>1. ToGo(m, f, x) = Distance(m, r, f[2])
      BY <1>2, <2>4 DEF ToGo
    <3>2. ToGo(m, f, x) < ToGo(m, f, y)
      <4>1. ~ (x[1] = y[1] /\ x[2] < y[2])
        BY <1>1, <2>4
      <4> QED  BY <1>4, <4>1 DEF Ahead
    <3>3. p.n < At(qs, y)
      BY <2>2, <2>4, <3>1, <3>2 DEF MayCome
    <3> QED  BY <2>4, <3>3
  <2>5. CASE New(x) /\ New(y)
    <3>1. ToGo(m, f, x) = ToGo(m, f, y) /\ ToGo(m, f, x) \in Nat
      BY <1>2, <2>2, <2>5 DEF ToGo
    <3>2. ~ (x[2] < y[2])
      BY <1>1, <2>5
    <3> QED  BY <1>4, <3>1, <3>2 DEF Ahead
  <2> QED  BY <1>1, <2>1, <2>3, <2>4, <2>5
<1> QED  BY <1>3, <1>4 DEF Flown, Ordered, more

\* A datagram that may come has come to its destination: no other is ahead of it.
LEMMA HandKeeps ==
  ASSUME NEW qs, Queues(qs), NEW p \in Packet, NEW m, NEW t, Complete(m, t), NEW n,
         NEW a \in Seq(1..SENDS), Flown(m, t, qs, a, n, p.flow),
         MayCome(m, t, qs, a, n, p.flow[2], p)
  PROVE  Flown(m, t, qs, Append(a, p.n), n, p.flow)
<1> DEFINE f == p.flow
           b == Append(a, p.n)
<1>1. p.n \in 1..SENDS
  BY DEF Packet
<1>2. /\ DOMAIN a = 1..Len(a) /\ DOMAIN b = 1..Len(a) + 1 /\ Len(a) \in Nat
      /\ \A i \in 1..Len(a) : b[i] = a[i] /\ a[i] \in 1..SENDS
      /\ b[Len(a) + 1] = p.n
  <2>1. Len(a) \in Nat /\ DOMAIN a = 1..Len(a) /\ \A i \in 1..Len(a) : a[i] \in 1..SENDS
    BY LenProperties
  <2> DEFINE T == 1..SENDS
             e == p.n
  <2>2. a \in Seq(T) /\ e \in T
    BY <1>1
  <2> HIDE DEF T, e
  <2>3. /\ Append(a, e) \in Seq(T) /\ Len(Append(a, e)) = Len(a) + 1
        /\ \A i \in 1..Len(a) : Append(a, e)[i] = a[i]
        /\ Append(a, e)[Len(a) + 1] = e
    BY <2>2, AppendProperties
  <2>4. DOMAIN Append(a, e) = 1..Len(a) + 1
    BY <2>3, LenProperties
  <2> QED  BY <2>1, <2>3, <2>4 DEF e
<1> HIDE DEF b
<1>3. ASSUME NEW x \in Places(qs, f) PROVE p.n < At(qs, x)
  <2>1. /\ f[1] \in RoutersOf(m) /\ f[2] \in RoutersOf(m) /\ x[1][1] \in OnWay(m, t, f)
        /\ x[1][1] # f[2]
    BY <1>3 DEF Flown, Placed
  <2>2. Distance(m, f[2], f[2]) = 0 /\ ToGo(m, f, x) > 0
    BY <2>1, WayGoesOn, ToGoIsNat DEF ToGo
  <2> QED  BY <2>2 DEF MayCome
<1>4. ASSUME NEW i \in DOMAIN b PROVE b[i] <= p.n /\ (i # Len(a) + 1 => i \in DOMAIN a /\ b[i] = a[i] /\ a[i] < p.n)
  <2>1. CASE i = Len(a) + 1
    BY <1>1, <1>2, <2>1
  <2>2. CASE i # Len(a) + 1
    <3>1. i \in DOMAIN a /\ b[i] = a[i] /\ a[i] \in 1..SENDS
      BY <1>2, <2>2
    <3>2. a[i] < p.n
      BY <3>1 DEF MayCome
    <3> QED  BY <1>1, <2>2, <3>1, <3>2
  <2> QED  BY <2>1, <2>2
<1>5. ASSUME NEW x \in Places(qs, f) PROVE \A i \in DOMAIN b : b[i] < At(qs, x)
  <2> TAKE i \in DOMAIN b
  <2>1. p.n < At(qs, x) /\ At(qs, x) \in 1..SENDS
    BY <1>3, <1>5, PlaceIs
  <2>2. CASE i = Len(a) + 1
    BY <1>2, <2>1, <2>2
  <2>3. CASE i # Len(a) + 1
    <3>1. b[i] = a[i] /\ i \in DOMAIN a
      BY <1>4, <2>3
    <3> QED  BY <1>5, <3>1 DEF Flown, Placed
  <2> QED  BY <2>2, <2>3
<1>6. Placed(m, t, qs, b, n, f)
  BY <1>5 DEF Flown, Placed
<1>7. \A i \in DOMAIN b : b[i] <= n
  <2> TAKE i \in DOMAIN b
  <2>1. CASE i = Len(a) + 1
    BY <1>2, <2>1 DEF MayCome
  <2>2. CASE i # Len(a) + 1
    <3>1. b[i] = a[i] /\ i \in DOMAIN a
      BY <1>4, <2>2
    <3> QED  BY <3>1 DEF Flown
  <2> QED  BY <2>1, <2>2
<1>8. InOrder(b)
  <2> SUFFICES ASSUME NEW i \in DOMAIN b, NEW j \in DOMAIN b, i < j PROVE b[i] < b[j]
    BY DEF InOrder
  <2>1. i # Len(a) + 1
    BY <1>2
  <2>2. CASE j = Len(a) + 1
    BY <1>2, <1>4, <2>1, <2>2
  <2>3. CASE j # Len(a) + 1
    <3>1. i \in DOMAIN a /\ j \in DOMAIN a /\ b[i] = a[i] /\ b[j] = a[j]
      BY <1>4, <2>1, <2>3
    <3> QED  BY <3>1 DEF Flown, InOrder
  <2> QED  BY <2>2, <2>3
<1> QED  BY <1>6, <1>7, <1>8 DEF Flown, b

-----------------------------------------------------------------------------
(* The steps of recv and run. *)

LEMMA TablesComplete ==
  ASSUME TableInv, Ready
  PROVE  /\ Complete(map, routingTable) /\ map \in Maps
         /\ \A r, v \in Routers : r # v => <<r, routingTable[r][v]>> \in Directions
<1>1. \A r, v \in Routers : v # r => IsRoute(map, r, v, routingTable[r][v])
  BY DEF TableInv, TablesInv, Ready, Left
<1>2. map \in Maps
  BY DEF TableInv, TableTypes
<1>3. ASSUME NEW r \in Routers, NEW v \in Routers, r # v
      PROVE  <<r, routingTable[r][v]>> \in Directions
  <2> DEFINE w == routingTable[r][v]
  <2>1. w \in Neighbours(map, r)
    BY <1>1, <1>3 DEF IsRoute
  <2> HIDE DEF w
  <2>2. w \in Routers /\ {r, w} \in map
    BY <2>1 DEF Neighbours, Routers
  <2>3. <<r, w>> \in Directions
    BY <2>2 DEF Directions
  <2> QED  BY <2>3 DEF w
<1> QED  BY <1>1, <1>2, <1>3 DEF Complete, Routers

LEMMA QueuesAre ==
  ASSUME map \in Maps, NEW qs, QueueTypes(qs)
  PROVE  Queues(qs) /\ DOMAIN qs = Directions
<1>1. Directions \subseteq Nat \X Nat
  BY Read DEF Directions
<1>2. qs \in [Directions -> Seq(Packet)]
  BY DEF QueueTypes
<1>3. DOMAIN qs = Directions
  BY <1>2
<1> QED  BY <1>1, <1>2, <1>3 DEF Queues

\* Whatever recv does with a datagram that may come, the flows stay in order.
LEMMA RecvKeeps ==
  ASSUME TableInv, PacketInv, Ready, UNCHANGED <<map, routingTable>>,
         NEW r \in Routers, NEW p \in Packet, NEW qs, QueueTypes(qs),
         sent' \in 0..SENDS,
         \A f \in Flows : /\ Flown(map, routingTable, qs, arrived[f], sent', f)
                          /\ Flown(map, routingTable, queues, arrived[f], sent', f),
         MayCome(map, routingTable, qs, arrived[p.flow], sent', r, p),
         Recv(r, p, qs)
  PROVE  PacketInv' /\ \A f \in Flows : Flown(map, routingTable, queues', arrived'[f], sent', f)
<1> DEFINE n == sent'
<1>1. Directions' = Directions
  BY DEF Directions, Routers
<1>2. /\ Complete(map, routingTable) /\ map \in Maps
      /\ \A q, v \in Routers : q # v => <<q, routingTable[q][v]>> \in Directions
  BY TablesComplete
<1>3. Queues(qs) /\ DOMAIN qs = Directions
  BY <1>2, QueuesAre
<1>4. p.flow \in Flows /\ p.n \in 1..SENDS
  BY DEF Packet
<1>5. arrived \in [Flows -> Seq(1..SENDS)] /\ arrived[p.flow] \in Seq(1..SENDS)
  BY <1>4 DEF PacketInv
<1>6. CASE Hand(r, p, qs)
  <2>1. /\ r = p.flow[2] /\ queues' = qs
        /\ arrived' = [arrived EXCEPT ![p.flow] = Append(@, p.n)]
    BY <1>6 DEF Hand
  <2>2. arrived' \in [Flows -> Seq(1..SENDS)]
    <3> DEFINE T == 1..SENDS
               e == p.n
    <3>1. e \in T /\ arrived[p.flow] \in Seq(T)
      BY <1>4, <1>5
    <3> HIDE DEF T, e
    <3>2. Append(arrived[p.flow], e) \in Seq(T)
      BY <3>1
    <3> QED  BY <1>5, <2>1, <3>2 DEF T, e
  <2>3. Flown(map, routingTable, qs, Append(arrived[p.flow], p.n), n, p.flow)
    BY <1>2, <1>3, <1>4, <1>5, <2>1, HandKeeps
  <2>4. ASSUME NEW f \in Flows PROVE Flown(map, routingTable, queues', arrived'[f], n, f)
    <3>1. CASE f = p.flow
      <4>1. arrived'[f] = Append(arrived[p.flow], p.n)
        BY <1>4, <1>5, <2>1, <3>1
      <4> QED  BY <2>1, <2>3, <3>1, <4>1
    <3>2. CASE f # p.flow
      <4>1. arrived'[f] = arrived[f]
        BY <1>5, <2>1, <3>2
      <4> QED  BY <2>1, <4>1
    <3> QED  BY <3>1, <3>2
  <2>5. QueueTypes(queues)'
    BY <1>1, <2>1 DEF QueueTypes
  <2> QED  BY <2>2, <2>4, <2>5 DEF PacketInv
<1>7. CASE Pass(r, p, qs)
  <2> DEFINE d == <<r, routingTable[r][p.flow[2]]>>
  <2>1. /\ r # p.flow[2] /\ p.flow[2] \in Routers /\ arrived' = arrived
        /\ queues' = Joined(qs, d, p)
    BY <1>7 DEF Pass, Joined, NextHop
  <2>2. d \in DOMAIN qs /\ Len(qs[d]) <= CAP
    <3>1. d \in Directions
      BY <1>2, <2>1
    <3> HIDE DEF d
    <3> QED  BY <1>3, <3>1 DEF QueueTypes
  <2>3. d = <<r, routingTable[r][p.flow[2]]>>
    OBVIOUS
  <2> HIDE DEF d
  <2>4. ASSUME NEW f \in Flows PROVE Flown(map, routingTable, queues', arrived'[f], n, f)
    <3>1. /\ Flown(map, routingTable, qs, arrived[f], n, f)
          /\ f = p.flow => MayCome(map, routingTable, qs, arrived[f], n, r, p)
          /\ p.flow[2] \in RoutersOf(map)
      BY <2>1 DEF Routers
    <3>2. Flown(map, routingTable, Joined(qs, d, p), arrived[f], n, f)
      BY <1>2, <1>3, <2>1, <2>2, <2>3, <3>1, PassKeeps
    <3> QED  BY <2>1, <3>2
  <2>5. QueueTypes(queues)'
    <3>1. /\ Queues(Joined(qs, d, p)) /\ DOMAIN Joined(qs, d, p) = DOMAIN qs
          /\ \A e \in DOMAIN qs : e # d => Joined(qs, d, p)[e] = qs[e]
          /\ Len(Joined(qs, d, p)[d]) <= CAP
      BY <1>3, <2>2, JoinedIs
    <3>2. \A e \in Directions : Len(Joined(qs, d, p)[e]) <= CAP
      BY <1>3, <3>1 DEF QueueTypes
    <3>3. Joined(qs, d, p) \in [Directions -> Seq(Packet)]
      BY <1>3, <3>1 DEF Queues
    <3> QED  BY <1>1, <2>1, <3>2, <3>3 DEF QueueTypes
  <2> QED  BY <1>5, <2>1, <2>4, <2>5 DEF PacketInv
<1>8. CASE Die(r, p)
  <2>1. queues' = queues /\ arrived' = arrived
    BY <1>8 DEF Die
  <2>2. QueueTypes(queues)'
    BY <1>1, <2>1 DEF PacketInv, QueueTypes
  <2> QED  BY <1>5, <2>1, <2>2 DEF PacketInv
<1>9. CASE Drop(p, qs)
  <2>1. queues' = qs /\ arrived' = arrived
    BY <1>9 DEF Drop
  <2>2. QueueTypes(queues)'
    BY <1>1, <2>1 DEF QueueTypes
  <2> QED  BY <1>5, <2>1, <2>2 DEF PacketInv
<1> QED  BY <1>6, <1>7, <1>8, <1>9 DEF Recv

\* More datagrams may have been sent than are accounted for.
LEMMA MoreSent ==
  ASSUME NEW m, NEW t, NEW qs, Queues(qs), NEW a \in Seq(1..SENDS), NEW n \in Nat, NEW f,
         Flown(m, t, qs, a, n, f)
  PROVE  /\ Flown(m, t, qs, a, n + 1, f)
         /\ \A x \in Places(qs, f) : At(qs, x) < n + 1
         /\ \A i \in DOMAIN a : a[i] < n + 1
<1>1. \A i \in DOMAIN a : a[i] \in Int
  <2> DEFINE T == 1..SENDS
  <2>0. a \in Seq(T)
    OBVIOUS
  <2> HIDE DEF T
  <2>1. \A i \in 1..Len(a) : a[i] \in T
    BY <2>0
  <2> USE DEF T
  <2> QED  BY <2>1, LenProperties
<1>2. \A x \in Places(qs, f) : At(qs, x) \in Int
  BY PlaceIs
<1>3. \A x \in Places(qs, f) : At(qs, x) <= n + 1 /\ At(qs, x) < n + 1
  BY <1>2 DEF Flown, Placed
<1>4. \A i \in DOMAIN a : a[i] <= n + 1 /\ a[i] < n + 1
  BY <1>1 DEF Flown
<1> QED  BY <1>3, <1>4 DEF Flown, Placed

LEMMA InsertKeeps ==
  ASSUME TableInv, PacketInv, FlightInv, NEW f \in Flows, Insert(f)
  PROVE  PacketInv' /\ FlightInv'
<1> DEFINE p == Headed(f, sent + 1)
           F(g, n) == Flown(map, routingTable, queues, arrived[g], n, g)
<1>1. /\ Ready /\ f[1] \in Routers /\ sent < SENDS /\ sent' = sent + 1
      /\ UNCHANGED <<map, routingTable>> /\ Recv(f[1], p, queues)
  BY DEF Insert, Up, tableVars
<1>2. sent \in Nat /\ sent + 1 \in 1..SENDS /\ sent' \in 0..SENDS
  BY <1>1, NetworkAssumption DEF PacketInv, NetworkAssumption
<1>3. p.flow = f /\ p.n = sent + 1 /\ p \in Packet
  BY <1>2 DEF Headed, Packet
<1> HIDE DEF p
<1>4. Complete(map, routingTable) /\ QueueTypes(queues) /\ Queues(queues)
  BY <1>1, TablesComplete, QueuesAre DEF PacketInv
<1>5. ASSUME NEW g \in Flows
      PROVE  /\ Flown(map, routingTable, queues, arrived[g], sent, g)
             /\ Flown(map, routingTable, queues, arrived[g], sent', g)
             /\ \A x \in Places(queues, g) : At(queues, x) < sent + 1
             /\ \A i \in DOMAIN arrived[g] : arrived[g][i] < sent + 1
  <2>1. Flown(map, routingTable, queues, arrived[g], sent, g)
    BY <1>1 DEF FlightInv
  <2>2. arrived[g] \in Seq(1..SENDS)
    BY DEF PacketInv
  <2> QED  BY <1>1, <1>2, <1>4, <2>1, <2>2, MoreSent
<1>6. f[1] \in RoutersOf(map) /\ f[1] \in OnWay(map, routingTable, f)
  BY <1>1, <1>4, WayGoesOn DEF Routers
<1>7. ASSUME NEW x \in Places(queues, f) PROVE ~ (Distance(map, f[1], f[2]) < ToGo(map, f, x))
  <2>1. /\ f[2] \in RoutersOf(map) /\ x[1][1] \in OnWay(map, routingTable, f)
    BY <1>5, <1>7 DEF Flown, Placed
  <2>2. Distance(map, f[1], f[2]) \in Nat /\ ToGo(map, f, x) \in Nat
    BY <1>4, <1>6, <2>1, WayGoesOn, ToGoIsNat DEF ToGo
  <2>3. x[1][1] # f[1] => ToGo(map, f, x) < Distance(map, f[1], f[2])
    BY <1>4, <1>6, <2>1, WayGoesDown DEF ToGo
  <2>4. x[1][1] = f[1] => ToGo(map, f, x) = Distance(map, f[1], f[2])
    BY DEF ToGo
  <2> QED  BY <2>2, <2>3, <2>4
<1>8. MayCome(map, routingTable, queues, arrived[p.flow], sent', f[1], p)
  <2>1. p.n <= sent' /\ \A i \in DOMAIN arrived[f] : arrived[f][i] < p.n
    BY <1>1, <1>2, <1>3, <1>5
  <2>2. ASSUME NEW x \in Places(queues, f)
        PROVE  IF Distance(map, f[1], f[2]) < ToGo(map, f, x) THEN p.n < At(queues, x) ELSE At(queues, x) < p.n
    BY <1>3, <1>5, <1>7
  <2> QED  BY <1>3, <1>6, <2>1, <2>2 DEF MayCome
<1>9. PacketInv' /\ \A g \in Flows : Flown(map, routingTable, queues', arrived'[g], sent', g)
  BY <1>1, <1>2, <1>3, <1>4, <1>5, <1>8, RecvKeeps
<1>10. Ready'
  BY <1>1 DEF Ready, Left, Routers
<1> QED  BY <1>1, <1>9, <1>10 DEF FlightInv

LEMMA RunKeeps ==
  ASSUME TableInv, PacketInv, FlightInv, NEW d \in Directions, Run(d)
  PROVE  PacketInv' /\ FlightInv'
<1> DEFINE p == queues[d][1]
           rest == Popped(queues, d)
<1>1. /\ Ready /\ queues[d] # <<>> /\ sent' = sent /\ UNCHANGED <<map, routingTable>>
      /\ Recv(d[2], p, rest)
  BY DEF Run, Up, tableVars, Due, Popped
<1>2. /\ Complete(map, routingTable) /\ QueueTypes(queues) /\ Queues(queues)
      /\ DOMAIN queues = Directions
  BY <1>1, TablesComplete, QueuesAre DEF PacketInv
<1>3. queues[d] \in Seq(Packet) /\ Len(queues[d]) <= CAP
  BY <1>2 DEF QueueTypes
<1>4. p \in Packet /\ p.flow \in Flows
  <2>1. p \in Packet
    BY <1>1, <1>3, Leave
  <2> QED  BY <2>1 DEF Packet
<1>5. d[2] \in Routers
  BY DEF Directions
<1>6. /\ Queues(rest) /\ DOMAIN rest = Directions
      /\ Len(queues[d]) \in Nat \ {0} /\ Len(rest[d]) = Len(queues[d]) - 1
      /\ \A e \in Directions : e # d => rest[e] = queues[e]
  BY <1>1, <1>2, PoppedIs
<1>7. ASSUME NEW g \in Flows
      PROVE  /\ Flown(map, routingTable, queues, arrived[g], sent, g)
             /\ Flown(map, routingTable, rest, arrived[g], sent, g)
  BY <1>1, <1>2, LeaveKeeps DEF FlightInv
<1>8. MayCome(map, routingTable, rest, arrived[p.flow], sent, d[2], p)
  <2>1. Flown(map, routingTable, queues, arrived[p.flow], sent, p.flow)
    BY <1>4, <1>7
  <2> QED  BY <1>1, <1>2, <2>1, LeaverMayCome
<1> HIDE DEF rest, p
<1>9. QueueTypes(rest)
  <2>1. \A e \in Directions : Len(rest[e]) <= CAP
    <3> TAKE e \in Directions
    <3>1. CASE e = d
      BY <1>3, <1>6, <3>1, LinkAssumption DEF LinkAssumption
    <3>2. CASE e # d
      BY <1>2, <1>6, <3>2 DEF QueueTypes
    <3> QED  BY <3>1, <3>2
  <2> QED  BY <1>6, <2>1 DEF QueueTypes, Queues
<1>10. sent' \in 0..SENDS
  BY <1>1 DEF PacketInv
<1>11. PacketInv' /\ \A g \in Flows : Flown(map, routingTable, queues', arrived'[g], sent', g)
  BY <1>1, <1>4, <1>5, <1>7, <1>8, <1>9, <1>10, RecvKeeps
<1>12. Ready'
  BY <1>1 DEF Ready, Left, Routers
<1> QED  BY <1>1, <1>11, <1>12 DEF FlightInv

\* The queues are empty until the tables are there, and then createTable is over.
LEMMA StartKeeps ==
  ASSUME TableInv, PacketInv, FlightInv, Start
  PROVE  PacketInv' /\ FlightInv'
<1>1. map' = map /\ queues' = queues /\ sent' = sent /\ arrived' = arrived
  BY DEF Start, packetVars
<1>2. Directions' = Directions
  BY <1>1 DEF Directions, Routers
<1>3. PacketInv'
  BY <1>1, <1>2 DEF PacketInv, QueueTypes
<1>4. ~ Ready
  <2> SUFFICES ASSUME Ready PROVE FALSE
    OBVIOUS
  <2>1. \A r \in Routers : Left(r) = {}
    BY DEF Ready
  <2>2. self = None
    BY <2>1 DEF TableInv, TableTypes
  <2>3. startRoute = None
    BY <2>2 DEF TableInv
  <2> QED  BY <2>1, <2>2, <2>3 DEF Start, CreateTable, Visit, Follow, Enter
<1>5. Silent'
  BY <1>1, <1>2, <1>4 DEF FlightInv, Silent
<1>6. ASSUME NEW f \in Flows
      PROVE  Flown(map', routingTable', queues, arrived[f], sent, f)
  <2>1. Places(queues, f) = {}
    <3>1. DOMAIN queues = Directions
      BY DEF PacketInv, QueueTypes
    <3>2. \A d \in Directions : queues[d] = <<>>
      BY <1>4 DEF FlightInv, Silent
    <3> QED  BY <3>1, <3>2 DEF Places
  <2>2. arrived[f] = <<>>
    BY <1>4 DEF FlightInv, Silent
  <2>3. DOMAIN arrived[f] = {}
    BY <2>2
  <2> QED  BY <2>1, <2>3 DEF Flown, Placed, Ordered, InOrder
<1> QED  BY <1>1, <1>3, <1>5, <1>6 DEF FlightInv

LEMMA FlightInit == Init => PacketInv /\ FlightInv
<1> SUFFICES ASSUME Init PROVE PacketInv /\ FlightInv
  OBVIOUS
<1>1. queues = [d \in Directions |-> <<>>] /\ arrived = [f \in Flows |-> <<>>] /\ sent = 0
  BY DEF Init
<1>2. SENDS \in Nat /\ CAP \in Nat
  BY NetworkAssumption, LinkAssumption DEF NetworkAssumption, LinkAssumption
<1>3. Len(<<>>) = 0 /\ <<>> \in Seq(Packet) /\ <<>> \in Seq(1..SENDS)
  BY EmptySeq
<1>4. PacketInv
  <2>1. QueueTypes(queues)
    BY <1>1, <1>2, <1>3 DEF QueueTypes
  <2>2. arrived \in [Flows -> Seq(1..SENDS)]
    BY <1>1, <1>3
  <2> QED  BY <1>1, <1>2, <2>1, <2>2 DEF PacketInv
<1>5. Silent
  BY <1>1 DEF Silent
<1>6. ~ Ready
  <2> SUFFICES ASSUME Ready PROVE FALSE
    OBVIOUS
  <2>1. PICK r \in Routers : Left(r) = {}
    BY DEF Ready
  <2>2. \E v \in Routers : v # r
    <3>1. PICK link \in map : r \in link
      BY DEF Routers, RoutersOf
    <3>2. link # {r}
      <4>1. Cardinality(link) = 2
        BY <3>1, NetworkAssumption DEF NetworkAssumption, Init
      <4>2. Cardinality({r}) = 1
        BY FS_Singleton
      <4> QED  BY <4>1, <4>2
    <3> QED  BY <3>1, <3>2 DEF Routers, RoutersOf
  <2>3. \A v \in Routers : routingTable[r][v] = None
    BY DEF Init
  <2> QED  BY <2>1, <2>2, <2>3 DEF Left
<1> QED  BY <1>4, <1>5, <1>6 DEF FlightInv

LEMMA FlightSteps == TableInv /\ PacketInv /\ FlightInv /\ [Next]_vars => PacketInv' /\ FlightInv'
<1> SUFFICES ASSUME TableInv, PacketInv, FlightInv, [Next]_vars PROVE PacketInv' /\ FlightInv'
  OBVIOUS
<1>1. CASE Start
  BY <1>1, StartKeeps
<1>2. ASSUME NEW f \in Flows, Insert(f) PROVE PacketInv' /\ FlightInv'
  BY <1>2, InsertKeeps
<1>3. ASSUME NEW d \in Directions, Run(d) PROVE PacketInv' /\ FlightInv'
  BY <1>3, RunKeeps
<1>4. CASE UNCHANGED vars
  <2>1. /\ map' = map /\ routingTable' = routingTable /\ queues' = queues /\ sent' = sent
        /\ arrived' = arrived
    BY <1>4 DEF vars, tableVars, packetVars
  <2>2. Directions' = Directions /\ Ready' = Ready
    BY <2>1 DEF Directions, Ready, Left, Routers
  <2>3. PacketInv'
    BY <2>1, <2>2 DEF PacketInv, QueueTypes
  <2>4. FlightInv'
    BY <2>1, <2>2 DEF FlightInv, Silent
  <2> QED  BY <2>3, <2>4
<1> QED  BY <1>1, <1>2, <1>3, <1>4 DEF Next

\* The invariant of the datagrams under way, on top of the one of the tables: each is on
\* the way of its flow, and who is ahead was sent first.
THEOREM FlightInvariance == Spec => [](TableInv /\ PacketInv /\ FlightInv)
<1>1. Init => TableInv /\ PacketInv /\ FlightInv
  BY TableInit, FlightInit
<1>2. TableInv /\ PacketInv /\ FlightInv /\ [Next]_vars => (TableInv /\ PacketInv /\ FlightInv)'
  BY TableSteps, FlightSteps
<1> QED  BY <1>1, <1>2, PTL DEF Spec

\* The variables have their types, and no queue holds more than it may.
THEOREM TypesAlwaysOK == Spec => []TypeOK
<1>1. TableInv /\ PacketInv => TypeOK
  BY DEF TableInv, TableTypes, PacketInv, QueueTypes, TypeOK
<1> QED  BY <1>1, FlightInvariance, PTL

\* For any topology, any flows and any number of datagrams, those of one flow arrive in
\* the order in which they were sent.
THEOREM AlwaysArriveInOrder == Spec => []ArriveInOrder
<1>1. TableInv /\ PacketInv /\ FlightInv => ArriveInOrder
  <2> SUFFICES ASSUME PacketInv, FlightInv, NEW f \in Flows PROVE InOrder(arrived[f])
    BY DEF ArriveInOrder, InOrder
  <2>1. CASE Ready
    BY <2>1 DEF FlightInv, Flown
  <2>2. CASE ~ Ready
    <3>1. arrived[f] = <<>>
      BY <2>2 DEF FlightInv, Silent
    <3>2. DOMAIN arrived[f] = {}
      BY <3>1
    <3> QED  BY <3>2 DEF InOrder
  <2> QED  BY <2>1, <2>2
<1> QED  BY <1>1, FlightInvariance, PTL
=============================================================================
