--------------------------- MODULE DownloadProofs ---------------------------
(***************************************************************************)
(* What the client does while no chunk is corrupted: each connection is    *)
(* the only one of its peer, a wished chunk is refused only while it is    *)
(* being received, the client never waits for nothing, and it implements   *)
(* Download.  Where every peer has every chunk, a GET command also never   *)
(* misses a timer, and with at most two chunks the file is in order.       *)
(***************************************************************************)
EXTENDS DownloaderProofs, FunctionTheorems

\* Uploaders send the chunks they are asked for, a chunk has more than one packet,
\* and there is a slot in c_states for every chunk of the GET command.
Clean == ~Corrupt /\ PACKETS >= 2 /\ Len(WishList) <= MAX_CONN

\* Before the first GET command nothing has happened.
IdleInv ==
  gets = 0 => /\ downloading = <<>> /\ c_states = <<>> /\ timers = <<>>
              /\ \A p \in Peers : toPeer[p] = <<>> /\ toClient[p] = <<>>

\* A connection either waits for its chunk, which is then wished and in downloading,
\* or is gone; and it is the only one of its peer.
ConnsInv ==
  /\ \A i \in DOMAIN c_states : ~Receiving(i) => c_states[i] = Destroyed
  /\ \A i \in DOMAIN c_states : Receiving(i) =>
       c_states[i].temp_data = IF c_states[i].ack_number = 0 THEN {} ELSE {c_states[i].chunk}
  /\ RefusedOnlyWhileReceiving
  /\ \A i, j \in DOMAIN c_states :
       Receiving(i) /\ Receiving(j) /\ c_states[i].server = c_states[j].server => i = j

\* Every connection ever made was for a different chunk: f names its place in the
\* chunk file.
SlotOf(f) ==
  \A i \in DOMAIN c_states :
    IF Receiving(i) THEN WishList[f[i]] = c_states[i].chunk
                    ELSE WishList[f[i]] \notin ToSet(wish)

SlotsInv == \E f \in Injection(DOMAIN c_states, DOMAIN WishList) : SlotOf(f)

\* The order of the chunk file.
Before(c, d) == \E i, j \in DOMAIN WishList : i < j /\ WishList[i] = c /\ WishList[j] = d

Ordered(list) == \A i, j \in DOMAIN list : i < j => Before(list[i], list[j])

\* Chunk c is p's, and no chunk of w that is p's precedes it.
FirstOf(w, p, c) == c \in Has[p] /\ \A d \in w \cap Has[p] : d = c \/ Before(c, d)

\* Lists are sent in order and the wish list only shrinks, so that all offers of a peer
\* agree on the chunk it is asked for next.
AskedInOrder(w, req) ==
  \A x \in DOMAIN req : req[x].type = "WHOHAS" =>
    Ordered(req[x].chunks) /\ w \subseteq ToSet(req[x].chunks)

OffersFirst(w, p, q) ==
  \A x \in DOMAIN q : q[x].type = "IHAVE" => FirstOf(w, p, q[x].first)

OffersInv ==
  /\ Ordered(wish)
  /\ \A p \in Peers :
       AskedInOrder(ToSet(wish), toPeer[p]) /\ OffersFirst(ToSet(wish), p, toClient[p])
  /\ \A i \in DOMAIN c_states : Receiving(i) =>
       FirstOf(ToSet(wish), c_states[i].server, c_states[i].chunk)

Get(c) == [type |-> "GET", chunk |-> c]

Data(c, s) == [type |-> "DATA", seq |-> s, bytes |-> c]

\* No GET, or one, for chunk c, in a queue of requests.
NoGet(req) == \A x \in DOMAIN req : req[x].type # "GET"

OneGet(req, c) ==
  \E g \in DOMAIN req : req[g] = Get(c) /\ \A x \in DOMAIN req : req[x].type = "GET" => x = g

\* A DATA packet in queue q, beyond positions k + 1 to k + n, is a last one.
QuietBut(q, k, n) ==
  \A x \in DOMAIN q : q[x].type = "DATA" => x \in k + 1 .. k + n \/ q[x].seq = PACKETS

Quiet(q) == \A x \in DOMAIN q : q[x].type = "DATA" => q[x].seq = PACKETS

\* The packets of chunk c after the n-th are in queue q, in order and together, and
\* when n is not 0 nothing precedes them.
Packets(q, c, n) ==
  \E k \in 0..Len(q) :
    /\ n > 0 => k = 0
    /\ k + PACKETS - n <= Len(q)
    /\ \A j \in 1..PACKETS - n : q[k + j] = Data(c, n + j)
    /\ QuietBut(q, k, PACKETS - n)

\* A connection for chunk c with acknowledgement n: the GET is still on its way, or the
\* packets that are missing are.
InFlight(req, q, c, n) ==
  \/ n = 0 /\ OneGet(req, c) /\ Quiet(q)
  \/ NoGet(req) /\ Packets(q, c, n)

Serves(p, i) == Receiving(i) /\ c_states[i].server = p

Flight(p) ==
  /\ (\A i \in DOMAIN c_states : ~Serves(p, i)) => NoGet(toPeer[p]) /\ Quiet(toClient[p])
  /\ \A i \in DOMAIN c_states : Serves(p, i) =>
       InFlight(toPeer[p], toClient[p], c_states[i].chunk, c_states[i].ack_number)

FlightInv == ~exited => \A p \in Peers : Flight(p)

\* The first timer, which NULL names, and the one whohas_timerid names are WHOHAS
\* timers; while chunks are wished one is armed, or something is received.
IsWhohas(id) == id + 1 \in DOMAIN timers /\ timers[id + 1].owner = WHOHAS

TimersInv ==
  /\ gets > 0 => IsWhohas(NULL) /\ IsWhohas(whohas_timerid)
  /\ gets > 0 /\ wish # <<>> /\ ~exited =>
       \/ \E t \in DOMAIN timers : timers[t].armed /\ timers[t].owner = WHOHAS
       \/ \E i \in DOMAIN c_states : Receiving(i)

CleanInv ==
  Clean /\ Inv /\ IdleInv /\ ConnsInv /\ SlotsInv /\ OffersInv /\ FlightInv /\ TimersInv

-----------------------------------------------------------------------------
(* Queues of requests. *)

LEMMA AppendRequest ==
  ASSUME NEW req \in Seq(Request), NEW r \in Request
  PROVE  /\ r.type # "GET" /\ NoGet(req) => NoGet(Append(req, r))
         /\ \A c : r.type # "GET" /\ OneGet(req, c) => OneGet(Append(req, r), c)
         /\ \A c : r = Get(c) /\ NoGet(req) => OneGet(Append(req, r), c)
<1> DEFINE l == Append(req, r)
           n == Len(req)
<1>1. /\ n \in Nat /\ DOMAIN req = 1..n /\ DOMAIN l = 1..n + 1
      /\ l[n + 1] = r /\ \A x \in 1..n : l[x] = req[x]
  OBVIOUS
<1> HIDE DEF l, n
<1>2. r.type # "GET" /\ NoGet(req) => NoGet(l)
  BY <1>1 DEF NoGet
<1>3. ASSUME NEW c, r.type # "GET", OneGet(req, c) PROVE OneGet(l, c)
  <2>1. PICK g \in 1..n : req[g] = Get(c) /\ \A x \in 1..n : req[x].type = "GET" => x = g
    BY <1>1, <1>3 DEF OneGet
  <2>2. g \in 1..n + 1 /\ l[g] = Get(c)
    BY <1>1, <2>1
  <2>3. ASSUME NEW x \in 1..n + 1, l[x].type = "GET" PROVE x = g
    <3>1. x # n + 1
      BY <1>1, <1>3, <2>3
    <3>2. x \in 1..n
      BY <1>1, <3>1
    <3> QED  BY <1>1, <2>1, <2>3, <3>2
  <2> QED  BY <1>1, <2>2, <2>3 DEF OneGet
<1>4. ASSUME NEW c, r = Get(c), NoGet(req) PROVE OneGet(l, c)
  <2>1. n + 1 \in 1..n + 1 /\ l[n + 1] = Get(c)
    BY <1>1, <1>4
  <2>2. ASSUME NEW x \in 1..n + 1, l[x].type = "GET" PROVE x = n + 1
    <3> SUFFICES ASSUME x # n + 1 PROVE FALSE
      OBVIOUS
    <3>1. x \in 1..n
      BY <1>1
    <3> QED  BY <1>1, <1>4, <2>2, <3>1 DEF NoGet
  <2> QED  BY <1>1, <2>1, <2>2 DEF OneGet
<1> QED  BY <1>2, <1>3, <1>4 DEF l

LEMMA TailRequest ==
  ASSUME NEW req \in Seq(Request), req # <<>>
  PROVE  /\ NoGet(req) => Head(req).type # "GET" /\ NoGet(Tail(req))
         /\ \A c : Head(req).type # "GET" /\ OneGet(req, c) => OneGet(Tail(req), c)
         /\ \A c : Head(req).type = "GET" /\ OneGet(req, c) =>
                     Head(req) = Get(c) /\ NoGet(Tail(req))
<1> DEFINE l == Tail(req)
           n == Len(req)
<1>1. /\ n \in Nat \ {0} /\ DOMAIN req = 1..n /\ DOMAIN l = 1..n - 1
      /\ Head(req) = req[1] /\ \A x \in 1..n - 1 : l[x] = req[x + 1]
  OBVIOUS
<1> HIDE DEF l, n
<1>2. NoGet(req) => Head(req).type # "GET" /\ NoGet(l)
  BY <1>1 DEF NoGet
<1>3. ASSUME NEW c, OneGet(req, c)
      PROVE  IF Head(req).type = "GET" THEN Head(req) = Get(c) /\ NoGet(l) ELSE OneGet(l, c)
  <2>1. PICK g \in 1..n : req[g] = Get(c) /\ \A x \in 1..n : req[x].type = "GET" => x = g
    BY <1>1, <1>3 DEF OneGet
  <2>2. CASE Head(req).type = "GET"
    <3>1. g = 1
      BY <1>1, <2>1, <2>2
    <3>2. \A x \in 1..n - 1 : l[x].type # "GET"
      BY <1>1, <2>1, <3>1
    <3> QED  BY <1>1, <2>1, <2>2, <3>1, <3>2 DEF NoGet
  <2>3. CASE Head(req).type # "GET"
    <3>1. g # 1
      BY <1>1, <2>1, <2>3 DEF Get
    <3>2. g - 1 \in 1..n - 1 /\ l[g - 1] = Get(c)
      BY <1>1, <2>1, <3>1
    <3>3. \A x \in 1..n - 1 : l[x].type = "GET" => x = g - 1
      BY <1>1, <2>1
    <3> QED  BY <1>1, <2>3, <3>2, <3>3 DEF OneGet
  <2> QED  BY <2>2, <2>3
<1> QED  BY <1>2, <1>3 DEF l

-----------------------------------------------------------------------------
(* Queues of datagrams to the client. *)

LEMMA AppendDatagram ==
  ASSUME NEW q \in Seq(Datagram), NEW m \in Datagram, m.type # "DATA"
  PROVE  /\ Quiet(q) => Quiet(Append(q, m))
         /\ \A c : \A n \in 0..PACKETS : Packets(q, c, n) => Packets(Append(q, m), c, n)
<1> DEFINE l == Append(q, m)
           s == Len(q)
<1>1. /\ s \in Nat /\ DOMAIN q = 1..s /\ DOMAIN l = 1..s + 1 /\ Len(l) = s + 1
      /\ l[s + 1] = m /\ \A x \in 1..s : l[x] = q[x]
  OBVIOUS
<1> HIDE DEF l
<1>2. Quiet(q) => Quiet(l)
  BY <1>1 DEF Quiet
<1>3. ASSUME NEW c, NEW n \in 0..PACKETS, Packets(q, c, n) PROVE Packets(l, c, n)
  <2> DEFINE N == PACKETS - n
  <2>1. PICK k \in 0..s : /\ n > 0 => k = 0
                          /\ k + PACKETS - n <= s
                          /\ \A j \in 1..N : q[k + j] = Data(c, n + j)
                          /\ QuietBut(q, k, N)
    BY <1>3 DEF Packets
  <2>2. N \in Nat /\ k + N <= s /\ k \in 0..s + 1 /\ k + PACKETS - n <= s + 1
    BY <1>1, <2>1, Constants
  <2> HIDE DEF s, N
  <2>3. \A j \in 1..N : l[k + j] = Data(c, n + j)
    BY <1>1, <2>1, <2>2
  <2>4. QuietBut(l, k, N)
    <3> SUFFICES ASSUME NEW x \in 1..s + 1, l[x].type = "DATA"
                 PROVE  x \in k + 1 .. k + N \/ l[x].seq = PACKETS
      BY <1>1 DEF QuietBut
    <3>1. x \in 1..s
      BY <1>1
    <3> QED  BY <1>1, <2>1, <3>1 DEF QuietBut
  <2> QED  BY <1>1, <2>1, <2>2, <2>3, <2>4 DEF Packets, N
<1> QED  BY <1>2, <1>3 DEF l

\* An upload begins where the queue ends.
LEMMA UploadDatagrams ==
  ASSUME NEW q \in Seq(Datagram), Quiet(q), NEW c \in Chunks, NEW again \in 0..RESENDS
  PROVE  Packets(q \o Upload(c, again), c, 0)
<1> DEFINE u == Upload(c, again)
           s == Len(q)
           l == q \o u
<1>1. /\ u \in Seq(Datagram) /\ Len(u) = PACKETS + again
      /\ \A i \in 1..PACKETS + again :
              u[i] = [type |-> "DATA", seq |-> IF i <= PACKETS THEN i ELSE PACKETS, bytes |-> c]
  BY UploadIsPackets
<1>2. PACKETS \in Nat \ {0} /\ again \in Nat /\ s \in Nat /\ DOMAIN q = 1..s
  BY Constants
<1> HIDE DEF u
<1>3. /\ l \in Seq(Datagram) /\ Len(l) = s + Len(u)
      /\ \A x \in 1..s + Len(u) : l[x] = IF x <= s THEN q[x] ELSE u[x - s]
  BY <1>1, ConcatProperties
<1> HIDE DEF l, s
<1>4. Len(l) = s + PACKETS + again /\ DOMAIN l = 1..s + PACKETS + again
  BY <1>1, <1>2, <1>3
<1>5. \A j \in 1..PACKETS : u[j] = Data(c, 0 + j)
  BY <1>1, <1>2 DEF Data
<1>6. \A j \in 1..PACKETS : l[s + j] = Data(c, 0 + j)
  <2> SUFFICES ASSUME NEW j \in 1..PACKETS PROVE l[s + j] = Data(c, 0 + j)
    OBVIOUS
  <2>1. s + j \in 1..s + Len(u) /\ ~ (s + j <= s) /\ (s + j) - s = j
    BY <1>1, <1>2
  <2> QED  BY <1>3, <1>5, <2>1
<1>7. QuietBut(l, s, PACKETS)
  <2> SUFFICES ASSUME NEW x \in 1..s + PACKETS + again, l[x].type = "DATA",
                      x \notin s + 1 .. s + PACKETS
               PROVE  l[x].seq = PACKETS
    BY <1>4 DEF QuietBut
  <2>1. CASE x <= s
    <3>1. x \in 1..s /\ l[x] = q[x]
      BY <1>1, <1>2, <1>3, <2>1
    <3> QED  BY <1>2, <3>1 DEF Quiet
  <2>2. CASE x > s
    <3>1. x - s \in 1..PACKETS + again /\ ~ (x - s <= PACKETS) /\ l[x] = u[x - s]
      BY <1>1, <1>2, <1>3, <2>2
    <3> QED  BY <1>1, <3>1
  <2> QED  BY <1>2, <2>1, <2>2
<1>8. s \in 0..Len(l) /\ s + PACKETS - 0 <= Len(l) /\ PACKETS - 0 = PACKETS /\ ~ (0 > 0)
  BY <1>2, <1>4
<1> QED  BY <1>6, <1>7, <1>8 DEF Packets, l, u

LEMMA TailQuiet ==
  ASSUME NEW q \in Seq(Datagram), q # <<>>, Quiet(q)
  PROVE  /\ Quiet(Tail(q))
         /\ Head(q).type = "DATA" => Head(q).seq = PACKETS
<1> DEFINE l == Tail(q)
           s == Len(q)
<1>1. /\ s \in Nat \ {0} /\ DOMAIN q = 1..s /\ DOMAIN l = 1..s - 1
      /\ Head(q) = q[1] /\ \A x \in 1..s - 1 : l[x] = q[x + 1]
  OBVIOUS
<1> HIDE DEF l, s
<1>2. Quiet(l)
  BY <1>1 DEF Quiet
<1> QED  BY <1>1, <1>2 DEF Quiet, l

\* The first datagram of a queue with packets of c after the n-th is the next of
\* them, or none that a connection with acknowledgement n could take for it.
LEMMA TailPackets ==
  ASSUME Clean, NEW q \in Seq(Datagram), q # <<>>, NEW c, NEW n \in 0..PACKETS - 1,
         Packets(q, c, n)
  PROVE  IF Head(q).type = "DATA" /\ Head(q).seq = n + 1
         THEN /\ Head(q) = Data(c, n + 1)
              /\ n + 1 < PACKETS => Packets(Tail(q), c, n + 1)
              /\ n + 1 = PACKETS => Quiet(Tail(q))
         ELSE Packets(Tail(q), c, n)
<1> DEFINE l == Tail(q)
           s == Len(q)
           N == PACKETS - n
<1>1. /\ s \in Nat \ {0} /\ DOMAIN q = 1..s /\ DOMAIN l = 1..s - 1 /\ Len(l) = s - 1
      /\ Head(q) = q[1] /\ \A x \in 1..s - 1 : l[x] = q[x + 1]
  OBVIOUS
<1>2. PICK k \in 0..s : /\ n > 0 => k = 0
                        /\ k + PACKETS - n <= s
                        /\ \A j \in 1..N : q[k + j] = Data(c, n + j)
                        /\ QuietBut(q, k, N)
  BY DEF Packets
<1>3. PACKETS \in Nat /\ PACKETS >= 2 /\ n \in Nat /\ n < PACKETS
      /\ N \in Nat \ {0} /\ k + N <= s /\ n + N = PACKETS
  BY <1>1, <1>2, Constants DEF Clean
<1>4. ASSUME NEW x \in 1..s, q[x].type = "DATA", x \notin k + 1 .. k + N
      PROVE  q[x].seq = PACKETS
  BY <1>1, <1>2, <1>4 DEF QuietBut
<1> HIDE DEF l, s
<1>5. CASE k = 0
  <2>1. Head(q) = Data(c, n + 1)
    <3>1. 1 \in 1..N /\ k + 1 = 1
      BY <1>3, <1>5
    <3> HIDE DEF N
    <3> QED  BY <1>1, <1>2, <3>1
  <2>2. Head(q).type = "DATA" /\ Head(q).seq = n + 1
    BY <2>1 DEF Data
  <2>3. \A x \in 1..s - 1 : l[x].type = "DATA" => x \in 1..N - 1 \/ l[x].seq = PACKETS
    <3> SUFFICES ASSUME NEW x \in 1..s - 1, l[x].type = "DATA", x \notin 1..N - 1
                 PROVE  l[x].seq = PACKETS
      OBVIOUS
    <3>1. x + 1 \in 1..s /\ l[x] = q[x + 1] /\ x + 1 \notin k + 1 .. k + N
      BY <1>1, <1>3, <1>5
    <3> QED  BY <1>4, <3>1
  <2>4. ASSUME n + 1 = PACKETS PROVE Quiet(l)
    <3>1. 1..N - 1 = {}
      BY <1>3, <2>4
    <3> QED  BY <1>1, <2>3, <3>1 DEF Quiet
  <2>5. ASSUME n + 1 < PACKETS PROVE Packets(l, c, n + 1)
    <3> DEFINE M == PACKETS - (n + 1)
    <3>1. 0 \in 0..s - 1 /\ 0 + PACKETS - (n + 1) <= s - 1 /\ M = N - 1 /\ M \in Nat
      BY <1>1, <1>3, <1>5
    <3>2. \A j \in 1..M : l[0 + j] = Data(c, (n + 1) + j)
      <4> SUFFICES ASSUME NEW j \in 1..M PROVE l[0 + j] = Data(c, (n + 1) + j)
        OBVIOUS
      <4>1. /\ j + 1 \in 1..N /\ j \in 1..s - 1 /\ 0 + j = j /\ k + (j + 1) = j + 1
            /\ n + (j + 1) = (n + 1) + j
        BY <1>1, <1>3, <1>5, <3>1
      <4> HIDE DEF N, M
      <4>2. q[k + (j + 1)] = Data(c, n + (j + 1))
        BY <1>2, <4>1
      <4> QED  BY <1>1, <4>1, <4>2
    <3>3. QuietBut(l, 0, M)
      <4>1. 0 + 1 .. 0 + M = 1..N - 1
        BY <3>1
      <4> HIDE DEF N, M
      <4> QED  BY <1>1, <2>3, <4>1 DEF QuietBut
    <3> HIDE DEF N
    <3> QED  BY <1>1, <3>1, <3>2, <3>3 DEF Packets
  <2> QED  BY <2>1, <2>2, <2>4, <2>5 DEF l
<1>6. CASE k # 0
  <2>1. n = 0 /\ k \in 1..s /\ N = PACKETS
    BY <1>1, <1>2, <1>3, <1>6
  <2>2. ~ (Head(q).type = "DATA" /\ Head(q).seq = n + 1)
    <3> SUFFICES ASSUME q[1].type = "DATA", q[1].seq = 1 PROVE FALSE
      BY <1>1, <2>1
    <3>1. 1 \in 1..s /\ 1 \notin k + 1 .. k + N
      BY <1>1, <1>3, <2>1
    <3> QED  BY <1>3, <1>4, <3>1
  <2>3. /\ k - 1 \in 0..s - 1 /\ (k - 1) + PACKETS - n <= s - 1 /\ (n > 0 => k - 1 = 0)
    BY <1>1, <1>3, <2>1
  <2>4. \A j \in 1..N : l[(k - 1) + j] = Data(c, n + j)
    <3> SUFFICES ASSUME NEW j \in 1..N PROVE l[(k - 1) + j] = Data(c, n + j)
      OBVIOUS
    <3>1. (k - 1) + j \in 1..s - 1 /\ ((k - 1) + j) + 1 = k + j
      BY <1>1, <1>3, <2>1
    <3> QED  BY <1>1, <1>2, <3>1
  <2>5. QuietBut(l, k - 1, N)
    <3> SUFFICES ASSUME NEW x \in 1..s - 1, l[x].type = "DATA", x \notin (k - 1) + 1 .. (k - 1) + N
                 PROVE  l[x].seq = PACKETS
      BY <1>1 DEF QuietBut
    <3>1. x + 1 \in 1..s /\ l[x] = q[x + 1] /\ x + 1 \notin k + 1 .. k + N
      BY <1>1, <1>3, <2>1
    <3> QED  BY <1>4, <3>1
  <2>6. Packets(l, c, n)
    BY <1>1, <2>3, <2>4, <2>5 DEF Packets
  <2> QED  BY <2>2, <2>6 DEF l
<1> QED  BY <1>5, <1>6

LEMMA TailInFlight ==
  ASSUME Clean, NEW req, NEW q \in Seq(Datagram), q # <<>>, NEW c, NEW n \in 0..PACKETS - 1,
         InFlight(req, q, c, n)
  PROVE  IF Head(q).type = "DATA" /\ Head(q).seq = n + 1
         THEN /\ Head(q) = Data(c, n + 1) /\ NoGet(req)
              /\ n + 1 < PACKETS => InFlight(req, Tail(q), c, n + 1)
              /\ n + 1 = PACKETS => Quiet(Tail(q))
         ELSE InFlight(req, Tail(q), c, n)
<1>1. CASE n = 0 /\ OneGet(req, c) /\ Quiet(q)
  <2>1. Quiet(Tail(q)) /\ (Head(q).type = "DATA" => Head(q).seq = PACKETS)
    BY <1>1, TailQuiet
  <2>2. ~ (Head(q).type = "DATA" /\ Head(q).seq = n + 1)
    BY <1>1, <2>1, Constants DEF Clean
  <2> QED  BY <1>1, <2>1, <2>2 DEF InFlight
<1>2. CASE NoGet(req) /\ Packets(q, c, n)
  <2>1. CASE Head(q).type = "DATA" /\ Head(q).seq = n + 1
    BY <1>2, <2>1, TailPackets DEF InFlight
  <2>2. CASE ~ (Head(q).type = "DATA" /\ Head(q).seq = n + 1)
    <3>1. Packets(Tail(q), c, n)
      BY <1>2, <2>2, TailPackets
    <3> QED  BY <1>2, <2>2, <3>1 DEF InFlight
  <2> QED  BY <2>1, <2>2
<1> QED  BY <1>1, <1>2 DEF InFlight

-----------------------------------------------------------------------------
(* The order of the chunk file. *)

LEMMA BeforeIsOrder ==
  ASSUME NEW c, NEW d, Before(c, d)
  PROVE  c # d /\ ~ Before(d, c)
<1>1. WishList \in Seq(Chunks) /\ IsInjective(WishList)
  BY Constants
<1>2. PICK i \in DOMAIN WishList, j \in DOMAIN WishList :
         i < j /\ WishList[i] = c /\ WishList[j] = d
  BY DEF Before
<1>3. c # d
  BY <1>1, <1>2 DEF IsInjective
<1>4. ASSUME Before(d, c) PROVE FALSE
  <2>1. PICK k \in DOMAIN WishList, l \in DOMAIN WishList :
           k < l /\ WishList[k] = d /\ WishList[l] = c
    BY <1>4 DEF Before
  <2>2. k = j /\ l = i
    BY <1>1, <1>2, <2>1 DEF IsInjective
  <2> QED  BY <1>1, <1>2, <2>1, <2>2
<1> QED  BY <1>3, <1>4

LEMMA WishListOrdered == Ordered(WishList)
BY DEF Ordered, Before

LEMMA RemoveAtOrdered ==
  ASSUME NEW list \in Seq(Chunks), Ordered(list), NEW k \in DOMAIN list
  PROVE  Ordered(RemoveAt(list, k))
<1> DEFINE l == RemoveAt(list, k)
           n == Len(list)
           from(j) == IF j < k THEN j ELSE j + 1
<1>1. /\ DOMAIN l = 1..n - 1 /\ DOMAIN list = 1..n /\ n \in Nat /\ k \in 1..n
      /\ \A j \in 1..n - 1 : l[j] = IF j < k THEN list[j] ELSE list[j + 1]
  BY RemoveAtShape
<1> HIDE DEF l, n
<1>2. \A j \in 1..n - 1 : from(j) \in 1..n /\ l[j] = list[from(j)]
  BY <1>1
<1>3. \A i, j \in 1..n - 1 : i < j => from(i) < from(j)
  BY <1>1
<1> HIDE DEF from
<1>4. \A i, j \in 1..n - 1 : i < j => Before(l[i], l[j])
  BY <1>1, <1>2, <1>3 DEF Ordered
<1> QED  BY <1>1, <1>4 DEF Ordered, l

\* Case 0 offers the first of the chunks it has.
LEMMA OfferIsFirst ==
  ASSUME NEW list \in Seq(Chunks), Ordered(list), NEW p \in Peers,
         FoundIn(Listed(list), p) # {}, NEW w, w \subseteq ToSet(list)
  PROVE  FirstOf(w, p, Listed(list)[Min(FoundIn(Listed(list), p))])
<1> DEFINE F == FoundIn(Listed(list), p)
           i == Min(F)
<1>1. /\ i \in DOMAIN list /\ Listed(list)[i] = list[i] /\ list[i] \in Has[p]
      /\ \A j \in F : i <= j
  BY OfferIsFound
<1>2. /\ DOMAIN Listed(list) = 1..Entries(list) /\ Entries(list) \in Nat
      /\ i \in F
  <2>1. DOMAIN Listed(list) = 1..Entries(list) /\ Entries(list) \in Nat
    BY ListedIsList
  <2>2. F \subseteq Nat
    BY <2>1 DEF FoundIn
  <2> QED  BY <2>1, <2>2, NatMin
<1>3. i \in 1..Entries(list) /\ Listed(list)[i] # Garbage
  BY <1>1, <1>2, Constants DEF FoundIn
<1>4. Fits(i)
  BY <1>3 DEF Listed
<1> HIDE DEF i
<1>5. ASSUME NEW d \in w \cap Has[p], d # list[i] PROVE Before(list[i], d)
  <2>1. PICK j \in DOMAIN list : list[j] = d
    BY <1>5 DEF ToSet
  <2>2. j \in Nat /\ i \in Nat /\ j # i /\ j <= Len(list)
    BY <1>1, <1>5, <2>1
  <2>3. CASE j < i
    <3>1. j \in 1..Entries(list)
      BY <1>2, <1>3, <2>1, <2>2, <2>3
    <3>2. Fits(j)
      BY <1>4, <2>2, <2>3, CodecAssumption DEF CodecAssumption, Fits, HEADER, COUNT, HASH
    <3>3. Listed(list)[j] = d
      BY <2>1, <2>2, <3>1, <3>2 DEF Listed
    <3>4. j \in F
      BY <1>2, <1>5, <3>1, <3>3 DEF FoundIn
    <3> QED  BY <1>1, <2>2, <2>3, <3>4
  <2>4. CASE i < j
    BY <1>1, <2>1, <2>4 DEF Ordered
  <2> QED  BY <2>2, <2>3, <2>4
<1>6. FirstOf(w, p, list[i])
  BY <1>1, <1>5 DEF FirstOf
<1> QED  BY <1>1, <1>6 DEF i

-----------------------------------------------------------------------------
(* The connections find_c_state finds. *)

LEMMA SlotsSuffice ==
  ASSUME CleanInv
  PROVE  Len(c_states) \in Nat /\ DOMAIN c_states = 1..Len(c_states) /\ Len(c_states) <= MAX_CONN
<1>1. /\ Len(c_states) \in Nat /\ DOMAIN c_states = 1..Len(c_states)
  BY DEF CleanInv, Inv, Types
<1>2. Len(WishList) \in Nat /\ DOMAIN WishList = 1..Len(WishList) /\ MAX_CONN \in Nat
  BY Constants
<1>3. ExistsInjection(1..Len(c_states), 1..Len(WishList))
  BY <1>1, <1>2 DEF CleanInv, SlotsInv, ExistsInjection
<1>4. Len(c_states) <= Len(WishList)
  BY <1>1, <1>2, <1>3, Fun_NatInjLeq
<1> QED  BY <1>1, <1>2, <1>4 DEF CleanInv, Clean

LEMMA FoundReceives ==
  ASSUME CleanInv, NEW p \in Peers, NEW i \in DOMAIN c_states
  PROVE  i \in Found(p) <=> Serves(p, i)
<1>1. i <= MAX_CONN
  BY SlotsSuffice, Constants
<1>0. c_states[i] \in CState \cup {Destroyed}
  BY DEF CleanInv, Inv, Types
<1>2. Receiving(i) \/ c_states[i] = Destroyed
  BY DEF CleanInv, ConnsInv
<1>3. c_states[i] = Destroyed => c_states[i].server # p
  BY Constants DEF Destroyed
<1> QED  BY <1>0, <1>1, <1>2, <1>3 DEF Found, Serves

LEMMA ServerIsFound ==
  ASSUME CleanInv, NEW p \in Peers, NEW i \in DOMAIN c_states, Serves(p, i)
  PROVE  /\ Found(p) = {i} /\ Min(Found(p)) = i /\ Conn(p) = c_states[i]
         /\ c_states[i] \in CState /\ c_states[i].server = p
         /\ c_states[i].ack_number \in 0..PACKETS - 1
         /\ c_states[i].chunk \in ToSet(wish) /\ c_states[i].chunk \in ToSet(downloading)
<1>1. i \in Found(p)
  BY FoundReceives
<1>2. ASSUME NEW j \in Found(p) PROVE j = i
  <2>1. j \in DOMAIN c_states
    BY DEF Found
  <2>2. Serves(p, j)
    BY <2>1, FoundReceives
  <2> QED  BY <2>1, <2>2 DEF CleanInv, ConnsInv, Serves
<1>3. Found(p) = {i}
  BY <1>1, <1>2
<1>4. Found(p) \subseteq Nat
  BY SlotsSuffice DEF Found
<1>5. Min(Found(p)) = i
  BY <1>3, <1>4, NatMin
<1>6. c_states[i] \in CState /\ c_states[i].server = p
  BY DEF Serves, Receiving, CleanInv, Inv, Types
<1>7. c_states[i].ack_number \in 0..PACKETS - 1
  <2>1. c_states[i].ack_number \in 0..PACKETS
    BY <1>6 DEF CState
  <2> QED  BY <2>1, Constants DEF Serves, Receiving
<1>8. c_states[i].chunk \in ToSet(wish) /\ c_states[i].chunk \in ToSet(downloading)
  BY DEF CleanInv, ConnsInv, RefusedOnlyWhileReceiving, Serves
<1> QED  BY <1>3, <1>5, <1>6, <1>7, <1>8 DEF Conn

\* The packets that are expected are those of the connection of their sender.
LEMMA ExpectedServes ==
  ASSUME CleanInv, NEW p \in Peers, NEW m, m.type = "DATA"
  PROVE  /\ Expected(p, m) =>
              \E i \in DOMAIN c_states : Serves(p, i) /\ Min(Found(p)) = i /\ Conn(p) = c_states[i]
         /\ \A i \in DOMAIN c_states : Serves(p, i) => Expected(p, m)
<1>1. ASSUME Expected(p, m)
      PROVE  \E i \in DOMAIN c_states : Serves(p, i) /\ Min(Found(p)) = i /\ Conn(p) = c_states[i]
  <2>1. PICK i \in Found(p) : TRUE
    BY <1>1 DEF Expected
  <2>2. i \in DOMAIN c_states
    BY DEF Found
  <2>3. Serves(p, i)
    BY <2>2, FoundReceives
  <2> QED  BY <2>2, <2>3, ServerIsFound
<1>2. ASSUME NEW i \in DOMAIN c_states, Serves(p, i) PROVE Expected(p, m)
  <2>1. Found(p) = {i} /\ Conn(p).chunk \in ToSet(wish)
    BY <1>2, ServerIsFound
  <2>2. wish \in Seq(Chunks)
    BY DEF CleanInv, Inv, Types
  <2>3. Search(wish, Conn(p).chunk) # -1
    BY <2>1, <2>2, SearchDecides
  <2> QED  BY <2>1, <2>3 DEF Expected
<1> QED  BY <1>1, <1>2

-----------------------------------------------------------------------------
(* What a step does to the lists in flight. *)

LEMMA AsksInOrder ==
  ASSUME NEW w, NEW req \in Seq(Request), AskedInOrder(w, req)
  PROVE  /\ req # <<>> =>
              /\ AskedInOrder(w, Tail(req))
              /\ Head(req).type = "WHOHAS" =>
                   Ordered(Head(req).chunks) /\ w \subseteq ToSet(Head(req).chunks)
         /\ \A r \in Request :
              (r.type = "WHOHAS" => Ordered(r.chunks) /\ w \subseteq ToSet(r.chunks)) =>
                AskedInOrder(w, Append(req, r))
         /\ \A v \in SUBSET w : AskedInOrder(v, req)
<1>1. ASSUME req # <<>>
      PROVE  /\ AskedInOrder(w, Tail(req))
             /\ Head(req).type = "WHOHAS" =>
                  Ordered(Head(req).chunks) /\ w \subseteq ToSet(Head(req).chunks)
  <2> DEFINE l == Tail(req)
             n == Len(req)
  <2>1. /\ n \in Nat \ {0} /\ DOMAIN req = 1..n /\ DOMAIN l = 1..n - 1
        /\ Head(req) = req[1] /\ \A x \in 1..n - 1 : l[x] = req[x + 1] /\ x + 1 \in 1..n
    BY <1>1
  <2> HIDE DEF l, n
  <2> QED  BY <2>1 DEF AskedInOrder, l
<1>2. ASSUME NEW r \in Request,
             r.type = "WHOHAS" => Ordered(r.chunks) /\ w \subseteq ToSet(r.chunks)
      PROVE  AskedInOrder(w, Append(req, r))
  <2> DEFINE l == Append(req, r)
             n == Len(req)
  <2>1. /\ n \in Nat /\ DOMAIN req = 1..n /\ DOMAIN l = 1..n + 1
        /\ l[n + 1] = r /\ \A x \in 1..n : l[x] = req[x]
    OBVIOUS
  <2> HIDE DEF l, n
  <2> SUFFICES ASSUME NEW x \in 1..n + 1, l[x].type = "WHOHAS"
               PROVE  Ordered(l[x].chunks) /\ w \subseteq ToSet(l[x].chunks)
    BY <2>1 DEF AskedInOrder, l
  <2>2. CASE x = n + 1
    BY <1>2, <2>1, <2>2
  <2>3. CASE x # n + 1
    BY <2>1, <2>3 DEF AskedInOrder
  <2> QED  BY <2>2, <2>3
<1>3. \A v \in SUBSET w : AskedInOrder(v, req)
  BY DEF AskedInOrder
<1> QED  BY <1>1, <1>2, <1>3

LEMMA OffersFirstly ==
  ASSUME NEW w, NEW p \in Peers, NEW q \in Seq(Datagram), OffersFirst(w, p, q)
  PROVE  /\ q # <<>> =>
              /\ OffersFirst(w, p, Tail(q))
              /\ Head(q).type = "IHAVE" => FirstOf(w, p, Head(q).first)
         /\ \A m \in Datagram :
              (m.type = "IHAVE" => FirstOf(w, p, m.first)) => OffersFirst(w, p, Append(q, m))
         /\ \A c \in Chunks, again \in 0..RESENDS : OffersFirst(w, p, q \o Upload(c, again))
         /\ \A v \in SUBSET w : OffersFirst(v, p, q)
<1>1. ASSUME q # <<>>
      PROVE  /\ OffersFirst(w, p, Tail(q))
             /\ Head(q).type = "IHAVE" => FirstOf(w, p, Head(q).first)
  <2> DEFINE l == Tail(q)
             n == Len(q)
  <2>1. /\ n \in Nat \ {0} /\ DOMAIN q = 1..n /\ DOMAIN l = 1..n - 1
        /\ Head(q) = q[1] /\ \A x \in 1..n - 1 : l[x] = q[x + 1] /\ x + 1 \in 1..n
    BY <1>1
  <2> HIDE DEF l, n
  <2> QED  BY <2>1 DEF OffersFirst, l
<1>2. ASSUME NEW m \in Datagram, m.type = "IHAVE" => FirstOf(w, p, m.first)
      PROVE  OffersFirst(w, p, Append(q, m))
  <2> DEFINE l == Append(q, m)
             n == Len(q)
  <2>1. /\ n \in Nat /\ DOMAIN q = 1..n /\ DOMAIN l = 1..n + 1
        /\ l[n + 1] = m /\ \A x \in 1..n : l[x] = q[x]
    OBVIOUS
  <2> HIDE DEF l, n
  <2> SUFFICES ASSUME NEW x \in 1..n + 1, l[x].type = "IHAVE"
               PROVE  FirstOf(w, p, l[x].first)
    BY <2>1 DEF OffersFirst, l
  <2>2. CASE x = n + 1
    BY <1>2, <2>1, <2>2
  <2>3. CASE x # n + 1
    BY <2>1, <2>3 DEF OffersFirst
  <2> QED  BY <2>2, <2>3
<1>3. ASSUME NEW c \in Chunks, NEW again \in 0..RESENDS
      PROVE  OffersFirst(w, p, q \o Upload(c, again))
  <2> DEFINE u == Upload(c, again)
             l == q \o u
             n == Len(q)
  <2>0. /\ u \in Seq(Datagram) /\ Len(u) = PACKETS + again
        /\ \A i \in 1..PACKETS + again :
             u[i] = [type |-> "DATA", seq |-> IF i <= PACKETS THEN i ELSE PACKETS, bytes |-> c]
    BY UploadIsPackets
  <2> HIDE DEF u
  <2>1. u \in Seq(Datagram) /\ \A x \in 1..Len(u) : u[x].type = "DATA"
    BY <2>0
  <2>2. /\ l \in Seq(Datagram) /\ Len(l) = n + Len(u) /\ DOMAIN q = 1..n
        /\ \A x \in 1..n + Len(u) : l[x] = IF x <= n THEN q[x] ELSE u[x - n]
    BY <2>1, ConcatProperties
  <2>3. DOMAIN l = 1..n + Len(u) /\ n \in Nat /\ Len(u) \in Nat
    BY <2>1, <2>2
  <2> HIDE DEF l, n
  <2> SUFFICES ASSUME NEW x \in 1..n + Len(u), l[x].type = "IHAVE"
               PROVE  FirstOf(w, p, l[x].first)
    BY <2>3 DEF OffersFirst, l, u
  <2>4. CASE x <= n
    <3>1. x \in 1..n /\ l[x] = q[x]
      BY <2>2, <2>3, <2>4
    <3> QED  BY <2>2, <3>1 DEF OffersFirst
  <2>5. CASE x > n
    <3>1. x - n \in 1..Len(u) /\ l[x] = u[x - n]
      BY <2>2, <2>3, <2>5
    <3> QED  BY <2>1, <3>1
  <2> QED  BY <2>3, <2>4, <2>5
<1>4. \A v \in SUBSET w : OffersFirst(v, p, q)
  BY DEF OffersFirst, FirstOf
<1> QED  BY <1>1, <1>2, <1>3, <1>4

\* b has the timers of a, and what they are for has not changed.
Kept(a, b) == DOMAIN a \subseteq DOMAIN b /\ \A t \in DOMAIN a : b[t].owner = a[t].owner

LEMMA TimersKept ==
  ASSUME NEW n, NEW tms \in Seq(TimersOf(n))
  PROVE  /\ \A id : id + 1 \in DOMAIN tms => Kept(tms, Arm(tms, id)) /\ Kept(tms, Disarm(tms, id))
         /\ \A id : id + 1 \in DOMAIN tms => /\ id + 1 \in DOMAIN Arm(tms, id)
                                             /\ Arm(tms, id)[id + 1].armed
         /\ \A id : Kept(tms, Delete(tms, id))
         /\ \A o : Kept(tms, Create(tms, o))
                   /\ Create(tms, o)[Len(tms) + 1].owner = o
                   /\ Len(tms) + 1 \in DOMAIN Create(tms, o)
<1>1. ASSUME NEW id, id + 1 \in DOMAIN tms
      PROVE  /\ Kept(tms, Arm(tms, id)) /\ Kept(tms, Disarm(tms, id))
             /\ id + 1 \in DOMAIN Arm(tms, id) /\ Arm(tms, id)[id + 1].armed
  <2> DEFINE a == [tms[id + 1] EXCEPT !.armed = TRUE]
             d == [tms[id + 1] EXCEPT !.armed = FALSE]
  <2>1. tms[id + 1] \in TimersOf(n)
    BY <1>1
  <2>2. a.owner = tms[id + 1].owner /\ d.owner = tms[id + 1].owner /\ a.armed = TRUE
    BY <2>1 DEF TimersOf
  <2>3. Arm(tms, id) = [tms EXCEPT ![id + 1] = a]
        /\ Disarm(tms, id) = [tms EXCEPT ![id + 1] = d]
    BY DEF Arm, Disarm
  <2> HIDE DEF a, d
  <2> QED  BY <1>1, <2>2, <2>3 DEF Kept
<1>2. ASSUME NEW id PROVE Kept(tms, Delete(tms, id))
  <2>1. CASE Exists(tms, id)
    <3> DEFINE u == [tms[id + 1] EXCEPT !.alive = FALSE, !.armed = FALSE]
    <3>1. id + 1 \in DOMAIN tms /\ tms[id + 1] \in TimersOf(n)
      BY <2>1 DEF Exists
    <3>2. u.owner = tms[id + 1].owner
      BY <3>1 DEF TimersOf
    <3>3. Delete(tms, id) = [tms EXCEPT ![id + 1] = u]
      BY <2>1, <3>1 DEF Delete
    <3> HIDE DEF u
    <3> QED  BY <3>1, <3>2, <3>3 DEF Kept
  <2>2. CASE ~ Exists(tms, id)
    BY <2>2 DEF Delete, Kept
  <2> QED  BY <2>1, <2>2
<1>3. ASSUME NEW o
      PROVE  /\ Kept(tms, Create(tms, o)) /\ Create(tms, o)[Len(tms) + 1].owner = o
             /\ Len(tms) + 1 \in DOMAIN Create(tms, o)
  <2> DEFINE r == [owner |-> o, armed |-> FALSE, alive |-> TRUE]
  <2>1. r.owner = o /\ Create(tms, o) = Append(tms, r)
    BY DEF Create
  <2> HIDE DEF r
  <2> QED  BY <2>1 DEF Kept
<1> QED  BY <1>1, <1>2, <1>3

\* send_whohas adds the list to every queue, and starts the timer.
LEMMA AskedEffect ==
  ASSUME Types, NEW list \in Seq(Chunks), NEW n, NEW tms \in Seq(TimersOf(n)),
         Asked(list, tms), whohas_timerid' + 1 \in DOMAIN tms
  PROVE  /\ \A p \in Peers :
              /\ NoGet(toPeer[p]) => NoGet(toPeer'[p])
              /\ \A c : OneGet(toPeer[p], c) => OneGet(toPeer'[p], c)
              /\ \A w : AskedInOrder(w, toPeer[p]) /\ Ordered(list) /\ w \subseteq ToSet(list) =>
                          AskedInOrder(w, toPeer'[p])
         /\ Kept(tms, timers')
         /\ whohas_timerid' + 1 \in DOMAIN timers' /\ timers'[whohas_timerid' + 1].armed
<1> DEFINE r == [type |-> "WHOHAS", chunks |-> list]
<1>1. timers' = Arm(tms, whohas_timerid') /\ toPeer' = [q \in Peers |-> Append(toPeer[q], r)]
  BY DEF Asked
<1>2. r \in Request /\ r.type = "WHOHAS" /\ r.chunks = list
  BY DEF Request
<1> HIDE DEF r
<1>3. \A p \in Peers : toPeer[p] \in Seq(Request) /\ toPeer'[p] = Append(toPeer[p], r)
  BY <1>1 DEF Types
<1>4. ASSUME NEW p \in Peers
      PROVE  /\ NoGet(toPeer[p]) => NoGet(toPeer'[p])
             /\ \A c : OneGet(toPeer[p], c) => OneGet(toPeer'[p], c)
  BY <1>2, <1>3, AppendRequest
<1>5. ASSUME NEW p \in Peers,
             NEW w, AskedInOrder(w, toPeer[p]), Ordered(list), w \subseteq ToSet(list)
      PROVE  AskedInOrder(w, toPeer'[p])
  <2>1. r.type = "WHOHAS" => Ordered(r.chunks) /\ w \subseteq ToSet(r.chunks)
    BY <1>2, <1>5
  <2>2. AskedInOrder(w, Append(toPeer[p], r))
    BY <1>2, <1>3, <1>5, <2>1, AsksInOrder
  <2> QED  BY <1>3, <2>2
<1>6. Kept(tms, timers') /\ whohas_timerid' + 1 \in DOMAIN timers'
      /\ timers'[whohas_timerid' + 1].armed
  BY <1>1, TimersKept
<1> QED  BY <1>4, <1>5, <1>6

\* Or it ends the process.
LEMMA AskEffect ==
  ASSUME Types, NEW list \in Seq(Chunks), NEW n, NEW tms \in Seq(TimersOf(n)),
         Ask(list, tms)
  PROVE  /\ \A p \in Peers :
              /\ NoGet(toPeer[p]) => NoGet(toPeer'[p])
              /\ \A c : OneGet(toPeer[p], c) => OneGet(toPeer'[p], c)
              /\ \A w : AskedInOrder(w, toPeer[p]) /\ Ordered(list) /\ w \subseteq ToSet(list) =>
                          AskedInOrder(w, toPeer'[p])
         /\ Kept(tms, timers')
         /\ ~exited' => /\ ~exited /\ whohas_timerid' + 1 \in DOMAIN timers'
                        /\ timers'[whohas_timerid' + 1].armed
<1>1. CASE Exists(tms, whohas_timerid')
  <2>1. Asked(list, tms) /\ whohas_timerid' + 1 \in DOMAIN tms /\ exited' = exited
    BY <1>1 DEF Ask, Exists
  <2> QED  BY <2>1, AskedEffect
<1>2. CASE ~ Exists(tms, whohas_timerid')
  <2>1. timers' = tms /\ toPeer' = toPeer /\ exited' = TRUE
    BY <1>2 DEF Ask
  <2> QED  BY <2>1 DEF Kept
<1> QED  BY <1>1, <1>2

LEMMA OwnersInv ==
  ASSUME CleanInv, gets # 0, Kept(timers, timers'),
         whohas_timerid' \in {NULL, whohas_timerid}
  PROVE  IsWhohas(NULL)' /\ IsWhohas(whohas_timerid)'
<1>1. IsWhohas(NULL) /\ IsWhohas(whohas_timerid)
  BY Constants DEF CleanInv, TimersInv, Inv, Types
<1> QED  BY <1>1 DEF IsWhohas, Kept, NULL

\* The lists and connections stay as they are.
LEMMA SameConns ==
  ASSUME CleanInv, UNCHANGED <<wish, downloading, c_states>>
  PROVE  ConnsInv' /\ SlotsInv'
<1>1. ConnsInv'
  BY DEF CleanInv, ConnsInv, RefusedOnlyWhileReceiving, Receiving
<1>2. SlotsInv'
  BY DEF CleanInv, SlotsInv, SlotOf, Receiving
<1> QED  BY <1>1, <1>2

LEMMA SameOffers ==
  ASSUME CleanInv, UNCHANGED <<wish, c_states>>,
         \A p \in Peers : AskedInOrder(ToSet(wish), toPeer'[p])
                          /\ OffersFirst(ToSet(wish), p, toClient'[p])
  PROVE  OffersInv'
<1>1. \A p \in Peers : AskedInOrder(ToSet(wish'), toPeer'[p])
                       /\ OffersFirst(ToSet(wish'), p, toClient'[p])
  OBVIOUS
<1> QED  BY <1>1 DEF CleanInv, OffersInv, Receiving

\* The connections stay as they are, and what is in flight fits them.
LEMMA SameFlight ==
  ASSUME CleanInv, UNCHANGED c_states, NEW p \in Peers,
         (\A i \in DOMAIN c_states : ~Serves(p, i)) => NoGet(toPeer'[p]) /\ Quiet(toClient'[p]),
         \A i \in DOMAIN c_states : Serves(p, i) =>
           InFlight(toPeer'[p], toClient'[p], c_states[i].chunk, c_states[i].ack_number)
  PROVE  Flight(p)'
<1>1. \A i \in DOMAIN c_states : Serves(p, i)' <=> Serves(p, i)
  BY DEF Serves, Receiving
<1> QED  BY <1>1 DEF Flight

LEMMA Started ==
  ASSUME CleanInv
  PROVE  /\ gets \in Nat
         /\ WhohasTimer => gets # 0
         /\ \A p \in Peers : toPeer[p] # <<>> \/ toClient[p] # <<>> => gets # 0
<1>1. gets \in Nat
  BY Constants DEF CleanInv, Inv, Types
<1>2. WhohasTimer => timers # <<>>
  BY DEF WhohasTimer
<1> QED  BY <1>1, <1>2 DEF CleanInv, IdleInv

-----------------------------------------------------------------------------
(* The commands of the user and the WHOHAS timer. *)

LEMMA UserGetClean ==
  ASSUME CleanInv, UserGet \/ NoOutputFile
  PROVE  CleanInv'
<1>1. /\ ~exited /\ gets' = gets + 1 /\ wish' = Loaded
      /\ whohas_timerid' = Len(timers) /\ Asked(wish', Create(timers, WHOHAS))
      /\ UNCHANGED <<downloading, c_states, receiver_timerid, toClient>>
  BY DEF UserGet, NoOutputFile, ProcessGet, NewId
<1>2. Inv' /\ Types /\ Inv
  BY UserGetInv DEF CleanInv, Inv
<1>3. gets \in Nat /\ gets' # 0 /\ gets' > 0
  BY <1>1, Started
<1>4. IdleInv' /\ Clean'
  BY <1>3 DEF IdleInv, CleanInv, Clean
<1>5. /\ timers \in Seq(TimersOf(Len(c_states))) /\ Len(timers) \in Nat
      /\ Create(timers, WHOHAS) \in Seq(TimersOf(Len(c_states)))
      /\ wish' \in Seq(Chunks)
      /\ whohas_timerid' + 1 \in DOMAIN Create(timers, WHOHAS)
  <2>1. /\ timers \in Seq(TimersOf(Len(c_states))) /\ Len(timers) \in Nat
        /\ wish' \in Seq(Chunks)
    BY <1>2 DEF Inv, Types
  <2>2. /\ Create(timers, WHOHAS) \in Seq(TimersOf(Len(c_states)))
        /\ Len(Create(timers, WHOHAS)) = Len(timers) + 1
    BY <2>1, TimerTypes
  <2> QED  BY <1>1, <2>1, <2>2
<1>6. ASSUME gets = 0 PROVE ConnsInv' /\ SlotsInv' /\ OffersInv'
  <2>1. /\ downloading = <<>> /\ c_states = <<>> /\ timers = <<>> /\ wish' = WishList
        /\ \A p \in Peers : toPeer[p] = <<>> /\ toClient[p] = <<>>
    BY <1>1, <1>6 DEF CleanInv, IdleInv, Loaded
  <2>2. DOMAIN c_states' = {} /\ downloading' = <<>>
    BY <1>1, <2>1
  <2>3. ConnsInv'
    <3>1. (ToSet(wish) \cap ToSet(downloading))' = {}
      BY <2>2 DEF ToSet
    <3> QED  BY <2>2, <3>1 DEF ConnsInv, RefusedOnlyWhileReceiving
  <2>4. SlotsInv'
    <3> DEFINE f == [i \in {} |-> 0]
    <3>1. f \in Injection({}, DOMAIN WishList)
      BY DEF Injection, IsInjective
    <3> HIDE DEF f
    <3> QED  BY <2>2, <3>1 DEF SlotsInv, SlotOf
  <2>5. OffersInv'
    <3>1. Ordered(wish')
      BY <2>1, WishListOrdered
    <3>2. ASSUME NEW p \in Peers
          PROVE  AskedInOrder(ToSet(wish'), toPeer'[p]) /\ OffersFirst(ToSet(wish'), p, toClient'[p])
      <4>1. AskedInOrder(ToSet(wish'), toPeer[p])
        BY <2>1 DEF AskedInOrder
      <4>2. AskedInOrder(ToSet(wish'), toPeer'[p])
        BY <1>1, <1>2, <1>5, <3>1, <4>1, AskedEffect
      <4> QED  BY <1>1, <2>1, <4>2 DEF OffersFirst
    <3> QED  BY <2>2, <3>1, <3>2 DEF OffersInv
  <2> QED  BY <2>3, <2>4, <2>5
<1>7. ASSUME gets # 0 PROVE ConnsInv' /\ SlotsInv' /\ OffersInv'
  <2>1. wish' = wish
    BY <1>1, <1>7 DEF Loaded
  <2>2. ConnsInv' /\ SlotsInv'
    BY <1>1, <2>1, SameConns
  <2>3. OffersInv'
    <3>1. ASSUME NEW p \in Peers
          PROVE  AskedInOrder(ToSet(wish), toPeer'[p]) /\ OffersFirst(ToSet(wish), p, toClient'[p])
      BY <1>1, <1>2, <1>5, <2>1, AskedEffect DEF CleanInv, OffersInv
    <3> QED  BY <1>1, <2>1, <3>1, SameOffers
  <2> QED  BY <2>2, <2>3
<1>8. FlightInv'
  <2> SUFFICES ASSUME NEW p \in Peers PROVE Flight(p)'
    BY DEF FlightInv
  <2>1. Flight(p)
    BY <1>1 DEF CleanInv, FlightInv
  <2>2. /\ NoGet(toPeer[p]) => NoGet(toPeer'[p])
        /\ \A c : OneGet(toPeer[p], c) => OneGet(toPeer'[p], c)
    BY <1>1, <1>2, <1>5, AskedEffect
  <2> QED  BY <1>1, <2>1, <2>2, SameFlight DEF Flight, InFlight
<1>9. TimersInv'
  <2> DEFINE tms == Create(timers, WHOHAS)
             t == Len(timers) + 1
  <2>1. /\ Kept(timers, tms) /\ tms[t].owner = WHOHAS /\ t \in DOMAIN tms
    BY <1>5, TimersKept
  <2>2. /\ Kept(tms, timers') /\ whohas_timerid' + 1 = t
        /\ timers'[t].armed
    BY <1>1, <1>2, <1>5, AskedEffect
  <2> HIDE DEF tms, t
  <2>3. Kept(timers, timers') /\ timers'[t].owner = WHOHAS /\ t \in DOMAIN timers'
    BY <2>1, <2>2 DEF Kept
  <2>4. IsWhohas(whohas_timerid)'
    BY <2>2, <2>3 DEF IsWhohas
  <2>5. IsWhohas(NULL)'
    <3>1. CASE gets = 0
      <4>1. t = 1
        BY <3>1 DEF CleanInv, IdleInv, t
      <4> QED  BY <2>3, <4>1 DEF IsWhohas, NULL
    <3>2. CASE gets # 0
      BY <1>3, <2>3, <3>2 DEF CleanInv, TimersInv, IsWhohas, Kept, NULL
    <3> QED  BY <3>1, <3>2
  <2> QED  BY <2>2, <2>3, <2>4, <2>5 DEF TimersInv
<1> QED  BY <1>2, <1>4, <1>6, <1>7, <1>8, <1>9 DEF CleanInv

LEMMA NoChunkFileClean ==
  ASSUME CleanInv, NoChunkFile
  PROVE  CleanInv'
<1>1. /\ exited' = TRUE
      /\ UNCHANGED <<gets, wish, downloading, c_states, timers, whohas_timerid,
                     toPeer, toClient>>
  BY DEF NoChunkFile, peerVars
<1>2. Inv' /\ Clean'
  BY NoChunkFileInv DEF CleanInv, Clean
<1>3. IdleInv'
  BY <1>1 DEF CleanInv, IdleInv
<1>4. ConnsInv' /\ SlotsInv'
  BY <1>1, SameConns
<1>5. OffersInv'
  BY <1>1, SameOffers DEF CleanInv, OffersInv
<1>6. FlightInv' /\ TimersInv'
  BY <1>1 DEF CleanInv, FlightInv, TimersInv, IsWhohas
<1> QED  BY <1>2, <1>3, <1>4, <1>5, <1>6 DEF CleanInv

LEMMA WhohasTimerClean ==
  ASSUME CleanInv, WhohasTimer
  PROVE  CleanInv'
<1> DEFINE tms == Delete(timers, whohas_timerid)
<1>1. /\ ~exited /\ whohas_timerid' = NULL /\ Ask(wish, tms)
      /\ UNCHANGED <<gets, wish, downloading, c_states, receiver_timerid, toClient>>
  BY DEF WhohasTimer
<1>2. Inv' /\ Types
  BY WhohasTimerInv DEF CleanInv, Inv
<1>3. gets \in Nat /\ gets # 0 /\ gets' # 0
  BY <1>1, Started
<1>4. IdleInv' /\ Clean'
  BY <1>3 DEF IdleInv, CleanInv, Clean
<1>5. /\ timers \in Seq(TimersOf(Len(c_states)))
      /\ tms \in Seq(TimersOf(Len(c_states))) /\ Kept(timers, tms)
      /\ wish \in Seq(Chunks)
  BY <1>2, TimerTypes, TimersKept DEF Types
<1> HIDE DEF tms
<1>6. /\ \A p \in Peers :
           /\ NoGet(toPeer[p]) => NoGet(toPeer'[p])
           /\ \A c : OneGet(toPeer[p], c) => OneGet(toPeer'[p], c)
           /\ AskedInOrder(ToSet(wish), toPeer[p]) /\ Ordered(wish) =>
                AskedInOrder(ToSet(wish), toPeer'[p])
      /\ Kept(tms, timers')
      /\ ~exited' => /\ whohas_timerid' + 1 \in DOMAIN timers'
                     /\ timers'[whohas_timerid' + 1].armed
  BY <1>1, <1>2, <1>5, AskEffect
<1>7. ConnsInv' /\ SlotsInv'
  BY <1>1, SameConns
<1>8. OffersInv'
  BY <1>1, <1>6, SameOffers DEF CleanInv, OffersInv
<1>9. FlightInv'
  <2> SUFFICES ASSUME NEW p \in Peers PROVE Flight(p)'
    BY DEF FlightInv
  <2>1. Flight(p)
    BY <1>1 DEF CleanInv, FlightInv
  <2> QED  BY <1>1, <1>6, <2>1, SameFlight DEF Flight, InFlight
<1>10. TimersInv'
  <2>1. Kept(timers, timers')
    BY <1>5, <1>6 DEF Kept
  <2>2. IsWhohas(NULL)' /\ IsWhohas(whohas_timerid)'
    BY <1>1, <1>3, <2>1, OwnersInv
  <2> QED  BY <1>6, <2>2 DEF TimersInv, IsWhohas
<1> QED  BY <1>2, <1>4, <1>7, <1>8, <1>9, <1>10 DEF CleanInv

-----------------------------------------------------------------------------
(* The other peers. *)

LEMMA PeersClean ==
  ASSUME CleanInv, NEW p \in Peers, AnswerWhohas(p) \/ ServeGet(p)
  PROVE  CleanInv'
<1>1. /\ UNCHANGED <<gets, wish, downloading, c_states, timers, whohas_timerid, exited>>
      /\ toPeer[p] # <<>> /\ toPeer' = [toPeer EXCEPT ![p] = Tail(@)]
  BY DEF AnswerWhohas, ServeGet, Asks
<1>2. Inv' /\ Types
  BY PeersInv DEF CleanInv, Inv
<1>3. gets # 0 /\ gets' # 0
  BY <1>1, Started
<1>4. IdleInv' /\ Clean'
  BY <1>3 DEF IdleInv, CleanInv, Clean
<1>5. ConnsInv' /\ SlotsInv'
  BY <1>1, SameConns
<1>6. TimersInv'
  BY <1>1 DEF CleanInv, TimersInv, IsWhohas, Receiving
<1>7. /\ toPeer[p] \in Seq(Request) /\ toClient[p] \in Seq(Datagram)
      /\ Head(toPeer[p]) \in Request
      /\ toPeer'[p] = Tail(toPeer[p])
      /\ \A r \in Peers : r # p => toPeer'[r] = toPeer[r]
  BY <1>1, <1>2 DEF Types
<1>8. /\ AskedInOrder(ToSet(wish), toPeer[p]) /\ OffersFirst(ToSet(wish), p, toClient[p])
      /\ AskedInOrder(ToSet(wish), toPeer'[p])
      /\ Head(toPeer[p]).type = "WHOHAS" =>
           Ordered(Head(toPeer[p]).chunks) /\ ToSet(wish) \subseteq ToSet(Head(toPeer[p]).chunks)
  BY <1>1, <1>7, AsksInOrder DEF CleanInv, OffersInv
<1>9. /\ \A r \in Peers : r # p => toClient'[r] = toClient[r]
      /\ OffersFirst(ToSet(wish), p, toClient'[p])
      /\ ~exited => Flight(p)'
  <2>1. CASE AnswerWhohas(p)
    <3> DEFINE asked == Head(toPeer[p]).chunks
               found == FoundIn(Listed(asked), p)
               first == Listed(asked)[Min(found)]
               h == [type |-> "IHAVE", first |-> first]
    <3>1. Head(toPeer[p]).type = "WHOHAS" /\ asked \in Seq(Chunks)
      BY <1>7, <2>1 DEF AnswerWhohas, Asks, Request
    <3>2. toClient' = IF found = {} THEN toClient
                      ELSE [toClient EXCEPT ![p] = Append(@, h)]
      BY <2>1 DEF AnswerWhohas
    <3>3. found # {} => first \in Chunks /\ FirstOf(ToSet(wish), p, first)
      BY <1>8, <3>1, OfferIsFound, OfferIsFirst
    <3> HIDE DEF found, first
    <3>4. found # {} => h \in Datagram
      BY <3>3 DEF Datagram
    <3>5. h.type = "IHAVE" /\ h.first = first
      OBVIOUS
    <3> HIDE DEF h
    <3>6. /\ \A r \in Peers : r # p => toClient'[r] = toClient[r]
          /\ toClient'[p] = IF found = {} THEN toClient[p] ELSE Append(toClient[p], h)
      BY <1>2, <3>2 DEF Types
    <3>7. OffersFirst(ToSet(wish), p, toClient'[p])
      <4>1. found # {} => OffersFirst(ToSet(wish), p, Append(toClient[p], h))
        BY <1>7, <1>8, <3>3, <3>4, <3>5, OffersFirstly
      <4> QED  BY <1>8, <3>6, <4>1
    <3>8. ASSUME ~exited PROVE Flight(p)'
      <4>1. Flight(p)
        BY <3>8 DEF CleanInv, FlightInv
      <4>2. /\ NoGet(toPeer[p]) => NoGet(toPeer'[p])
            /\ \A c : OneGet(toPeer[p], c) => OneGet(toPeer'[p], c)
        BY <1>1, <1>7, <3>1, TailRequest
      <4>3. /\ Quiet(toClient[p]) => Quiet(toClient'[p])
            /\ \A c : \A n \in 0..PACKETS : Packets(toClient[p], c, n) => Packets(toClient'[p], c, n)
        <5>1. CASE found = {}
          BY <3>6, <5>1
        <5>2. CASE found # {}
          <6>1. h.type # "DATA" /\ h \in Datagram /\ toClient'[p] = Append(toClient[p], h)
            BY <3>4, <3>5, <3>6, <5>2
          <6> QED  BY <1>7, <6>1, AppendDatagram
        <5> QED  BY <5>1, <5>2
      <4>4. ASSUME NEW i \in DOMAIN c_states, Serves(p, i)
            PROVE  InFlight(toPeer'[p], toClient'[p], c_states[i].chunk, c_states[i].ack_number)
        <5>1. c_states[i].ack_number \in 0..PACKETS
          BY <4>4, ServerIsFound DEF CState
        <5>2. InFlight(toPeer[p], toClient[p], c_states[i].chunk, c_states[i].ack_number)
          BY <4>1, <4>4 DEF Flight
        <5> QED  BY <4>2, <4>3, <5>1, <5>2 DEF InFlight
      <4>5. (\A i \in DOMAIN c_states : ~Serves(p, i)) => NoGet(toPeer'[p]) /\ Quiet(toClient'[p])
        BY <4>1, <4>2, <4>3 DEF Flight
      <4> QED  BY <1>1, <4>4, <4>5, SameFlight
    <3> QED  BY <3>6, <3>7, <3>8
  <2>2. CASE ServeGet(p)
    <3>1. Head(toPeer[p]).type = "GET" /\ Head(toPeer[p]).chunk \in Chunks
      BY <1>7, <2>2 DEF ServeGet, Asks, Request
    <3> DEFINE d == Head(toPeer[p]).chunk
    <3>2. PICK again \in 0..RESENDS :
             toClient' = [toClient EXCEPT ![p] = @ \o Upload(d, again)]
      BY <2>2 DEF ServeGet, CleanInv, Clean
    <3> HIDE DEF d
    <3>3. /\ \A r \in Peers : r # p => toClient'[r] = toClient[r]
          /\ toClient'[p] = toClient[p] \o Upload(d, again)
      BY <1>2, <3>2 DEF Types
    <3>4. OffersFirst(ToSet(wish), p, toClient'[p])
      <4>1. d \in Chunks
        BY <3>1 DEF d
      <4> QED  BY <1>7, <1>8, <3>3, <4>1, OffersFirstly
    <3>5. ASSUME ~exited PROVE Flight(p)'
      <4>1. Flight(p)
        BY <3>5 DEF CleanInv, FlightInv
      <4>2. ~ NoGet(toPeer[p])
        BY <1>1, <1>7, <3>1, TailRequest
      <4>3. ASSUME NEW i \in DOMAIN c_states, Serves(p, i)
            PROVE  InFlight(toPeer'[p], toClient'[p], c_states[i].chunk, c_states[i].ack_number)
        <5> DEFINE c == c_states[i].chunk
        <5>1. /\ c_states[i].ack_number = 0
              /\ OneGet(toPeer[p], c) /\ Quiet(toClient[p])
          BY <4>1, <4>2, <4>3 DEF Flight, InFlight
        <5>2. Head(toPeer[p]) = Get(c) /\ NoGet(toPeer'[p])
          BY <1>1, <1>7, <3>1, <5>1, TailRequest
        <5>3. d = c /\ c \in Chunks
          BY <3>1, <5>2 DEF Get, d
        <5>4. Packets(toClient'[p], c, 0)
          BY <1>7, <3>3, <5>1, <5>3, UploadDatagrams
        <5> QED  BY <5>1, <5>2, <5>4 DEF InFlight
      <4> QED  BY <1>1, <4>1, <4>2, <4>3, SameFlight DEF Flight
    <3> QED  BY <3>3, <3>4, <3>5
  <2> QED  BY <2>1, <2>2
<1>10. OffersInv'
  BY <1>1, <1>7, <1>8, <1>9, SameOffers DEF CleanInv, OffersInv
<1>11. FlightInv'
  <2> SUFFICES ASSUME NEW r \in Peers, ~exited PROVE Flight(r)'
    BY <1>1 DEF FlightInv
  <2>1. CASE r = p
    BY <1>9, <2>1
  <2>2. CASE r # p
    BY <1>1, <1>7, <1>9, <2>2, SameFlight DEF CleanInv, FlightInv, Flight
  <2> QED  BY <2>1, <2>2
<1> QED  BY <1>2, <1>4, <1>5, <1>6, <1>10, <1>11 DEF CleanInv

-----------------------------------------------------------------------------
(* A datagram is taken in. *)

LEMMA ArriveFacts ==
  ASSUME CleanInv, NEW p \in Peers, NEW m, Arrives(p, m)
  PROVE  /\ ~exited /\ gets # 0 /\ gets \in Nat /\ Types
         /\ m \in Datagram /\ m = Head(toClient[p]) /\ toClient[p] # <<>>
         /\ toClient'[p] = Tail(toClient[p])
         /\ \A r \in Peers : r # p => toClient'[r] = toClient[r]
         /\ m.type = "IHAVE" => FirstOf(ToSet(wish), p, Offered(m))
         /\ \A r \in Peers : OffersFirst(ToSet(wish), r, toClient'[r])
<1>1. Types /\ toClient[p] \in Seq(Datagram) /\ toClient[p] # <<>> /\ m = Head(toClient[p])
      /\ toClient' = [toClient EXCEPT ![p] = Tail(@)] /\ ~exited
  BY DEF Arrives, CleanInv, Inv, Types
<1>2. gets # 0 /\ gets \in Nat
  BY <1>1, Started
<1>3. m \in Datagram
  BY <1>1, ArrivesTypes
<1>4. /\ toClient'[p] = Tail(toClient[p])
      /\ \A r \in Peers : r # p => toClient'[r] = toClient[r]
  BY <1>1 DEF Types
<1>5. \A r \in Peers : OffersFirst(ToSet(wish), r, toClient[r])
  BY DEF CleanInv, OffersInv
<1>6. /\ OffersFirst(ToSet(wish), p, Tail(toClient[p]))
      /\ m.type = "IHAVE" => FirstOf(ToSet(wish), p, m.first)
  BY <1>1, <1>5, OffersFirstly
<1>7. \A r \in Peers : OffersFirst(ToSet(wish), r, toClient'[r])
  BY <1>4, <1>5, <1>6
<1> QED  BY <1>1, <1>2, <1>3, <1>4, <1>6, <1>7 DEF Offered

\* What is left in flight from p fits its connection, unless m is the next packet of it.
LEMMA ArriveFlight ==
  ASSUME CleanInv, NEW p \in Peers, NEW m, Arrives(p, m)
  PROVE  /\ (\A i \in DOMAIN c_states : ~Serves(p, i)) => NoGet(toPeer[p]) /\ Quiet(toClient'[p])
         /\ \A i \in DOMAIN c_states : Serves(p, i) =>
              LET c == c_states[i].chunk
                  n == c_states[i].ack_number
              IN  IF m.type = "DATA" /\ m.seq = n + 1
                  THEN /\ m = Data(c, n + 1) /\ NoGet(toPeer[p])
                       /\ n + 1 < PACKETS => InFlight(toPeer[p], toClient'[p], c, n + 1)
                       /\ n + 1 = PACKETS => Quiet(toClient'[p])
                  ELSE InFlight(toPeer[p], toClient'[p], c, n)
<1>1. /\ ~exited /\ m = Head(toClient[p]) /\ toClient[p] # <<>>
      /\ toClient'[p] = Tail(toClient[p])
  BY ArriveFacts
<1>2. toClient[p] \in Seq(Datagram) /\ Flight(p) /\ Clean
  BY <1>1 DEF CleanInv, FlightInv, Inv, Types
<1>3. (\A i \in DOMAIN c_states : ~Serves(p, i)) => NoGet(toPeer[p]) /\ Quiet(toClient'[p])
  BY <1>1, <1>2, TailQuiet DEF Flight
<1>4. ASSUME NEW i \in DOMAIN c_states, Serves(p, i)
      PROVE  LET c == c_states[i].chunk
                 n == c_states[i].ack_number
             IN  IF m.type = "DATA" /\ m.seq = n + 1
                 THEN /\ m = Data(c, n + 1) /\ NoGet(toPeer[p])
                      /\ n + 1 < PACKETS => InFlight(toPeer[p], toClient'[p], c, n + 1)
                      /\ n + 1 = PACKETS => Quiet(toClient'[p])
                 ELSE InFlight(toPeer[p], toClient'[p], c, n)
  <2> DEFINE c == c_states[i].chunk
             n == c_states[i].ack_number
  <2>1. n \in 0..PACKETS - 1
    BY <1>4, ServerIsFound
  <2>2. InFlight(toPeer[p], toClient[p], c, n)
    BY <1>2, <1>4 DEF Flight
  <2> HIDE DEF c, n
  <2>3. IF m.type = "DATA" /\ m.seq = n + 1
        THEN /\ m = Data(c, n + 1) /\ NoGet(toPeer[p])
             /\ n + 1 < PACKETS => InFlight(toPeer[p], toClient'[p], c, n + 1)
             /\ n + 1 = PACKETS => Quiet(toClient'[p])
        ELSE InFlight(toPeer[p], toClient'[p], c, n)
    BY <1>1, <1>2, <2>1, <2>2, TailInFlight
  <2> QED  BY <2>3 DEF c, n
<1> QED  BY <1>3, <1>4

\* Steps that change no connection, list or request in flight.
LEMMA IgnoredClean ==
  ASSUME CleanInv, NEW p \in Peers, NEW m,
         \/ IhaveNotAsked(p, m) \/ IhaveDownloading(p, m) \/ DataStray(p, m)
         \/ DataRepeated(p, m) \/ TimerLost(p, m)
  PROVE  CleanInv'
<1>1. /\ Arrives(p, m)
      /\ UNCHANGED <<gets, wish, downloading, c_states, whohas_timerid, toPeer>>
  BY DEF IhaveNotAsked, IhaveDownloading, DataStray, DataRepeated, TimerLost, Ignored
<1>2. Inv'
  BY IgnoredInv, OnlyTimerInv DEF CleanInv
<1>3. /\ ~exited /\ gets # 0 /\ gets \in Nat /\ Types /\ m \in Datagram
      /\ \A r \in Peers : r # p => toClient'[r] = toClient[r]
      /\ \A r \in Peers : OffersFirst(ToSet(wish), r, toClient'[r])
  BY <1>1, ArriveFacts
<1>4. IdleInv' /\ Clean'
  BY <1>1, <1>3 DEF IdleInv, CleanInv, Clean
<1>5. ConnsInv' /\ SlotsInv'
  BY <1>1, SameConns
<1>6. OffersInv'
  BY <1>1, <1>3, SameOffers DEF CleanInv, OffersInv
<1>7. FlightInv'
  <2>1. CASE TimerLost(p, m)
    BY <2>1 DEF TimerLost, FlightInv
  <2>2. ASSUME ~ TimerLost(p, m), NEW i \in DOMAIN c_states, Serves(p, i)
        PROVE  ~ (m.type = "DATA" /\ m.seq = c_states[i].ack_number + 1)
    <3>1. Conn(p) = c_states[i]
      BY <2>2, ServerIsFound
    <3>2. DataStray(p, m) => FALSE
      BY <2>2, ExpectedServes DEF DataStray
    <3>3. DataRepeated(p, m) => m.seq # c_states[i].ack_number + 1
      BY <3>1 DEF DataRepeated
    <3>4. IhaveNotAsked(p, m) \/ IhaveDownloading(p, m) => m.type # "DATA"
      BY DEF IhaveNotAsked, IhaveDownloading, Wished
    <3> QED  BY <2>2, <3>2, <3>3, <3>4
  <2>3. ASSUME ~ TimerLost(p, m), NEW r \in Peers PROVE Flight(r)'
    <3>1. CASE r = p
      <4>1. (\A i \in DOMAIN c_states : ~Serves(p, i)) =>
              NoGet(toPeer'[p]) /\ Quiet(toClient'[p])
        BY <1>1, ArriveFlight
      <4>2. \A i \in DOMAIN c_states : Serves(p, i) =>
              InFlight(toPeer'[p], toClient'[p], c_states[i].chunk, c_states[i].ack_number)
        BY <1>1, <2>2, <2>3, ArriveFlight
      <4> QED  BY <1>1, <3>1, <4>1, <4>2, SameFlight
    <3>2. CASE r # p
      BY <1>1, <1>3, <3>2, SameFlight DEF CleanInv, FlightInv, Flight
    <3> QED  BY <3>1, <3>2
  <2> QED  BY <2>1, <2>3 DEF FlightInv
<1>8. TimersInv'
  <2>1. timers \in Seq(TimersOf(Len(c_states)))
    BY <1>3 DEF Types
  <2>2. CASE UNCHANGED timers
    <3>1. exited' = exited \/ exited' = TRUE
      BY DEF IhaveNotAsked, IhaveDownloading, DataStray, DataRepeated, TimerLost, Ignored
    <3> QED  BY <1>1, <1>3, <2>2, <3>1 DEF CleanInv, TimersInv, IsWhohas, Receiving
  <2>3. ASSUME Kept(timers, timers'), NEW i \in DOMAIN c_states, Receiving(i)
        PROVE  TimersInv'
    <3>1. IsWhohas(NULL)' /\ IsWhohas(whohas_timerid)'
      BY <1>1, <1>3, <2>3, OwnersInv
    <3>2. i \in DOMAIN c_states' /\ Receiving(i)'
      BY <1>1, <2>3 DEF Receiving
    <3> QED  BY <3>1, <3>2 DEF TimersInv
  <2>4. CASE IhaveDownloading(p, m)
    <3>1. timers' = Disarm(timers, whohas_timerid) /\ whohas_timerid + 1 \in DOMAIN timers
      BY <2>4 DEF IhaveDownloading, Stopped, Exists
    <3>2. Kept(timers, timers')
      BY <2>1, <3>1, TimersKept
    <3>3. Offered(m) \in ToSet(wish) /\ Offered(m) \in ToSet(downloading)
      BY <1>3, <2>4, SearchDecides DEF IhaveDownloading, Wished, Types
    <3>4. \E i \in DOMAIN c_states : Receiving(i)
      BY <3>3 DEF CleanInv, ConnsInv, RefusedOnlyWhileReceiving
    <3> QED  BY <2>3, <3>2, <3>4
  <2>5. CASE DataRepeated(p, m)
    <3>1. timers' = Arm(timers, receiver_timerid) /\ receiver_timerid + 1 \in DOMAIN timers
          /\ Expected(p, m) /\ m.type = "DATA"
      BY <2>5 DEF DataRepeated, Exists, Expected
    <3>2. Kept(timers, timers')
      BY <2>1, <3>1, TimersKept
    <3>3. \E i \in DOMAIN c_states : Receiving(i)
      BY <3>1, ExpectedServes DEF Serves
    <3> QED  BY <2>3, <3>2, <3>3
  <2>6. CASE IhaveNotAsked(p, m) \/ DataStray(p, m) \/ TimerLost(p, m)
    BY <2>2, <2>6 DEF IhaveNotAsked, DataStray, TimerLost, Ignored
  <2> QED  BY <2>4, <2>5, <2>6
<1> QED  BY <1>2, <1>4, <1>5, <1>6, <1>7, <1>8 DEF CleanInv

\* An offer is taken up only when its peer has no connection: every other offer of the
\* peer, and every connection it has, is for the same chunk.
LEMMA AcceptedIsAlone ==
  ASSUME CleanInv, NEW p \in Peers, NEW m, IhaveAccepted(p, m), NEW i \in DOMAIN c_states
  PROVE  ~ Serves(p, i)
<1> DEFINE c == Offered(m)
<1>1. Arrives(p, m) /\ m.type = "IHAVE" /\ Search(wish, c) # -1 /\ Search(downloading, c) = -1
  BY DEF IhaveAccepted, Wished
<1>2. FirstOf(ToSet(wish), p, c)
  BY <1>1, ArriveFacts
<1>3. wish \in Seq(Chunks) /\ downloading \in Seq(Chunks)
  BY DEF CleanInv, Inv, Types
<1>4. c \in ToSet(wish) /\ c \notin ToSet(downloading)
  BY <1>1, <1>3, SearchDecides
<1> HIDE DEF c
<1>5. SUFFICES ASSUME Serves(p, i) PROVE FALSE
  OBVIOUS
<1> DEFINE d == c_states[i].chunk
<1>6. d \in ToSet(wish) /\ d \in ToSet(downloading)
  BY <1>5, ServerIsFound
<1>7. FirstOf(ToSet(wish), p, d)
  BY <1>5 DEF CleanInv, OffersInv, Serves
<1> HIDE DEF d
<1>8. c # d /\ Before(c, d) /\ Before(d, c)
  BY <1>2, <1>4, <1>6, <1>7 DEF FirstOf
<1> QED  BY <1>8, BeforeIsOrder

LEMMA IhaveAcceptedClean ==
  ASSUME CleanInv, NEW p \in Peers, NEW m, IhaveAccepted(p, m)
  PROVE  CleanInv'
<1>0. PICK c : c = Offered(m)
  OBVIOUS
<1>00. PICK n : n = Len(c_states)
  OBVIOUS
<1>1. /\ Arrives(p, m) /\ m.type = "IHAVE"
      /\ Search(wish, c) # -1 /\ Search(downloading, c) = -1
      /\ whohas_timerid + 1 \in DOMAIN timers
      /\ toPeer' = [toPeer EXCEPT ![p] = Append(@, Get(c))]
      /\ downloading' = PushBack(downloading, c)
      /\ c_states' = Append(c_states, NewConnection(p, c))
      /\ timers' = Create(Disarm(timers, whohas_timerid), Len(c_states'))
      /\ UNCHANGED <<gets, wish, whohas_timerid, file, exited>>
  BY <1>0 DEF IhaveAccepted, Wished, Entered, Stopped, Exists, Get
<1>2. Inv' /\ Types'
  BY IhaveAcceptedInv DEF CleanInv, Inv
<1>3. /\ ~exited /\ gets # 0 /\ gets \in Nat /\ Types
      /\ \A r \in Peers : r # p => toClient'[r] = toClient[r]
      /\ \A r \in Peers : OffersFirst(ToSet(wish), r, toClient'[r])
      /\ FirstOf(ToSet(wish), p, c) /\ c \in Chunks
  BY <1>0, <1>1, ArriveFacts, ArrivesTypes
<1>4. IdleInv' /\ Clean'
  BY <1>1, <1>3 DEF IdleInv, CleanInv, Clean
<1>5. /\ c \in ToSet(wish) /\ c \notin ToSet(downloading)
      /\ ToSet(downloading') = ToSet(downloading) \cup {c}
  <2>1. wish \in Seq(Chunks) /\ downloading \in Seq(Chunks)
    BY <1>3 DEF Types
  <2>2. c \in ToSet(wish) /\ c \notin ToSet(downloading)
    BY <1>1, <2>1, SearchDecides
  <2> QED  BY <1>1, <1>3, <2>1, <2>2, PushBackKeeps
<1>6. /\ n \in Nat /\ DOMAIN c_states = 1..n /\ DOMAIN c_states' = 1..n + 1
      /\ c_states'[n + 1] = NewConnection(p, c)
      /\ \A i \in 1..n : c_states'[i] = c_states[i]
  BY <1>00, <1>1, <1>3 DEF Types
<1>7. /\ c_states'[n + 1].server = p /\ c_states'[n + 1].chunk = c
      /\ c_states'[n + 1].ack_number = 0 /\ c_states'[n + 1].temp_data = {}
      /\ c_states'[n + 1] # Destroyed
  BY <1>6, Constants DEF NewConnection, Destroyed
<1>8. Receiving(n + 1)' /\ \A i \in 1..n : Receiving(i)' <=> Receiving(i)
  BY <1>6, <1>7, Constants DEF Receiving
<1>9. \A i \in 1..n : Receiving(i) => c_states[i].server # p
  BY <1>6, AcceptedIsAlone DEF Serves
<1>10. ConnsInv'
  <2>1. \A i \in DOMAIN c_states' : ~Receiving(i)' => c_states'[i] = Destroyed
    BY <1>6, <1>8 DEF CleanInv, ConnsInv
  <2>2. ASSUME NEW i \in 1..n + 1, Receiving(i)'
        PROVE  c_states'[i].temp_data =
                 IF c_states'[i].ack_number = 0 THEN {} ELSE {c_states'[i].chunk}
    <3>1. CASE i \in 1..n
      <4>1. Receiving(i) /\ c_states'[i] = c_states[i] /\ i \in DOMAIN c_states
        BY <1>6, <1>8, <2>2, <3>1
      <4>2. c_states[i].temp_data =
              IF c_states[i].ack_number = 0 THEN {} ELSE {c_states[i].chunk}
        BY <4>1 DEF CleanInv, ConnsInv
      <4> QED  BY <4>1, <4>2
    <3>2. CASE i = n + 1
      BY <1>7, <3>2
    <3> QED  BY <1>6, <3>1, <3>2
  <2>3. ToSet(wish') \cap ToSet(downloading') =
          {c_states'[i].chunk : i \in {i \in DOMAIN c_states' : Receiving(i)'}}
    <3>1. ToSet(wish) \cap ToSet(downloading) =
            {c_states[i].chunk : i \in {i \in DOMAIN c_states : Receiving(i)}}
      BY DEF CleanInv, ConnsInv, RefusedOnlyWhileReceiving
    <3>2. {i \in DOMAIN c_states' : Receiving(i)'} =
            {i \in DOMAIN c_states : Receiving(i)} \cup {n + 1}
      BY <1>6, <1>8
    <3>3. {c_states'[i].chunk : i \in {i \in DOMAIN c_states' : Receiving(i)'}} =
            {c_states[i].chunk : i \in {i \in DOMAIN c_states : Receiving(i)}} \cup {c}
      BY <1>6, <1>7, <3>2
    <3> QED  BY <1>1, <1>5, <3>1, <3>3
  <2>4. ASSUME NEW i \in 1..n + 1, NEW j \in 1..n + 1, Receiving(i)', Receiving(j)',
               c_states'[i].server = c_states'[j].server
        PROVE  i = j
    <3>1. CASE i \in 1..n /\ j \in 1..n
      <4>1. Receiving(i) /\ Receiving(j) /\ c_states[i].server = c_states[j].server
        BY <1>6, <1>8, <2>4, <3>1
      <4> QED  BY <1>6, <3>1, <4>1 DEF CleanInv, ConnsInv
    <3>2. CASE i \in 1..n /\ j = n + 1
      BY <1>6, <1>7, <1>8, <1>9, <2>4, <3>2
    <3>3. CASE i = n + 1 /\ j \in 1..n
      BY <1>6, <1>7, <1>8, <1>9, <2>4, <3>3
    <3> QED  BY <1>6, <3>1, <3>2, <3>3
  <2> QED  BY <1>6, <2>1, <2>2, <2>3, <2>4 DEF ConnsInv, RefusedOnlyWhileReceiving
<1>11. SlotsInv'
  <2>1. PICK f \in Injection(1..n, DOMAIN WishList) : SlotOf(f)
    BY <1>6 DEF CleanInv, SlotsInv
  <2>2. PICK k \in DOMAIN WishList : WishList[k] = c
    BY <1>5 DEF CleanInv, Inv, ListsInv, ToSet
  <2>3. \A i \in 1..n : f[i] # k
    BY <1>5, <1>6, <2>1, <2>2 DEF SlotOf, CleanInv, Inv, ListsInv
  <2> DEFINE g == [i \in 1..n + 1 |-> IF i = n + 1 THEN k ELSE f[i]]
  <2>4. f \in [1..n -> DOMAIN WishList] /\ \A i, j \in 1..n : f[i] = f[j] => i = j
    BY <2>1 DEF Injection, IsInjective
  <2>5. /\ g \in [1..n + 1 -> DOMAIN WishList] /\ g[n + 1] = k
        /\ \A i \in 1..n : g[i] = f[i]
    BY <1>6, <2>2, <2>4
  <2> HIDE DEF g
  <2>6. ASSUME NEW i \in 1..n + 1, NEW j \in 1..n + 1, g[i] = g[j] PROVE i = j
    <3>1. CASE i \in 1..n /\ j \in 1..n
      BY <2>4, <2>5, <2>6, <3>1
    <3>2. CASE i = n + 1 \/ j = n + 1
      BY <1>6, <2>3, <2>5, <2>6, <3>2
    <3> QED  BY <1>6, <3>1, <3>2
  <2>7. g \in Injection(1..n + 1, DOMAIN WishList)
    BY <2>5, <2>6 DEF Injection, IsInjective
  <2>8. ASSUME NEW i \in 1..n + 1
        PROVE  IF Receiving(i)' THEN WishList[g[i]] = c_states'[i].chunk
                                ELSE WishList[g[i]] \notin ToSet(wish')
    <3>1. CASE i \in 1..n
      BY <1>1, <1>6, <1>8, <2>1, <2>5, <3>1 DEF SlotOf
    <3>2. CASE i = n + 1
      BY <1>7, <1>8, <2>2, <2>5, <3>2
    <3> QED  BY <1>6, <3>1, <3>2
  <2> QED  BY <1>6, <2>7, <2>8 DEF SlotsInv, SlotOf
<1>12. /\ toPeer[p] \in Seq(Request) /\ toPeer'[p] = Append(toPeer[p], Get(c))
       /\ \A r \in Peers : r # p => toPeer'[r] = toPeer[r]
       /\ Get(c) \in Request /\ Get(c).type # "WHOHAS"
  BY <1>1, <1>3 DEF Types, Get, Request
<1>13. OffersInv'
  <2>1. \A r \in Peers : AskedInOrder(ToSet(wish), toPeer'[r])
    <3>1. \A r \in Peers : AskedInOrder(ToSet(wish), toPeer[r])
      BY DEF CleanInv, OffersInv
    <3>2. AskedInOrder(ToSet(wish), toPeer'[p])
      BY <1>12, <3>1, AsksInOrder
    <3> QED  BY <1>12, <3>1, <3>2
  <2>2. ASSUME NEW i \in 1..n + 1, Receiving(i)'
        PROVE  FirstOf(ToSet(wish), c_states'[i].server, c_states'[i].chunk)
    <3>1. CASE i \in 1..n
      BY <1>6, <1>8, <2>2, <3>1 DEF CleanInv, OffersInv
    <3>2. CASE i = n + 1
      BY <1>3, <1>7, <3>2
    <3> QED  BY <1>6, <3>1, <3>2
  <2> QED  BY <1>1, <1>3, <1>6, <2>1, <2>2 DEF CleanInv, OffersInv
<1>14. FlightInv'
  <2> SUFFICES ASSUME NEW r \in Peers PROVE Flight(r)'
    BY DEF FlightInv
  <2>1. CASE r = p
    <3>1. NoGet(toPeer[p]) /\ Quiet(toClient'[p])
      BY <1>1, <1>6, <1>9, ArriveFlight DEF Serves
    <3>2. OneGet(toPeer'[p], c)
      BY <1>12, <3>1, AppendRequest
    <3>3. Serves(p, n + 1)' /\ \A i \in 1..n : ~ Serves(p, i)'
      BY <1>6, <1>7, <1>8, <1>9 DEF Serves
    <3>4. InFlight(toPeer'[p], toClient'[p], c, 0)
      BY <3>1, <3>2 DEF InFlight
    <3>5. \A i \in DOMAIN c_states' : Serves(p, i)' => i = n + 1
      BY <1>6, <3>3
    <3>6. n + 1 \in DOMAIN c_states'
      BY <1>6
    <3> QED  BY <1>7, <2>1, <3>3, <3>4, <3>5, <3>6 DEF Flight
  <2>2. CASE r # p
    <3>1. Flight(r) /\ toPeer'[r] = toPeer[r] /\ toClient'[r] = toClient[r]
      BY <1>3, <1>12, <2>2 DEF CleanInv, FlightInv
    <3>2. ~ Serves(r, n + 1)' /\ \A i \in 1..n : Serves(r, i)' <=> Serves(r, i)
      BY <1>6, <1>7, <1>8, <2>2 DEF Serves
    <3>3. (\A i \in DOMAIN c_states' : ~Serves(r, i)') =>
            NoGet(toPeer'[r]) /\ Quiet(toClient'[r])
      BY <1>6, <3>1, <3>2 DEF Flight
    <3>4. ASSUME NEW i \in 1..n + 1, Serves(r, i)'
          PROVE  InFlight(toPeer'[r], toClient'[r], c_states'[i].chunk, c_states'[i].ack_number)
      <4>1. i \in 1..n
        BY <1>6, <3>2, <3>4
      <4> QED  BY <1>6, <3>1, <3>2, <3>4, <4>1 DEF Flight
    <3> QED  BY <1>6, <3>3, <3>4 DEF Flight
  <2> QED  BY <2>1, <2>2
<1>15. TimersInv'
  <2> DEFINE d == Disarm(timers, whohas_timerid)
  <2>1. timers \in Seq(TimersOf(n))
    BY <1>00, <1>3 DEF Types
  <2>2. d \in Seq(TimersOf(n)) /\ Kept(timers, d)
    BY <1>1, <2>1, TimerTypes, TimersKept
  <2> HIDE DEF d
  <2>3. timers' = Create(d, Len(c_states'))
    BY <1>1 DEF d
  <2>4. Kept(d, timers')
    BY <2>2, <2>3, TimersKept
  <2>5. Kept(timers, timers')
    BY <2>2, <2>4 DEF Kept
  <2>6. IsWhohas(NULL)' /\ IsWhohas(whohas_timerid)'
    BY <1>1, <1>3, <2>5, OwnersInv
  <2>7. n + 1 \in DOMAIN c_states'
    BY <1>6
  <2> QED  BY <1>8, <2>6, <2>7 DEF TimersInv
<1> QED  BY <1>2, <1>4, <1>10, <1>11, <1>13, <1>14, <1>15 DEF CleanInv

\* The next packet of a connection, which its peer sent for it.
LEMMA NextPacket ==
  ASSUME CleanInv, NEW p \in Peers, NEW m, Arrives(p, m), Expected(p, m),
         m.seq = Conn(p).ack_number + 1
  PROVE  \E i \in DOMAIN c_states :
           /\ Serves(p, i) /\ Min(Found(p)) = i /\ Conn(p) = c_states[i]
           /\ \A j \in DOMAIN c_states : Serves(p, j) => j = i
           /\ m.type = "DATA" /\ m.bytes = c_states[i].chunk /\ NoGet(toPeer[p])
           /\ m.seq \in 1..PACKETS /\ c_states[i].chunk \in ToSet(wish)
           /\ m.seq < PACKETS => InFlight(toPeer[p], toClient'[p], c_states[i].chunk, m.seq)
           /\ m.seq = PACKETS => Quiet(toClient'[p])
           /\ Stored(p, m).temp_data = {c_states[i].chunk}
           /\ Stored(p, m) \in CState /\ Stored(p, m).chunk = c_states[i].chunk
           /\ Stored(p, m).ack_number = m.seq /\ Stored(p, m).server = p
<1>1. m.type = "DATA"
  BY DEF Expected
<1>2. PICK i \in DOMAIN c_states : Serves(p, i) /\ Min(Found(p)) = i /\ Conn(p) = c_states[i]
  BY <1>1, ExpectedServes
<1>3. \A j \in DOMAIN c_states : Serves(p, j) => j = i
  BY <1>2 DEF CleanInv, ConnsInv, Serves
<1>4. /\ Stored(p, m) \in CState /\ Stored(p, m).chunk = Conn(p).chunk
      /\ Stored(p, m).ack_number = m.seq /\ Stored(p, m).server = p
      /\ m.seq \in 1..PACKETS /\ Conn(p).chunk \in ToSet(wish)
  BY ExpectedConn DEF CleanInv
<1> DEFINE c == c_states[i].chunk
           n == c_states[i].ack_number
<1>5. /\ m = Data(c, n + 1) /\ NoGet(toPeer[p]) /\ m.seq = n + 1
      /\ n + 1 < PACKETS => InFlight(toPeer[p], toClient'[p], c, n + 1)
      /\ n + 1 = PACKETS => Quiet(toClient'[p])
  BY <1>1, <1>2, ArriveFlight
<1>6. m.bytes = c
  BY <1>5 DEF Data
<1>7. Conn(p).temp_data \cup {m.bytes} = {c}
  <2>1. c_states[i].temp_data = IF n = 0 THEN {} ELSE {c}
    BY <1>2 DEF CleanInv, ConnsInv, Serves
  <2>2. c_states[i].temp_data \subseteq {c}
    BY <2>1
  <2> QED  BY <1>2, <1>6, <2>2
<1>8. Stored(p, m).temp_data = {c}
  <2>1. Conn(p) \in CState
    BY <1>2, ServerIsFound
  <2> HIDE DEF c
  <2> QED  BY <1>7, <2>1 DEF Stored, CState
<1> QED  BY <1>1, <1>2, <1>3, <1>4, <1>5, <1>6, <1>8

LEMMA DataStoredClean ==
  ASSUME CleanInv, NEW p \in Peers, NEW m, DataStored(p, m)
  PROVE  CleanInv'
<1>0. PICK s : s = Stored(p, m)
  OBVIOUS
<1>1. /\ Arrives(p, m) /\ Expected(p, m) /\ m.seq = Conn(p).ack_number + 1 /\ m.seq < PACKETS
      /\ receiver_timerid + 1 \in DOMAIN timers
      /\ c_states' = [c_states EXCEPT ![Min(Found(p))] = s]
      /\ timers' = Arm(timers, receiver_timerid)
      /\ UNCHANGED <<gets, wish, downloading, whohas_timerid, receiver_timerid,
                     file, exited, toPeer>>
  BY <1>0 DEF DataStored, Exists
<1>2. Inv'
  BY DataStoredInv DEF CleanInv
<1>3. /\ ~exited /\ gets # 0 /\ gets \in Nat /\ Types
      /\ \A r \in Peers : r # p => toClient'[r] = toClient[r]
      /\ \A r \in Peers : OffersFirst(ToSet(wish), r, toClient'[r])
  BY <1>1, ArriveFacts
<1>4. IdleInv' /\ Clean'
  BY <1>1, <1>3 DEF IdleInv, CleanInv, Clean
<1>5. PICK i \in DOMAIN c_states :
           /\ Serves(p, i) /\ Min(Found(p)) = i
           /\ \A j \in DOMAIN c_states : Serves(p, j) => j = i
           /\ m.seq \in 1..PACKETS /\ s.ack_number = m.seq
           /\ InFlight(toPeer[p], toClient'[p], c_states[i].chunk, m.seq)
           /\ s.temp_data = {c_states[i].chunk} /\ s.chunk = c_states[i].chunk /\ s.server = p
  BY <1>0, <1>1, NextPacket
<1>6. /\ DOMAIN c_states' = DOMAIN c_states /\ c_states'[i] = s
      /\ \A j \in DOMAIN c_states : j # i => c_states'[j] = c_states[j]
  BY <1>1, <1>3, <1>5 DEF Types
<1>7. s # Destroyed
  BY <1>5, Constants DEF Destroyed
<1>8. \A j \in DOMAIN c_states :
        /\ Receiving(j)' <=> Receiving(j)
        /\ Receiving(j) => /\ c_states'[j].chunk = c_states[j].chunk
                           /\ c_states'[j].server = c_states[j].server
  BY <1>1, <1>5, <1>6, <1>7 DEF Receiving, Serves
<1>9. ConnsInv'
  <2>1. \A j \in DOMAIN c_states' : ~Receiving(j)' => c_states'[j] = Destroyed
    BY <1>5, <1>6, <1>8 DEF CleanInv, ConnsInv, Serves
  <2>2. ASSUME NEW j \in DOMAIN c_states, Receiving(j)'
        PROVE  c_states'[j].temp_data =
                 IF c_states'[j].ack_number = 0 THEN {} ELSE {c_states'[j].chunk}
    <3>1. CASE j = i
      <4>1. s.ack_number # 0
        BY <1>5
      <4> QED  BY <1>5, <1>6, <3>1, <4>1
    <3>2. CASE j # i
      <4>1. c_states[j].temp_data =
              IF c_states[j].ack_number = 0 THEN {} ELSE {c_states[j].chunk}
        BY <1>8, <2>2 DEF CleanInv, ConnsInv
      <4> QED  BY <1>6, <3>2, <4>1
    <3> QED  BY <3>1, <3>2
  <2>3. RefusedOnlyWhileReceiving'
    <3>1. {c_states'[j].chunk : j \in {j \in DOMAIN c_states' : Receiving(j)'}} =
            {c_states[j].chunk : j \in {j \in DOMAIN c_states : Receiving(j)}}
      BY <1>6, <1>8
    <3> QED  BY <1>1, <3>1 DEF CleanInv, ConnsInv, RefusedOnlyWhileReceiving
  <2>4. \A j, k \in DOMAIN c_states' :
          Receiving(j)' /\ Receiving(k)' /\ c_states'[j].server = c_states'[k].server => j = k
    BY <1>6, <1>8 DEF CleanInv, ConnsInv
  <2> QED  BY <1>6, <2>1, <2>2, <2>3, <2>4 DEF ConnsInv
<1>10. SlotsInv'
  <2>1. PICK f \in Injection(DOMAIN c_states, DOMAIN WishList) : SlotOf(f)
    BY DEF CleanInv, SlotsInv
  <2>2. SlotOf(f)'
    BY <1>1, <1>6, <1>8, <2>1 DEF SlotOf
  <2> QED  BY <1>6, <2>1, <2>2 DEF SlotsInv
<1>11. OffersInv'
  <2>1. \A r \in Peers : AskedInOrder(ToSet(wish'), toPeer'[r])
                         /\ OffersFirst(ToSet(wish'), r, toClient'[r])
    BY <1>1, <1>3 DEF CleanInv, OffersInv
  <2> QED  BY <1>1, <1>6, <1>8, <2>1 DEF CleanInv, OffersInv
<1>12. FlightInv'
  <2> SUFFICES ASSUME NEW r \in Peers PROVE Flight(r)'
    BY DEF FlightInv
  <2>1. \A j \in DOMAIN c_states : Serves(r, j)' <=> Serves(r, j)
    BY <1>8 DEF Serves
  <2>2. CASE r = p
    <3>1. ASSUME NEW j \in DOMAIN c_states, Serves(p, j)'
          PROVE  InFlight(toPeer'[p], toClient'[p], c_states'[j].chunk, c_states'[j].ack_number)
      <4>1. j = i
        BY <1>5, <2>1, <2>2, <3>1
      <4> QED  BY <1>1, <1>5, <1>6, <4>1
    <3> QED  BY <1>5, <1>6, <2>1, <2>2, <3>1 DEF Flight
  <2>3. CASE r # p
    <3>1. Flight(r) /\ toPeer'[r] = toPeer[r] /\ toClient'[r] = toClient[r]
      BY <1>1, <1>3, <2>3 DEF CleanInv, FlightInv
    <3>2. \A j \in DOMAIN c_states : Serves(r, j) => c_states'[j] = c_states[j]
      BY <1>5, <1>6, <2>3 DEF Serves
    <3> QED  BY <1>6, <2>1, <3>1, <3>2 DEF Flight
  <2> QED  BY <2>2, <2>3
<1>13. TimersInv'
  <2>1. timers \in Seq(TimersOf(Len(c_states)))
    BY <1>3 DEF Types
  <2>2. Kept(timers, timers')
    BY <1>1, <2>1, TimersKept
  <2>3. IsWhohas(NULL)' /\ IsWhohas(whohas_timerid)'
    BY <1>1, <1>3, <2>2, OwnersInv
  <2>4. i \in DOMAIN c_states' /\ Receiving(i)'
    BY <1>5, <1>6, <1>8 DEF Serves
  <2> QED  BY <2>3, <2>4 DEF TimersInv
<1> QED  BY <1>2, <1>4, <1>9, <1>10, <1>11, <1>12, <1>13 DEF CleanInv

\* No chunk is corrupted, so no SHA-1 fails.
LEMMA NoChunkFails ==
  ASSUME CleanInv, NEW p \in Peers, NEW m
  PROVE  ~ ChunkFailed(p, m)
<1> SUFFICES ASSUME ChunkFailed(p, m) PROVE FALSE
  OBVIOUS
<1>1. Arrives(p, m) /\ Expected(p, m) /\ m.seq = Conn(p).ack_number + 1
  BY DEF ChunkFailed, LastData
<1>2. Stored(p, m).temp_data = {Stored(p, m).chunk}
  BY <1>1, NextPacket
<1> QED  BY <1>2 DEF ChunkFailed, HashMatches

LEMMA ChunkDoneClean ==
  ASSUME CleanInv, NEW p \in Peers, NEW m, NextChunk(p, m) \/ LastChunk(p, m)
  PROVE  CleanInv'
<1>1. /\ LastData(p, m) /\ Arrives(p, m) /\ Expected(p, m)
      /\ m.seq = Conn(p).ack_number + 1 /\ m.seq = PACKETS
      /\ c_states' = [c_states EXCEPT ![Min(Found(p))] = Destroyed]
      /\ downloading' = PopIndex(downloading, Search(downloading, Conn(p).chunk))
      /\ UNCHANGED <<gets, whohas_timerid>>
  BY DEF NextChunk, LastChunk, ChunkVerified, LastData, Closed
<1>2. Inv' /\ Inv
  BY ChunkDoneInv DEF CleanInv
<1>3. /\ ~exited /\ gets # 0 /\ gets \in Nat /\ Types
      /\ \A r \in Peers : r # p => toClient'[r] = toClient[r]
      /\ \A r \in Peers : OffersFirst(ToSet(wish), r, toClient'[r])
  BY <1>1, ArriveFacts
<1>4. IdleInv' /\ Clean'
  BY <1>1, <1>3 DEF IdleInv, CleanInv, Clean
<1>5. PICK i \in DOMAIN c_states :
           /\ Serves(p, i) /\ Min(Found(p)) = i /\ Conn(p) = c_states[i]
           /\ \A j \in DOMAIN c_states : Serves(p, j) => j = i
           /\ NoGet(toPeer[p]) /\ Quiet(toClient'[p])
  BY <1>1, NextPacket
<1>6. PICK c : c = c_states[i].chunk
  OBVIOUS
<1>7. PICK k \in DOMAIN wish : wish[k] = c /\ wish' = RemoveAt(wish, k) /\ c \in ToSet(wish)
  BY <1>2, <1>5, <1>6, VerifiedShrinks
<1>8. /\ wish \in Seq(Chunks) /\ IsInjective(wish) /\ downloading \in Seq(Chunks)
      /\ IsInjective(downloading)
  BY <1>2 DEF Inv, Types, ListsInv
<1>9. /\ wish' \in Seq(Chunks) /\ ToSet(wish') = ToSet(wish) \ {c}
      /\ Ordered(wish')
  BY <1>7, <1>8, RemoveAtShape, RemoveAtRemoves, RemoveAtOrdered DEF CleanInv, OffersInv
<1>10. /\ ToSet(downloading') \subseteq ToSet(downloading)
       /\ ToSet(downloading) \ {c} \subseteq ToSet(downloading')
  BY <1>1, <1>5, <1>6, <1>8, PopKeeps
<1>11. /\ DOMAIN c_states' = DOMAIN c_states /\ c_states'[i] = Destroyed
       /\ \A j \in DOMAIN c_states : j # i => c_states'[j] = c_states[j]
  BY <1>1, <1>3, <1>5 DEF Types
<1>12. ~ Receiving(i)' /\ \A j \in DOMAIN c_states : j # i => (Receiving(j)' <=> Receiving(j))
  BY <1>11 DEF Receiving
<1>13. \A j \in DOMAIN c_states : Receiving(j) /\ j # i => c_states[j].chunk # c
  BY <1>2, <1>5, <1>6 DEF Inv, ListsInv, OneDownloadPerChunk, Serves
<1>14. ConnsInv'
  <2>1. \A j \in DOMAIN c_states' : ~Receiving(j)' => c_states'[j] = Destroyed
    BY <1>11, <1>12 DEF CleanInv, ConnsInv
  <2>2. ASSUME NEW j \in DOMAIN c_states, Receiving(j)'
        PROVE  c_states'[j].temp_data =
                 IF c_states'[j].ack_number = 0 THEN {} ELSE {c_states'[j].chunk}
    <3>1. Receiving(j) /\ c_states'[j] = c_states[j]
      BY <1>11, <1>12, <2>2
    <3>2. c_states[j].temp_data =
            IF c_states[j].ack_number = 0 THEN {} ELSE {c_states[j].chunk}
      BY <3>1 DEF CleanInv, ConnsInv
    <3> QED  BY <3>1, <3>2
  <2>3. ToSet(wish') \cap ToSet(downloading') =
          {c_states'[j].chunk : j \in {j \in DOMAIN c_states' : Receiving(j)'}}
    <3>1. ToSet(wish) \cap ToSet(downloading) =
            {c_states[j].chunk : j \in {j \in DOMAIN c_states : Receiving(j)}}
      BY DEF CleanInv, ConnsInv, RefusedOnlyWhileReceiving
    <3>2. ToSet(wish') \cap ToSet(downloading') = (ToSet(wish) \cap ToSet(downloading)) \ {c}
      BY <1>9, <1>10
    <3>3. {c_states'[j].chunk : j \in {j \in DOMAIN c_states' : Receiving(j)'}} =
            {c_states[j].chunk : j \in {j \in DOMAIN c_states : Receiving(j)}} \ {c}
      <4>1. ASSUME NEW j \in DOMAIN c_states, Receiving(j)'
            PROVE  Receiving(j) /\ c_states'[j].chunk = c_states[j].chunk
                   /\ c_states[j].chunk # c
        BY <1>11, <1>12, <1>13, <4>1
      <4>2. ASSUME NEW j \in DOMAIN c_states, Receiving(j), c_states[j].chunk # c
            PROVE  Receiving(j)' /\ c_states'[j].chunk = c_states[j].chunk
        BY <1>6, <1>11, <1>12, <4>2
      <4> QED  BY <1>11, <4>1, <4>2
    <3> QED  BY <3>1, <3>2, <3>3
  <2>4. \A j, l \in DOMAIN c_states' :
          Receiving(j)' /\ Receiving(l)' /\ c_states'[j].server = c_states'[l].server => j = l
    BY <1>11, <1>12 DEF CleanInv, ConnsInv
  <2> QED  BY <1>11, <2>1, <2>2, <2>3, <2>4 DEF ConnsInv, RefusedOnlyWhileReceiving
<1>15. SlotsInv'
  <2>1. PICK f \in Injection(DOMAIN c_states, DOMAIN WishList) : SlotOf(f)
    BY DEF CleanInv, SlotsInv
  <2>2. WishList[f[i]] = c
    BY <1>5, <1>6, <2>1 DEF SlotOf, Serves
  <2>3. ASSUME NEW j \in DOMAIN c_states
        PROVE  IF Receiving(j)' THEN WishList[f[j]] = c_states'[j].chunk
                                ELSE WishList[f[j]] \notin ToSet(wish')
    <3>1. CASE j = i
      BY <1>9, <1>12, <2>2, <3>1
    <3>2. CASE j # i
      BY <1>9, <1>11, <1>12, <2>1, <3>2 DEF SlotOf
    <3> QED  BY <3>1, <3>2
  <2> QED  BY <1>11, <2>1, <2>3 DEF SlotsInv, SlotOf
<1>16. /\ Finished(timers) \in Seq(TimersOf(Len(c_states)))
       /\ Kept(timers, Finished(timers))
  <2>1. timers \in Seq(TimersOf(Len(c_states)))
    BY <1>3 DEF Types
  <2> QED  BY <2>1, TimerTypes, TimersKept DEF Finished
<1>17. /\ NextChunk(p, m) => Ask(wish', Finished(timers))
       /\ LastChunk(p, m) => wish' = <<>> /\ timers' = Finished(timers)
                             /\ UNCHANGED <<toPeer, exited>>
  BY DEF NextChunk, LastChunk, Destroy
<1>18. /\ \A r \in Peers :
            /\ NoGet(toPeer[r]) => NoGet(toPeer'[r])
            /\ \A d : OneGet(toPeer[r], d) => OneGet(toPeer'[r], d)
            /\ AskedInOrder(ToSet(wish'), toPeer[r]) => AskedInOrder(ToSet(wish'), toPeer'[r])
       /\ Kept(Finished(timers), timers')
       /\ ~exited' => \/ wish' = <<>>
                      \/ /\ whohas_timerid' + 1 \in DOMAIN timers'
                         /\ timers'[whohas_timerid' + 1].armed
  <2>1. CASE NextChunk(p, m)
    BY <1>3, <1>9, <1>16, <1>17, <2>1, AskEffect
  <2>2. CASE LastChunk(p, m)
    BY <1>17, <2>2 DEF Kept
  <2> QED  BY <2>1, <2>2
<1>19. OffersInv'
  <2>1. ASSUME NEW r \in Peers
        PROVE  AskedInOrder(ToSet(wish'), toPeer'[r]) /\ OffersFirst(ToSet(wish'), r, toClient'[r])
    <3>1. toPeer[r] \in Seq(Request) /\ toClient'[r] \in Seq(Datagram)
      BY <1>2, <1>3 DEF Inv, Types
    <3>2. AskedInOrder(ToSet(wish), toPeer[r]) /\ OffersFirst(ToSet(wish), r, toClient'[r])
      BY <1>3 DEF CleanInv, OffersInv
    <3>3. ToSet(wish') \in SUBSET ToSet(wish)
      BY <1>9
    <3>4. AskedInOrder(ToSet(wish'), toPeer[r])
      BY <3>1, <3>2, <3>3, AsksInOrder
    <3>5. OffersFirst(ToSet(wish'), r, toClient'[r])
      BY <3>1, <3>2, <3>3, OffersFirstly
    <3> QED  BY <1>18, <3>4, <3>5
  <2>2. \A j \in DOMAIN c_states' : Receiving(j)' =>
          FirstOf(ToSet(wish'), c_states'[j].server, c_states'[j].chunk)
    <3>1. \A j \in DOMAIN c_states : Receiving(j) =>
            FirstOf(ToSet(wish), c_states[j].server, c_states[j].chunk)
      BY DEF CleanInv, OffersInv
    <3>2. \A r, d : FirstOf(ToSet(wish), r, d) => FirstOf(ToSet(wish'), r, d)
      BY <1>9 DEF FirstOf
    <3> QED  BY <1>11, <1>12, <3>1, <3>2
  <2> QED  BY <1>9, <2>1, <2>2 DEF OffersInv
<1>20. FlightInv'
  <2> SUFFICES ASSUME NEW r \in Peers PROVE Flight(r)'
    BY DEF FlightInv
  <2>1. \A j \in DOMAIN c_states : Serves(r, j)' <=> Serves(r, j) /\ j # i
    BY <1>11, <1>12 DEF Serves
  <2>2. CASE r = p
    <3>1. \A j \in DOMAIN c_states' : ~ Serves(p, j)'
      BY <1>5, <1>11, <2>1, <2>2
    <3>2. NoGet(toPeer'[p])
      BY <1>5, <1>18
    <3> QED  BY <1>5, <2>2, <3>1, <3>2 DEF Flight
  <2>3. CASE r # p
    <3>1. Flight(r) /\ toClient'[r] = toClient[r]
      BY <1>3, <2>3 DEF CleanInv, FlightInv
    <3>2. ~ Serves(r, i)
      BY <1>5, <2>3 DEF Serves
    <3>3. (\A j \in DOMAIN c_states' : ~Serves(r, j)') =>
            NoGet(toPeer'[r]) /\ Quiet(toClient'[r])
      BY <1>11, <1>18, <2>1, <3>1, <3>2 DEF Flight
    <3>4. ASSUME NEW j \in DOMAIN c_states, Serves(r, j)'
          PROVE  InFlight(toPeer'[r], toClient'[r], c_states'[j].chunk, c_states'[j].ack_number)
      <4>1. Serves(r, j) /\ c_states'[j] = c_states[j]
        BY <1>11, <2>1, <3>4
      <4>2. InFlight(toPeer[r], toClient[r], c_states[j].chunk, c_states[j].ack_number)
        BY <3>1, <4>1 DEF Flight
      <4> QED  BY <1>18, <3>1, <4>1, <4>2 DEF InFlight
    <3> QED  BY <1>11, <3>3, <3>4 DEF Flight
  <2> QED  BY <2>2, <2>3
<1>21. TimersInv'
  <2>1. Kept(timers, timers')
    BY <1>16, <1>18 DEF Kept
  <2>2. IsWhohas(NULL)' /\ IsWhohas(whohas_timerid)'
    BY <1>1, <1>3, <2>1, OwnersInv
  <2> QED  BY <1>18, <2>2 DEF TimersInv, IsWhohas
<1> QED  BY <1>2, <1>4, <1>14, <1>15, <1>19, <1>20, <1>21 DEF CleanInv

-----------------------------------------------------------------------------
(* The specification. *)

LEMMA InitClean == Clean /\ Init => CleanInv
<1> SUFFICES ASSUME Clean, Init PROVE CleanInv
  OBVIOUS
<1>1. /\ toPeer = [p \in Peers |-> <<>>] /\ toClient = [p \in Peers |-> <<>>]
      /\ wish = <<>> /\ downloading = <<>> /\ c_states = <<>> /\ timers = <<>> /\ gets = 0
  BY DEF Init, NoStates
<1>2. Inv
  BY InitInv
<1>3. IdleInv
  BY <1>1 DEF IdleInv
<1>4. DOMAIN c_states = {} /\ DOMAIN wish = {} /\ ToSet(wish) = {} /\ ~ (gets > 0)
  BY <1>1 DEF ToSet
<1>5. ConnsInv
  BY <1>4 DEF ConnsInv, RefusedOnlyWhileReceiving
<1>6. SlotsInv
  <2> DEFINE f == [i \in {} |-> 0]
  <2>1. f \in Injection({}, DOMAIN WishList)
    BY DEF Injection, IsInjective
  <2> HIDE DEF f
  <2> QED  BY <1>4, <2>1 DEF SlotsInv, SlotOf
<1>7. \A p \in Peers : DOMAIN toPeer[p] = {} /\ DOMAIN toClient[p] = {}
  BY <1>1
<1>8. OffersInv
  BY <1>4, <1>7 DEF OffersInv, Ordered, AskedInOrder, OffersFirst
<1>9. FlightInv
  BY <1>4, <1>7 DEF FlightInv, Flight, NoGet, Quiet
<1>10. TimersInv
  BY <1>4 DEF TimersInv
<1> QED  BY <1>2, <1>3, <1>5, <1>6, <1>8, <1>9, <1>10 DEF CleanInv

LEMMA NextClean ==
  ASSUME CleanInv, [Next]_vars
  PROVE  CleanInv'
<1>1. CASE UserGet \/ NoOutputFile \/ NoChunkFile
  BY <1>1, UserGetClean, NoChunkFileClean
<1>2. CASE WhohasTimer
  BY <1>2, WhohasTimerClean
<1>3. ASSUME NEW p \in Peers, AnswerWhohas(p) \/ ServeGet(p)
      PROVE  CleanInv'
  BY <1>3, PeersClean
<1>4. ASSUME NEW p \in Peers, Inbound(p)
      PROVE  CleanInv'
  <2>1. PICK m \in First(toClient[p]) : Ihave(p, m) \/ DataPacket(p, m) \/ TimerLost(p, m)
    BY <1>4 DEF Inbound
  <2>2. CASE Ihave(p, m)
    BY <2>2, IgnoredClean, IhaveAcceptedClean DEF Ihave
  <2>3. CASE DataPacket(p, m)
    BY <2>3, IgnoredClean, DataStoredClean, NoChunkFails, ChunkDoneClean DEF DataPacket
  <2>4. CASE TimerLost(p, m)
    BY <2>4, IgnoredClean
  <2> QED  BY <2>1, <2>2, <2>3, <2>4
<1>5. CASE UNCHANGED vars
  <2>1. Inv'
    BY <1>5, NextInv DEF CleanInv
  <2>2. /\ UNCHANGED <<gets, wish, downloading, c_states, timers, whohas_timerid, exited>>
        /\ toPeer' = toPeer /\ toClient' = toClient
    BY <1>5 DEF vars, peerVars
  <2>3. ConnsInv' /\ SlotsInv'
    BY <2>2, SameConns
  <2>4. OffersInv'
    BY <2>2, SameOffers DEF CleanInv, OffersInv
  <2>5. FlightInv'
    BY <2>2, SameFlight DEF CleanInv, FlightInv, Flight
  <2>6. IdleInv' /\ Clean' /\ TimersInv'
    BY <2>2 DEF CleanInv, Clean, IdleInv, TimersInv, IsWhohas, Receiving
  <2> QED  BY <2>1, <2>3, <2>4, <2>5, <2>6 DEF CleanInv
<1> QED  BY <1>1, <1>2, <1>3, <1>4, <1>5 DEF Next

\* The invariant of the client while no chunk is corrupted.
THEOREM CleanInvariance == Clean /\ Spec => []CleanInv
<1> QED  BY InitClean, NextClean, PTL DEF Spec

\* The three lists of the client agree: case 1 refuses a wished chunk exactly while a
\* connection receives it.
THEOREM ListsAgree == Clean /\ Spec => []RefusedOnlyWhileReceiving
<1>1. CleanInv => RefusedOnlyWhileReceiving
  BY DEF CleanInv, ConnsInv
<1> QED  BY <1>1, CleanInvariance, PTL

\* find_c_state returns the connection that a DATA packet is for, although it sees no
\* more of the packet than the sender's address: all offers of a peer name the chunk
\* that comes first in the chunk file, so that no peer is asked for two at once, and a
\* chunk file has no more chunks than c_states has slots.
THEOREM DataFinds == Clean /\ Spec => []DataFindsItsConnection
<1>1. ASSUME CleanInv PROVE DataFindsItsConnection
  <2> SUFFICES ASSUME NEW i \in DOMAIN c_states, Receiving(i)
               PROVE  i = Min(Found(c_states[i].server))
    BY DEF DataFindsItsConnection
  <2>1. PICK p : p = c_states[i].server
    OBVIOUS
  <2>2. p \in Peers
    BY <1>1, <2>1 DEF CleanInv, Inv, Types, Receiving, CState
  <2>3. Serves(p, i)
    BY <2>1 DEF Serves
  <2> QED  BY <1>1, <2>1, <2>2, <2>3, ServerIsFound
<1>2. CleanInv => DataFindsItsConnection
  BY <1>1
<1> QED  BY <1>2, CleanInvariance, PTL

\* While chunks are wished the client is never left waiting for what nobody will send:
\* an offer that case 1 refuses stops the WHOHAS timer only when packets are coming,
\* and the step that ends the last download starts it again.
THEOREM NotStuck == Clean /\ Spec => []NeverStuck
<1>1. ASSUME CleanInv PROVE NeverStuck
  <2> SUFFICES ASSUME gets > 0, wish # <<>>, ~exited,
                      NEW i \in DOMAIN c_states, Receiving(i)
               PROVE  \E p \in Peers : toPeer[p] # <<>> \/ toClient[p] # <<>>
    BY <1>1 DEF CleanInv, TimersInv, NeverStuck
  <2>1. PICK p : p = c_states[i].server
    OBVIOUS
  <2>2. p \in Peers
    BY <1>1, <2>1 DEF CleanInv, Inv, Types, Receiving, CState
  <2>3. Serves(p, i)
    BY <2>1 DEF Serves
  <2> DEFINE c == c_states[i].chunk
             n == c_states[i].ack_number
  <2>4. n \in 0..PACKETS - 1
    BY <1>1, <2>2, <2>3, ServerIsFound
  <2>5. InFlight(toPeer[p], toClient[p], c, n)
    BY <1>1, <2>2, <2>3 DEF CleanInv, FlightInv, Flight
  <2> HIDE DEF c, n
  <2>6. CASE OneGet(toPeer[p], c)
    BY <2>2, <2>6 DEF OneGet
  <2>7. CASE Packets(toClient[p], c, n)
    <3>1. PICK k \in 0..Len(toClient[p]) : k + PACKETS - n <= Len(toClient[p])
      BY <2>7 DEF Packets
    <3>2. toClient[p] # <<>>
      BY <2>4, <3>1, Constants
    <3> QED  BY <2>2, <3>2
  <2> QED  BY <2>5, <2>6, <2>7 DEF InFlight
<1>2. CleanInv => NeverStuck
  BY <1>1
<1> QED  BY <1>2, CleanInvariance, PTL

-----------------------------------------------------------------------------
(* The client implements Download. *)

Fetches == {<<c_states[i].chunk, c_states[i].server>> :
              i \in {i \in DOMAIN c_states : Receiving(i)}}

\* What the abstract download sees of a step that changes no list of the client.
LEMMA SamePromise ==
  ASSUME UNCHANGED <<gets, wish>>, Fetches' = Fetches
  PROVE  UNCHANGED Promise!vars
BY DEF Promise!vars, Fetches, Receiving

LEMMA SameFetches ==
  ASSUME UNCHANGED c_states
  PROVE  Fetches' = Fetches
BY DEF Fetches, Receiving

LEMMA AcceptedIsFetch ==
  ASSUME CleanInv, NEW p \in Peers, NEW m, IhaveAccepted(p, m)
  PROVE  \E c \in ToSet(WishList) : Promise!Fetch(c, p)
<1>0. PICK c : c = Offered(m)
  OBVIOUS
<1>00. PICK n : n = Len(c_states)
  OBVIOUS
<1>1. /\ Search(wish, c) # -1 /\ Search(downloading, c) = -1
      /\ c_states' = Append(c_states, NewConnection(p, c))
      /\ UNCHANGED <<gets, wish>>
  BY <1>0 DEF IhaveAccepted, Wished
<1>2. /\ wish \in Seq(Chunks) /\ downloading \in Seq(Chunks) /\ n \in Nat
      /\ c_states \in Seq(CState \cup {Destroyed}) /\ ToSet(wish) \subseteq ToSet(WishList)
  BY <1>00 DEF CleanInv, Inv, Types, ListsInv
<1>3. c \in ToSet(wish) /\ c \notin ToSet(downloading)
  BY <1>1, <1>2, SearchDecides
<1>4. /\ DOMAIN c_states = 1..n /\ DOMAIN c_states' = 1..n + 1
      /\ c_states'[n + 1] = NewConnection(p, c)
      /\ \A i \in 1..n : c_states'[i] = c_states[i]
  BY <1>00, <1>1, <1>2
<1>5. /\ c_states'[n + 1].server = p /\ c_states'[n + 1].chunk = c
      /\ c_states'[n + 1].ack_number = 0 /\ c_states'[n + 1] # Destroyed
  BY <1>4, Constants DEF NewConnection, Destroyed
<1>6. Receiving(n + 1)' /\ \A i \in 1..n : Receiving(i)' <=> Receiving(i)
  BY <1>4, <1>5, Constants DEF Receiving
<1>7. Fetches' = Fetches \cup {<<c, p>>}
  <2>1. {i \in DOMAIN c_states' : Receiving(i)'} =
          {i \in DOMAIN c_states : Receiving(i)} \cup {n + 1}
    BY <1>2, <1>4, <1>6
  <2>2. {<<c_states'[i].chunk, c_states'[i].server>> :
           i \in {i \in DOMAIN c_states' : Receiving(i)'}} = Fetches \cup {<<c, p>>}
    BY <1>4, <1>5, <2>1 DEF Fetches
  <2> QED  BY <2>2 DEF Fetches
<1>8. \A f \in Fetches : f[1] # c /\ f[2] # p
  <2> SUFFICES ASSUME NEW i \in DOMAIN c_states, Receiving(i)
               PROVE  c_states[i].chunk # c /\ c_states[i].server # p
    BY DEF Fetches
  <2>1. c_states[i].chunk \in ToSet(downloading)
    BY DEF CleanInv, Inv, ListsInv
  <2>2. c_states[i].server # p
    BY AcceptedIsAlone DEF Serves
  <2> QED  BY <1>3, <2>1, <2>2
<1>9. Promise!Fetch(c, p)
  BY <1>1, <1>3, <1>7, <1>8 DEF Promise!Fetch, Fetches
<1> QED  BY <1>2, <1>3, <1>9

LEMMA StoredIsSameFetches ==
  ASSUME CleanInv, NEW p \in Peers, NEW m, DataStored(p, m)
  PROVE  Fetches' = Fetches
<1>0. PICK s : s = Stored(p, m)
  OBVIOUS
<1>1. /\ Arrives(p, m) /\ Expected(p, m) /\ m.seq = Conn(p).ack_number + 1 /\ m.seq < PACKETS
      /\ c_states' = [c_states EXCEPT ![Min(Found(p))] = s]
  BY <1>0 DEF DataStored
<1>2. PICK i \in DOMAIN c_states :
           /\ Serves(p, i) /\ Min(Found(p)) = i
           /\ s.ack_number = m.seq /\ s.chunk = c_states[i].chunk /\ s.server = p
  BY <1>0, <1>1, NextPacket
<1>3. c_states \in Seq(CState \cup {Destroyed})
  BY DEF CleanInv, Inv, Types
<1>4. /\ DOMAIN c_states' = DOMAIN c_states /\ c_states'[i] = s
      /\ \A j \in DOMAIN c_states : j # i => c_states'[j] = c_states[j]
  BY <1>1, <1>2, <1>3
<1>5. s # Destroyed
  BY <1>2, Constants DEF Destroyed
<1>6. \A j \in DOMAIN c_states :
        /\ Receiving(j)' <=> Receiving(j)
        /\ Receiving(j) => /\ c_states'[j].chunk = c_states[j].chunk
                           /\ c_states'[j].server = c_states[j].server
  BY <1>1, <1>2, <1>4, <1>5 DEF Receiving, Serves
<1>7. {j \in DOMAIN c_states' : Receiving(j)'} = {j \in DOMAIN c_states : Receiving(j)}
  BY <1>4, <1>6
<1>8. {<<c_states'[j].chunk, c_states'[j].server>> :
         j \in {j \in DOMAIN c_states' : Receiving(j)'}} = Fetches
  BY <1>6, <1>7 DEF Fetches
<1> QED  BY <1>8 DEF Fetches

LEMMA DoneIsSucceed ==
  ASSUME CleanInv, NEW p \in Peers, NEW m, NextChunk(p, m) \/ LastChunk(p, m)
  PROVE  \E c \in ToSet(WishList) : Promise!Succeed(c, p)
<1>1. /\ Arrives(p, m) /\ Expected(p, m) /\ m.seq = Conn(p).ack_number + 1
      /\ c_states' = [c_states EXCEPT ![Min(Found(p))] = Destroyed]
      /\ UNCHANGED gets
  BY DEF NextChunk, LastChunk, ChunkVerified, LastData, Closed
<1>2. PICK i \in DOMAIN c_states :
           /\ Serves(p, i) /\ Min(Found(p)) = i /\ Conn(p) = c_states[i]
           /\ \A j \in DOMAIN c_states : Serves(p, j) => j = i
  BY <1>1, NextPacket
<1>3. PICK c : c = c_states[i].chunk
  OBVIOUS
<1>4. Inv /\ wish \in Seq(Chunks) /\ IsInjective(wish) /\ ToSet(wish) \subseteq ToSet(WishList)
      /\ c_states \in Seq(CState \cup {Destroyed})
  BY DEF CleanInv, Inv, Types, ListsInv
<1>5. PICK k \in DOMAIN wish : wish[k] = c /\ wish' = RemoveAt(wish, k) /\ c \in ToSet(wish)
  BY <1>2, <1>3, <1>4, VerifiedShrinks
<1>6. ToSet(wish') = ToSet(wish) \ {c}
  BY <1>4, <1>5, RemoveAtRemoves
<1>7. /\ DOMAIN c_states' = DOMAIN c_states /\ c_states'[i] = Destroyed
      /\ \A j \in DOMAIN c_states : j # i => c_states'[j] = c_states[j]
  BY <1>1, <1>2, <1>4
<1>8. ~ Receiving(i)' /\ \A j \in DOMAIN c_states : j # i => (Receiving(j)' <=> Receiving(j))
  BY <1>7 DEF Receiving
<1>9. \A j \in DOMAIN c_states : Receiving(j) /\ j # i => c_states[j].chunk # c
  BY <1>2, <1>3, <1>4 DEF Inv, ListsInv, OneDownloadPerChunk, Serves
<1>10. Receiving(i) /\ c_states[i].server = p
  BY <1>2 DEF Serves
<1>11. {<<c_states'[j].chunk, c_states'[j].server>> :
          j \in {j \in DOMAIN c_states' : Receiving(j)'}} = Fetches \ {<<c, p>>}
  <2>1. ASSUME NEW j \in DOMAIN c_states, Receiving(j)'
        PROVE  /\ Receiving(j) /\ j # i /\ c_states'[j] = c_states[j]
               /\ c_states[j].chunk # c
    BY <1>7, <1>8, <1>9, <2>1
  <2>2. ASSUME NEW j \in DOMAIN c_states, Receiving(j),
               <<c_states[j].chunk, c_states[j].server>> # <<c, p>>
        PROVE  Receiving(j)' /\ c_states'[j] = c_states[j]
    BY <1>3, <1>7, <1>8, <1>10, <2>2
  <2>3. {<<c_states'[j].chunk, c_states'[j].server>> :
           j \in {j \in DOMAIN c_states' : Receiving(j)'}} \subseteq Fetches \ {<<c, p>>}
    BY <1>7, <2>1 DEF Fetches
  <2>4. Fetches \ {<<c, p>>} \subseteq {<<c_states'[j].chunk, c_states'[j].server>> :
           j \in {j \in DOMAIN c_states' : Receiving(j)'}}
    BY <1>7, <2>2 DEF Fetches
  <2> QED  BY <2>3, <2>4
<1>12. Fetches' = Fetches \ {<<c, p>>}
  BY <1>11 DEF Fetches
<1>13. <<c, p>> \in Fetches
  BY <1>3, <1>10 DEF Fetches
<1>14. Promise!Succeed(c, p)
  BY <1>1, <1>6, <1>12, <1>13 DEF Promise!Succeed, Fetches
<1> QED  BY <1>4, <1>5, <1>14

LEMMA StepKeepsPromise ==
  ASSUME CleanInv, [Next]_vars
  PROVE  [Promise!Next]_(Promise!vars)
<1>1. CASE UserGet \/ NoOutputFile
  <2>1. /\ gets' = gets + 1 /\ gets \in Nat /\ wish' = Loaded /\ UNCHANGED c_states
    BY <1>1, Started DEF UserGet, NoOutputFile, ProcessGet
  <2>2. Fetches' = Fetches
    BY <2>1, SameFetches
  <2>3. CASE gets = 0
    <3>1. ~ (gets > 0) /\ gets' > 0 /\ wish' = WishList
      BY <2>1, <2>3 DEF Loaded
    <3>2. Promise!Start
      BY <2>2, <3>1 DEF Promise!Start, Fetches
    <3> QED  BY <3>2 DEF Promise!Next
  <2>4. CASE gets # 0
    <3>1. gets > 0 /\ gets' > 0 /\ wish' = wish
      BY <2>1, <2>4 DEF Loaded
    <3>2. UNCHANGED Promise!vars
      BY <2>2, <3>1 DEF Promise!vars, Fetches
    <3> QED  BY <3>2
  <2> QED  BY <2>3, <2>4
<1>2. CASE UNCHANGED <<gets, wish, c_states>>
  BY <1>2, SameFetches, SamePromise
<1>3. CASE WhohasTimer \/ NoChunkFile
  BY <1>2, <1>3 DEF WhohasTimer, NoChunkFile
<1>4. ASSUME NEW p \in Peers, AnswerWhohas(p) \/ ServeGet(p)
      PROVE  [Promise!Next]_(Promise!vars)
  BY <1>2, <1>4 DEF AnswerWhohas, ServeGet
<1>5. ASSUME NEW p \in Peers, Inbound(p)
      PROVE  [Promise!Next]_(Promise!vars)
  <2>1. PICK m \in First(toClient[p]) : Ihave(p, m) \/ DataPacket(p, m) \/ TimerLost(p, m)
    BY <1>5 DEF Inbound
  <2>2. CASE IhaveAccepted(p, m)
    BY <2>2, AcceptedIsFetch DEF Promise!Next
  <2>3. CASE DataStored(p, m)
    <3>1. Fetches' = Fetches
      BY <2>3, StoredIsSameFetches
    <3> QED  BY <2>3, <3>1, SamePromise DEF DataStored
  <2>4. CASE NextChunk(p, m) \/ LastChunk(p, m)
    BY <2>4, DoneIsSucceed DEF Promise!Next
  <2>5. CASE \/ IhaveNotAsked(p, m) \/ IhaveDownloading(p, m) \/ DataStray(p, m)
             \/ DataRepeated(p, m) \/ TimerLost(p, m)
    BY <1>2, <2>5 DEF IhaveNotAsked, IhaveDownloading, DataStray, DataRepeated, TimerLost,
                      Ignored
  <2> QED  BY <2>1, <2>2, <2>3, <2>4, <2>5, NoChunkFails DEF Ihave, DataPacket
<1>6. CASE UNCHANGED vars
  BY <1>2, <1>6 DEF vars
<1> QED  BY <1>1, <1>3, <1>4, <1>5, <1>6 DEF Next

\* The client implements the abstract download: an accepted offer is a fetch, the last
\* packet of a chunk ends it, and nothing else changes what is wanted and fetched.
THEOREM ImplementsDownload == Clean /\ Spec => KeepsPromise
<1>1. Init => Promise!Init
  <2> SUFFICES ASSUME Init PROVE Promise!Init
    OBVIOUS
  <2>1. gets = 0 /\ wish = <<>> /\ c_states = <<>>
    BY DEF Init, NoStates
  <2>2. ToSet(wish) = {} /\ {i \in DOMAIN c_states : Receiving(i)} = {} /\ ~ (gets > 0)
    BY <2>1 DEF ToSet
  <2> QED  BY <2>2 DEF Promise!Init
<1>2. CleanInv /\ [Next]_vars => [Promise!Next]_(Promise!vars)
  BY StepKeepsPromise
<1> QED  BY <1>1, <1>2, CleanInvariance, PTL DEF Spec, KeepsPromise, Promise!Spec
-----------------------------------------------------------------------------
(* One GET command, carried out promptly. *)

\* Every peer has every chunk of the GET command, which is the only one, its list is
\* received whole enough to be answered, its files open, and the WHOHAS timer is not
\* faster than the answers.
Orderly ==
  /\ Clean /\ PROMPT /\ ~FILES_FAIL /\ GETS <= 1 /\ Peers # {}
  /\ \A p \in Peers : ToSet(WishList) \subseteq Has[p]
  /\ BUFLEN >= HEADER + COUNT + HASH
  /\ HEADER + COUNT + HASH * Len(WishList) < 65536

\* WHOHAS for the wished chunks is on its way to peer p, or the offer it brings is on
\* its way back.
Offering(p) ==
  \/ \E x \in DOMAIN toPeer[p] : toPeer[p][x] = [type |-> "WHOHAS", chunks |-> wish]
  \/ \E x \in DOMAIN toClient[p] : toClient[p][x] = [type |-> "IHAVE", first |-> wish[1]]

\* The WHOHAS timer is the first one and is never deleted; it runs only while every peer
\* is being asked and no chunk is received.
WhohasRuns ==
  /\ whohas_timerid = NULL /\ timers[1].owner = WHOHAS /\ timers[1].alive
  /\ timers[1].armed => /\ wish # <<>> /\ \A p \in Peers : Offering(p)
                        /\ \A i \in DOMAIN c_states : ~Receiving(i)

\* Timer i is the one of connection i, armed only while it receives; receiver_timerid
\* names it then, so that no two connections receive at a time.
ReceiverRuns ==
  /\ Len(timers) = Len(c_states) + 1
  /\ \A i \in DOMAIN c_states :
       /\ timers[i + 1].owner = i
       /\ timers[i + 1].armed => Receiving(i)
       /\ Receiving(i) => receiver_timerid = i /\ timers[i + 1].alive

TimersRun == ~exited /\ (gets # 0 => WhohasRuns /\ ReceiverRuns)

OrderlyInv == Orderly /\ CleanInv /\ TimersRun

\* A timer function changes one timer, and only whether it runs or lives.
LEMMA TimerSteps ==
  ASSUME NEW n, NEW tms \in Seq(TimersOf(n)), NEW id \in Nat, id + 1 \in DOMAIN tms,
         NEW b, b \in {Arm(tms, id), Disarm(tms, id), Delete(tms, id)}
  PROVE  /\ b \in Seq(TimersOf(n)) /\ Len(b) = Len(tms) /\ DOMAIN b = DOMAIN tms
         /\ \A x \in DOMAIN tms : x # id + 1 => b[x] = tms[x]
         /\ b[id + 1].owner = tms[id + 1].owner
         /\ b = Arm(tms, id) => b[id + 1].armed /\ b[id + 1].alive = tms[id + 1].alive
         /\ b = Disarm(tms, id) => ~ b[id + 1].armed /\ b[id + 1].alive = tms[id + 1].alive
         /\ b = Delete(tms, id) /\ tms[id + 1].alive => ~ b[id + 1].armed
<1> DEFINE t == tms[id + 1]
           a == [t EXCEPT !.armed = TRUE]
           d == [t EXCEPT !.armed = FALSE]
           u == [t EXCEPT !.alive = FALSE, !.armed = FALSE]
<1>1. t \in TimersOf(n)
  OBVIOUS
<1>2. /\ a \in TimersOf(n) /\ a.owner = t.owner /\ a.alive = t.alive /\ a.armed = TRUE
      /\ d \in TimersOf(n) /\ d.owner = t.owner /\ d.alive = t.alive /\ d.armed = FALSE
      /\ u \in TimersOf(n) /\ u.owner = t.owner /\ u.armed = FALSE
  BY <1>1 DEF TimersOf
<1>3. /\ Arm(tms, id) = [tms EXCEPT ![id + 1] = a]
      /\ Disarm(tms, id) = [tms EXCEPT ![id + 1] = d]
      /\ Delete(tms, id) = IF t.alive THEN [tms EXCEPT ![id + 1] = u] ELSE tms
  BY DEF Arm, Disarm, Delete, Exists
<1> HIDE DEF a, d, u
<1>4. ASSUME NEW r \in TimersOf(n), b = [tms EXCEPT ![id + 1] = r]
      PROVE  /\ b \in Seq(TimersOf(n)) /\ Len(b) = Len(tms) /\ DOMAIN b = DOMAIN tms
             /\ \A x \in DOMAIN tms : x # id + 1 => b[x] = tms[x]
             /\ b[id + 1] = r
  BY <1>4
<1>5. CASE b = Arm(tms, id)
  <2>1. /\ b \in Seq(TimersOf(n)) /\ Len(b) = Len(tms) /\ DOMAIN b = DOMAIN tms
        /\ \A x \in DOMAIN tms : x # id + 1 => b[x] = tms[x]
        /\ b[id + 1] = a
    BY <1>2, <1>3, <1>4, <1>5
  <2>2. b = Delete(tms, id) /\ t.alive => b[id + 1] = u
    BY <1>2, <1>3, <1>4
  <2>3. b = Disarm(tms, id) => b[id + 1] = d
    BY <1>2, <1>3, <1>4
  <2> QED  BY <1>2, <2>1, <2>2, <2>3
<1>6. CASE b = Disarm(tms, id) /\ b # Arm(tms, id)
  <2>1. /\ b \in Seq(TimersOf(n)) /\ Len(b) = Len(tms) /\ DOMAIN b = DOMAIN tms
        /\ \A x \in DOMAIN tms : x # id + 1 => b[x] = tms[x]
        /\ b[id + 1] = d
    BY <1>2, <1>3, <1>4, <1>6
  <2>2. b = Delete(tms, id) /\ t.alive => b[id + 1] = u
    BY <1>2, <1>3, <1>4
  <2> QED  BY <1>2, <1>6, <2>1, <2>2
<1>7. CASE b = Delete(tms, id) /\ b # Arm(tms, id) /\ b # Disarm(tms, id)
  <2>1. CASE t.alive
    BY <1>2, <1>3, <1>4, <1>7, <2>1
  <2>2. CASE ~ t.alive
    BY <1>3, <1>7, <2>2
  <2> QED  BY <2>1, <2>2
<1> QED  BY <1>5, <1>6, <1>7

\* The next chunk of every peer is the first one of the wish list.
LEMMA FirstWish ==
  ASSUME OrderlyInv, NEW p \in Peers, NEW c \in ToSet(wish), FirstOf(ToSet(wish), p, c)
  PROVE  c = wish[1]
<1>1. wish \in Seq(Chunks) /\ Ordered(wish) /\ ToSet(wish) \subseteq Has[p]
  BY DEF OrderlyInv, Orderly, CleanInv, Inv, Types, ListsInv, OffersInv
<1>2. PICK k \in DOMAIN wish : wish[k] = c
  BY DEF ToSet
<1>3. 1 \in DOMAIN wish /\ (k = 1 \/ 1 < k)
  BY <1>1, <1>2
<1>4. wish[1] \in ToSet(wish) \cap Has[p]
  BY <1>1, <1>3 DEF ToSet
<1>5. SUFFICES ASSUME 1 < k, wish[1] # c PROVE FALSE
  BY <1>2, <1>3
<1>6. Before(wish[1], c) /\ Before(c, wish[1])
  BY <1>1, <1>2, <1>3, <1>4, <1>5 DEF Ordered, FirstOf
<1> QED  BY <1>6, BeforeIsOrder

LEMMA ReceivesFirst ==
  ASSUME OrderlyInv, NEW i \in DOMAIN c_states, Receiving(i)
  PROVE  /\ c_states[i].chunk = wish[1] /\ wish[1] \in ToSet(wish) \cap ToSet(downloading)
         /\ wish # <<>>
<1> DEFINE p == c_states[i].server
<1>1. p \in Peers
  BY DEF OrderlyInv, CleanInv, Inv, Types, Receiving, CState
<1>2. Serves(p, i)
  BY DEF Serves
<1>3. c_states[i].chunk \in ToSet(wish) /\ c_states[i].chunk \in ToSet(downloading)
  BY <1>1, <1>2, ServerIsFound DEF OrderlyInv
<1>4. FirstOf(ToSet(wish), p, c_states[i].chunk)
  BY DEF OrderlyInv, CleanInv, OffersInv
<1>5. c_states[i].chunk = wish[1]
  BY <1>1, <1>3, <1>4, FirstWish
<1>6. wish # <<>>
  BY <1>3 DEF ToSet
<1> QED  BY <1>3, <1>5, <1>6

\* What an offer of a wished chunk names.
LEMMA OffersFirstWish ==
  ASSUME OrderlyInv, NEW p \in Peers, NEW m, Arrives(p, m), Wished(m)
  PROVE  Offered(m) = wish[1] /\ wish[1] \in ToSet(wish) /\ wish # <<>>
<1>1. FirstOf(ToSet(wish), p, Offered(m))
  BY ArriveFacts DEF OrderlyInv, Wished
<1>2. wish \in Seq(Chunks)
  BY DEF OrderlyInv, CleanInv, Inv, Types
<1>3. Offered(m) \in ToSet(wish)
  BY <1>2, SearchDecides DEF Wished
<1>4. Offered(m) = wish[1]
  BY <1>1, <1>3, FirstWish
<1> QED  BY <1>3, <1>4 DEF ToSet

-----------------------------------------------------------------------------
(* The steps of one GET command. *)

\* What is kept by a step that leaves timers and connections alone.
LEMMA SameRuns ==
  ASSUME OrderlyInv, gets # 0,
         UNCHANGED <<wish, c_states, timers, whohas_timerid, receiver_timerid>>,
         timers[1].armed => \A p \in Peers : Offering(p)'
  PROVE  WhohasRuns' /\ ReceiverRuns'
<1>1. WhohasRuns'
  BY DEF OrderlyInv, TimersRun, WhohasRuns, Receiving
<1>2. ReceiverRuns'
  BY DEF OrderlyInv, TimersRun, ReceiverRuns, Receiving
<1> QED  BY <1>1, <1>2

\* Nothing that is asked for gets lost with another datagram.
LEMMA ArriveOffering ==
  ASSUME OrderlyInv, UNCHANGED <<wish, toPeer>>, NEW p \in Peers, NEW m, Arrives(p, m),
         m # [type |-> "IHAVE", first |-> wish[1]], NEW r \in Peers, Offering(r)
  PROVE  Offering(r)'
<1>1. /\ toClient[r] \in Seq(Datagram) /\ toClient'[p] = Tail(toClient[p])
      /\ m = Head(toClient[p]) /\ toClient[p] # <<>>
      /\ \A s \in Peers : s # p => toClient'[s] = toClient[s]
  BY ArriveFacts DEF OrderlyInv, Types
<1>2. CASE \E x \in DOMAIN toPeer[r] : toPeer[r][x] = [type |-> "WHOHAS", chunks |-> wish]
  BY <1>2 DEF Offering
<1>3. ASSUME NEW x \in DOMAIN toClient[r],
             toClient[r][x] = [type |-> "IHAVE", first |-> wish[1]]
      PROVE  Offering(r)'
  <2>1. CASE r # p
    BY <1>1, <1>3, <2>1 DEF Offering
  <2>2. CASE r = p
    <3>1. x # 1
      BY <1>1, <1>3, <2>2
    <3>2. x - 1 \in DOMAIN Tail(toClient[p]) /\ Tail(toClient[p])[x - 1] = toClient[p][x]
      BY <1>1, <2>2, <3>1
    <3> QED  BY <1>1, <1>3, <2>2, <3>2 DEF Offering
  <2> QED  BY <2>1, <2>2
<1> QED  BY <1>2, <1>3 DEF Offering

LEMMA UserGetRuns ==
  ASSUME OrderlyInv, UserGet
  PROVE  TimersRun'
<1> DEFINE new == [owner |-> WHOHAS, armed |-> FALSE, alive |-> TRUE]
           r == [type |-> "WHOHAS", chunks |-> WishList]
<1>1. gets = 0
  BY Constants DEF UserGet, ProcessGet, OrderlyInv, Orderly, CleanInv, Inv, Types
<1>2. timers = <<>> /\ c_states = <<>> /\ Types /\ ~exited
  BY <1>1 DEF OrderlyInv, TimersRun, CleanInv, Inv, IdleInv
<1>3. /\ wish' = WishList /\ whohas_timerid' = 0 /\ Create(timers, WHOHAS) = <<new>>
      /\ c_states' = <<>>
  BY <1>1, <1>2 DEF UserGet, ProcessGet, Loaded, NewId, Create
<1>5. /\ timers' = Arm(<<new>>, 0) /\ UNCHANGED exited
      /\ toPeer' = [p \in Peers |-> Append(toPeer[p], r)]
  BY <1>3 DEF UserGet, ProcessGet, Asked
<1>6. new \in TimersOf(0) /\ new.owner = WHOHAS /\ new.alive = TRUE
  BY DEF TimersOf
<1> HIDE DEF new
<1>7. Len(timers') = 1 /\ timers'[1].owner = WHOHAS /\ timers'[1].alive
  <2> DEFINE tms == <<new>>
  <2>1. /\ tms \in Seq(TimersOf(0)) /\ 0 \in Nat /\ 0 + 1 \in DOMAIN tms
        /\ Len(tms) = 1 /\ tms[0 + 1] = new
    BY <1>6
  <2>2. timers' = Arm(tms, 0) /\ timers' \in {Arm(tms, 0), Disarm(tms, 0), Delete(tms, 0)}
    BY <1>5
  <2> HIDE DEF tms
  <2>3. /\ Len(timers') = 1 /\ timers'[0 + 1].owner = new.owner
        /\ timers'[0 + 1].alive = new.alive
    BY <2>1, <2>2, TimerSteps
  <2> QED  BY <1>6, <2>3
<1>8. ASSUME NEW p \in Peers PROVE Offering(p)'
  <2>1. toPeer[p] \in Seq(Request) /\ toPeer'[p] = Append(toPeer[p], r)
    BY <1>2, <1>5 DEF Types
  <2> HIDE DEF r
  <2>2. Len(toPeer[p]) + 1 \in DOMAIN toPeer'[p] /\ toPeer'[p][Len(toPeer[p]) + 1] = r
    BY <2>1
  <2> QED  BY <1>3, <2>2 DEF Offering, r
<1>9. wish' # <<>>
  BY <1>3, DownloaderAssumption DEF DownloaderAssumption
<1>10. DOMAIN c_states' = {} /\ Len(c_states') = 0
  BY <1>3
<1>11. WhohasRuns'
  BY <1>3, <1>7, <1>8, <1>9, <1>10 DEF WhohasRuns, NULL
<1>12. ReceiverRuns'
  BY <1>7, <1>10 DEF ReceiverRuns
<1> QED  BY <1>2, <1>5, <1>11, <1>12 DEF TimersRun

\* The WHOHAS timer does not expire: while it runs, every peer is being asked.
LEMMA NeverExpires ==
  ASSUME OrderlyInv
  PROVE  ~ WhohasTimer
<1> SUFFICES ASSUME WhohasTimer PROVE FALSE
  OBVIOUS
<1>1. gets # 0 /\ Types
  BY Started DEF OrderlyInv, CleanInv, Inv
<1>2. WhohasRuns /\ ReceiverRuns
  BY <1>1 DEF OrderlyInv, TimersRun
<1>3. PICK t \in DOMAIN timers : timers[t].armed /\ timers[t].owner = WHOHAS
  BY DEF WhohasTimer
<1>4. t = 1
  <2> SUFFICES ASSUME t # 1 PROVE FALSE
    OBVIOUS
  <2>1. t - 1 \in DOMAIN c_states /\ (t - 1) + 1 = t /\ t - 1 # 0
    BY <1>1, <1>2, <1>3 DEF ReceiverRuns, Types
  <2>2. timers[t].owner = t - 1
    BY <1>2, <2>1 DEF ReceiverRuns
  <2> QED  BY <1>3, <2>1, <2>2 DEF WHOHAS
<1>5. PICK p \in Peers : Offering(p)
  BY <1>2, <1>3, <1>4 DEF WhohasRuns, OrderlyInv, Orderly
<1>6. toPeer[p] # <<>> \/ toClient[p] # <<>>
  BY <1>5 DEF Offering
<1> QED  BY <1>6 DEF WhohasTimer, MayExpire, OrderlyInv, Orderly

\* WHOHAS for the wished chunks brings an offer of the first of them.
LEMMA WishAnswered ==
  ASSUME OrderlyInv, NEW p \in Peers, wish # <<>>
  PROVE  /\ FoundIn(Listed(wish), p) # {}
         /\ Listed(wish)[Min(FoundIn(Listed(wish), p))] = wish[1]
<1> DEFINE F == FoundIn(Listed(wish), p)
<1>1. /\ wish \in Seq(Chunks) /\ IsInjective(wish) /\ ToSet(wish) \subseteq ToSet(WishList)
      /\ ToSet(WishList) \subseteq Has[p]
  BY DEF OrderlyInv, Orderly, CleanInv, Inv, Types, ListsInv
<1>2. Len(wish) \in Nat \ {0} /\ Len(wish) <= Len(WishList) /\ Len(WishList) \in Nat
  <2>1. Len(wish) \in Nat \ {0} /\ DOMAIN wish = 1..Len(wish)
    BY <1>1
  <2>2. WishList \in Seq(Chunks) /\ Len(WishList) \in Nat /\ DOMAIN WishList = 1..Len(WishList)
    BY Constants
  <2>3. \A k \in 1..Len(wish) : \E j \in 1..Len(WishList) : WishList[j] = wish[k]
    BY <1>1, <2>1, <2>2 DEF ToSet
  <2> DEFINE g == [k \in 1..Len(wish) |-> CHOOSE j \in 1..Len(WishList) : WishList[j] = wish[k]]
  <2>4. \A k \in 1..Len(wish) : g[k] \in 1..Len(WishList) /\ WishList[g[k]] = wish[k]
    BY <2>3
  <2> HIDE DEF g
  <2>5. g \in [1..Len(wish) -> 1..Len(WishList)]
    BY <2>4 DEF g
  <2>6. \A k, j \in 1..Len(wish) : g[k] = g[j] => k = j
    BY <1>1, <2>1, <2>4 DEF IsInjective
  <2>7. ExistsInjection(1..Len(wish), 1..Len(WishList))
    BY <2>5, <2>6 DEF ExistsInjection, Injection, IsInjective
  <2> QED  BY <2>1, <2>2, <2>7, Fun_NatInjLeq
<1>3. TotalLength(wish) = HEADER + COUNT + HASH * Len(wish)
  BY <1>2 DEF TotalLength, HEADER, COUNT, HASH, OrderlyInv, Orderly
<1>4. Entries(wish) \in Nat /\ Entries(wish) >= 1
  BY <1>2, <1>3 DEF Entries, HEADER, COUNT, HASH
<1>5. Fits(1) /\ BUFLEN \in Nat
  BY CodecAssumption DEF Fits, CodecAssumption, HEADER, COUNT, HASH, OrderlyInv, Orderly
<1>6. 1 \in DOMAIN Listed(wish) /\ Listed(wish)[1] = wish[1]
  BY <1>2, <1>4, <1>5 DEF Listed
<1>7. wish[1] \in Has[p]
  BY <1>1, <1>2 DEF ToSet
<1>8. 1 \in F
  BY <1>6, <1>7 DEF FoundIn
<1>9. F \subseteq Nat /\ 0 \notin F
  <2>1. DOMAIN Listed(wish) = 1..Entries(wish)
    BY DEF Listed
  <2> QED  BY <1>4, <2>1 DEF FoundIn
<1> HIDE DEF F
<1>10. Min(F) \in F /\ Min(F) <= 1
  BY <1>8, <1>9, NatMin
<1>11. \A k \in F : k <= 1 => k = 1
  BY <1>9
<1> QED  BY <1>6, <1>8, <1>10, <1>11 DEF F

LEMMA PeersRuns ==
  ASSUME OrderlyInv, NEW p \in Peers, AnswerWhohas(p) \/ ServeGet(p)
  PROVE  TimersRun'
<1>1. /\ UNCHANGED <<gets, wish, downloading, c_states, timers, whohas_timerid,
                     receiver_timerid, file, exited>>
      /\ toPeer[p] # <<>> /\ toPeer' = [toPeer EXCEPT ![p] = Tail(@)]
  BY DEF AnswerWhohas, ServeGet, Asks
<1>2. gets # 0 /\ Types
  BY <1>1, Started DEF OrderlyInv, CleanInv, Inv
<1>3. /\ toPeer[p] \in Seq(Request) /\ toClient[p] \in Seq(Datagram)
      /\ toPeer'[p] = Tail(toPeer[p]) /\ \A r \in Peers : r # p => toPeer'[r] = toPeer[r]
  BY <1>1, <1>2 DEF Types
<1>4. /\ \A r \in Peers : r # p => toClient'[r] = toClient[r]
      /\ \A x \in DOMAIN toClient[p] : x \in DOMAIN toClient'[p] /\ toClient'[p][x] = toClient[p][x]
  <2>1. CASE AnswerWhohas(p)
    <3> DEFINE list == Listed(Head(toPeer[p]).chunks)
               m == [type |-> "IHAVE", first |-> list[Min(FoundIn(list, p))]]
    <3>1. Head(toPeer[p]).chunks \in Seq(Chunks)
      <4>1. Head(toPeer[p]).type = "WHOHAS" /\ Head(toPeer[p]) \in Request
        BY <1>1, <1>3, <2>1 DEF AnswerWhohas, Asks
      <4> QED  BY <4>1 DEF Request
    <3>2. FoundIn(list, p) # {} => m \in Datagram
      BY <3>1, OfferIsFound DEF Datagram
    <3>3. \/ toClient' = toClient
          \/ m \in Datagram /\ toClient' = [toClient EXCEPT ![p] = Append(@, m)]
      BY <2>1, <3>2 DEF AnswerWhohas
    <3> HIDE DEF m
    <3>4. CASE m \in Datagram /\ toClient' = [toClient EXCEPT ![p] = Append(@, m)]
      <4>1. /\ toClient'[p] = Append(toClient[p], m)
            /\ \A r \in Peers : r # p => toClient'[r] = toClient[r]
        BY <1>2, <3>4 DEF Types
      <4> QED  BY <1>3, <3>4, <4>1
    <3> QED  BY <3>3, <3>4
  <2>2. CASE ServeGet(p)
    <3>1. PICK bytes \in Chunks, again \in 0..RESENDS :
            toClient' = [toClient EXCEPT ![p] = @ \o Upload(bytes, again)]
      <4>1. Head(toPeer[p]).type = "GET" /\ Head(toPeer[p]) \in Request
        BY <1>1, <1>3, <2>2 DEF ServeGet, Asks
      <4>2. Head(toPeer[p]).chunk \in Chunks
        BY <4>1 DEF Request
      <4> QED  BY <2>2, <4>2 DEF ServeGet
    <3> DEFINE u == Upload(bytes, again)
    <3>2. u \in Seq(Datagram)
      BY UploadIsPackets
    <3> HIDE DEF u
    <3>3. toClient'[p] = toClient[p] \o u /\ \A r \in Peers : r # p => toClient'[r] = toClient[r]
      BY <1>2, <3>1 DEF Types, u
    <3> QED  BY <1>3, <3>2, <3>3
  <2> QED  BY <2>1, <2>2
<1>5. ASSUME timers[1].armed, NEW r \in Peers PROVE Offering(r)'
  <2>1. wish # <<>> /\ Offering(r)
    BY <1>2, <1>5 DEF OrderlyInv, TimersRun, WhohasRuns
  <2>2. ASSUME NEW x \in DOMAIN toClient[r],
               toClient[r][x] = [type |-> "IHAVE", first |-> wish[1]]
        PROVE  Offering(r)'
    BY <1>1, <1>4, <2>2 DEF Offering
  <2>3. ASSUME NEW x \in DOMAIN toPeer[r],
               toPeer[r][x] = [type |-> "WHOHAS", chunks |-> wish]
        PROVE  Offering(r)'
    <3>1. CASE r # p
      BY <1>1, <1>3, <2>3, <3>1 DEF Offering
    <3>2. CASE r = p /\ x # 1
      <4>1. x - 1 \in DOMAIN Tail(toPeer[p]) /\ Tail(toPeer[p])[x - 1] = toPeer[p][x]
        <5>1. toPeer[p] \in Seq(Request) /\ toPeer[p] # <<>> /\ x \in DOMAIN toPeer[p] /\ x # 1
          BY <1>1, <1>3, <3>2
        <5> QED  BY <5>1
      <4> QED  BY <1>1, <1>3, <2>3, <3>2, <4>1 DEF Offering
    <3>3. CASE r = p /\ x = 1
      <4>1. Head(toPeer[p]) = [type |-> "WHOHAS", chunks |-> wish]
        BY <1>1, <1>3, <2>3, <3>3
      <4>2. AnswerWhohas(p)
        BY <4>1 DEF ServeGet, Asks
      <4> DEFINE F == FoundIn(Listed(wish), p)
                 m == [type |-> "IHAVE", first |-> Listed(wish)[Min(F)]]
      <4>3. Head(toPeer[p]).chunks = wish
        BY <4>1
      <4>4. F # {} /\ m = [type |-> "IHAVE", first |-> wish[1]]
        BY <2>1, WishAnswered
      <4>5. toClient' = [toClient EXCEPT ![p] = Append(@, m)]
        BY <4>2, <4>3, <4>4 DEF AnswerWhohas
      <4> HIDE DEF m
      <4>6. /\ Len(toClient[p]) + 1 \in DOMAIN toClient'[p]
            /\ toClient'[p][Len(toClient[p]) + 1] = m
        BY <1>2, <1>3, <4>5 DEF Types
      <4> QED  BY <1>1, <3>3, <4>4, <4>6 DEF Offering
    <3> QED  BY <3>1, <3>2, <3>3
  <2> QED  BY <2>1, <2>2, <2>3 DEF Offering
<1>6. WhohasRuns' /\ ReceiverRuns'
  BY <1>1, <1>2, <1>5, SameRuns
<1> QED  BY <1>1, <1>6 DEF TimersRun, OrderlyInv

\* The timers that cases 1 and 3 set exist.
LEMMA TimersExist ==
  ASSUME OrderlyInv, NEW p \in Peers, NEW m, Arrives(p, m)
  PROVE  /\ Exists(timers, whohas_timerid) /\ WhohasRuns /\ ReceiverRuns
         /\ Expected(p, m) =>
              \E i \in DOMAIN c_states :
                /\ Receiving(i) /\ Min(Found(p)) = i /\ Conn(p) = c_states[i]
                /\ receiver_timerid = i /\ Exists(timers, receiver_timerid)
                /\ \A j \in DOMAIN c_states : Receiving(j) => j = i
<1>1. /\ Types /\ gets # 0 /\ WhohasRuns /\ ReceiverRuns
  BY ArriveFacts DEF OrderlyInv, TimersRun
<1>2. Len(timers) = Len(c_states) + 1 /\ Len(c_states) \in Nat
      /\ DOMAIN timers = 1..Len(timers) /\ DOMAIN c_states = 1..Len(c_states)
  BY <1>1 DEF Types, ReceiverRuns
<1>3. Exists(timers, whohas_timerid)
  BY <1>1, <1>2 DEF Exists, WhohasRuns, NULL
<1>4. ASSUME Expected(p, m)
      PROVE  \E i \in DOMAIN c_states :
                /\ Receiving(i) /\ Min(Found(p)) = i /\ Conn(p) = c_states[i]
                /\ receiver_timerid = i /\ Exists(timers, receiver_timerid)
                /\ \A j \in DOMAIN c_states : Receiving(j) => j = i
  <2>1. PICK i \in DOMAIN c_states : Serves(p, i) /\ Min(Found(p)) = i /\ Conn(p) = c_states[i]
    BY <1>4, ExpectedServes DEF OrderlyInv, Expected
  <2>2. Receiving(i)
    BY <2>1 DEF Serves
  <2>3. receiver_timerid = i /\ timers[i + 1].alive
    BY <1>1, <2>2 DEF ReceiverRuns
  <2>4. Exists(timers, receiver_timerid)
    BY <1>2, <2>3 DEF Exists
  <2>5. \A j \in DOMAIN c_states : Receiving(j) => j = i
    BY <1>1, <2>3 DEF ReceiverRuns
  <2> QED  BY <2>1, <2>2, <2>3, <2>4, <2>5
<1> QED  BY <1>1, <1>3, <1>4

LEMMA NoTimerLost ==
  ASSUME OrderlyInv, NEW p \in Peers, NEW m
  PROVE  ~ TimerLost(p, m)
BY TimersExist DEF TimerLost

LEMMA IgnoredRuns ==
  ASSUME OrderlyInv, NEW p \in Peers, NEW m, IhaveNotAsked(p, m) \/ DataStray(p, m)
  PROVE  TimersRun'
<1>1. /\ Arrives(p, m)
      /\ UNCHANGED <<gets, wish, downloading, c_states, timers, whohas_timerid,
                     receiver_timerid, file, exited, toPeer>>
  BY DEF IhaveNotAsked, DataStray, Ignored
<1>2. gets # 0 /\ Types
  BY <1>1, ArriveFacts DEF OrderlyInv
<1>3. wish # <<>> => m # [type |-> "IHAVE", first |-> wish[1]]
  <2> SUFFICES ASSUME wish # <<>>, m = [type |-> "IHAVE", first |-> wish[1]] PROVE FALSE
    OBVIOUS
  <2>1. m.type = "IHAVE" /\ m.first = wish[1]
    OBVIOUS
  <2>2. wish \in Seq(Chunks) /\ wish[1] \in ToSet(wish)
    BY <1>2 DEF Types, ToSet
  <2>3. Wished(m)
    BY <2>1, <2>2, SearchDecides DEF Wished, Offered
  <2> QED  BY <2>1, <2>3 DEF IhaveNotAsked, DataStray
<1>4. ASSUME timers[1].armed, NEW r \in Peers PROVE Offering(r)'
  <2>1. wish # <<>> /\ Offering(r)
    BY <1>2, <1>4 DEF OrderlyInv, TimersRun, WhohasRuns
  <2> QED  BY <1>1, <1>3, <2>1, ArriveOffering
<1>5. WhohasRuns' /\ ReceiverRuns'
  BY <1>1, <1>2, <1>4, SameRuns
<1> QED  BY <1>1, <1>5 DEF TimersRun, OrderlyInv

LEMMA IhaveDownloadingRuns ==
  ASSUME OrderlyInv, NEW p \in Peers, NEW m, IhaveDownloading(p, m)
  PROVE  TimersRun'
<1>1. /\ Arrives(p, m) /\ timers' = Disarm(timers, whohas_timerid)
      /\ UNCHANGED <<gets, wish, downloading, c_states, whohas_timerid,
                     receiver_timerid, exited>>
  BY DEF IhaveDownloading, Stopped
<1>2. Types /\ gets # 0 /\ WhohasRuns /\ ReceiverRuns /\ Exists(timers, whohas_timerid)
  BY <1>1, ArriveFacts, TimersExist DEF OrderlyInv
<1>3. /\ timers \in Seq(TimersOf(Len(c_states))) /\ whohas_timerid = 0
      /\ 0 \in Nat /\ 0 + 1 \in DOMAIN timers
      /\ timers' \in {Arm(timers, 0), Disarm(timers, 0), Delete(timers, 0)}
  BY <1>1, <1>2 DEF Types, WhohasRuns, Exists, NULL
<1>4. /\ Len(timers') = Len(timers)
      /\ \A x \in DOMAIN timers : x # 1 => timers'[x] = timers[x]
      /\ timers'[1].owner = timers[1].owner
      /\ ~ timers'[1].armed /\ timers'[1].alive = timers[1].alive
  BY <1>1, <1>3, TimerSteps
<1>5. WhohasRuns'
  BY <1>1, <1>2, <1>4 DEF WhohasRuns
<1>6. ReceiverRuns'
  <2>1. \A i \in DOMAIN c_states : i + 1 \in DOMAIN timers /\ i + 1 # 1
    BY <1>2 DEF ReceiverRuns, Types
  <2> QED  BY <1>1, <1>2, <1>4, <2>1 DEF ReceiverRuns, Receiving
<1> QED  BY <1>1, <1>5, <1>6 DEF TimersRun, OrderlyInv

LEMMA IhaveAcceptedRuns ==
  ASSUME OrderlyInv, NEW p \in Peers, NEW m, IhaveAccepted(p, m)
  PROVE  TimersRun'
<1> DEFINE n == Len(c_states)
           tms == Disarm(timers, whohas_timerid)
           new == [owner |-> n + 1, armed |-> FALSE, alive |-> TRUE]
           conn == NewConnection(p, Offered(m))
<1>1. /\ Arrives(p, m) /\ Wished(m) /\ Search(downloading, Offered(m)) = -1
      /\ c_states' = Append(c_states, conn)
      /\ receiver_timerid' = Len(timers)
      /\ timers' = Create(tms, Len(c_states'))
      /\ UNCHANGED <<gets, wish, whohas_timerid, exited>>
  BY DEF IhaveAccepted, Stopped, NewId
<1>2. Types /\ gets # 0 /\ WhohasRuns /\ ReceiverRuns /\ Exists(timers, whohas_timerid)
  BY <1>1, ArriveFacts, TimersExist DEF OrderlyInv
<1>3. \A i \in DOMAIN c_states : ~ Receiving(i)
  <2>1. Offered(m) = wish[1]
    BY <1>1, OffersFirstWish
  <2>2. wish[1] \notin ToSet(downloading)
    BY <1>1, <1>2, <2>1, SearchDecides DEF Types
  <2> QED  BY <2>2, ReceivesFirst
<1>4. /\ n \in Nat /\ c_states \in Seq(CState \cup {Destroyed}) /\ DOMAIN c_states = 1..n
      /\ conn \in CState
  <2>1. p \in Peers /\ Offered(m) \in Chunks
    BY <1>1, ArrivesTypes DEF OrderlyInv, CleanInv, Inv, Wished
  <2>2. 0 \in 0..PACKETS
    BY Constants
  <2> QED  BY <1>2, <2>1, <2>2 DEF Types, NewConnection, CState
<1> HIDE DEF conn
<1>5. /\ Len(c_states') = n + 1 /\ DOMAIN c_states' = 1..n + 1
      /\ \A i \in 1..n : c_states'[i] = c_states[i]
  BY <1>1, <1>4
<1>6. /\ timers \in Seq(TimersOf(n)) /\ whohas_timerid = 0
      /\ 0 \in Nat /\ 0 + 1 \in DOMAIN timers
      /\ tms = Disarm(timers, 0) /\ tms \in {Arm(timers, 0), Disarm(timers, 0), Delete(timers, 0)}
      /\ Len(timers) = n + 1
  BY <1>2 DEF Types, WhohasRuns, ReceiverRuns, Exists, NULL
<1>7. /\ tms \in Seq(TimersOf(n)) /\ Len(tms) = n + 1
      /\ \A x \in DOMAIN timers : x # 1 => tms[x] = timers[x]
      /\ tms[1].owner = timers[1].owner
      /\ ~ tms[1].armed /\ tms[1].alive = timers[1].alive
  BY <1>6, TimerSteps
<1>8. new \in TimersOf(n + 1) /\ new.owner = n + 1 /\ new.armed = FALSE /\ new.alive = TRUE
  BY <1>4 DEF TimersOf
<1>9. timers' = Append(tms, new)
  BY <1>1, <1>5 DEF Create
<1>10. /\ \A x \in DOMAIN timers : x \in 1..n + 1
       /\ \A x \in 1..n + 1 : x \in DOMAIN timers
  BY <1>4, <1>6
<1> HIDE DEF n, tms, new
<1>11. /\ Len(timers') = n + 2 /\ timers'[n + 2] = new
       /\ \A x \in 1..n + 1 : timers'[x] = tms[x]
  BY <1>4, <1>7, <1>9
<1>12. WhohasRuns'
  <2>1. 1 \in 1..n + 1
    BY <1>4
  <2> QED  BY <1>1, <1>2, <1>7, <1>11, <2>1 DEF WhohasRuns
<1>13. ReceiverRuns'
  <2>1. Len(timers') = Len(c_states') + 1
    BY <1>4, <1>5, <1>11
  <2>2. ASSUME NEW i \in 1..n
        PROVE  timers'[i + 1].owner = i /\ ~ timers'[i + 1].armed /\ ~ Receiving(i)'
    <3>1. i + 1 \in 1..n + 1 /\ i + 1 # 1 /\ i \in DOMAIN c_states
      BY <1>4
    <3>2. timers'[i + 1] = timers[i + 1]
      BY <1>7, <1>10, <1>11, <3>1
    <3>3. ~ Receiving(i) /\ ~ Receiving(i)'
      BY <1>3, <1>5, <3>1 DEF Receiving
    <3> QED  BY <1>2, <3>1, <3>2, <3>3 DEF ReceiverRuns
  <2>3. timers'[(n + 1) + 1] = new /\ receiver_timerid' = n + 1
    BY <1>1, <1>4, <1>6, <1>11
  <2>4. ASSUME NEW i \in 1..n + 1
        PROVE  /\ timers'[i + 1].owner = i
               /\ timers'[i + 1].armed => Receiving(i)'
               /\ Receiving(i)' => receiver_timerid' = i /\ timers'[i + 1].alive
    <3>1. CASE i = n + 1
      BY <1>8, <2>3, <3>1
    <3>2. CASE i # n + 1
      BY <1>4, <2>2, <3>2
    <3> QED  BY <3>1, <3>2
  <2> QED  BY <1>5, <2>1, <2>4 DEF ReceiverRuns
<1> QED  BY <1>1, <1>12, <1>13 DEF TimersRun, OrderlyInv

\* A connection that has stored a packet still receives.
LEMMA StoredReceives ==
  ASSUME OrderlyInv, NEW p \in Peers, NEW m, DataStored(p, m)
  PROVE  /\ DOMAIN c_states' = DOMAIN c_states /\ Len(c_states') = Len(c_states)
         /\ \A j \in DOMAIN c_states : Receiving(j)' <=> Receiving(j)
<1>1. Arrives(p, m) /\ Expected(p, m)
  BY DEF DataStored
<1>2. PICK i \in DOMAIN c_states : Receiving(i) /\ Min(Found(p)) = i /\ Conn(p) = c_states[i]
  BY <1>1, TimersExist
<1> DEFINE s == Stored(p, m)
<1>3. /\ c_states' = [c_states EXCEPT ![i] = s] /\ m.seq < PACKETS
      /\ m.seq = Conn(p).ack_number + 1
  BY <1>2 DEF DataStored
<1>4. s \in CState /\ s.ack_number = m.seq
  BY <1>1, <1>3, NextPacket DEF OrderlyInv
<1>5. s # Destroyed
  <2>1. s.server # Destroyed.server
    BY <1>4, Constants DEF CState, Destroyed
  <2> QED  BY <2>1
<1> HIDE DEF s
<1>6. /\ DOMAIN c_states' = DOMAIN c_states /\ Len(c_states') = Len(c_states)
      /\ c_states'[i] = s /\ \A j \in DOMAIN c_states : j # i => c_states'[j] = c_states[j]
  BY <1>1, <1>3, ArriveFacts DEF OrderlyInv, Types
<1>7. Receiving(i)'
  BY <1>3, <1>4, <1>5, <1>6 DEF Receiving
<1>8. \A j \in DOMAIN c_states : j # i => (Receiving(j)' <=> Receiving(j))
  BY <1>6 DEF Receiving
<1> QED  BY <1>2, <1>6, <1>7, <1>8

\* A packet that is not the last one of its chunk starts the timer of its connection.
LEMMA DataRuns ==
  ASSUME OrderlyInv, NEW p \in Peers, NEW m, DataRepeated(p, m) \/ DataStored(p, m)
  PROVE  TimersRun'
<1>1. /\ Arrives(p, m) /\ Expected(p, m) /\ timers' = Arm(timers, receiver_timerid)
      /\ UNCHANGED <<gets, wish, downloading, whohas_timerid, receiver_timerid,
                     exited, toPeer>>
  BY DEF DataRepeated, DataStored
<1>2. Types /\ gets # 0 /\ WhohasRuns /\ ReceiverRuns
  BY <1>1, ArriveFacts, TimersExist DEF OrderlyInv
<1>3. PICK i \in DOMAIN c_states :
        /\ Receiving(i) /\ Min(Found(p)) = i /\ Conn(p) = c_states[i]
        /\ receiver_timerid = i /\ Exists(timers, receiver_timerid)
        /\ \A j \in DOMAIN c_states : Receiving(j) => j = i
  BY <1>1, TimersExist
<1>4. /\ DOMAIN c_states' = DOMAIN c_states /\ Len(c_states') = Len(c_states)
      /\ \A j \in DOMAIN c_states : Receiving(j)' <=> Receiving(j)
  <2>1. CASE DataRepeated(p, m)
    BY <2>1 DEF DataRepeated, Receiving
  <2>2. CASE DataStored(p, m)
    BY <2>2, StoredReceives
  <2> QED  BY <1>1, <2>1, <2>2
<1>5. /\ timers \in Seq(TimersOf(Len(c_states))) /\ i \in Nat /\ i # 0
      /\ i + 1 \in DOMAIN timers /\ timers' = Arm(timers, i)
      /\ timers' \in {Arm(timers, i), Disarm(timers, i), Delete(timers, i)}
  BY <1>1, <1>2, <1>3 DEF Types, Exists
<1>6. /\ Len(timers') = Len(timers)
      /\ \A x \in DOMAIN timers : x # i + 1 => timers'[x] = timers[x]
      /\ timers'[i + 1].owner = timers[i + 1].owner
      /\ timers'[i + 1].alive = timers[i + 1].alive
  BY <1>5, TimerSteps
<1>7. 1 \in DOMAIN timers /\ 1 # i + 1
  BY <1>2, <1>5 DEF ReceiverRuns, Types
<1>8. ~ timers[1].armed /\ timers'[1] = timers[1]
  BY <1>2, <1>3, <1>6, <1>7 DEF WhohasRuns
<1>9. WhohasRuns'
  BY <1>1, <1>2, <1>8 DEF WhohasRuns
<1>10. ReceiverRuns'
  <2>1. ASSUME NEW j \in DOMAIN c_states
        PROVE  /\ timers'[j + 1].owner = j
               /\ timers'[j + 1].armed => Receiving(j)'
               /\ Receiving(j)' => receiver_timerid' = j /\ timers'[j + 1].alive
    <3>1. CASE j = i
      BY <1>1, <1>2, <1>3, <1>4, <1>6, <3>1 DEF ReceiverRuns
    <3>2. CASE j # i
      <4>1. j + 1 \in DOMAIN timers /\ j + 1 # i + 1
        BY <1>2, <1>5, <3>2 DEF ReceiverRuns, Types
      <4> QED  BY <1>1, <1>2, <1>4, <1>6, <4>1 DEF ReceiverRuns
    <3> QED  BY <3>1, <3>2
  <2> QED  BY <1>2, <1>4, <1>6, <2>1 DEF ReceiverRuns
<1> QED  BY <1>1, <1>9, <1>10 DEF TimersRun, OrderlyInv

\* The chunk that is done was the only one received, and the first one wished.
LEMMA ChunkDone ==
  ASSUME OrderlyInv, NEW p \in Peers, NEW m, NextChunk(p, m) \/ LastChunk(p, m)
  PROVE  \E i \in DOMAIN c_states :
           /\ Receiving(i) /\ receiver_timerid = i /\ Exists(timers, i)
           /\ Conn(p).chunk = wish[1] /\ Types /\ gets # 0 /\ WhohasRuns /\ ReceiverRuns
           /\ Len(wish) \in Nat \ {0}
           /\ wish' \in Seq(Chunks) /\ Len(wish') = Len(wish) - 1
           /\ \A k \in 1..Len(wish) - 1 : wish'[k] = wish[k + 1]
           /\ DOMAIN c_states' = DOMAIN c_states /\ Len(c_states') = Len(c_states)
           /\ \A j \in DOMAIN c_states : ~ Receiving(j)'
<1> DEFINE c == Conn(p).chunk
           k == Search(wish, c) + 1
<1>1. /\ Arrives(p, m) /\ Expected(p, m)
      /\ c_states' = [c_states EXCEPT ![Min(Found(p))] = Destroyed]
  BY DEF NextChunk, LastChunk, ChunkVerified, LastData, Closed
<1>2. Types /\ gets # 0 /\ WhohasRuns /\ ReceiverRuns
  BY <1>1, ArriveFacts, TimersExist DEF OrderlyInv
<1>3. PICK i \in DOMAIN c_states :
        /\ Receiving(i) /\ Min(Found(p)) = i /\ Conn(p) = c_states[i]
        /\ receiver_timerid = i /\ Exists(timers, receiver_timerid)
        /\ \A j \in DOMAIN c_states : Receiving(j) => j = i
  BY <1>1, TimersExist
<1>4. c = wish[1] /\ wish # <<>>
  BY <1>3, ReceivesFirst
<1>5. k \in DOMAIN wish /\ wish[k] = c /\ wish' = RemoveAt(wish, k)
  BY VerifiedShrinks DEF OrderlyInv, CleanInv
<1>6. wish \in Seq(Chunks) /\ IsInjective(wish) /\ 1 \in DOMAIN wish
      /\ Len(wish) \in Nat \ {0}
  BY <1>2, <1>4 DEF OrderlyInv, CleanInv, Inv, Types, ListsInv
<1>7. k = 1
  BY <1>4, <1>5, <1>6 DEF IsInjective
<1> HIDE DEF c, k
<1>8. /\ wish' \in Seq(Chunks) /\ Len(wish') = Len(wish) - 1
      /\ \A j \in 1..Len(wish) - 1 : wish'[j] = wish[j + 1]
  <2>1. wish' = RemoveAt(wish, 1)
    BY <1>5, <1>7
  <2>2. /\ RemoveAt(wish, 1) \in Seq(Chunks) /\ Len(RemoveAt(wish, 1)) = Len(wish) - 1
        /\ \A j \in 1..Len(wish) - 1 :
             RemoveAt(wish, 1)[j] = IF j < 1 THEN wish[j] ELSE wish[j + 1]
    BY <1>6, RemoveAtShape
  <2> QED  BY <2>1, <2>2
<1>9. /\ DOMAIN c_states' = DOMAIN c_states /\ Len(c_states') = Len(c_states)
      /\ c_states'[i] = Destroyed /\ \A j \in DOMAIN c_states : j # i => c_states'[j] = c_states[j]
  BY <1>1, <1>2, <1>3 DEF Types
<1>10. \A j \in DOMAIN c_states : ~ Receiving(j)'
  BY <1>3, <1>9 DEF Receiving
<1> QED  BY <1>2, <1>3, <1>4, <1>6, <1>8, <1>9, <1>10 DEF c

LEMMA ChunkDoneRuns ==
  ASSUME OrderlyInv, NEW p \in Peers, NEW m, NextChunk(p, m) \/ LastChunk(p, m)
  PROVE  TimersRun'
<1>1. PICK i \in DOMAIN c_states :
           /\ Receiving(i) /\ receiver_timerid = i /\ Exists(timers, i)
           /\ Types /\ gets # 0 /\ WhohasRuns /\ ReceiverRuns
           /\ Len(wish) \in Nat \ {0} /\ Len(wish') = Len(wish) - 1
           /\ DOMAIN c_states' = DOMAIN c_states /\ Len(c_states') = Len(c_states)
           /\ \A j \in DOMAIN c_states : ~ Receiving(j)'
  BY ChunkDone
<1> DEFINE tms == Delete(timers, i)
           n == Len(c_states)
<1>2. /\ Arrives(p, m) /\ Finished(timers) = tms /\ gets' = gets
      /\ whohas_timerid' = whohas_timerid
  BY <1>1 DEF NextChunk, LastChunk, ChunkVerified, LastData, Finished
<1>3. /\ timers \in Seq(TimersOf(n)) /\ i \in Nat /\ i # 0 /\ i + 1 \in DOMAIN timers
      /\ tms \in {Arm(timers, i), Disarm(timers, i), Delete(timers, i)}
      /\ timers[i + 1].alive /\ whohas_timerid = 0 /\ timers[1].alive
      /\ timers[1].owner = WHOHAS /\ ~ timers[1].armed
      /\ n \in Nat /\ DOMAIN c_states = 1..n /\ Len(timers) = n + 1
      /\ DOMAIN timers = 1..n + 1 /\ ~ exited
  BY <1>1 DEF Types, Exists, WhohasRuns, ReceiverRuns, NULL, OrderlyInv, TimersRun
<1>4. /\ tms \in Seq(TimersOf(n)) /\ Len(tms) = n + 1 /\ DOMAIN tms = 1..n + 1
      /\ \A x \in 1..n + 1 : x # i + 1 => tms[x] = timers[x]
      /\ tms[i + 1].owner = timers[i + 1].owner /\ ~ tms[i + 1].armed
  BY <1>3, TimerSteps
<1> HIDE DEF tms, n
<1>5. /\ \A j \in 1..n : tms[j + 1].owner = j /\ ~ tms[j + 1].armed
      /\ tms[1] = timers[1]
  <2>1. ASSUME NEW j \in 1..n PROVE tms[j + 1].owner = j /\ ~ tms[j + 1].armed
    <3>1. j + 1 \in 1..n + 1 /\ j \in DOMAIN c_states
      BY <1>3
    <3>2. timers[j + 1].owner = j
      BY <1>1, <3>1 DEF ReceiverRuns
    <3>3. CASE j = i
      BY <1>4, <3>2, <3>3
    <3>4. CASE j # i
      <4>1. ~ Receiving(j)
        BY <1>1, <3>1, <3>4 DEF ReceiverRuns
      <4>2. ~ timers[j + 1].armed
        BY <1>1, <3>1, <4>1 DEF ReceiverRuns
      <4>3. j + 1 # i + 1
        BY <1>3, <3>4
      <4> QED  BY <1>4, <3>1, <3>2, <4>2, <4>3
    <3> QED  BY <3>3, <3>4
  <2>2. 1 \in 1..n + 1 /\ 1 # i + 1
    BY <1>3
  <2> QED  BY <1>4, <2>1, <2>2
<1>6. ASSUME Len(timers') = n + 1, \A j \in 1..n : timers'[j + 1] = tms[j + 1]
      PROVE  ReceiverRuns'
  BY <1>1, <1>3, <1>5, <1>6 DEF ReceiverRuns, n
<1>7. CASE NextChunk(p, m)
  <2> DEFINE r == [type |-> "WHOHAS", chunks |-> wish']
  <2>1. Ask(wish', tms) /\ Len(wish) > 1
    BY <1>2, <1>7 DEF NextChunk, Size
  <2>2. Exists(tms, whohas_timerid')
    BY <1>2, <1>3, <1>4, <1>5 DEF Exists
  <2>3. /\ timers' = Arm(tms, 0) /\ UNCHANGED exited
        /\ toPeer' = [q \in Peers |-> Append(toPeer[q], r)]
    BY <1>2, <1>3, <2>1, <2>2 DEF Ask, Asked
  <2>4. /\ 0 \in Nat /\ 0 + 1 \in DOMAIN tms
        /\ timers' \in {Arm(tms, 0), Disarm(tms, 0), Delete(tms, 0)}
    BY <1>3, <1>4, <2>3
  <2>5. /\ Len(timers') = n + 1
        /\ \A x \in 1..n + 1 : x # 1 => timers'[x] = tms[x]
        /\ timers'[1].owner = tms[1].owner /\ timers'[1].alive = tms[1].alive
    BY <1>4, <2>3, <2>4, TimerSteps
  <2>6. \A j \in 1..n : timers'[j + 1] = tms[j + 1]
    <3>1. \A j \in 1..n : j + 1 \in 1..n + 1 /\ j + 1 # 1
      BY <1>3
    <3> QED  BY <2>5, <3>1
  <2>7. ASSUME NEW q \in Peers PROVE Offering(q)'
    <3>1. toPeer[q] \in Seq(Request) /\ toPeer'[q] = Append(toPeer[q], r)
      BY <1>1, <2>3 DEF Types
    <3> HIDE DEF r
    <3>2. Len(toPeer[q]) + 1 \in DOMAIN toPeer'[q] /\ toPeer'[q][Len(toPeer[q]) + 1] = r
      BY <3>1
    <3> QED  BY <3>2 DEF Offering, r
  <2>8. wish' # <<>>
    BY <1>1, <2>1
  <2>9. WhohasRuns'
    BY <1>1, <1>2, <1>3, <1>5, <2>5, <2>7, <2>8 DEF WhohasRuns, NULL
  <2>10. ReceiverRuns'
    BY <1>6, <2>5, <2>6
  <2> QED  BY <1>3, <2>3, <2>9, <2>10 DEF TimersRun
<1>8. CASE LastChunk(p, m)
  <2>1. timers' = tms /\ UNCHANGED exited
    BY <1>2, <1>8 DEF LastChunk
  <2>2. WhohasRuns'
    BY <1>2, <1>3, <1>5, <2>1 DEF WhohasRuns, NULL
  <2>3. ReceiverRuns'
    BY <1>4, <1>6, <2>1
  <2> QED  BY <1>3, <2>1, <2>2, <2>3 DEF TimersRun
<1> QED  BY <1>7, <1>8

LEMMA OrderlyStep ==
  ASSUME OrderlyInv, [Next]_vars
  PROVE  OrderlyInv'
<1>1. CleanInv' /\ Orderly'
  BY NextClean DEF OrderlyInv, Orderly
<1>2. CASE UserGet
  BY <1>1, <1>2, UserGetRuns DEF OrderlyInv
<1>3. CASE WhohasTimer \/ NoOutputFile \/ NoChunkFile
  BY <1>3, NeverExpires DEF NoOutputFile, NoChunkFile, OrderlyInv, Orderly
<1>4. ASSUME NEW p \in Peers, AnswerWhohas(p) \/ ServeGet(p)
      PROVE  OrderlyInv'
  BY <1>1, <1>4, PeersRuns DEF OrderlyInv
<1>5. ASSUME NEW p \in Peers, Inbound(p)
      PROVE  OrderlyInv'
  <2>1. PICK m \in First(toClient[p]) : Ihave(p, m) \/ DataPacket(p, m) \/ TimerLost(p, m)
    BY <1>5 DEF Inbound
  <2>2. CASE Ihave(p, m)
    BY <1>1, <2>2, IgnoredRuns, IhaveDownloadingRuns, IhaveAcceptedRuns DEF Ihave, OrderlyInv
  <2>3. ASSUME DataPacket(p, m) PROVE TimersRun'
    <3>1. ~ ChunkFailed(p, m)
      BY NoChunkFails DEF OrderlyInv
    <3> QED  BY <2>3, <3>1, IgnoredRuns, DataRuns, ChunkDoneRuns DEF DataPacket
  <2>4. CASE TimerLost(p, m)
    BY <2>4, NoTimerLost
  <2> QED  BY <1>1, <2>1, <2>2, <2>3, <2>4 DEF OrderlyInv
<1>6. CASE UNCHANGED vars
  <2>1. /\ UNCHANGED <<gets, wish, c_states, timers, whohas_timerid, receiver_timerid, exited>>
        /\ toPeer' = toPeer /\ toClient' = toClient
    BY <1>6 DEF vars, peerVars
  <2>2. \A p \in Peers : Offering(p) => Offering(p)'
    BY <2>1 DEF Offering
  <2>3. gets # 0 => WhohasRuns' /\ ReceiverRuns'
    BY <2>1, <2>2, SameRuns DEF OrderlyInv, TimersRun, WhohasRuns
  <2> QED  BY <1>1, <2>1, <2>3 DEF OrderlyInv, TimersRun
<1> QED  BY <1>2, <1>3, <1>4, <1>5, <1>6 DEF Next

\* The invariant of one GET command that is carried out promptly.
THEOREM OrderlyInvariance == Orderly /\ Spec => []OrderlyInv
<1>1. Orderly /\ Init => OrderlyInv
  BY InitClean DEF Orderly, OrderlyInv, TimersRun, Init
<1>2. OrderlyInv /\ [Next]_vars => OrderlyInv'
  BY OrderlyStep
<1> QED  BY <1>1, <1>2, PTL DEF Spec

\* Cases 1 and 3 always find the timer they set: during one prompt GET command the
\* client never ends, although all its downloads share one receiver_timerid, because a
\* chunk is asked for only when the download before it is over.
THEOREM ClientNeverExits == Orderly /\ Spec => []NeverExits
<1>1. OrderlyInv => NeverExits
  BY DEF OrderlyInv, TimersRun, NeverExits
<1> QED  BY <1>1, OrderlyInvariance, PTL

\* A receiver timer that runs belongs to a connection that receives: every timer is
\* deleted with its download, and so never expires for a connection that is gone.
THEOREM TimersHaveConnections == Orderly /\ Spec => []ArmedTimerHasItsConnection
<1>1. ASSUME OrderlyInv, NEW t \in DOMAIN timers, timers[t].armed, timers[t].owner # WHOHAS
      PROVE  Receiving(timers[t].owner)
  <2>1. gets # 0 /\ Types
    BY <1>1 DEF OrderlyInv, CleanInv, IdleInv, Inv
  <2>2. WhohasRuns /\ ReceiverRuns
    BY <1>1, <2>1 DEF OrderlyInv, TimersRun
  <2>3. t # 1
    BY <1>1, <2>2 DEF WhohasRuns
  <2>4. t - 1 \in DOMAIN c_states /\ (t - 1) + 1 = t
    BY <2>1, <2>2, <2>3 DEF ReceiverRuns, Types
  <2>5. timers[t].owner = t - 1 /\ Receiving(t - 1)
    BY <1>1, <2>2, <2>4 DEF ReceiverRuns
  <2> QED  BY <2>5
<1>2. OrderlyInv => ArmedTimerHasItsConnection
  BY <1>1 DEF ArmedTimerHasItsConnection
<1> QED  BY <1>2, OrderlyInvariance, PTL

-----------------------------------------------------------------------------
(* The output file of a GET command for at most two chunks. *)

\* The chunks are fetched in the order of the chunk file, n of them are done, and
\* downloading has those and the one that is received: the first chunk is never taken
\* off it (an only element stays), which is why the second one is written behind it.
PlacesInv ==
  gets # 0 /\ wish # <<>> =>
    LET n == Len(WishList) - Len(wish)
    IN  /\ \A k \in DOMAIN wish : wish[k] = WishList[n + k]
        /\ Len(downloading) = IF \E i \in DOMAIN c_states : Receiving(i) THEN n + 1 ELSE n
        /\ \A k \in DOMAIN downloading : downloading[k] = WishList[k]

OrderInv == Len(WishList) <= 2 /\ OrderlyInv /\ PlacesInv /\ AssembledInOrder

\* What a step keeps that changes neither a list nor whether a connection receives.
LEMMA SamePlaces ==
  ASSUME OrderInv, UNCHANGED <<gets, wish, downloading, file>>,
         DOMAIN c_states' = DOMAIN c_states,
         \A i \in DOMAIN c_states : Receiving(i)' <=> Receiving(i)
  PROVE  PlacesInv' /\ AssembledInOrder'
<1>1. (\E i \in DOMAIN c_states' : Receiving(i)') <=> \E i \in DOMAIN c_states : Receiving(i)
  OBVIOUS
<1>2. PlacesInv'
  BY <1>1 DEF OrderInv, PlacesInv
<1> QED  BY <1>2 DEF OrderInv, AssembledInOrder

LEMMA UserGetPlaces ==
  ASSUME OrderInv, UserGet
  PROVE  PlacesInv' /\ AssembledInOrder'
<1>1. gets = 0
  BY Constants DEF UserGet, ProcessGet, OrderInv, OrderlyInv, Orderly, CleanInv, Inv, Types
<1>2. /\ wish' = WishList /\ downloading' = <<>> /\ c_states' = <<>> /\ file' = <<>>
  BY <1>1 DEF UserGet, ProcessGet, Loaded, OrderInv, OrderlyInv, CleanInv, IdleInv
<1>3. WishList \in Seq(Chunks) /\ Len(WishList) \in Nat
  BY Constants
<1>4. Len(WishList) - Len(wish') = 0 /\ \A k \in DOMAIN wish' : wish'[k] = WishList[0 + k]
  BY <1>2, <1>3
<1>5. DOMAIN downloading' = {} /\ Len(downloading') = 0 /\ DOMAIN c_states' = {}
      /\ DOMAIN file' = {}
  BY <1>2
<1> QED  BY <1>4, <1>5 DEF PlacesInv, AssembledInOrder

LEMMA AcceptedPlaces ==
  ASSUME OrderInv, NEW p \in Peers, NEW m, IhaveAccepted(p, m)
  PROVE  PlacesInv' /\ AssembledInOrder'
<1>0. PICK n, c, l : n = Len(WishList) - Len(wish) /\ c = Offered(m) /\ l = Len(c_states)
  OBVIOUS
<1>1. /\ Arrives(p, m) /\ Wished(m) /\ Search(downloading, c) = -1
      /\ c_states' = Append(c_states, NewConnection(p, c))
      /\ downloading' = Append(downloading, c)
      /\ UNCHANGED <<gets, wish, file>>
  BY <1>0 DEF IhaveAccepted, Entered, PushBack
<1>2. Types /\ gets # 0
  BY <1>1, ArriveFacts DEF OrderInv, OrderlyInv
<1>3. c = wish[1] /\ wish # <<>>
  BY <1>0, <1>1, OffersFirstWish DEF OrderInv
<1>4. /\ wish \in Seq(Chunks) /\ downloading \in Seq(Chunks) /\ 1 \in DOMAIN wish
      /\ c \in Chunks /\ l = Len(c_states) /\ l \in Nat /\ Len(WishList) \in Nat /\ Len(wish) \in Nat
      /\ c_states \in Seq(CState \cup {Destroyed})
  BY <1>0, <1>2, <1>3, Constants DEF Types
<1>5. ~ \E i \in DOMAIN c_states : Receiving(i)
  <2>1. wish[1] \notin ToSet(downloading)
    BY <1>1, <1>3, <1>4, SearchDecides
  <2> QED  BY <2>1, ReceivesFirst DEF OrderInv
<1>6. /\ c = WishList[n + 1] /\ Len(downloading) = n
      /\ \A k \in DOMAIN downloading : downloading[k] = WishList[k]
  BY <1>0, <1>2, <1>3, <1>4, <1>5 DEF OrderInv, PlacesInv
<1>7. \E i \in DOMAIN c_states' : Receiving(i)'
  <2> DEFINE conn == NewConnection(p, c)
  <2>1. conn \in CState /\ conn.ack_number = 0
    <3>1. 0 \in 0..PACKETS
      BY Constants
    <3> QED  BY <1>4, <3>1 DEF NewConnection, CState
  <2>2. conn # Destroyed
    <3>1. conn.server # Destroyed.server
      BY <2>1, Constants DEF CState, Destroyed
    <3> QED  BY <3>1
  <2> HIDE DEF conn
  <2>3. c_states' = Append(c_states, conn)
    BY <1>1 DEF conn
  <2>4. l + 1 \in DOMAIN c_states' /\ c_states'[l + 1] = conn
    BY <1>4, <2>1, <2>3
  <2>5. Receiving(l + 1)'
    BY <2>1, <2>2, <2>4, Constants DEF Receiving
  <2> QED  BY <2>4, <2>5
<1>8. /\ Len(downloading') = n + 1
      /\ \A k \in DOMAIN downloading' : downloading'[k] = WishList[k]
  <2>1. n \in Nat /\ DOMAIN downloading = 1..n
    BY <1>4, <1>6
  <2>2. /\ Len(downloading') = n + 1 /\ DOMAIN downloading' = 1..n + 1
        /\ downloading'[n + 1] = c /\ \A k \in 1..n : downloading'[k] = downloading[k]
    BY <1>1, <1>4, <1>6, <2>1
  <2>3. ASSUME NEW k \in 1..n + 1 PROVE downloading'[k] = WishList[k]
    <3>1. CASE k = n + 1
      BY <1>6, <2>2, <3>1
    <3>2. CASE k # n + 1
      <4>1. k \in 1..n
        BY <2>1, <3>2
      <4> QED  BY <1>6, <2>1, <2>2, <4>1
    <3> QED  BY <3>1, <3>2
  <2> QED  BY <2>2, <2>3
<1>9. PlacesInv'
  BY <1>0, <1>1, <1>2, <1>3, <1>7, <1>8 DEF OrderInv, PlacesInv
<1> QED  BY <1>1, <1>9 DEF OrderInv, AssembledInOrder

LEMMA ChunkDonePlaces ==
  ASSUME OrderInv, NEW p \in Peers, NEW m, NextChunk(p, m) \/ LastChunk(p, m)
  PROVE  PlacesInv' /\ AssembledInOrder'
<1> DEFINE n == Len(WishList) - Len(wish)
           c == wish[1]
<1>1. PICK i \in DOMAIN c_states :
           /\ Receiving(i) /\ Conn(p).chunk = wish[1] /\ Types /\ gets # 0
           /\ Len(wish) \in Nat \ {0}
           /\ wish' \in Seq(Chunks) /\ Len(wish') = Len(wish) - 1
           /\ \A k \in 1..Len(wish) - 1 : wish'[k] = wish[k + 1]
           /\ DOMAIN c_states' = DOMAIN c_states
           /\ \A j \in DOMAIN c_states : ~ Receiving(j)'
  BY ChunkDone DEF OrderInv
<1>2. /\ file' = Write({c}, Search(downloading, c))
      /\ downloading' = PopIndex(downloading, Search(downloading, c))
  BY <1>1, VerifiedShrinks DEF OrderInv, OrderlyInv, CleanInv, Offset, NextChunk, LastChunk,
                               ChunkVerified, LastData
<1>3. /\ wish \in Seq(Chunks) /\ downloading \in Seq(Chunks) /\ IsInjective(downloading)
      /\ WishList \in Seq(Chunks) /\ wish # <<>> /\ 1 \in DOMAIN wish
      /\ Len(WishList) \in Nat /\ Len(WishList) <= 2 /\ DOMAIN wish = 1..Len(wish)
  BY <1>1, Constants DEF OrderInv, OrderlyInv, CleanInv, Inv, Types, ListsInv
<1>4. /\ \A k \in DOMAIN wish : wish[k] = WishList[n + k]
      /\ Len(downloading) = n + 1
      /\ \A k \in DOMAIN downloading : downloading[k] = WishList[k]
  BY <1>1, <1>3 DEF OrderInv, PlacesInv
<1>5. n \in Nat /\ n <= 1 /\ DOMAIN downloading = 1..n + 1 /\ c = WishList[n + 1]
  <2>1. wish[1] \in ToSet(downloading)
    BY <1>1, ReceivesFirst DEF OrderInv
  <2>2. /\ DOMAIN downloading = 1..Len(downloading) /\ Len(downloading) \in Nat
        /\ Len(downloading) # 0
    BY <1>3, <2>1 DEF ToSet
  <2>3. n \in Nat /\ n <= 1
    BY <1>1, <1>3, <1>4, <2>2
  <2> QED  BY <1>3, <1>4, <2>2, <2>3
<1> DEFINE s == Search(downloading, c)
<1>6. c \in ToSet(downloading) /\ downloading[n + 1] = c
  BY <1>4, <1>5 DEF ToSet
<1>7. s \in 0..n /\ downloading[s + 1] = c
  <2>1. s \in 0..Len(downloading) - 1 /\ downloading[s + 1] = c
    BY <1>3, <1>6, SearchFinds
  <2> QED  BY <1>4, <1>5, <2>1
<1> HIDE DEF s
<1>8. s = n
  <2>1. s + 1 \in DOMAIN downloading /\ n + 1 \in DOMAIN downloading
    BY <1>5, <1>7
  <2>2. s + 1 = n + 1
    BY <1>3, <1>6, <1>7, <2>1 DEF IsInjective
  <2> QED  BY <1>5, <1>7, <2>2
<1>9. AssembledInOrder'
  <2>1. file' = [q \in DOMAIN file \cup {n} |-> IF q = n THEN {c} ELSE file[q]]
    BY <1>2, <1>8 DEF Write, s
  <2>2. ASSUME NEW q \in DOMAIN file' PROVE file'[q] = {WishList[q + 1]}
    <3>1. CASE q = n
      BY <1>5, <2>1, <3>1
    <3>2. CASE q # n
      BY <2>1, <3>2 DEF OrderInv, AssembledInOrder
    <3> QED  BY <3>1, <3>2
  <2> QED  BY <2>2 DEF AssembledInOrder
<1>10. PlacesInv'
  <2> SUFFICES ASSUME wish' # <<>>
               PROVE  /\ \A k \in DOMAIN wish' : wish'[k] = WishList[(Len(WishList) - Len(wish')) + k]
                      /\ Len(downloading') = Len(WishList) - Len(wish')
                      /\ \A k \in DOMAIN downloading' : downloading'[k] = WishList[k]
    BY <1>1 DEF PlacesInv
  <2>1. Len(wish') # 0 /\ DOMAIN wish' = 1..Len(wish')
    BY <1>1
  <2>2. DOMAIN wish' = 1..Len(wish) - 1 /\ Len(wish) = 2 /\ n = 0 /\ Len(WishList) = 2
    <3>1. Len(wish') = Len(wish) - 1 /\ Len(wish) # 1 /\ Len(wish) \in Nat \ {0}
      BY <1>1, <2>1
    <3>2. Len(wish) >= 2 /\ Len(WishList) - Len(wish) >= 0
      BY <1>3, <1>5, <3>1
    <3>3. Len(wish) = 2 /\ n = 0 /\ Len(WishList) = 2
      <4>1. \A a, b \in Nat : b >= 2 /\ a <= 2 /\ a - b >= 0 => a = 2 /\ b = 2 /\ a - b = 0
        OBVIOUS
      <4> QED  BY <1>3, <3>1, <3>2, <4>1
    <3> QED  BY <2>1, <3>1, <3>3
  <2>3. \A k \in DOMAIN wish' : wish'[k] = WishList[(Len(WishList) - Len(wish')) + k]
    BY <1>1, <1>3, <1>4, <2>2
  <2>4. downloading' = downloading
    BY <1>2, <1>4, <1>8, <2>2 DEF PopIndex, PopFront, s
  <2> QED  BY <1>1, <1>4, <2>2, <2>3, <2>4
<1> QED  BY <1>9, <1>10

LEMMA OrderStep ==
  ASSUME OrderInv, [Next]_vars
  PROVE  OrderInv'
<1>1. OrderlyInv'
  BY OrderlyStep DEF OrderInv
<1>2. CASE UserGet
  BY <1>1, <1>2, UserGetPlaces DEF OrderInv
<1>3. CASE WhohasTimer \/ NoOutputFile \/ NoChunkFile
  BY <1>3, NeverExpires DEF NoOutputFile, NoChunkFile, OrderInv, OrderlyInv, Orderly
<1>4. ASSUME UNCHANGED <<gets, wish, downloading, c_states, file>> PROVE OrderInv'
  BY <1>1, <1>4, SamePlaces DEF OrderInv, Receiving
<1>5. ASSUME NEW p \in Peers, AnswerWhohas(p) \/ ServeGet(p)
      PROVE  OrderInv'
  BY <1>4, <1>5 DEF AnswerWhohas, ServeGet
<1>6. ASSUME NEW p \in Peers, Inbound(p)
      PROVE  OrderInv'
  <2>1. PICK m \in First(toClient[p]) : Ihave(p, m) \/ DataPacket(p, m) \/ TimerLost(p, m)
    BY <1>6 DEF Inbound
  <2>2. CASE IhaveNotAsked(p, m) \/ IhaveDownloading(p, m) \/ DataStray(p, m) \/ DataRepeated(p, m)
    BY <1>4, <2>2 DEF IhaveNotAsked, IhaveDownloading, DataStray, DataRepeated, Ignored
  <2>3. CASE IhaveAccepted(p, m)
    BY <1>1, <2>3, AcceptedPlaces DEF OrderInv
  <2>4. CASE DataStored(p, m)
    <3>1. UNCHANGED <<gets, wish, downloading, file>>
      BY <2>4 DEF DataStored
    <3> QED  BY <1>1, <2>4, <3>1, StoredReceives, SamePlaces DEF OrderInv
  <2>5. CASE NextChunk(p, m) \/ LastChunk(p, m)
    BY <1>1, <2>5, ChunkDonePlaces DEF OrderInv
  <2>6. ~ ChunkFailed(p, m) /\ ~ TimerLost(p, m)
    BY NoChunkFails, NoTimerLost DEF OrderInv, OrderlyInv
  <2> QED  BY <2>1, <2>2, <2>3, <2>4, <2>5, <2>6 DEF Ihave, DataPacket
<1>7. CASE UNCHANGED vars
  BY <1>4, <1>7 DEF vars
<1> QED  BY <1>2, <1>3, <1>5, <1>6, <1>7 DEF Next

\* The file of one prompt GET command for one or two chunks is assembled in the order
\* of the chunk file, although a chunk is written at its place in the list of those
\* being downloaded.
THEOREM FileInOrder == Orderly /\ Len(WishList) <= 2 /\ Spec => []AssembledInOrder
<1>1. Orderly /\ Len(WishList) <= 2 /\ Init => OrderInv
  <2>1. Orderly /\ Init => OrderlyInv
    BY InitClean DEF Orderly, OrderlyInv, TimersRun, Init
  <2>2. Init => PlacesInv /\ AssembledInOrder
    BY DEF Init, PlacesInv, AssembledInOrder
  <2> QED  BY <2>1, <2>2 DEF OrderInv
<1>2. OrderInv /\ [Next]_vars => OrderInv'
  BY OrderStep
<1>3. OrderInv => AssembledInOrder
  BY DEF OrderInv
<1> QED  BY <1>1, <1>2, <1>3, PTL DEF Spec
=============================================================================
