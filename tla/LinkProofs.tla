----------------------------- MODULE LinkProofs -----------------------------
(***************************************************************************)
(* What the queues of Link preserve, for queues of packets from any set.   *)
(***************************************************************************)
EXTENDS Link, SequenceTheorems, TLAPS

\* A queue of packets of one kind is a queue of packets of any wider kind.
LEMMA QueueWidens ==
  ASSUME NEW S, NEW T, S \subseteq T, NEW q \in Seq(S)
  PROVE  q \in Seq(T)
OBVIOUS

\* Packets numbered from 1 are a sequence.
LEMMA NumberedIsSeq ==
  ASSUME NEW S, NEW n \in Nat, NEW f \in [1..n -> S]
  PROVE  f \in Seq(S)
OBVIOUS

\* A queue that takes a burst holds packets of the queue and of the burst.
LEMMA EnqueueKeeps ==
  ASSUME NEW S, NEW q \in Seq(S), NEW b \in Seq(S)
  PROVE  Enqueue(q, b) \in Seq(S)
<1> DEFINE s == q \o b
           n == IF Len(s) <= CAP THEN Len(s) ELSE CAP
<1>1. s \in Seq(S)
  OBVIOUS
<1>2. n \in 0..Len(s)
  BY <1>1, LenProperties, LinkAssumption DEF LinkAssumption
<1>3. SubSeq(s, 1, n) \in Seq(S)
  BY <1>1, <1>2
<1> QED  BY <1>3 DEF Enqueue

\* What a burst adds to the end of a queue are packets of the burst.
LEMMA EnqueueAdds ==
  ASSUME NEW S, NEW q \in Seq(S), NEW b \in Seq(S),
         NEW i \in DOMAIN Enqueue(q, b) \ DOMAIN q
  PROVE  \E j \in DOMAIN b : Enqueue(q, b)[i] = b[j]
<1> DEFINE s == q \o b
           n == IF Len(s) <= CAP THEN Len(s) ELSE CAP
<1>1. s \in Seq(S) /\ Len(s) = Len(q) + Len(b) /\ Len(q) \in Nat /\ Len(b) \in Nat
  BY ConcatProperties, LenProperties
<1>2. n \in 0..Len(s)
  BY <1>1, LenProperties, LinkAssumption DEF LinkAssumption
<1>3. DOMAIN Enqueue(q, b) = 1..n /\ Enqueue(q, b)[i] = s[i]
  BY <1>1, <1>2 DEF Enqueue
<1>4. i \in Len(q) + 1 .. Len(q) + Len(b)
  BY <1>1, <1>2, <1>3, LenProperties
<1>5. s[i] = b[i - Len(q)] /\ i - Len(q) \in DOMAIN b
  BY <1>1, <1>4, ConcatProperties, LenProperties
<1> QED  BY <1>3, <1>5

\* A single packet that is added is that packet.
LEMMA EnqueueAddsOne ==
  ASSUME NEW S, NEW q \in Seq(S), NEW m \in S,
         NEW i \in DOMAIN Enqueue(q, <<m>>) \ DOMAIN q
  PROVE  Enqueue(q, <<m>>)[i] = m
<1> DEFINE b == <<m>>
<1>1. b \in Seq(S)
  OBVIOUS
<1>2. \A j \in DOMAIN b : b[j] = m
  OBVIOUS
<1>3. i \in DOMAIN Enqueue(q, b) \ DOMAIN q
  OBVIOUS
<1> HIDE DEF b
<1>4. PICK j \in DOMAIN b : Enqueue(q, b)[i] = b[j]
  BY <1>1, <1>3, EnqueueAdds
<1>5. Enqueue(q, b)[i] = m
  BY <1>2, <1>4
<1> QED  BY <1>5 DEF b

\* Taking a packet out of a queue leaves packets of the queue, at positions it had.
LEMMA RemoveAtKeeps ==
  ASSUME NEW S, NEW q \in Seq(S), NEW i \in DOMAIN q
  PROVE  RemoveAt(q, i) \in Seq(S) /\ DOMAIN RemoveAt(q, i) \subseteq DOMAIN q
<1> DEFINE front == SubSeq(q, 1, i - 1)
           back == SubSeq(q, i + 1, Len(q))
<1>1. i \in 1..Len(q) /\ Len(q) \in Nat
  BY LenProperties
<1>2. front \in Seq(S) /\ Len(front) = i - 1
  BY <1>1, SubSeqProperties
<1>3. back \in Seq(S) /\ Len(back) = Len(q) - i
  BY <1>1, SubSeqProperties
<1> HIDE DEF front, back
<1>4. front \o back \in Seq(S) /\ Len(front \o back) = Len(q) - 1
  BY <1>1, <1>2, <1>3, ConcatProperties
<1>5. RemoveAt(q, i) = front \o back
  BY DEF RemoveAt, front, back
<1> QED  BY <1>1, <1>4, <1>5, LenProperties

\* So does the arrival of a packet, repeated or not.
LEMMA AfterKeeps ==
  ASSUME NEW S, NEW q \in Seq(S), NEW i \in Arrivals(q), NEW r \in After(q, i)
  PROVE  r \in Seq(S) /\ DOMAIN r \subseteq DOMAIN q /\ q[i] \in S
<1>1. i \in DOMAIN q
  BY DEF Arrivals
<1>2. r = RemoveAt(q, i) \/ r = q
  BY DEF After
<1>3. q[i] \in S
  BY <1>1
<1> QED  BY <1>1, <1>2, <1>3, RemoveAtKeeps

\* So does a loss.
LEMMA LosesKeeps ==
  ASSUME NEW S, NEW q \in Seq(S), NEW r, Loses(q, r)
  PROVE  r \in Seq(S) /\ DOMAIN r \subseteq DOMAIN q
<1>1. PICK i \in Arrivals(q) : r = RemoveAt(q, i)
  BY DEF Loses
<1>2. i \in DOMAIN q
  BY DEF Arrivals
<1> QED  BY <1>1, <1>2, RemoveAtKeeps

-----------------------------------------------------------------------------
(* A ring of w places. *)

\* Different multiples of w are at least w apart.
LEMMA QuotientApart ==
  ASSUME NEW w \in Nat \ {0}, NEW q \in Int, NEW r \in Int, q < r
  PROVE  w * q + w <= w * r
<1>1. w * (r - q - 1) >= 0
  OBVIOUS
<1>2. w * r - w * q - w = w * (r - q - 1)
  OBVIOUS
<1> QED  BY <1>1, <1>2

\* Two numbers less than w apart that share a place are the same number.
LEMMA PlacesApart ==
  ASSUME NEW w \in Nat \ {0}, NEW i \in Int, NEW j \in Int,
         i < j + w, j < i + w, (i - 1) % w = (j - 1) % w
  PROVE  i = j
<1> DEFINE q == (i - 1) \div w
           r == (j - 1) \div w
<1>1. /\ q \in Int /\ r \in Int /\ (i - 1) % w \in Int
      /\ i - 1 = w * q + ((i - 1) % w)
      /\ j - 1 = w * r + ((j - 1) % w)
  OBVIOUS
<1>2. CASE q < r
  <2>1. w * q + w <= w * r
    BY <1>1, <1>2, QuotientApart
  <2> QED  BY <2>1, <1>1
<1>3. CASE r < q
  <2>1. w * r + w <= w * q
    BY <1>1, <1>3, QuotientApart
  <2> QED  BY <2>1, <1>1
<1>4. CASE q = r
  BY <1>1, <1>4
<1> QED  BY <1>1, <1>2, <1>3, <1>4
=============================================================================
