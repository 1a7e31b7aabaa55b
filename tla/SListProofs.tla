---------------------------- MODULE SListProofs ----------------------------
(***************************************************************************)
(* What the lists of slist.c preserve, for lists of elements of any kind.  *)
(***************************************************************************)
EXTENDS SList, SequenceTheorems, WellFoundedInduction, TLAPS

\* Every set of natural numbers that is not empty has a least element.
LEMMA NatMin ==
  ASSUME NEW T, T \subseteq Nat, T # {}
  PROVE  Min(T) \in T /\ \A y \in T : Min(T) <= y
<1>1. PICK x \in T : \A y \in T : ~ (<<y, x>> \in OpToRel(<, Nat))
  BY NatLessThanWellFounded, WFMin, Zenon
<1>2. \A y \in T : x <= y
  <2> SUFFICES ASSUME NEW y \in T, ~ (x <= y) PROVE FALSE
    OBVIOUS
  <2>1. y < x /\ y \in Nat /\ x \in Nat
    OBVIOUS
  <2>2. <<y, x>> \in OpToRel(<, Nat)
    BY <2>1, Zenon DEF OpToRel
  <2> QED  BY <1>1, <2>2, Zenon
<1> QED  BY <1>2 DEF Min

LEMMA MinOfTwo ==
  ASSUME NEW x \in Int, NEW y \in Int
  PROVE  Min({x, y}) = IF x <= y THEN x ELSE y
<1> DEFINE m == IF x <= y THEN x ELSE y
<1>1. m \in {x, y} /\ \A z \in {x, y} : m <= z
  OBVIOUS
<1>2. \A w \in {x, y} : (\A z \in {x, y} : w <= z) => w = m
  OBVIOUS
<1> HIDE DEF m
<1>3. Min({x, y}) = m
  BY <1>1, <1>2 DEF Min
<1> QED  BY <1>3 DEF m

-----------------------------------------------------------------------------
(* slist_search *)

LEMMA SearchMisses ==
  ASSUME NEW S, NEW list \in Seq(S), NEW x, x \notin ToSet(list)
  PROVE  Search(list, x) = -1
<1> DEFINE I == {i \in 1..Len(list) : list[i] = x}
<1>1. I = {}
  BY DEF ToSet
<1>2. Search(list, x) = (IF I # {} THEN Min(I) ELSE 0) - 1
  BY DEF Search, SelectInSeq
<1> HIDE DEF I
<1> QED  BY <1>1, <1>2

LEMMA SearchFinds ==
  ASSUME NEW S, NEW list \in Seq(S), NEW x \in ToSet(list)
  PROVE  /\ Search(list, x) \in 0..Len(list)-1
         /\ Search(list, x) + 1 \in DOMAIN list
         /\ list[Search(list, x) + 1] = x
<1> DEFINE I == {i \in 1..Len(list) : list[i] = x}
           f == Min(I)
<1>1. I # {} /\ I \subseteq Nat
  BY DEF ToSet
<1>2. f \in I
  BY <1>1, NatMin
<1>3. Search(list, x) = (IF I # {} THEN f ELSE 0) - 1
  BY DEF Search, SelectInSeq
<1>4. f \in 1..Len(list) /\ list[f] = x /\ Len(list) \in Nat
  BY <1>2
<1> HIDE DEF I, f
<1>5. Search(list, x) = f - 1
  BY <1>1, <1>3
<1>6. Search(list, x) + 1 = f /\ Search(list, x) \in 0..Len(list)-1
  BY <1>4, <1>5
<1> QED  BY <1>4, <1>6

\* slist_search answers -1 exactly for what is not in the list.
LEMMA SearchDecides ==
  ASSUME NEW S, NEW list \in Seq(S), NEW x
  PROVE  Search(list, x) = -1 <=> x \notin ToSet(list)
<1>1. CASE x \notin ToSet(list)
  BY <1>1, SearchMisses
<1>2. CASE x \in ToSet(list)
  <2>1. Search(list, x) \in 0..Len(list)-1
    BY <1>2, SearchFinds
  <2> QED  BY <1>2, <2>1
<1> QED  BY <1>1, <1>2

-----------------------------------------------------------------------------
(* slist_push_back and slist_pop_index *)

\* A new element at the end leaves a list without repetitions.
LEMMA PushBackKeeps ==
  ASSUME NEW S, NEW list \in Seq(S), NEW x \in S
  PROVE  /\ PushBack(list, x) \in Seq(S)
         /\ ToSet(PushBack(list, x)) = ToSet(list) \cup {x}
         /\ IsInjective(list) /\ x \notin ToSet(list) => IsInjective(PushBack(list, x))
<1> DEFINE l == PushBack(list, x)
<1>1. /\ l \in Seq(S) /\ Len(list) \in Nat /\ Len(l) = Len(list) + 1
      /\ DOMAIN l = 1..Len(list) + 1 /\ DOMAIN list = 1..Len(list)
      /\ l[Len(list) + 1] = x /\ \A i \in 1..Len(list) : l[i] = list[i]
  BY DEF PushBack
<1> HIDE DEF l
<1>2. ToSet(l) = ToSet(list) \cup {x}
  BY <1>1 DEF ToSet
<1>3. IsInjective(list) /\ x \notin ToSet(list) => IsInjective(l)
  BY <1>1 DEF IsInjective, ToSet
<1> QED  BY <1>1, <1>2, <1>3 DEF l

\* A list without its i-th element.
LEMMA RemoveAtShape ==
  ASSUME NEW S, NEW list \in Seq(S), NEW i \in DOMAIN list
  PROVE  /\ RemoveAt(list, i) \in Seq(S)
         /\ Len(RemoveAt(list, i)) = Len(list) - 1
         /\ DOMAIN RemoveAt(list, i) = 1..Len(list)-1
         /\ \A j \in 1..Len(list)-1 :
              RemoveAt(list, i)[j] = IF j < i THEN list[j] ELSE list[j + 1]
<1> DEFINE n == Len(list)
           front == SubSeq(list, 1, i - 1)
           back == SubSeq(list, i + 1, n)
<1>1. i \in 1..n /\ n \in Nat
  OBVIOUS
<1>2. /\ front \in Seq(S) /\ Len(front) = i - 1
      /\ \A j \in 1..i - 1 : front[j] = list[j]
  BY <1>1
<1>3. /\ back \in Seq(S) /\ Len(back) = n - i
      /\ \A j \in 1..n - i : back[j] = list[i + j]
  BY <1>1
<1>4. RemoveAt(list, i) = front \o back
  BY DEF RemoveAt
<1> HIDE DEF front, back, n
<1>5. /\ front \o back \in Seq(S) /\ Len(front \o back) = n - 1
      /\ \A j \in 1..n - 1 :
           (front \o back)[j] = IF j <= i - 1 THEN front[j] ELSE back[j - (i - 1)]
  <2>1. /\ front \o back \in Seq(S) /\ Len(front \o back) = Len(front) + Len(back)
        /\ \A j \in 1..Len(front) + Len(back) :
             (front \o back)[j] = IF j <= Len(front) THEN front[j] ELSE back[j - Len(front)]
    BY <1>2, <1>3, ConcatProperties
  <2>2. Len(front) + Len(back) = n - 1
    BY <1>1, <1>2, <1>3
  <2> QED  BY <1>2, <2>1, <2>2
<1>6. ASSUME NEW j \in 1..n - 1
      PROVE  (front \o back)[j] = IF j < i THEN list[j] ELSE list[j + 1]
  <2>1. CASE j < i
    BY <1>1, <1>2, <1>5, <2>1
  <2>2. CASE ~ (j < i)
    <3>1. (front \o back)[j] = back[j - (i - 1)] /\ j - (i - 1) \in 1..n - i
      BY <1>1, <1>5, <2>2
    <3>2. back[j - (i - 1)] = list[i + (j - (i - 1))] /\ i + (j - (i - 1)) = j + 1
      BY <1>1, <1>3, <3>1
    <3> QED  BY <2>2, <3>1, <3>2
  <2> QED  BY <2>1, <2>2
<1>7. DOMAIN (front \o back) = 1..n - 1
  BY <1>5
<1> QED  BY <1>4, <1>5, <1>6, <1>7 DEF n

\* A list without repetitions loses exactly the element at i.
LEMMA RemoveAtRemoves ==
  ASSUME NEW S, NEW list \in Seq(S), IsInjective(list), NEW i \in DOMAIN list
  PROVE  /\ IsInjective(RemoveAt(list, i))
         /\ ToSet(RemoveAt(list, i)) = ToSet(list) \ {list[i]}
<1> DEFINE l == RemoveAt(list, i)
           n == Len(list)
<1>1. /\ DOMAIN l = 1..n - 1 /\ DOMAIN list = 1..n /\ n \in Nat /\ i \in 1..n
      /\ \A j \in 1..n - 1 : l[j] = IF j < i THEN list[j] ELSE list[j + 1]
  <2>1. /\ DOMAIN l = 1..n - 1
        /\ \A j \in 1..n - 1 : l[j] = IF j < i THEN list[j] ELSE list[j + 1]
    BY RemoveAtShape, Zenon
  <2>2. DOMAIN list = 1..n /\ n \in Nat /\ i \in 1..n
    BY LenProperties
  <2> HIDE DEF l, n
  <2> QED  BY <2>1, <2>2
<1> HIDE DEF l, n
<1>2. IsInjective(l)
  <2> SUFFICES ASSUME NEW a \in 1..n - 1, NEW b \in 1..n - 1, l[a] = l[b]
               PROVE  a = b
    BY <1>1 DEF IsInjective
  <2> DEFINE from(j) == IF j < i THEN j ELSE j + 1
  <2>1. l[a] = list[from(a)] /\ l[b] = list[from(b)]
    BY <1>1
  <2>2. from(a) \in 1..n /\ from(b) \in 1..n
    BY <1>1
  <2>3. from(a) = from(b)
    <3> HIDE DEF from
    <3> QED  BY <1>1, <2>1, <2>2 DEF IsInjective
  <2> QED  BY <1>1, <2>3
<1>3. ASSUME NEW j \in DOMAIN l PROVE l[j] \in ToSet(list) \ {list[i]}
  <2>1. CASE j < i
    BY <1>1, <2>1 DEF IsInjective, ToSet
  <2>2. CASE ~ (j < i)
    BY <1>1, <2>2 DEF IsInjective, ToSet
  <2> QED  BY <2>1, <2>2
<1>4. ASSUME NEW k \in DOMAIN list, k # i PROVE \E j \in DOMAIN l : l[j] = list[k]
  <2>1. CASE k < i
    <3>1. k \in 1..n - 1 /\ l[k] = list[k]
      BY <1>1, <2>1
    <3> QED  BY <1>1, <3>1
  <2>2. CASE k > i
    <3>1. k - 1 \in 1..n - 1 /\ l[k - 1] = list[k]
      BY <1>1, <2>2
    <3> QED  BY <1>1, <3>1
  <2> QED  BY <1>1, <1>4, <2>1, <2>2
<1>5. ToSet(l) = ToSet(list) \ {list[i]}
  BY <1>3, <1>4 DEF ToSet
<1> QED  BY <1>2, <1>5 DEF l

\* slist_pop_index at the position slist_search has found: the element is removed,
\* unless it is the only one.
LEMMA PopFound ==
  ASSUME NEW S, NEW list \in Seq(S), NEW x \in ToSet(list), Len(list) > 1
  PROVE  PopIndex(list, Search(list, x)) = RemoveAt(list, Search(list, x) + 1)
<1> DEFINE k == Search(list, x)
<1>1. k \in 0..Len(list)-1 /\ Len(list) \in Nat /\ list # <<>>
  BY SearchFinds
<1> HIDE DEF k
<1>2. CASE k = 0
  <2>1. PopIndex(list, k) = Tail(list)
    BY <1>1, <1>2 DEF PopIndex, PopFront
  <2>2. /\ RemoveAt(list, 1) \in Seq(S) /\ Len(RemoveAt(list, 1)) = Len(list) - 1
        /\ \A j \in 1..Len(list)-1 : RemoveAt(list, 1)[j] = list[j + 1]
    <3>1. 1 \in DOMAIN list
      BY <1>1
    <3>2. /\ RemoveAt(list, 1) \in Seq(S) /\ Len(RemoveAt(list, 1)) = Len(list) - 1
          /\ \A j \in 1..Len(list)-1 :
               RemoveAt(list, 1)[j] = IF j < 1 THEN list[j] ELSE list[j + 1]
      BY <3>1, RemoveAtShape
    <3> QED  BY <3>2
  <2>3. /\ Tail(list) \in Seq(S) /\ Len(Tail(list)) = Len(list) - 1
        /\ \A j \in 1..Len(list)-1 : Tail(list)[j] = list[j + 1]
    BY <1>1
  <2>4. Tail(list) = RemoveAt(list, 1)
    BY <2>2, <2>3
  <2> QED  BY <1>2, <2>1, <2>4 DEF k
<1>3. CASE k # 0
  BY <1>1, <1>3 DEF PopIndex, k
<1> QED  BY <1>2, <1>3

\* What slist_pop_index leaves after slist_search, whether or not x was found.
LEMMA PopKeeps ==
  ASSUME NEW S, NEW list \in Seq(S), IsInjective(list), NEW x
  PROVE  LET popped == PopIndex(list, Search(list, x))
         IN  /\ popped \in Seq(S) /\ IsInjective(popped)
             /\ ToSet(popped) \subseteq ToSet(list)
             /\ ToSet(list) \ {x} \subseteq ToSet(popped)
<1>1. CASE x \notin ToSet(list)
  <2>1. PopIndex(list, Search(list, x)) = list
    BY <1>1, SearchMisses DEF PopIndex
  <2> QED  BY <2>1
<1>2. CASE x \in ToSet(list) /\ Len(list) > 1
  <2>1. Search(list, x) + 1 \in DOMAIN list /\ list[Search(list, x) + 1] = x
    BY <1>2, SearchFinds
  <2>2. PopIndex(list, Search(list, x)) = RemoveAt(list, Search(list, x) + 1)
    BY <1>2, PopFound
  <2>3. PopIndex(list, Search(list, x)) \in Seq(S)
    BY <2>1, <2>2, RemoveAtShape
  <2>4. IsInjective(RemoveAt(list, Search(list, x) + 1))
        /\ ToSet(RemoveAt(list, Search(list, x) + 1)) = ToSet(list) \ {x}
    BY <2>1, RemoveAtRemoves
  <2> QED  BY <2>2, <2>3, <2>4
<1>3. CASE x \in ToSet(list) /\ ~ (Len(list) > 1)
  <2>1. Search(list, x) = 0 /\ Len(list) = 1
    <3> DEFINE k == Search(list, x)
               n == Len(list)
    <3>1. k \in 0..n - 1 /\ n \in Nat /\ ~ (n > 1)
      BY <1>3, SearchFinds
    <3> HIDE DEF k, n
    <3>2. k = 0 /\ n = 1
      BY <3>1
    <3> QED  BY <3>2 DEF k, n
  <2>2. PopIndex(list, Search(list, x)) = list
    BY <2>1 DEF PopIndex, PopFront
  <2> QED  BY <2>2
<1> QED  BY <1>1, <1>2, <1>3
=============================================================================
