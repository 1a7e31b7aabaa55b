-------------------------- MODULE InputBufferProofs --------------------------
(***************************************************************************)
(* What the user types is handled as typed, for every size of the buffer.  *)
(*                                                                         *)
(* LinesAsTyped is not inductive: memmove leaves bytes behind the end of   *)
(* what it moved.  The invariant adds that these are all 0 while the       *)
(* buffer is never more than half full; for a longer content the bytes     *)
(* that stay, from SIZE - ret on, would overlap it.                        *)
(***************************************************************************)
EXTENDS InputBuffer, TLAPS

Types ==
  /\ buf \in [0..SIZE -> Byte]
  /\ cur \in Nat
  /\ exited \in BOOLEAN /\ half \in BOOLEAN /\ faithful \in BOOLEAN
  /\ typed \in Seq(Chars \cup {NL})

Held ==
  /\ faithful
  /\ cur = Len(typed)
  /\ \A i \in 1..cur : typed[i] = buf[i - 1]

CleanTail ==
  /\ 2 * cur <= SIZE + 1
  /\ \A i \in cur..SIZE : buf[i] = NUL

IInv == Types /\ buf[SIZE] = NUL /\ (half => Held /\ CleanTail)

\* The buffer starts empty and all zero.
LEMMA InitHolds == Init => IInv
<1> SUFFICES ASSUME Init PROVE IInv
  OBVIOUS
<1>1. Types
  BY InputBufferAssumption DEF InputBufferAssumption, Init, Types, Byte
<1>2. buf[SIZE] = NUL
  BY InputBufferAssumption DEF InputBufferAssumption, Init
<1>3. Held
  BY DEF Init, Held
<1>4. CleanTail
  BY InputBufferAssumption DEF InputBufferAssumption, Init, CleanTail
<1> QED BY <1>1, <1>2, <1>3, <1>4 DEF IInv

\* A read puts its bytes before the last one, and behind those that are held.
LEMMA ReadKeeps == ASSUME IInv, Read PROVE IInv'
<1>1. PICK n \in 1..Room : \E input \in [1..n -> Chars \cup {NL}] :
         /\ buf' = [i \in DOMAIN buf \cup cur..cur + n - 1 |->
                      IF i \in cur..cur + n - 1 THEN input[i - cur + 1] ELSE buf[i]]
         /\ cur' = cur + n
         /\ half' = (half /\ 2 * cur' <= SIZE + 1)
         /\ typed' = IF half' THEN typed \o input ELSE <<>>
  BY DEF Read
<1>2. PICK input \in [1..n -> Chars \cup {NL}] :
         /\ buf' = [i \in DOMAIN buf \cup cur..cur + n - 1 |->
                      IF i \in cur..cur + n - 1 THEN input[i - cur + 1] ELSE buf[i]]
         /\ cur' = cur + n
         /\ half' = (half /\ 2 * cur' <= SIZE + 1)
         /\ typed' = IF half' THEN typed \o input ELSE <<>>
  BY <1>1
<1> DEFINE S == Chars \cup {NL}
<1>3. /\ SIZE \in Nat \ {0} /\ cur \in Nat /\ n \in Nat \ {0}
      /\ cur + n <= SIZE
      /\ buf \in [0..SIZE -> Byte] /\ typed \in Seq(S)
  BY InputBufferAssumption, <1>2 DEF InputBufferAssumption, IInv, Types, Room
<1>4. input \in Seq(S) /\ Len(input) = n
  BY <1>3
<1>5. DOMAIN buf \cup cur..cur + n - 1 = 0..SIZE
  BY <1>3
<1>6. buf' = [i \in 0..SIZE |-> IF i \in cur..cur + n - 1 THEN input[i - cur + 1] ELSE buf[i]]
  BY <1>2, <1>5
<1>7. buf' \in [0..SIZE -> Byte]
  BY <1>3, <1>6 DEF Byte
<1>8. buf'[SIZE] = NUL
  BY <1>3, <1>6 DEF IInv
<1>9. typed' \in Seq(S)
  BY <1>2, <1>3, <1>4
<1>10. Types'
  <2>1. cur' \in Nat
    BY <1>2, <1>3
  <2>2. exited' = exited /\ faithful' = faithful
    BY DEF Read
  <2>3. half' \in BOOLEAN
    BY <1>2 DEF IInv, Types
  <2> QED BY <1>7, <1>9, <2>1, <2>2, <2>3 DEF IInv, Types
<1>11. ASSUME half' PROVE Held' /\ CleanTail'
  <2>1. half /\ 2 * (cur + n) <= SIZE + 1 /\ typed' = typed \o input
    BY <1>2, <1>11
  <2>2. Held /\ CleanTail
    BY <2>1 DEF IInv
  <2>3. Len(typed') = cur + n
    <3>1. Len(typed \o input) = Len(typed) + Len(input)
      BY <1>3, <1>4
    <3>2. Len(typed) = cur
      BY <2>2 DEF Held
    <3> QED BY <1>4, <2>1, <3>1, <3>2
  <2>4. \A i \in 1..cur + n : typed'[i] = buf'[i - 1]
    <3> SUFFICES ASSUME NEW i \in 1..cur + n PROVE typed'[i] = buf'[i - 1]
      OBVIOUS
    <3>1. i - 1 \in 0..SIZE
      BY <1>3
    <3>2. CASE i <= cur
      BY <3>1, <3>2, <1>3, <1>4, <1>6, <2>1, <2>2 DEF Held
    <3>3. CASE i > cur
      <4>1. typed'[i] = input[i - cur]
        BY <3>3, <1>3, <1>4, <2>1, <2>2 DEF Held
      <4>2. buf'[i - 1] = input[i - cur]
        BY <3>1, <3>3, <1>3, <1>6
      <4> QED BY <4>1, <4>2
    <3> QED BY <3>2, <3>3, <1>3
  <2>5. faithful'
    BY <2>2 DEF Held, Read
  <2>6. \A i \in cur + n..SIZE : buf'[i] = NUL
    BY <1>3, <1>6, <2>2 DEF CleanTail
  <2> QED BY <1>2, <2>1, <2>3, <2>4, <2>5, <2>6 DEF Held, CleanTail
<1> QED BY <1>8, <1>10, <1>11 DEF IInv

\* A line goes, and what moves to the front is what follows it.
LEMMA HandleLineKeeps == ASSUME IInv, HandleLine PROVE IInv'
<1>1. PICK ret \in LineEnds :
        /\ buf' = Shifted(ret)
        /\ cur' = Rest(ret)
        /\ faithful' = (faithful /\ (half =>
             /\ ret < Len(typed)
             /\ [i \in 1..ret + 1 |-> buf[i - 1]] = SubSeq(typed, 1, ret + 1)))
        /\ typed' = SubSeq(typed, ret + 2, Len(typed))
  BY DEF HandleLine
<1> DEFINE S == Chars \cup {NL}
<1>2. /\ SIZE \in Nat \ {0} /\ WORD \in Nat /\ WORD >= 3 * SIZE
      /\ cur \in Nat /\ buf \in [0..SIZE -> Byte] /\ typed \in Seq(S)
      /\ buf[SIZE] = NUL /\ NL # NUL
  BY InputBufferAssumption DEF InputBufferAssumption, IInv, Types
<1>3. ret \in 0..SIZE /\ buf[ret] = NL
  BY <1>1 DEF LineEnds
<1>4. ret \in 0..SIZE - 1
  BY <1>2, <1>3
<1>5. buf' = [i \in 0..SIZE |-> IF i < SIZE - ret THEN buf[ret + 1 + i]
                              ELSE IF i = ret THEN NUL ELSE buf[i]]
  <2>1. Ended(ret) = [i \in 0..SIZE |-> IF i = ret THEN NUL ELSE buf[i]]
    BY <1>2, <1>4 DEF Ended
  <2>2. \A i \in 0..SIZE : i < SIZE - ret =>
          ret + 1 + i \in 0..SIZE /\ ret + 1 + i # ret
    BY <1>2, <1>4
  <2>3. buf' = [i \in 0..SIZE |-> IF i < SIZE - ret THEN Ended(ret)[ret + 1 + i]
                                 ELSE Ended(ret)[i]]
    BY <1>1, <1>2 DEF Shifted, ShiftedFrom
  <2> QED BY <2>1, <2>2, <2>3
<1>6. buf' \in [0..SIZE -> Byte]
  BY <1>2, <1>4, <1>5 DEF Byte
<1>7. buf'[SIZE] = NUL
  BY <1>2, <1>4, <1>5
<1>8. cur' \in Nat
  BY <1>1, <1>2, <1>4 DEF Rest, Less
<1>9. typed' \in Seq(S)
  BY <1>1, <1>2, <1>4
<1>10. half' = half /\ exited' = exited
  BY DEF HandleLine
<1>11. faithful' \in BOOLEAN
  BY <1>1 DEF IInv, Types
<1>12. Types'
  BY <1>6, <1>8, <1>9, <1>10, <1>11 DEF IInv, Types
<1>13. ASSUME half PROVE Held' /\ CleanTail'
  <2>1. Held /\ CleanTail
    BY <1>13 DEF IInv
  <2>2. ret < cur /\ cur = Len(typed) /\ 2 * cur <= SIZE + 1
    BY <1>2, <1>3, <2>1 DEF Held, CleanTail
  <2>3. cur' = cur - (ret + 1)
    BY <1>1, <1>2, <1>4, <2>2 DEF Rest, Less
  <2>4. [i \in 1..ret + 1 |-> buf[i - 1]] = SubSeq(typed, 1, ret + 1)
    <3>1. SubSeq(typed, 1, ret + 1) = [i \in 1..ret + 1 |-> typed[i]]
      BY <1>2, <1>4, <2>2
    <3>2. \A i \in 1..ret + 1 : typed[i] = buf[i - 1]
      BY <1>2, <1>4, <2>1, <2>2 DEF Held
    <3> QED BY <3>1, <3>2
  <2>5. faithful'
    BY <1>1, <1>13, <2>1, <2>2, <2>4 DEF Held
  <2>6. typed' = [i \in 1..cur - (ret + 1) |-> typed[ret + 1 + i]]
    BY <1>1, <1>2, <1>4, <2>2
  <2>7. Len(typed') = cur - (ret + 1)
    BY <1>2, <1>4, <2>2, <2>6
  <2>8. \A i \in 1..cur - (ret + 1) : typed'[i] = buf'[i - 1]
    <3> SUFFICES ASSUME NEW i \in 1..cur - (ret + 1) PROVE typed'[i] = buf'[i - 1]
      OBVIOUS
    <3>1. i - 1 \in 0..SIZE /\ i - 1 < SIZE - ret /\ ret + 1 + i \in 1..cur
      BY <1>2, <1>4, <2>2
    <3>2. buf'[i - 1] = buf[ret + i]
      BY <1>2, <1>4, <1>5, <3>1
    <3>3. typed[ret + 1 + i] = buf[ret + i]
      BY <1>2, <1>4, <2>1, <3>1 DEF Held
    <3> QED BY <2>6, <3>2, <3>3
  <2>9. \A i \in cur - (ret + 1)..SIZE : buf'[i] = NUL
    BY <1>2, <1>4, <1>5, <2>1, <2>2 DEF CleanTail
  <2>10. 2 * (cur - (ret + 1)) <= SIZE + 1
    BY <1>2, <1>4, <2>2
  <2> QED BY <2>3, <2>5, <2>7, <2>8, <2>9, <2>10 DEF Held, CleanTail
<1> QED BY <1>7, <1>10, <1>12, <1>13 DEF IInv

\* Every step keeps the invariant.
LEMMA NextKeeps == IInv /\ [Next]_vars => IInv'
<1> SUFFICES ASSUME IInv, [Next]_vars PROVE IInv'
  OBVIOUS
<1>1. CASE TooLong
  BY <1>1 DEF TooLong, IInv, Types, Held, CleanTail
<1>2. CASE Read
  BY <1>2, ReadKeeps
<1>3. CASE HandleLine
  BY <1>3, HandleLineKeeps
<1>4. CASE UNCHANGED vars
  BY <1>4 DEF vars, IInv, Types, Held, CleanTail
<1> QED BY <1>1, <1>2, <1>3, <1>4 DEF Next

\* The invariant holds always.
THEOREM InputInvariance == Spec => []IInv
<1>1. Init => IInv
  BY InitHolds
<1>2. IInv /\ [Next]_vars => IInv'
  BY NextKeeps
<1> QED BY <1>1, <1>2, PTL DEF Spec

\* process_user_input never runs out of its buffer: strchr finds an end and read
\* stays before it, also after cur has wrapped.
THEOREM BufferIsTerminated == Spec => []Terminated
<1>1. IInv => Terminated
  BY DEF IInv, Types, Terminated
<1> QED BY <1>1, InputInvariance, PTL

\* Every line typed is handled once, unchanged and in order, for every size, as
\* long as the buffer is never more than half full.
THEOREM LinesAreTyped == Spec => []LinesAsTyped
<1>1. IInv => LinesAsTyped
  <2> SUFFICES ASSUME IInv, half PROVE faithful /\ cur = Len(typed) /\
                 typed = [i \in 1..cur |-> buf[i - 1]]
    BY DEF LinesAsTyped
  <2>1. Held /\ typed \in Seq(Chars \cup {NL})
    BY DEF IInv, Types
  <2>2. typed = [i \in 1..Len(typed) |-> typed[i]]
    BY <2>1
  <2> QED BY <2>1, <2>2 DEF Held
<1> QED BY <1>1, InputInvariance, PTL
-----------------------------------------------------------------------------
\* cur lies in the buffer, or it has wrapped below 0 by less than the bytes that
\* lie from some zero byte on: a line end is before that byte, and so what a
\* further line takes away leaves cur in its range.
CurRange ==
  \/ cur \in 0..SIZE
  \/ /\ cur \in WORD - SIZE..WORD - 1
     /\ \E z \in 0..SIZE : buf[z] = NUL /\ z <= cur - (WORD - SIZE)

\* A read is only made where cur has not wrapped, and stays in the buffer.
LEMMA ReadKeepsRange == ASSUME IInv, CurRange, Read PROVE CurRange'
<1>1. /\ SIZE \in Nat \ {0} /\ WORD \in Nat /\ WORD >= 3 * SIZE
      /\ cur \in Nat
  BY InputBufferAssumption DEF InputBufferAssumption, IInv, Types
<1>2. PICK n \in 1..Room : cur' = cur + n
  BY DEF Read
<1>3. cur' \in 0..SIZE
  BY <1>1, <1>2 DEF Room
<1> QED BY <1>3 DEF CurRange

\* A line takes no more from a wrapped cur than lies before the zero byte.
LEMMA HandleLineKeepsRange == ASSUME IInv, CurRange, HandleLine PROVE CurRange'
<1>1. /\ SIZE \in Nat \ {0} /\ WORD \in Nat /\ WORD >= 3 * SIZE
      /\ cur \in Nat /\ buf \in [0..SIZE -> Byte]
      /\ buf[SIZE] = NUL /\ NL # NUL
  BY InputBufferAssumption DEF InputBufferAssumption, IInv, Types
<1>2. PICK ret \in LineEnds : buf' = Shifted(ret) /\ cur' = Rest(ret)
  BY DEF HandleLine
<1>3. ret \in 0..SIZE /\ \A j \in 0..ret : buf[j] # NUL
  BY <1>2 DEF LineEnds
<1>4. ret \in 0..SIZE - 1
  BY <1>1, <1>3
<1>5. buf' = [i \in 0..SIZE |-> IF i < SIZE - ret THEN buf[ret + 1 + i]
                              ELSE IF i = ret THEN NUL ELSE buf[i]]
  <2>1. Ended(ret) = [i \in 0..SIZE |-> IF i = ret THEN NUL ELSE buf[i]]
    BY <1>1, <1>4 DEF Ended
  <2>2. \A i \in 0..SIZE : i < SIZE - ret =>
          ret + 1 + i \in 0..SIZE /\ ret + 1 + i # ret
    BY <1>1, <1>4
  <2>3. buf' = [i \in 0..SIZE |-> IF i < SIZE - ret THEN Ended(ret)[ret + 1 + i]
                                 ELSE Ended(ret)[i]]
    BY <1>2, <1>1 DEF Shifted, ShiftedFrom
  <2> QED BY <2>1, <2>2, <2>3
<1>6. ASSUME NEW z \in 0..SIZE, buf[z] = NUL
      PROVE  z - (ret + 1) \in 0..SIZE /\ buf'[z - (ret + 1)] = NUL
  <2>1. z > ret
    BY <1>3, <1>4, <1>6
  <2>2. z - (ret + 1) \in 0..SIZE /\ z - (ret + 1) < SIZE - ret
    BY <1>1, <1>4, <2>1
  <2>3. ret + 1 + (z - (ret + 1)) = z
    BY <1>4
  <2> QED BY <1>5, <1>6, <2>2, <2>3
<1>7. cur' = IF ret + 1 <= cur THEN cur - (ret + 1) ELSE cur + WORD - (ret + 1)
  BY <1>2 DEF Rest, Less
<1>8. CASE cur \in 0..SIZE /\ ret + 1 <= cur
  <2>1. cur' \in 0..SIZE
    BY <1>1, <1>4, <1>7, <1>8
  <2> QED BY <2>1 DEF CurRange
<1>9. CASE cur \in 0..SIZE /\ ~(ret + 1 <= cur)
  <2>1. cur' \in WORD - SIZE..WORD - 1 /\ SIZE - (ret + 1) <= cur' - (WORD - SIZE)
    BY <1>1, <1>4, <1>7, <1>9
  <2>2. SIZE - (ret + 1) \in 0..SIZE /\ buf'[SIZE - (ret + 1)] = NUL
    BY <1>1, <1>6
  <2> QED BY <2>1, <2>2 DEF CurRange
<1>10. CASE ~(cur \in 0..SIZE)
  <2>1. PICK z \in 0..SIZE :
          /\ cur \in WORD - SIZE..WORD - 1
          /\ buf[z] = NUL /\ z <= cur - (WORD - SIZE)
    BY <1>10 DEF CurRange
  <2>2. z - (ret + 1) \in 0..SIZE /\ buf'[z - (ret + 1)] = NUL
    BY <1>6, <2>1
  <2>3. cur' \in WORD - SIZE..WORD - 1 /\ z - (ret + 1) <= cur' - (WORD - SIZE)
    BY <1>1, <1>4, <1>7, <2>1, <2>2
  <2> QED BY <2>2, <2>3 DEF CurRange
<1> QED BY <1>8, <1>9, <1>10

\* TypeOK: whatever is typed, and however often the unsigned cur wraps, it is in
\* the buffer or within SIZE of the largest number, where TooLong ends the
\* process before a read could write there.
THEOREM InputTypeCorrect == Spec => []TypeOK
<1>1. Init => CurRange
  BY InputBufferAssumption DEF InputBufferAssumption, Init, CurRange
<1>2. IInv /\ CurRange /\ [Next]_vars => CurRange'
  <2> SUFFICES ASSUME IInv, CurRange, [Next]_vars PROVE CurRange'
    OBVIOUS
  <2>1. CASE TooLong
    BY <2>1 DEF TooLong, CurRange
  <2>2. CASE Read
    BY <2>2, ReadKeepsRange
  <2>3. CASE HandleLine
    BY <2>3, HandleLineKeepsRange
  <2>4. CASE UNCHANGED vars
    BY <2>4 DEF vars, CurRange
  <2> QED BY <2>1, <2>2, <2>3, <2>4 DEF Next
<1>3. IInv /\ CurRange => TypeOK
  BY DEF IInv, Types, CurRange, TypeOK
<1> QED BY <1>1, <1>2, <1>3, InputInvariance, PTL DEF Spec
=============================================================================
