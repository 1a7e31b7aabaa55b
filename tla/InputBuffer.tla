----------------------------- MODULE InputBuffer -----------------------------
(***************************************************************************)
(* The buffer that collects what the user types until a line is complete.  *)
(* process_user_input reads once and then handles every line it finds; the *)
(* two parts are actions here, and Read waits until no line is left.       *)
(*                                                                         *)
(* A definition named X_Slip is X with a slip a programmer could make; the *)
(* specification never uses it.                                            *)
(***************************************************************************)
EXTENDS Integers, Sequences

CONSTANTS
  SIZE,       \* USERBUF_SIZE: 8191 in the code
  WORD,       \* one more than the largest unsigned int
  Chars,      \* the characters a user types, without the newline
  NL, NUL     \* newline and zero byte

InputBufferAssumption ==
  /\ SIZE \in Nat \ {0}
  /\ WORD \in Nat /\ WORD >= 3 * SIZE
  /\ NL \notin Chars /\ NUL \notin Chars /\ NL # NUL

ASSUME InputBufferAssumption

VARIABLES
  buf,        \* the SIZE + 1 bytes from malloc
  cur,        \* the offset at which the next read puts its bytes
  exited,     \* the process ended: "buffer full; line too long!"
  half,       \* history: there were never more than (SIZE + 1) / 2 bytes in buf
  typed,      \* history, while half: what was read and not yet handled
  faithful    \* history, while half: every line handled is the line typed

vars == <<buf, cur, exited, half, typed, faithful>>

Byte == Chars \cup {NL, NUL}

TypeOK ==
  /\ buf \in [0..SIZE -> Byte]
  /\ cur \in 0..SIZE \cup WORD-SIZE..WORD-1
  /\ exited \in BOOLEAN /\ half \in BOOLEAN /\ faithful \in BOOLEAN
  /\ typed \in Seq(Chars \cup {NL})

\* create_userbuf
Init ==
  /\ buf = [i \in 0..SIZE |-> NUL]
  /\ cur = 0
  /\ exited = FALSE
  /\ half = TRUE /\ typed = <<>> /\ faithful = TRUE

-----------------------------------------------------------------------------
\* Where strchr finds a newline: before the first zero byte.
LineEnds ==
  {i \in 0..SIZE : buf[i] = NL /\ \A j \in 0..i : buf[j] # NUL /\ (buf[j] = NL => j = i)}

Full == cur >= SIZE - 1

\* Slip: the terminating zero is taken for room.
Room_Long == SIZE + 1 - cur

\* How many bytes read is allowed to return.
Room == SIZE - cur

\* The buffer is full, or cur is out of range, and the process ends.
TooLong ==
  /\ LineEnds = {} /\ ~exited /\ Full
  /\ exited' = TRUE
  /\ UNCHANGED <<buf, cur, half, typed, faithful>>

\* read returns what was typed, up to Room bytes of it.
Read ==
  /\ LineEnds = {} /\ ~exited /\ ~Full
  /\ \E n \in 1..Room : \E input \in [1..n -> Chars \cup {NL}] :
       /\ buf' = [i \in DOMAIN buf \cup cur..cur + n - 1 |->
                    IF i \in cur..cur + n - 1 THEN input[i - cur + 1] ELSE buf[i]]
       /\ cur' = cur + n
       /\ half' = (half /\ 2 * cur' <= SIZE + 1)
       /\ typed' = IF half' THEN typed \o input ELSE <<>>
  /\ UNCHANGED <<exited, faithful>>

\* Slip: the newline stays at the front.
Shifted_From(ret) == ret

\* The first byte that memmove takes to the front.
ShiftedFrom(ret) == ret + 1

\* The buffer when the newline at ret has become the end of a string.
Ended(ret) == [buf EXCEPT ![ret] = NUL]

\* The buffer after memmove: SIZE - ret bytes move, the others stay as they are,
\* the zero byte at ret among them when no more than ret bytes move.
Shifted(ret) ==
  [i \in DOMAIN buf |->
     IF i < SIZE - ret THEN Ended(ret)[ShiftedFrom(ret) + i] ELSE Ended(ret)[i]]

\* n bytes less in the buffer; cur is unsigned and wraps.
Less(n) == IF n <= cur THEN cur - n ELSE cur + WORD - n

\* Slip: the newline is not counted.
Rest_Newline(ret) == Less(ret)

\* cur after a line of ret bytes and its newline are gone.
Rest(ret) == Less(ret + 1)

\* The line that ends at ret is handled and taken out of the buffer.
HandleLine ==
  /\ ~exited
  /\ \E ret \in LineEnds :
       /\ buf' = Shifted(ret)
       /\ cur' = Rest(ret)
       /\ faithful' = (faithful /\ (half =>
            /\ ret < Len(typed)
            /\ [i \in 1..ret + 1 |-> buf[i - 1]] = SubSeq(typed, 1, ret + 1)))
       /\ typed' = SubSeq(typed, ret + 2, Len(typed))
  /\ UNCHANGED <<exited, half>>

Next == TooLong \/ Read \/ HandleLine

Spec == Init /\ [][Next]_vars

-----------------------------------------------------------------------------
\* strchr always finds an end, and no read reaches beyond the memory: whatever is
\* typed, and however much of it stays behind in the buffer, its last byte is 0.
Terminated == buf[SIZE] = NUL /\ DOMAIN buf = 0..SIZE

\* Every line typed is handled once and unchanged, in order, and what is not yet
\* a line is kept, as long as the buffer is never more than half full.  Beyond
\* that, memmove leaves a copy of its last bytes behind the new end, and the next
\* read may join them to what is typed then.
LinesAsTyped ==
  half =>
    /\ faithful
    /\ cur = Len(typed)
    /\ typed = [i \in 1..cur |-> buf[i - 1]]
=============================================================================
