--------------------------- MODULE ChunkDelivery ---------------------------
(***************************************************************************)
(* What moving one chunk from an uploader to a downloader promises: the    *)
(* bytes that are stored are the chunk's, in order and each packet once;   *)
(* the chunk is accepted exactly when it is whole; and the uploader closes *)
(* its session only after that.  How packets are numbered, acknowledged,   *)
(* lost and resent is left to the implementation.                          *)
(***************************************************************************)
EXTENDS Integers, Sequences

CONSTANT PACKETS   \* packets of one chunk

VARIABLES
  session,         \* the uploader: "idle", "sending" or "done"
  status,          \* the downloader: "receiving" or "verified"
  stored           \* the packets of the chunk the downloader has stored

vars == <<session, status, stored>>

Init ==
  /\ session = "idle"
  /\ status = "receiving"
  /\ stored = <<>>

\* The uploader accepts the request.
Accept ==
  /\ session = "idle"
  /\ session' = "sending"
  /\ UNCHANGED <<status, stored>>

\* The next packet is stored; the last one makes the chunk complete.
Store ==
  /\ session = "sending"
  /\ status = "receiving"
  /\ stored' = Append(stored, Len(stored) + 1)
  /\ status' = IF Len(stored') = PACKETS THEN "verified" ELSE "receiving"
  /\ UNCHANGED session

\* The uploader learns that the chunk has arrived.
Close ==
  /\ session = "sending"
  /\ status = "verified"
  /\ session' = "done"
  /\ UNCHANGED <<status, stored>>

Next == Accept \/ Store \/ Close

Spec == Init /\ [][Next]_vars
=============================================================================
