----------------------------- MODULE MCUploader -----------------------------
(***************************************************************************)
(* Instances of Uploader for TLC: what the clients fetch.                  *)
(***************************************************************************)
EXTENDS Uploader

CONSTANTS A, B, c1, c2

\* A fetches two chunks, B one that A also fetches.
PlanTurns == [k \in Clients |-> IF k = A THEN <<c1, c2>> ELSE <<c2>>]

\* Each fetches one chunk.
PlanEach == [k \in Clients |-> IF k = A THEN <<c1>> ELSE <<c2>>]
=============================================================================
