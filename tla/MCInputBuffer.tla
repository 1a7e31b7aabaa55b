--------------------------- MODULE MCInputBuffer ----------------------------
(* An instance of InputBuffer for TLC: two letters that may be exchanged. *)
EXTENDS InputBuffer, TLC

CONSTANTS a, b

Letters == Permutations({a, b})
=============================================================================
