------------------------------ MODULE Download ------------------------------
(***************************************************************************)
(* What a GET command promises, without WHOHAS, IHAVE, timers or packets:  *)
(* the wanted chunks are fetched from peers, a chunk from one peer at a    *)
(* time and of a peer one chunk at a time, and a chunk is wanted until a   *)
(* fetch of it has succeeded.                                              *)
(***************************************************************************)
CONSTANTS Want,      \* the chunks of the GET command
          Peers

VARIABLES started,   \* a GET command has been given
          wanted,    \* the chunks still wanted
          fetching   \* the fetches under way, as pairs of a chunk and a peer

vars == <<started, wanted, fetching>>

Init ==
  /\ started = FALSE
  /\ wanted = {}
  /\ fetching = {}

\* The first GET command; later ones add nothing.
Start ==
  /\ ~started
  /\ started' = TRUE
  /\ wanted' = Want
  /\ UNCHANGED fetching

Fetch(c, p) ==
  /\ c \in wanted
  /\ \A f \in fetching : f[1] # c /\ f[2] # p
  /\ fetching' = fetching \cup {<<c, p>>}
  /\ UNCHANGED <<started, wanted>>

\* The bytes of the chunk are right.
Succeed(c, p) ==
  /\ <<c, p>> \in fetching
  /\ fetching' = fetching \ {<<c, p>>}
  /\ wanted' = wanted \ {c}
  /\ UNCHANGED started

\* They are not.
Fail(c, p) ==
  /\ <<c, p>> \in fetching
  /\ fetching' = fetching \ {<<c, p>>}
  /\ UNCHANGED <<started, wanted>>

Next ==
  \/ Start
  \/ \E c \in Want, p \in Peers : Fetch(c, p) \/ Succeed(c, p) \/ Fail(c, p)

Spec == Init /\ [][Next]_vars
=============================================================================
