------------------------------- MODULE Timers -------------------------------
(***************************************************************************)
(* The interval timers a peer asks the kernel for.  The kernel numbers     *)
(* timers from 0 in the order they are created and never reuses a number;  *)
(* timer n is element n + 1 of the sequence of timers.  The code writes    *)
(* NULL into a timer variable for "no timer", which is the number 0.       *)
(***************************************************************************)
EXTENDS Integers, Sequences

NULL == 0

\* timer_create: a new timer, not armed, whose expiry passes owner to its handler.
Create(timers, owner) == Append(timers, [owner |-> owner, armed |-> FALSE, alive |-> TRUE])

\* The number of the timer that Create makes.
NewId(timers) == Len(timers)

Exists(timers, id) == id + 1 \in DOMAIN timers /\ timers[id + 1].alive

\* timer_settime on a timer that exists, with a period or, to disarm it, with 0.
Arm(timers, id)    == [timers EXCEPT ![id + 1].armed = TRUE]
Disarm(timers, id) == [timers EXCEPT ![id + 1].armed = FALSE]

\* timer_delete: fails without a trace when there is no such timer.
Delete(timers, id) ==
  IF Exists(timers, id)
    THEN [timers EXCEPT ![id + 1].alive = FALSE, ![id + 1].armed = FALSE]
    ELSE timers
=============================================================================
