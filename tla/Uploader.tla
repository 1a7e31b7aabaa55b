------------------------------ MODULE Uploader ------------------------------
(***************************************************************************)
(* The uploading half of a peer: sessions with several clients, one after  *)
(* the other or at once.  The sessions share data_list, the ring of        *)
(* buffered packets, and sender_timerid, the variable that names "the"     *)
(* sender timer.  A client is a downloader that fetches its chunks one     *)
(* after the other from this peer, as case 3 does; it only asks for chunks *)
(* that were offered to it.                                                *)
(*                                                                         *)
(* The body of a packet is the chunk and the packet its bytes were read    *)
(* from; byte counters count packets, as in Transfer.                      *)
(*                                                                         *)
(* A definition named X_Slip is X with a slip a programmer could make; the *)
(* specification never uses it.                                            *)
(***************************************************************************)
EXTENDS Link, SList, Timers, FiniteSets

CONSTANTS
  Clients,
  Chunks,
  Plan,       \* client |-> the chunks it fetches, in this order
  PACKETS,    \* packets of a chunk: 512 in the code
  WINDOW,     \* slots of data_list, and packets on the way at a time: 8 in the code
  MAX_CONN,   \* config.max_conn
  PROMPT      \* TRUE: a timer expires only when nothing is in flight

UploaderAssumption ==
  /\ Plan \in [Clients -> Seq(Chunks)]
  /\ PACKETS \in Nat /\ WINDOW \in Nat \ {0} /\ WINDOW <= PACKETS
  /\ MAX_CONN \in Nat
  /\ PROMPT \in BOOLEAN

ASSUME UploaderAssumption

RESEND_AT == 2     \* duplicate ACKs that trigger a resend

VARIABLES
  s_states,                \* the sessions in the order they were made
  data_list,               \* the packets buffered, or NoList
  timers, sender_timerid,  \* see Timers; the owner of a timer is a position in s_states
  ended,                   \* why the process ended, or "no"
  toClient, toServer,      \* client |-> the datagrams in flight to it, and from it
  asked,                   \* client |-> how many chunks of its plan it has asked for
  status,                  \* client |-> "idle", "receiving", or "failed" by the SHA-1
  ack_number,              \* client |-> packets stored of the chunk asked for last
  correct,                 \* client |-> those were all that chunk's own bytes
  receiver_timer,          \* client |-> its receiver timer is armed
  lost,                    \* history: the network has lost a datagram
  overlapped               \* history: a session was opened while another one was open

serverVars == <<s_states, data_list, timers, sender_timerid, ended>>
clientVars == <<asked, status, ack_number, correct, receiver_timer>>
vars == <<serverVars, toClient, toServer, clientVars, lost, overlapped>>

NoList    == <<>>                      \* data_list == NULL
Garbage   == <<>>                      \* the bytes of a new element of data_list
Destroyed == [client |-> "none"]       \* the empty state destroy_s_state leaves

Bodies == Chunks \X (1..PACKETS + WINDOW)

Session ==
  [client : Clients, chunk : Chunks, last_packet_acked : 0..PACKETS,
   duplicated_acks_count : 0..RESEND_AT, last_packet_available : 0..PACKETS + WINDOW,
   last_packet_sent : 0..PACKETS, sent_count : 0..PACKETS]

Request == [type : {"GET"}, chunk : Chunks] \cup [type : {"ACK"}, ack : 0..PACKETS]

TypeOK ==
  /\ s_states \in Seq(Session \cup {Destroyed})
  /\ data_list \in [1..WINDOW -> Bodies \cup {Garbage}] \cup {NoList}
  /\ timers \in Seq([owner : DOMAIN s_states, armed : BOOLEAN, alive : BOOLEAN])
  /\ sender_timerid \in {NULL} \cup 0..Len(timers)-1
  /\ ended \in {"no", "timer_settime", "assert", "undefined"}
  /\ toClient \in [Clients -> Seq([seq : 1..PACKETS, body : Bodies \cup {Garbage}])]
  /\ toServer \in [Clients -> Seq(Request)]
  /\ asked \in [Clients -> Nat] /\ \A k \in Clients : asked[k] <= Len(Plan[k])
  /\ status \in [Clients -> {"idle", "receiving", "failed"}]
  /\ ack_number \in [Clients -> 0..PACKETS]
  /\ correct \in [Clients -> BOOLEAN] /\ receiver_timer \in [Clients -> BOOLEAN]
  /\ lost \in BOOLEAN /\ overlapped \in BOOLEAN

Init ==
  /\ s_states = <<>> /\ data_list = NoList
  /\ timers = <<>> /\ sender_timerid = NULL
  /\ ended = "no"
  /\ toClient = [k \in Clients |-> <<>>] /\ toServer = [k \in Clients |-> <<>>]
  /\ asked = [k \in Clients |-> 0] /\ status = [k \in Clients |-> "idle"]
  /\ ack_number = [k \in Clients |-> 0] /\ correct = [k \in Clients |-> TRUE]
  /\ receiver_timer = [k \in Clients |-> FALSE]
  /\ lost = FALSE /\ overlapped = FALSE

-----------------------------------------------------------------------------
(* The shared buffer and what is sent from it. *)

Slot(p) == (p - 1) % WINDOW

\* Slip: the bytes are read from pos * 1024, not (pos - 1) * 1024.
Buffered_Next(list, c, lo, hi) ==
  [j \in 1..WINDOW |->
     LET written == {p \in lo..hi : Slot(p) = j - 1 /\ p > hi - WINDOW}
     IN  IF written # {} THEN <<c, 1 + CHOOSE p \in written : TRUE>>
         ELSE IF list = NoList THEN Garbage ELSE list[j]]

\* data_list after buffer_sending_data for packets lo, ..., hi of chunk c: a new
\* list if there is none; an element is the last packet replaced into its slot, or
\* what it was before.
Buffered(list, c, lo, hi) ==
  [j \in 1..WINDOW |->
     LET written == {p \in lo..hi : Slot(p) = j - 1 /\ p > hi - WINDOW}
     IN  IF written # {} THEN <<c, CHOOSE p \in written : TRUE>>
         ELSE IF list = NoList THEN Garbage ELSE list[j]]

\* The DATA packet send_data builds for packet p.
Data(list, p) == [seq |-> p, body |-> Find(list, Slot(p))]

\* The DATA packets of n first-time sends after packet p.
Burst(list, p, n) == [i \in 1..n |-> Data(list, p + i)]

SendTo(k, burst) == toClient' = [toClient EXCEPT ![k] = Enqueue(@, burst)]

\* send_data(..., p, ..., resend = 1) for session s: nothing once the whole chunk
\* has been sent.
Resend(s, p) ==
  IF s.sent_count > PACKETS - 1 THEN UNCHANGED toClient
                                ELSE SendTo(s.client, <<Data(data_list, p)>>)

\* Slip: send_data lacks its first test.
Sendable_Unbounded(s, n) == n

\* Slip: the limit is one packet too low.
Sendable_Short(s, n) == Min({n, Max({0, PACKETS - 1 - s.sent_count})})

\* How many of n first-time sends of session s are let through.
Sendable(s, n) == Min({n, PACKETS - s.sent_count})

-----------------------------------------------------------------------------
(* The sessions. *)

\* The sessions of client k that are not destroyed.
Open(k) == {i \in DOMAIN s_states : s_states[i] # Destroyed /\ s_states[i].client = k}

\* Those among them that find_s_state can find: it looks at MAX_CONN slots.
Found(k) == {i \in Open(k) : i <= MAX_CONN}

\* The position of the session find_s_state returns; there must be one.
FindSState(k) == Min(Found(k))

\* The process takes in the message at position i of what client k has sent.
Takes(k, i) ==
  /\ ended = "no"
  /\ \E rest \in After(toServer[k], i) : toServer' = [toServer EXCEPT ![k] = rest]
  /\ UNCHANGED <<clientVars, lost>>

\* A session after init_server_state and state_sending_chunk.
NewSession(k, c) ==
  [client |-> k, chunk |-> c, last_packet_acked |-> 0, duplicated_acks_count |-> 0,
   last_packet_available |-> 0, last_packet_sent |-> 0, sent_count |-> 0]

\* case 2, for a chunk the peer has, since clients ask only for what was offered: a
\* session with a timer of its own, whose number replaces the one in sender_timerid;
\* the first window is buffered and sent.
RecvGet(k, m) ==
  /\ m.type = "GET"
  /\ s_states' = Append(s_states,
       [NewSession(k, m.chunk) EXCEPT !.last_packet_available = WINDOW,
                                      !.last_packet_sent = WINDOW,
                                      !.sent_count = WINDOW])
  /\ data_list' = Buffered(data_list, m.chunk, 1, WINDOW)
  /\ sender_timerid' = NewId(timers)
  /\ timers' = Arm(Create(timers, Len(s_states')), sender_timerid')
  /\ SendTo(k, Burst(data_list', 0, WINDOW))
  /\ overlapped' = (overlapped \/ \E j \in Clients : Open(j) # {})
  /\ UNCHANGED ended

\* The process ends: nothing of it matters any more.
Halt(why) ==
  /\ ended' = why
  /\ UNCHANGED <<s_states, data_list, timers, sender_timerid, toClient>>

\* The session found becomes s.
Updated(k, s) == s_states' = [s_states EXCEPT ![FindSState(k)] = s]

Restarted == timers' = Arm(timers, sender_timerid)

\* case 4 without a session: ignored.
StrayAck == UNCHANGED <<serverVars, toClient>>

\* case 4 first sets the timer; one that does not exist ends the process.
AckTimerLost ==
  /\ ~Exists(timers, sender_timerid)
  /\ Halt("timer_settime")

Duplicates(s) == Min({s.duplicated_acks_count + 1, RESEND_AT})

\* A duplicate ACK; the second one in a row resends.  slist_find, here, and
\* slist_destroy, in FinalAck, assert that there is a list: see AckMeetsList.
DuplicateAck(k, a, s) ==
  /\ Exists(timers, sender_timerid)
  /\ a = s.last_packet_acked
  /\ IF Duplicates(s) < RESEND_AT THEN UNCHANGED toClient
     ELSE data_list # NoList /\ Resend(s, a + 1)
  /\ Updated(k, [s EXCEPT !.duplicated_acks_count = Duplicates(s)])
  /\ Restarted
  /\ UNCHANGED <<data_list, sender_timerid, ended>>

OlderAck(k, a, s) ==
  /\ Exists(timers, sender_timerid)
  /\ a < s.last_packet_acked
  /\ Updated(k, [s EXCEPT !.duplicated_acks_count = 0])
  /\ Restarted
  /\ UNCHANGED <<data_list, sender_timerid, ended, toClient>>

\* A normal ACK below PACKETS: the window moves by d packets.
NormalAck(k, a, s) ==
  /\ Exists(timers, sender_timerid)
  /\ a > s.last_packet_acked /\ a < PACKETS
  /\ LET d == a - s.last_packet_acked
         n == Sendable(s, d)
     IN  /\ data_list' = Buffered(data_list, s.chunk, s.last_packet_available + 1,
                                  s.last_packet_available + d)
         /\ SendTo(k, Burst(data_list', s.last_packet_sent, n))
         /\ Updated(k, [s EXCEPT !.duplicated_acks_count = 0,
                                 !.last_packet_acked = a,
                                 !.last_packet_available = @ + d,
                                 !.last_packet_sent = @ + n,
                                 !.sent_count = @ + n])
  /\ Restarted
  /\ UNCHANGED <<sender_timerid, ended>>

\* What is left of session s in s_states.
Closed(s) == Destroyed

\* Slip: the list is kept for the next session.
Emptied_Kept(list) == list

\* What slist_destroy and the next statement leave of data_list.
Emptied(list) == NoList

\* Slip: the timer is neither stopped nor deleted.
Finished_Running(tms) == tms

\* The timers after the last ACK of a session: the one named is deleted.
Finished(tms) == Delete(tms, sender_timerid)

\* The ACK of the last packet: the session, its timer and data_list go.
FinalAck(k, a, s) ==
  /\ Exists(timers, sender_timerid)
  /\ a > s.last_packet_acked /\ a >= PACKETS
  /\ data_list # NoList
  /\ data_list' = Emptied(data_list)
  /\ Updated(k, Closed(s))
  /\ timers' = Finished(timers)
  /\ UNCHANGED <<sender_timerid, ended, toClient>>

\* case 4: ACK a of client k is for the session find_s_state returns.
Ack(k, a) ==
  IF Found(k) = {} THEN StrayAck
  ELSE LET s == s_states[FindSState(k)]
       IN  \/ AckTimerLost
           \/ DuplicateAck(k, a, s) \/ OlderAck(k, a, s)
           \/ NormalAck(k, a, s) \/ FinalAck(k, a, s)

Serve(k) ==
  \E i \in Arrivals(toServer[k]) :
    /\ Takes(k, i)
    /\ \/ RecvGet(k, toServer[k][i])
       \/ /\ toServer[k][i].type = "ACK"
          /\ Ack(k, toServer[k][i].ack)
          /\ UNCHANGED overlapped

MayExpire == PROMPT => \A k \in Clients : toClient[k] = <<>> /\ toServer[k] = <<>>

Expires(t) == ended = "no" /\ timers[t].armed /\ MayExpire

Owner(t) == s_states[timers[t].owner]

\* sender_timer_handler resends the packet its session sent last.
SenderTimer(t) ==
  /\ Expires(t)
  /\ data_list # NoList
  /\ Owner(t) # Destroyed
  /\ Resend(Owner(t), Owner(t).last_packet_sent)
  /\ UNCHANGED <<serverVars, toServer, clientVars, lost, overlapped>>

\* The session was freed: the handler follows what its memory holds now, and
\* ends the process or, by luck, sends nothing, which is a stuttering step.
StaleTimer(t) ==
  /\ Expires(t)
  /\ data_list # NoList
  /\ Owner(t) = Destroyed
  /\ Halt("undefined")
  /\ UNCHANGED <<toServer, clientVars, lost, overlapped>>

TimerListLost(t) ==
  /\ Expires(t)
  /\ data_list = NoList
  /\ Halt("assert")
  /\ UNCHANGED <<toServer, clientVars, lost, overlapped>>

-----------------------------------------------------------------------------
(* The clients. *)

Wanted(k) == Plan[k][asked[k]]

\* case 1: client k asks for its next chunk.
AskNext(k) ==
  /\ status[k] = "idle"
  /\ asked[k] < Len(Plan[k])
  /\ asked' = [asked EXCEPT ![k] = @ + 1]
  /\ toServer' = [toServer EXCEPT ![k] =
                    Enqueue(@, <<[type |-> "GET", chunk |-> Plan[k][asked[k] + 1]]>>)]
  /\ status' = [status EXCEPT ![k] = "receiving"]
  /\ ack_number' = [ack_number EXCEPT ![k] = 0]
  /\ correct' = [correct EXCEPT ![k] = TRUE]
  /\ UNCHANGED <<serverVars, toClient, receiver_timer, lost, overlapped>>

\* The DATA packet m arrives at client k.
DataArrives(k, m) ==
  /\ \E i \in Arrivals(toClient[k]) :
       /\ m = toClient[k][i]
       /\ \E rest \in After(toClient[k], i) : toClient' = [toClient EXCEPT ![k] = rest]
  /\ UNCHANGED <<serverVars, asked, lost, overlapped>>

\* Slip: the packet that came is acknowledged, not the last one in order.
AckFor_Seq(k, seq) == seq

\* The acknowledgement a DATA packet is answered with.
AckFor(k, seq) == IF seq = ack_number[k] + 1 THEN seq ELSE ack_number[k]

Acknowledge(k, a) ==
  toServer' = [toServer EXCEPT ![k] = Enqueue(@, <<[type |-> "ACK", ack |-> a]>>)]

\* case 3, the expected packet: stored and acknowledged; the hash decides at the end.
ExpectedData(k, m) ==
  /\ status[k] = "receiving"
  /\ m.seq = ack_number[k] + 1
  /\ DataArrives(k, m)
  /\ Acknowledge(k, AckFor(k, m.seq))
  /\ ack_number' = [ack_number EXCEPT ![k] = m.seq]
  /\ correct' = [correct EXCEPT ![k] = @ /\ m.body = <<Wanted(k), m.seq>>]
  /\ status' = IF m.seq < PACKETS THEN status
               ELSE [status EXCEPT ![k] = IF correct'[k] THEN "idle" ELSE "failed"]
  /\ receiver_timer' = [receiver_timer EXCEPT ![k] = m.seq < PACKETS]

\* case 3, any other packet: the last ACK is repeated.
UnexpectedData(k, m) ==
  /\ status[k] # "idle"
  /\ m.seq # ack_number[k] + 1
  /\ DataArrives(k, m)
  /\ Acknowledge(k, AckFor(k, m.seq))
  /\ receiver_timer' = [receiver_timer EXCEPT ![k] = status[k] = "receiving"]
  /\ UNCHANGED <<status, ack_number, correct>>

\* case 3 without a connection: ignored.
StrayData(k, m) ==
  /\ status[k] = "idle"
  /\ DataArrives(k, m)
  /\ UNCHANGED <<toServer, status, ack_number, correct, receiver_timer>>

ReceiverTimer(k) ==
  /\ receiver_timer[k]
  /\ MayExpire
  /\ Acknowledge(k, ack_number[k])
  /\ UNCHANGED <<serverVars, toClient, clientVars, lost, overlapped>>

-----------------------------------------------------------------------------
\* The network loses the datagram at position i of a queue.
LoseData(k, i) ==
  /\ Loses(toClient[k], RemoveAt(toClient[k], i))
  /\ toClient' = [toClient EXCEPT ![k] = RemoveAt(@, i)]
  /\ lost' = TRUE
  /\ UNCHANGED <<serverVars, clientVars, toServer, overlapped>>

LoseRequest(k, i) ==
  /\ Loses(toServer[k], RemoveAt(toServer[k], i))
  /\ toServer' = [toServer EXCEPT ![k] = RemoveAt(@, i)]
  /\ lost' = TRUE
  /\ UNCHANGED <<serverVars, clientVars, toClient, overlapped>>

Lose(k) ==
  \/ \E i \in Arrivals(toClient[k]) : LoseData(k, i)
  \/ \E i \in Arrivals(toServer[k]) : LoseRequest(k, i)

Timer == \E t \in DOMAIN timers : SenderTimer(t) \/ StaleTimer(t) \/ TimerListLost(t)

Receive(k) ==
  \E m \in Range(toClient[k]) :
    ExpectedData(k, m) \/ UnexpectedData(k, m) \/ StrayData(k, m)

Next ==
  \/ \E k \in Clients :
       Serve(k) \/ AskNext(k) \/ Receive(k) \/ ReceiverTimer(k) \/ Lose(k)
  \/ Timer

Spec == Init /\ [][Next]_vars

-----------------------------------------------------------------------------
(* Safety. *)

\* The uploader was written for this: never two sessions at once, and no more in
\* the life of the process than s_states has slots.
Alone == ~overlapped /\ Len(s_states) <= MAX_CONN

\* What a client stores are the bytes of the chunk it asked for, whatever is lost
\* and resent, although the sessions before it have written the same ring and
\* destroyed it.
OwnBytes == Alone => \A k \in Clients : correct[k]

\* ACKs have no chunk in them and find their session by the client's address
\* alone; it is the session of the chunk the client is receiving, and the two
\* agree up to a window.
AckFindsItsSession ==
  \A k \in Clients :
    Alone /\ status[k] = "receiving" /\ ack_number[k] > 0 =>
      /\ Found(k) # {}
      /\ LET s == s_states[FindSState(k)]
         IN  /\ s.chunk = Wanted(k)
             /\ s.last_packet_acked <= ack_number[k]
             /\ ack_number[k] <= s.last_packet_sent

\* The peer survives: case 4 never sets a timer that is gone, no timer fires for a
\* session that was freed, and nothing is looked up in a list that is gone.
NeverEnds == Alone => ended = "no"

\* What the sessions share is given back by the last one: when none is open,
\* data_list is NULL and no sender timer is armed.
IdleIsClean ==
  Alone /\ (\A k \in Clients : Open(k) = {}) =>
    /\ data_list = NoList
    /\ \A t \in DOMAIN timers : ~timers[t].armed

\* Sessions that run at once do not disturb each other's counters: each has
\* buffered one window more than was acknowledged, and sent what it has buffered
\* as far as the chunk goes.
CountersAgree ==
  \A i \in DOMAIN s_states :
    LET s == s_states[i]
    IN  s # Destroyed =>
          /\ s.last_packet_available = s.last_packet_acked + WINDOW
          /\ s.last_packet_sent = Min({s.last_packet_available, PACKETS})
          /\ s.sent_count = s.last_packet_sent

\* Sessions that run at once take data_list from each other, but case 4 never looks
\* into a list that is gone: the last ACK of a session deletes the timer in
\* sender_timerid as well, so that the next ACK of another session ends the process
\* before it gets to the list.
AckMeetsList == Exists(timers, sender_timerid) => data_list # NoList

\* "assert(s)" of slist_find: it is never given a NULL list.
ListIsThere == ended # "assert"

-----------------------------------------------------------------------------
(* Liveness. *)

\* The peer and its clients handle every datagram that arrives; timers need not
\* expire.
Fairness == \A k \in Clients : WF_vars(Serve(k)) /\ WF_vars(Receive(k))

FairSpec == Spec /\ Fairness

\* A client that has asked for a chunk gets it, session after session, if the
\* network loses nothing.
Served ==
  \A k \in Clients : status[k] = "receiving" ~> (status[k] = "idle" \/ lost \/ ~Alone)
=============================================================================
