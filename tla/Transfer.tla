------------------------------ MODULE Transfer ------------------------------
(***************************************************************************)
(* One chunk on its way from an uploader to a downloader: the GET, the     *)
(* window of DATA packets, cumulative and duplicate ACKs, and the two      *)
(* retransmission timers of peer.c.                                        *)
(*                                                                         *)
(* Packets are numbered from 1 as in the code.  The body of a DATA packet  *)
(* is the number of the chunk's packet its 1024 bytes were read from; a    *)
(* number above PACKETS stands for bytes of the file after the chunk.      *)
(* Byte counters count packets.  Each handler is one action: the timer it  *)
(* could race with is disarmed by its first statement.                     *)
(*                                                                         *)
(* A definition named X_Slip is X with a slip a programmer could make; the *)
(* specification never uses it.  It shows that a property notices the slip.*)
(***************************************************************************)
EXTENDS Link

CONSTANTS
  PACKETS,   \* packets of a chunk: 512 in the code
  WINDOW,    \* slots of data_list, and packets on the way at a time: 8 in the code
  PROMPT     \* TRUE: a timer expires only when nothing is in flight

TransferAssumption ==
  /\ PACKETS \in Nat
  /\ WINDOW \in Nat \ {0}
  /\ WINDOW <= PACKETS
  /\ PROMPT \in BOOLEAN

ASSUME TransferAssumption

RESEND_AT == 2     \* duplicate ACKs that trigger a resend

VARIABLES
  get,                     \* the GET is in flight
  toClient, toServer,      \* the DATA packets and the ACKs in flight
  session,                 \* s_state: "idle" before the GET, "sending", "done" when destroyed
  last_packet_acked, duplicated_acks_count,
  last_packet_available,   \* the last packet read into data_list
  last_packet_sent,
  sent_count,              \* sent_byte_num, in packets
  data_list,               \* slot |-> packet buffered in it, or NoList
  sender_timer,            \* the sender timer is armed
  status,                  \* c_state: "receiving", then "verified" or "failed" by its SHA-1
  ack_number,
  temp_data,               \* the bodies stored so far
  receiver_timer           \* the receiver timer is armed

counters == <<last_packet_acked, duplicated_acks_count, last_packet_available,
              last_packet_sent, sent_count, data_list>>
serverVars == <<session, counters, sender_timer>>
clientVars == <<status, ack_number, temp_data, receiver_timer>>
vars == <<get, toClient, toServer, serverVars, clientVars>>

NoList == <<>>     \* data_list == NULL

FlagsOK ==
  /\ get \in BOOLEAN
  /\ sender_timer \in BOOLEAN
  /\ receiver_timer \in BOOLEAN

TypeOK ==
  /\ FlagsOK
  /\ toClient \in Seq([seq : Nat, body : Nat])
  /\ toServer \in Seq(0..PACKETS)
  /\ session \in {"idle", "sending", "done"}
  /\ last_packet_acked \in 0..PACKETS
  /\ duplicated_acks_count \in 0..RESEND_AT
  /\ last_packet_available \in 0..PACKETS + WINDOW
  /\ last_packet_sent \in 0..PACKETS
  /\ sent_count \in 0..PACKETS
  /\ data_list \in [0..WINDOW-1 -> 1..PACKETS + WINDOW] \cup {NoList}
  /\ status \in {"receiving", "verified", "failed"}
  /\ ack_number \in 0..PACKETS
  /\ temp_data \in Seq(Nat)

\* The downloader has sent its GET (case 1 of process_inbound_udp) and made its
\* c_state; its timer is created unarmed.
Init ==
  /\ get = TRUE
  /\ toClient = <<>> /\ toServer = <<>>
  /\ session = "idle"
  /\ last_packet_acked = 0 /\ duplicated_acks_count = 0
  /\ last_packet_available = 0 /\ last_packet_sent = 0 /\ sent_count = 0
  /\ data_list = NoList
  /\ sender_timer = FALSE
  /\ status = "receiving" /\ ack_number = 0 /\ temp_data = <<>>
  /\ receiver_timer = FALSE

-----------------------------------------------------------------------------
(* The uploader's buffer and what it puts on the wire. *)

Slot(p) == (p - 1) % WINDOW

\* Slip: packet p is put in slot p % 8 instead of (p - 1) % 8.
Buffered_Slip(ring, lo, hi) ==
  [k \in 0..WINDOW-1 |->
     LET written == {p \in lo..hi : p % WINDOW = k /\ p > hi - WINDOW}
     IN  IF written = {} THEN ring[k] ELSE CHOOSE p \in written : TRUE]

\* data_list after buffer_sending_data for lo, ..., hi: a slot keeps the last
\* packet written to it, and its old one when none is.
Buffered(ring, lo, hi) ==
  [k \in 0..WINDOW-1 |->
     LET written == {p \in lo..hi : Slot(p) = k /\ p > hi - WINDOW}
     IN  IF written = {} THEN ring[k] ELSE CHOOSE p \in written : TRUE]

\* Slip: packet p is looked up at p % 8 instead of (p - 1) % 8.
Data_Slip(ring, p) == [seq |-> p, body |-> ring[p % WINDOW]]

\* The DATA packet send_data builds for packet p.
Data(ring, p) == [seq |-> p, body |-> ring[Slot(p)]]

\* The DATA packets of n first-time sends after packet p.
Burst(ring, p, n) == [i \in 1..n |-> Data(ring, p + i)]

\* send_data returns at once when the whole chunk has been sent once.
Exhausted(count) == count > PACKETS - 1

\* What is in flight after send_data(data_list[Slot(p)], p, ..., resend = 1).
Resent(p) ==
  IF Exhausted(sent_count) THEN toClient
                           ELSE Enqueue(toClient, <<Data(data_list, p)>>)

\* Slip: send_data lacks its first test.
Sendable_Unbounded(n) == n

\* How many of n first-time sends are still let through.
Sendable(n) ==
  IF n <= PACKETS - sent_count THEN n ELSE PACKETS - sent_count

-----------------------------------------------------------------------------
(* The uploader. *)

\* case 2: the GET arrives; the first window is buffered and sent.
RecvGet ==
  /\ get
  /\ get' = FALSE
  /\ session' = "sending"
  /\ data_list' = Buffered(data_list, 1, WINDOW)
  /\ last_packet_available' = WINDOW
  /\ toClient' = Enqueue(toClient, Burst(data_list', 0, WINDOW))
  /\ last_packet_sent' = WINDOW
  /\ sent_count' = WINDOW
  /\ sender_timer' = TRUE
  /\ UNCHANGED <<toServer, last_packet_acked, duplicated_acks_count, clientVars>>

\* The ACK at position i of the queue arrives.
AckArrives(i) ==
  /\ i \in Arrivals(toServer)
  /\ toServer' \in After(toServer, i)

\* Slip: the packet that was acknowledged is resent.
Missing_Acked == last_packet_acked

\* Slip: the packet sent last is resent, as in the timer handler.
Missing_Last == last_packet_sent

\* The packet that duplicate ACKs ask for.
Missing == last_packet_acked + 1

\* Slip: the session ends one acknowledgement early.
LastAck_Early(a) == a >= PACKETS - 1

\* An ACK after which the chunk is done.
LastAck(a) == a >= PACKETS

\* case 4, ack_number == last_packet_acked: the second one in a row resends.
DuplicateAck ==
  /\ session = "sending"
  /\ \E i \in DOMAIN toServer :
       AckArrives(i) /\ toServer[i] = last_packet_acked
  /\ duplicated_acks_count' =
       IF duplicated_acks_count < RESEND_AT THEN duplicated_acks_count + 1
                                            ELSE RESEND_AT
  /\ toClient' = IF duplicated_acks_count' >= RESEND_AT
                   THEN Resent(Missing) ELSE toClient
  /\ sender_timer' = TRUE
  /\ UNCHANGED <<get, session, last_packet_acked, last_packet_available,
                 last_packet_sent, sent_count, data_list, clientVars>>

\* case 4, ack_number < last_packet_acked: thrown away.
OlderAck ==
  /\ session = "sending"
  /\ \E i \in DOMAIN toServer :
       AckArrives(i) /\ toServer[i] < last_packet_acked
  /\ duplicated_acks_count' = 0
  /\ sender_timer' = TRUE
  /\ UNCHANGED <<get, toClient, session, last_packet_acked,
                 last_packet_available, last_packet_sent, sent_count,
                 data_list, clientVars>>

\* case 4, a normal ACK below PACKETS: the window moves by d packets.
Advance(a) ==
  LET d == a - last_packet_acked
      n == Sendable(d)
  IN  /\ data_list' = Buffered(data_list, last_packet_available + 1,
                               last_packet_available + d)
      /\ last_packet_available' = last_packet_available + d
      /\ last_packet_acked' = a
      /\ toClient' = Enqueue(toClient, Burst(data_list', last_packet_sent, n))
      /\ last_packet_sent' = last_packet_sent + n
      /\ sent_count' = sent_count + n

NormalAck ==
  /\ session = "sending"
  /\ \E i \in DOMAIN toServer :
       /\ AckArrives(i)
       /\ toServer[i] > last_packet_acked
       /\ ~LastAck(toServer[i])
       /\ Advance(toServer[i])
  /\ duplicated_acks_count' = 0
  /\ sender_timer' = TRUE
  /\ UNCHANGED <<get, session, clientVars>>

\* case 4, the ACK of the last packet: the session and data_list are destroyed.
FinalAck ==
  /\ session = "sending"
  /\ \E i \in DOMAIN toServer :
       /\ AckArrives(i)
       /\ toServer[i] > last_packet_acked
       /\ LastAck(toServer[i])
  /\ session' = "done"
  /\ data_list' = NoList
  /\ duplicated_acks_count' = 0
  /\ sender_timer' = FALSE
  /\ UNCHANGED <<get, toClient, last_packet_acked, last_packet_available,
                 last_packet_sent, sent_count, clientVars>>

\* case 4 without an s_state: ignored.
StrayAck ==
  /\ session # "sending"
  /\ \E i \in DOMAIN toServer : AckArrives(i)
  /\ UNCHANGED <<get, toClient, serverVars, clientVars>>

MayExpire == PROMPT => toClient = <<>> /\ toServer = <<>>

\* sender_timer_handler resends the last packet sent.
SenderTimer ==
  /\ sender_timer
  /\ MayExpire
  /\ toClient' = Resent(last_packet_sent)
  /\ UNCHANGED <<get, toServer, serverVars, clientVars>>

-----------------------------------------------------------------------------
(* The downloader. *)

\* The DATA packet at position i of the queue arrives.
DataArrives(i) ==
  /\ i \in Arrivals(toClient)
  /\ toClient' \in After(toClient, i)

\* Slip: the packet that came is acknowledged, not the last one in order.
AckFor_Seq(seq) == seq

\* The acknowledgement a DATA packet is answered with.
AckFor(seq) == IF seq = ack_number + 1 THEN seq ELSE ack_number

SendAck(a) == toServer' = Enqueue(toServer, <<a>>)

\* The SHA-1 of the stored bytes is that of the chunk.
HashMatches(stored) == stored = [i \in 1..PACKETS |-> i]

\* case 3, the expected packet: acknowledged and stored; when the chunk is
\* complete the timer is deleted and the hash decides.
ExpectedData ==
  /\ status = "receiving"
  /\ \E i \in DOMAIN toClient :
       /\ DataArrives(i)
       /\ toClient[i].seq = ack_number + 1
       /\ temp_data' = Append(temp_data, toClient[i].body)
       /\ SendAck(AckFor(toClient[i].seq))
  /\ ack_number' = ack_number + 1
  /\ IF Len(temp_data') >= PACKETS
       THEN /\ receiver_timer' = FALSE
            /\ status' = IF HashMatches(temp_data') THEN "verified" ELSE "failed"
       ELSE /\ receiver_timer' = TRUE
            /\ UNCHANGED status
  /\ UNCHANGED <<get, serverVars>>

\* case 3, any other packet: the last ACK is repeated.  A chunk whose hash
\* failed keeps its c_state but has no timer of its own any more.
UnexpectedData ==
  /\ status # "verified"
  /\ \E i \in DOMAIN toClient :
       /\ DataArrives(i)
       /\ toClient[i].seq # ack_number + 1
       /\ SendAck(AckFor(toClient[i].seq))
  /\ receiver_timer' = (status = "receiving")
  /\ UNCHANGED <<get, serverVars, status, ack_number, temp_data>>

\* case 3 without a c_state: ignored.
StrayData ==
  /\ status = "verified"
  /\ \E i \in DOMAIN toClient : DataArrives(i)
  /\ UNCHANGED <<get, toServer, serverVars, clientVars>>

\* receiver_timer_handler repeats the last ACK.
ReceiverTimer ==
  /\ receiver_timer
  /\ MayExpire
  /\ SendAck(ack_number)
  /\ UNCHANGED <<get, toClient, serverVars, clientVars>>

-----------------------------------------------------------------------------
LoseGet ==
  /\ get
  /\ "lose" \in Faults
  /\ get' = FALSE
  /\ UNCHANGED <<toClient, toServer, serverVars, clientVars>>

LoseData ==
  /\ Loses(toClient, toClient')
  /\ UNCHANGED <<get, toServer, serverVars, clientVars>>

LoseAck ==
  /\ Loses(toServer, toServer')
  /\ UNCHANGED <<get, toClient, serverVars, clientVars>>

Server == RecvGet \/ DuplicateAck \/ OlderAck \/ NormalAck \/ FinalAck
            \/ StrayAck \/ SenderTimer
Client == ExpectedData \/ UnexpectedData \/ StrayData \/ ReceiverTimer
Network == LoseGet \/ LoseData \/ LoseAck

Next == Server \/ Client \/ Network

Spec == Init /\ [][Next]_vars

-----------------------------------------------------------------------------
(* Safety. *)

\* What is stored is the chunk's bytes in order, without a gap or a repeat, and
\* what is acknowledged is what is stored: no stale slot of data_list, no
\* duplicate and no late packet is ever stored in another packet's place.
StoredInOrder ==
  /\ Len(temp_data) = ack_number
  /\ \A i \in DOMAIN temp_data : temp_data[i] = i

\* While a session is open, data_list holds every packet that may still have to
\* be resent: the slots of the window are not overwritten early by new packets.
RingHoldsWindow ==
  session = "sending" =>
    \A p \in last_packet_acked + 1 .. last_packet_acked + WINDOW :
      data_list[Slot(p)] = p

\* The two ends never disagree by more than a window: the uploader believes at
\* most what the downloader has, and the downloader has at most what was sent.
WindowAgreement ==
  /\ last_packet_acked <= ack_number
  /\ session # "idle" =>
       /\ ack_number <= last_packet_sent
       /\ last_packet_sent <= last_packet_acked + WINDOW
       /\ session = "sending" => last_packet_acked < PACKETS

\* A DATA packet numbered low+1..high, within the chunk, that carries its own bytes.
InWindow(m, low, high) ==
  /\ m.seq > low
  /\ m.seq <= high
  /\ m.seq <= PACKETS
  /\ m.body = m.seq

\* No step puts a packet on the wire that is outside the window, resends
\* included, nor one whose bytes are not its own.
SendsWithinWindow ==
  [][ \A i \in DOMAIN toClient' \ DOMAIN toClient :
        InWindow(toClient'[i], last_packet_acked, last_packet_acked' + WINDOW) ]_vars

Delivery == INSTANCE ChunkDelivery WITH stored <- temp_data

\* The transfer implements the abstract delivery of one chunk: the chunk is
\* accepted exactly when it is whole, is never rejected by its hash, and the
\* uploader closes only after the downloader has accepted it.
DeliversChunk == Delivery!Spec

-----------------------------------------------------------------------------
(* The inductive invariant: what makes the safety properties true. *)

\* A DATA packet that carries the bytes of its own number, up to n.
Genuine(n) == {[seq |-> p, body |-> p] : p \in 1..n}

\* Everything in flight is genuine, was sent, and acknowledges only what is stored.
WireInv ==
  /\ toClient \in Seq(Genuine(last_packet_sent))
  /\ toServer \in Seq(0..ack_number)

\* The counters move together: one window is buffered, and sent as far as the
\* chunk goes.
CountersInv ==
  IF session = "idle"
    THEN /\ last_packet_acked = 0
         /\ last_packet_available = 0
         /\ last_packet_sent = 0
         /\ sent_count = 0
         /\ ~sender_timer
    ELSE /\ ~get
         /\ last_packet_available = last_packet_acked + WINDOW
         /\ last_packet_sent = IF last_packet_available <= PACKETS
                                 THEN last_packet_available ELSE PACKETS
         /\ sent_count = last_packet_sent

SessionInv ==
  /\ session = "sending" => /\ last_packet_acked < PACKETS
                            /\ data_list \in [0..WINDOW-1 -> 1..PACKETS + WINDOW]
  /\ session = "done" => ack_number = PACKETS /\ ~sender_timer

ClientInv ==
  /\ last_packet_acked <= ack_number
  /\ ack_number <= last_packet_sent
  /\ temp_data = [i \in 1..ack_number |-> i]
  /\ status = IF ack_number < PACKETS THEN "receiving" ELSE "verified"

\* Every reachable state satisfies this, and every step preserves it: the state
\* of both ends and of both queues in the terms that the window's safety rests on.
Inv ==
  /\ TypeOK
  /\ WireInv
  /\ CountersInv
  /\ SessionInv
  /\ RingHoldsWindow
  /\ ClientInv

-----------------------------------------------------------------------------
(* Liveness. *)

\* The loop of peer_run handles every datagram that arrives, an armed interval
\* timer expires again and again, and a packet that is resent for ever is not
\* lost every time.
Fairness ==
  /\ WF_vars(RecvGet)
  /\ SF_vars(ExpectedData) /\ SF_vars(UnexpectedData) /\ SF_vars(StrayData)
  /\ SF_vars(DuplicateAck) /\ SF_vars(OlderAck) /\ SF_vars(NormalAck)
  /\ SF_vars(FinalAck) /\ SF_vars(StrayAck)
  /\ WF_vars(SenderTimer) /\ WF_vars(ReceiverTimer)

FairSpec == Spec /\ Fairness

\* Whatever a network loses, short of losing everything, duplicate ACKs and the
\* two timers bring an open session to its last window: every packet of the
\* chunk has been sent.
ReachesLastWindow == session = "sending" ~> last_packet_sent = PACKETS

\* "resend packet %d" (case 4 of process_inbound_udp): the second duplicate ACK
\* puts the packet after last_packet_acked on the wire, if the queue has room.
DuplicateAckResends ==
  [][ DuplicateAck /\ duplicated_acks_count' = RESEND_AT /\ Len(toClient) < CAP
        => \E i \in DOMAIN toClient' :
             toClient'[i].seq = last_packet_acked + 1 ]_vars
=============================================================================
