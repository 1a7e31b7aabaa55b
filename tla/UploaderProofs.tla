--------------------------- MODULE UploaderProofs ---------------------------
(***************************************************************************)
(* The sessions of an uploader, for any number of clients and chunks and   *)
(* any network: their counters agree although they share a ring, and as    *)
(* long as they follow one another none of them ends the process or leaves *)
(* anything behind.  Over a network that keeps datagrams in order, clients *)
(* that take turns get their own bytes.                                    *)
(***************************************************************************)
EXTENDS Uploader, LinkProofs, SListProofs

\* The positions of the sessions that are not destroyed.
Sessions == {i \in DOMAIN s_states : s_states[i] # Destroyed}

Packets == [seq : 1..PACKETS, body : Bodies \cup {Garbage}]
TimersOf(O) == [owner : O, armed : BOOLEAN, alive : BOOLEAN]
Lists == [1..WINDOW -> Bodies \cup {Garbage}]

\* The counters of a session.
Agrees(s) ==
  /\ s.last_packet_available = s.last_packet_acked + WINDOW
  /\ s.last_packet_sent = Min({s.last_packet_available, PACKETS})
  /\ s.sent_count = s.last_packet_sent

ServerTypes ==
  /\ s_states \in Seq(Session \cup {Destroyed})
  /\ data_list \in Lists \cup {NoList}
  /\ timers \in Seq(TimersOf(DOMAIN s_states))
  /\ sender_timerid \in {NULL} \cup 0..Len(timers)-1
  /\ ended \in {"no", "timer_settime", "assert", "undefined"}
  /\ lost \in BOOLEAN /\ overlapped \in BOOLEAN

ClientTypes ==
  /\ toServer \in [Clients -> Seq(Request)]
  /\ asked \in [Clients -> Nat] /\ \A k \in Clients : asked[k] <= Len(Plan[k])
  /\ status \in [Clients -> {"idle", "receiving", "failed"}]
  /\ ack_number \in [Clients -> 0..PACKETS]
  /\ correct \in [Clients -> BOOLEAN] /\ receiver_timer \in [Clients -> BOOLEAN]

\* Sessions that follow one another: the only one that is open owns the timer that
\* sender_timerid names, no other timer is armed, and there is a list while it is open.
OneAtATime ==
  /\ ended = "no"
  /\ Len(timers) = Len(s_states)
  /\ \A i \in Sessions : sender_timerid + 1 = i /\ timers[i].alive /\ data_list # NoList
  /\ \A n \in DOMAIN timers : timers[n].owner = n /\ (timers[n].armed => n \in Sessions)
  /\ Sessions = {} => data_list = NoList

AloneInv == Alone => OneAtATime

ServerInv ==
  /\ ServerTypes
  /\ toClient \in [Clients -> Seq(Packets)]
  /\ \A i \in Sessions : Agrees(s_states[i])
  /\ AloneInv

Inv == ServerInv /\ ClientTypes

-----------------------------------------------------------------------------
(* Facts about the operators. *)

LEMMA Bounds ==
  /\ PACKETS \in Nat \ {0} /\ WINDOW \in Nat \ {0} /\ WINDOW <= PACKETS /\ MAX_CONN \in Nat
  /\ Plan \in [Clients -> Seq(Chunks)]
BY UploaderAssumption DEF UploaderAssumption

LEMMA SlotRange == \A p \in Int : Slot(p) \in 0..WINDOW-1
<1>1. WINDOW \in Nat \ {0}
  BY Bounds
<1> QED  BY <1>1 DEF Slot

\* The empty state is no session.
LEMMA DestroyedIsNone == Destroyed \notin Session
<1> SUFFICES ASSUME Destroyed \in Session PROVE FALSE
  OBVIOUS
<1>1. "chunk" \in DOMAIN Destroyed
  BY DEF Session
<1> QED  BY <1>1 DEF Destroyed

\* A buffer that is written is a list of packets.
LEMMA BufferedIsList ==
  ASSUME NEW list \in Lists \cup {NoList}, NEW c \in Chunks,
         NEW lo \in Nat \ {0}, NEW hi \in Nat, hi <= PACKETS + WINDOW
  PROVE  Buffered(list, c, lo, hi) \in Lists /\ Buffered(list, c, lo, hi) # NoList
<1> DEFINE written(j) == {p \in lo..hi : Slot(p) = j - 1 /\ p > hi - WINDOW}
<1>1. PACKETS \in Nat /\ WINDOW \in Nat \ {0}
  BY Bounds
<1>2. ASSUME NEW j \in 1..WINDOW
      PROVE  (IF written(j) # {} THEN <<c, CHOOSE p \in written(j) : TRUE>>
              ELSE IF list = NoList THEN Garbage ELSE list[j]) \in Bodies \cup {Garbage}
  <2>1. CASE written(j) # {}
    <3>1. (CHOOSE p \in written(j) : TRUE) \in written(j)
      BY <2>1
    <3>2. (CHOOSE p \in written(j) : TRUE) \in 1..PACKETS + WINDOW
      BY <3>1, <1>1
    <3> QED  BY <2>1, <3>2 DEF Bodies
  <2>2. CASE written(j) = {}
    BY <2>2 DEF Lists
  <2> QED  BY <2>1, <2>2
<1>3. Buffered(list, c, lo, hi) \in Lists
  BY <1>2 DEF Buffered, Lists
<1>4. DOMAIN Buffered(list, c, lo, hi) = 1..WINDOW /\ DOMAIN NoList = {}
  BY DEF Buffered, NoList
<1> QED  BY <1>1, <1>3, <1>4

LEMMA DataIsPacket ==
  ASSUME NEW list \in Lists, NEW p \in 1..PACKETS
  PROVE  Data(list, p) \in Packets
<1>1. PACKETS \in Nat /\ WINDOW \in Nat \ {0} /\ p \in Int
  BY Bounds
<1>2. Slot(p) + 1 \in 1..WINDOW
  BY <1>1, SlotRange
<1> QED  BY <1>2 DEF Data, Find, Packets, Lists

LEMMA BurstIsPackets ==
  ASSUME NEW list \in Lists, NEW p \in Nat, NEW n \in Nat, p + n <= PACKETS
  PROVE  Burst(list, p, n) \in Seq(Packets)
<1>1. PACKETS \in Nat
  BY Bounds
<1>2. \A i \in 1..n : p + i \in 1..PACKETS
  BY <1>1
<1>3. \A i \in 1..n : Data(list, p + i) \in Packets
  BY <1>2, DataIsPacket
<1>4. Burst(list, p, n) \in [1..n -> Packets]
  BY <1>3 DEF Burst
<1> QED  BY <1>4, NumberedIsSeq

\* What the counters of a session say of each other.
LEMMA SessionCounters ==
  ASSUME NEW s \in Session, Agrees(s)
  PROVE  /\ s.last_packet_acked \in 0..PACKETS
         /\ s.last_packet_available = s.last_packet_acked + WINDOW
         /\ s.sent_count = s.last_packet_sent /\ s.last_packet_sent \in 1..PACKETS
         /\ s.last_packet_sent = IF s.last_packet_acked + WINDOW <= PACKETS
                                   THEN s.last_packet_acked + WINDOW ELSE PACKETS
         /\ s.client \in Clients /\ s.chunk \in Chunks
         /\ s.duplicated_acks_count \in 0..RESEND_AT
<1>1. PACKETS \in Nat \ {0} /\ WINDOW \in Nat \ {0}
  BY Bounds
<1>2. s.last_packet_acked \in 0..PACKETS /\ s.last_packet_available = s.last_packet_acked + WINDOW
  BY DEF Session, Agrees
<1>3. Min({s.last_packet_available, PACKETS}) =
        IF s.last_packet_available <= PACKETS THEN s.last_packet_available ELSE PACKETS
  BY <1>1, <1>2, MinOfTwo
<1> QED  BY <1>1, <1>2, <1>3 DEF Session, Agrees

\* The session find_s_state returns is an open session of that client.
LEMMA FoundIsOpen ==
  ASSUME ServerTypes, NEW k \in Clients, Found(k) # {}
  PROVE  /\ FindSState(k) \in Sessions
         /\ s_states[FindSState(k)] \in Session
         /\ s_states[FindSState(k)].client = k
<1>1. Found(k) \subseteq Nat
  BY DEF Found, Open, ServerTypes
<1>2. FindSState(k) \in Found(k)
  BY <1>1, NatMin DEF FindSState
<1> QED  BY <1>2 DEF Found, Open, Sessions, ServerTypes

-----------------------------------------------------------------------------
(* What the uploader does. *)

\* Takes: the requests that stay in flight are requests; the clients change nothing.
LEMMA TakesInv ==
  ASSUME ClientTypes, NEW k \in Clients, NEW i \in Arrivals(toServer[k]), Takes(k, i)
  PROVE  ClientTypes' /\ toServer[k][i] \in Request /\ lost' = lost /\ ended = "no"
<1>1. PICK rest \in After(toServer[k], i) : toServer' = [toServer EXCEPT ![k] = rest]
  BY DEF Takes
<1>2. toServer[k] \in Seq(Request)
  BY DEF ClientTypes
<1>3. rest \in Seq(Request) /\ toServer[k][i] \in Request
  BY <1>2, AfterKeeps
<1>4. toServer' \in [Clients -> Seq(Request)]
  BY <1>1, <1>3 DEF ClientTypes
<1> QED  BY <1>3, <1>4 DEF Takes, ClientTypes, clientVars

\* Packets sent to a client join what is in flight to it.
LEMMA SendToTypes ==
  ASSUME toClient \in [Clients -> Seq(Packets)], NEW k, NEW b \in Seq(Packets),
         SendTo(k, b)
  PROVE  toClient' \in [Clients -> Seq(Packets)]
<1>1. CASE k \in Clients
  <2>1. Enqueue(toClient[k], b) \in Seq(Packets)
    BY <1>1, EnqueueKeeps
  <2> QED  BY <2>1 DEF SendTo
<1>2. CASE k \notin Clients
  BY <1>2 DEF SendTo
<1> QED  BY <1>1, <1>2

\* A resend that send_data lets through is a packet of the chunk.
LEMMA ResendTypes ==
  ASSUME ServerInv, NEW s \in Session, Agrees(s), data_list # NoList,
         NEW p, p = s.last_packet_acked + 1 \/ p = s.last_packet_sent,
         Resend(s, p)
  PROVE  toClient' \in [Clients -> Seq(Packets)]
<1>1. PACKETS \in Nat \ {0} /\ WINDOW \in Nat \ {0}
  BY Bounds
<1>2. CASE s.sent_count > PACKETS - 1
  BY <1>2 DEF Resend, ServerInv
<1>3. CASE ~ (s.sent_count > PACKETS - 1)
  <2>1. p \in 1..PACKETS
    BY <1>1, <1>3, SessionCounters
  <2>2. data_list \in Lists
    BY DEF ServerInv, ServerTypes
  <2>3. Data(data_list, p) \in Packets
    BY <2>1, <2>2, DataIsPacket
  <2>4. <<Data(data_list, p)>> \in Seq(Packets)
    BY <2>3
  <2>5. SendTo(s.client, <<Data(data_list, p)>>)
    BY <1>3 DEF Resend
  <2> QED  BY <2>4, <2>5, SendToTypes DEF ServerInv
<1> QED  BY <1>2, <1>3

\* Arming a timer changes nothing else.
LEMMA ArmKeeps ==
  ASSUME NEW O, NEW tms \in Seq(TimersOf(O)), NEW id, id + 1 \in DOMAIN tms
  PROVE  /\ Arm(tms, id) \in Seq(TimersOf(O))
         /\ Len(Arm(tms, id)) = Len(tms) /\ DOMAIN Arm(tms, id) = DOMAIN tms
         /\ \A n \in DOMAIN tms :
              /\ Arm(tms, id)[n].owner = tms[n].owner /\ Arm(tms, id)[n].alive = tms[n].alive
              /\ n # id + 1 => Arm(tms, id)[n] = tms[n]
<1> DEFINE u == [tms[id + 1] EXCEPT !.armed = TRUE]
<1>1. Arm(tms, id) = [tms EXCEPT ![id + 1] = u]
  BY DEF Arm
<1>2. tms[id + 1] \in TimersOf(O)
  OBVIOUS
<1>3. u \in TimersOf(O) /\ u.owner = tms[id + 1].owner /\ u.alive = tms[id + 1].alive
  BY <1>2 DEF TimersOf
<1> HIDE DEF u
<1> QED  BY <1>1, <1>3

\* case 4 found a session, changed its counters consistently and started the timer.
LEMMA UpdatedInv ==
  ASSUME ServerInv, NEW k \in Clients, Found(k) # {}, NEW t \in Session, Agrees(t),
         Updated(k, t), Restarted, Exists(timers, sender_timerid),
         data_list' = data_list \/ (data_list' \in Lists /\ data_list' # NoList),
         toClient' \in [Clients -> Seq(Packets)],
         UNCHANGED <<sender_timerid, ended, lost, overlapped>>
  PROVE  ServerInv'
<1> DEFINE f == FindSState(k)
<1>1. f \in Sessions
  BY FoundIsOpen DEF ServerInv
<1>2. s_states' = [s_states EXCEPT ![f] = t]
  BY DEF Updated
<1> HIDE DEF f
<1>3. s_states' \in Seq(Session \cup {Destroyed}) /\ Len(s_states') = Len(s_states)
      /\ DOMAIN s_states' = DOMAIN s_states
  BY <1>1, <1>2 DEF ServerInv, ServerTypes, Sessions
<1>4. Sessions' = Sessions
  BY <1>1, <1>2, <1>3, DestroyedIsNone DEF Sessions
<1>5. /\ timers' \in Seq(TimersOf(DOMAIN s_states))
      /\ Len(timers') = Len(timers) /\ DOMAIN timers' = DOMAIN timers
      /\ \A n \in DOMAIN timers :
           /\ timers'[n].owner = timers[n].owner /\ timers'[n].alive = timers[n].alive
           /\ n # sender_timerid + 1 => timers'[n] = timers[n]
  BY ArmKeeps DEF Restarted, Exists, ServerInv, ServerTypes
<1>6. ServerTypes'
  BY <1>3, <1>5 DEF ServerTypes, ServerInv
<1>7. \A i \in Sessions' : Agrees(s_states[i])'
  <2>1. ASSUME NEW i \in Sessions PROVE Agrees(s_states'[i])
    <3>1. CASE i = f
      BY <1>1, <1>2, <3>1 DEF Sessions
    <3>2. CASE i # f
      BY <1>2, <3>2 DEF Sessions, ServerInv
    <3> QED  BY <3>1, <3>2
  <2> QED  BY <1>4, <2>1 DEF Agrees
<1>8. AloneInv'
  <2> SUFFICES ASSUME Alone' PROVE OneAtATime'
    BY DEF AloneInv
  <2>1. Alone
    BY <1>3 DEF Alone
  <2>2. OneAtATime
    BY <2>1 DEF AloneInv, ServerInv
  <2>3. sender_timerid + 1 = f /\ f \in Sessions /\ f \in DOMAIN timers
    BY <1>1, <2>2 DEF OneAtATime, Exists
  <2>4. ended' = "no" /\ Len(timers') = Len(s_states')
    BY <1>3, <1>5, <2>2 DEF OneAtATime
  <2>5. \A i \in Sessions : sender_timerid + 1 = i /\ timers'[i].alive /\ data_list' # NoList
    BY <1>5, <2>2, <2>3 DEF OneAtATime
  <2>6. \A n \in DOMAIN timers : timers'[n].owner = n /\ (timers'[n].armed => n \in Sessions)
    <3> SUFFICES ASSUME NEW n \in DOMAIN timers
                 PROVE  timers'[n].owner = n /\ (timers'[n].armed => n \in Sessions)
      OBVIOUS
    <3>1. CASE n = sender_timerid + 1
      BY <1>5, <2>2, <2>3, <3>1 DEF OneAtATime
    <3>2. CASE n # sender_timerid + 1
      BY <1>5, <2>2, <3>2 DEF OneAtATime
    <3> QED  BY <3>1, <3>2
  <2> QED  BY <1>4, <1>5, <2>3, <2>4, <2>5, <2>6 DEF OneAtATime
<1> QED  BY <1>6, <1>7, <1>8 DEF ServerInv

\* The sessions, their list and their timers stay as they are.
LEMMA ServerUnchanged ==
  ASSUME ServerInv, UNCHANGED <<serverVars, overlapped>>, lost' \in BOOLEAN,
         toClient' \in [Clients -> Seq(Packets)]
  PROVE  ServerInv'
<1>1. ServerTypes'
  BY DEF ServerInv, ServerTypes, serverVars
<1>2. Sessions' = Sessions /\ Alone' = Alone
  BY DEF Sessions, Alone, serverVars
<1>3. AloneInv'
  BY <1>2 DEF ServerInv, AloneInv, OneAtATime, serverVars
<1>4. \A i \in Sessions' : Agrees(s_states[i])'
  BY <1>2 DEF ServerInv, Agrees, serverVars
<1> QED  BY <1>1, <1>3, <1>4 DEF ServerInv

\* The process only ends where sessions have overlapped.
LEMMA HaltInv ==
  ASSUME ServerInv, ~ Alone, NEW why \in {"timer_settime", "assert", "undefined"},
         Halt(why), UNCHANGED <<lost, overlapped>>
  PROVE  ServerInv'
<1>1. ServerTypes'
  BY DEF ServerInv, ServerTypes, Halt
<1>2. Sessions' = Sessions /\ ~ Alone'
  BY DEF Sessions, Alone, Halt
<1>3. \A i \in Sessions' : Agrees(s_states[i])'
  BY <1>2 DEF ServerInv, Agrees, Halt
<1> QED  BY <1>1, <1>2, <1>3 DEF ServerInv, AloneInv, Halt

\* One at a time, an open session has its timer and its list.
LEMMA AloneHasAll ==
  ASSUME ServerInv, Alone, NEW i \in Sessions
  PROVE  Exists(timers, sender_timerid) /\ data_list # NoList
<1>1. OneAtATime
  BY DEF ServerInv, AloneInv
<1>2. i \in DOMAIN timers
  BY <1>1 DEF OneAtATime, Sessions, ServerInv, ServerTypes
<1> QED  BY <1>1, <1>2 DEF OneAtATime, Exists

LEMMA DuplicateAckInv ==
  ASSUME ServerInv, NEW k \in Clients, Found(k) # {}, NEW a,
         DuplicateAck(k, a, s_states[FindSState(k)]), UNCHANGED <<lost, overlapped>>
  PROVE  ServerInv'
<1> DEFINE s == s_states[FindSState(k)]
           t == [s EXCEPT !.duplicated_acks_count = Duplicates(s)]
<1>1. s \in Session /\ Agrees(s)
  BY FoundIsOpen DEF ServerInv
<1>2. s.duplicated_acks_count \in 0..RESEND_AT
  BY <1>1, SessionCounters
<1>3. Duplicates(s) \in 0..RESEND_AT
  BY <1>2, MinOfTwo DEF Duplicates, RESEND_AT
<1>4. t \in Session /\ Agrees(t)
  BY <1>1, <1>3 DEF Session, Agrees
<1>5. toClient' \in [Clients -> Seq(Packets)]
  <2>1. CASE UNCHANGED toClient
    BY <2>1 DEF ServerInv
  <2>2. CASE data_list # NoList /\ Resend(s, a + 1)
    BY <1>1, <2>2, ResendTypes DEF DuplicateAck
  <2> QED  BY <2>1, <2>2 DEF DuplicateAck
<1>6. Updated(k, t) /\ Restarted /\ Exists(timers, sender_timerid)
      /\ UNCHANGED <<data_list, sender_timerid, ended>>
  BY DEF DuplicateAck
<1> HIDE DEF t
<1> QED  BY <1>4, <1>5, <1>6, UpdatedInv

LEMMA OlderAckInv ==
  ASSUME ServerInv, NEW k \in Clients, Found(k) # {}, NEW a,
         OlderAck(k, a, s_states[FindSState(k)]), UNCHANGED <<lost, overlapped>>
  PROVE  ServerInv'
<1> DEFINE s == s_states[FindSState(k)]
           t == [s EXCEPT !.duplicated_acks_count = 0]
<1>1. s \in Session /\ Agrees(s)
  BY FoundIsOpen DEF ServerInv
<1>2. Updated(k, t) /\ Restarted /\ Exists(timers, sender_timerid)
      /\ UNCHANGED <<data_list, sender_timerid, ended, toClient>>
  BY DEF OlderAck
<1> HIDE DEF s
<1>3. t \in Session /\ Agrees(t)
  BY <1>1 DEF Session, Agrees, RESEND_AT
<1> HIDE DEF t
<1> QED  BY <1>2, <1>3, UpdatedInv DEF ServerInv

\* The window moves by d: what is buffered stays a window ahead, and as much more
\* is sent as the chunk has.
LEMMA NormalAckInv ==
  ASSUME ServerInv, NEW k \in Clients, Found(k) # {}, NEW a \in 0..PACKETS,
         NormalAck(k, a, s_states[FindSState(k)]), UNCHANGED <<lost, overlapped>>
  PROVE  ServerInv'
<1> DEFINE s == s_states[FindSState(k)]
           d == a - s.last_packet_acked
           n == Sendable(s, d)
           t == [s EXCEPT !.duplicated_acks_count = 0,
                          !.last_packet_acked = a,
                          !.last_packet_available = @ + d,
                          !.last_packet_sent = @ + n,
                          !.sent_count = @ + n]
<1>1. PACKETS \in Nat \ {0} /\ WINDOW \in Nat \ {0}
  BY Bounds
<1>2. s \in Session /\ Agrees(s)
  BY FoundIsOpen DEF ServerInv
<1>3. /\ s.last_packet_acked \in Nat /\ s.last_packet_available = s.last_packet_acked + WINDOW
      /\ s.sent_count = s.last_packet_sent /\ s.last_packet_sent \in 1..PACKETS
      /\ s.last_packet_sent = IF s.last_packet_acked + WINDOW <= PACKETS
                                THEN s.last_packet_acked + WINDOW ELSE PACKETS
      /\ s.chunk \in Chunks
  BY <1>1, <1>2, SessionCounters
<1>4. a > s.last_packet_acked /\ a < PACKETS /\ a \in Nat /\ d \in Nat \ {0}
  BY <1>1, <1>3 DEF NormalAck
<1>5. n = IF d <= PACKETS - s.sent_count THEN d ELSE PACKETS - s.sent_count
  BY <1>1, <1>3, <1>4, MinOfTwo DEF Sendable
<1>6. /\ Updated(k, t) /\ Restarted /\ Exists(timers, sender_timerid)
      /\ data_list' = Buffered(data_list, s.chunk, s.last_packet_available + 1,
                               s.last_packet_available + d)
      /\ SendTo(k, Burst(data_list', s.last_packet_sent, n))
      /\ UNCHANGED <<sender_timerid, ended>>
  BY DEF NormalAck
<1> HIDE DEF n, s
<1>7. /\ n \in Nat /\ s.last_packet_sent + n <= PACKETS
      /\ s.last_packet_sent + n = IF a + WINDOW <= PACKETS THEN a + WINDOW ELSE PACKETS
      /\ s.last_packet_available + d = a + WINDOW
      /\ s.last_packet_available + 1 \in Nat \ {0}
  BY <1>1, <1>3, <1>4, <1>5
<1>8. t \in Session /\ t.last_packet_acked = a /\ t.last_packet_available = a + WINDOW
      /\ t.last_packet_sent = s.last_packet_sent + n /\ t.sent_count = t.last_packet_sent
  <2> DEFINE v == a + WINDOW
             l == s.last_packet_sent + n
  <2>1. t = [s EXCEPT !.duplicated_acks_count = 0, !.last_packet_acked = a,
                      !.last_packet_available = v, !.last_packet_sent = l,
                      !.sent_count = l]
    BY <1>3, <1>7
  <2>2. 0 \in 0..RESEND_AT /\ v \in 0..PACKETS + WINDOW /\ l \in 0..PACKETS
    BY <1>1, <1>3, <1>4, <1>7 DEF RESEND_AT
  <2> HIDE DEF t, v, l
  <2>3. /\ t \in Session /\ t.last_packet_acked = a /\ t.last_packet_available = v
        /\ t.last_packet_sent = l /\ t.sent_count = l
    BY <1>1, <1>2, <2>1, <2>2 DEF Session
  <2> QED  BY <2>3 DEF v, l
<1> HIDE DEF t, d
<1>9. Agrees(t)
  <2>1. Min({a + WINDOW, PACKETS}) = IF a + WINDOW <= PACKETS THEN a + WINDOW ELSE PACKETS
    BY <1>1, <1>4, MinOfTwo
  <2> QED  BY <1>7, <1>8, <2>1 DEF Agrees
<1>10. data_list' \in Lists /\ data_list' # NoList
  <2>1. data_list \in Lists \cup {NoList}
    BY DEF ServerInv, ServerTypes
  <2>2. s.last_packet_available + d \in Nat /\ s.last_packet_available + d <= PACKETS + WINDOW
    BY <1>1, <1>4, <1>7
  <2> QED  BY <1>3, <1>6, <1>7, <2>1, <2>2, BufferedIsList
<1>11. toClient' \in [Clients -> Seq(Packets)]
  <2>1. Burst(data_list', s.last_packet_sent, n) \in Seq(Packets)
    BY <1>3, <1>7, <1>10, BurstIsPackets
  <2> QED  BY <1>6, <2>1, SendToTypes DEF ServerInv
<1> QED  BY <1>6, <1>8, <1>9, <1>10, <1>11, UpdatedInv

\* Deleting a timer changes no other.
LEMMA DeleteKeeps ==
  ASSUME NEW O, NEW tms \in Seq(TimersOf(O)), NEW id, Exists(tms, id)
  PROVE  /\ Delete(tms, id) \in Seq(TimersOf(O))
         /\ Len(Delete(tms, id)) = Len(tms) /\ DOMAIN Delete(tms, id) = DOMAIN tms
         /\ \A n \in DOMAIN tms :
              /\ Delete(tms, id)[n].owner = tms[n].owner
              /\ n = id + 1 => ~ Delete(tms, id)[n].armed
              /\ n # id + 1 => Delete(tms, id)[n] = tms[n]
<1> DEFINE u == [tms[id + 1] EXCEPT !.alive = FALSE, !.armed = FALSE]
<1>1. id + 1 \in DOMAIN tms
  BY DEF Exists
<1>2. Delete(tms, id) = [tms EXCEPT ![id + 1] = u]
  BY <1>1 DEF Delete
<1>3. tms[id + 1] \in TimersOf(O)
  BY <1>1
<1>4. u \in TimersOf(O) /\ u.owner = tms[id + 1].owner /\ u.armed = FALSE
  BY <1>3 DEF TimersOf
<1> HIDE DEF u
<1> QED  BY <1>1, <1>2, <1>4

\* The last ACK of the only open session leaves none, no list and no armed timer.
LEMMA FinalAckInv ==
  ASSUME ServerInv, NEW k \in Clients, Found(k) # {}, NEW a,
         FinalAck(k, a, s_states[FindSState(k)]), UNCHANGED <<lost, overlapped>>
  PROVE  ServerInv'
<1> DEFINE f == FindSState(k)
<1>1. f \in Sessions
  BY FoundIsOpen DEF ServerInv
<1>2. /\ s_states' = [s_states EXCEPT ![f] = Destroyed]
      /\ data_list' = NoList /\ timers' = Delete(timers, sender_timerid)
      /\ Exists(timers, sender_timerid) /\ UNCHANGED <<sender_timerid, ended, toClient>>
  BY DEF FinalAck, Updated, Closed, Emptied, Finished
<1> HIDE DEF f
<1>3. s_states' \in Seq(Session \cup {Destroyed}) /\ Len(s_states') = Len(s_states)
      /\ DOMAIN s_states' = DOMAIN s_states
  BY <1>1, <1>2 DEF ServerInv, ServerTypes, Sessions
<1>4. Sessions' = Sessions \ {f}
  BY <1>1, <1>2, <1>3 DEF Sessions
<1>5. /\ timers' \in Seq(TimersOf(DOMAIN s_states))
      /\ Len(timers') = Len(timers) /\ DOMAIN timers' = DOMAIN timers
      /\ \A n \in DOMAIN timers :
           /\ timers'[n].owner = timers[n].owner
           /\ n = sender_timerid + 1 => ~ timers'[n].armed
           /\ n # sender_timerid + 1 => timers'[n] = timers[n]
  <2> DEFINE O == DOMAIN s_states
  <2>1. timers \in Seq(TimersOf(O)) /\ Exists(timers, sender_timerid)
    BY <1>2 DEF ServerInv, ServerTypes
  <2>2. timers' = Delete(timers, sender_timerid)
    BY <1>2
  <2> HIDE DEF O
  <2>3. /\ Delete(timers, sender_timerid) \in Seq(TimersOf(O))
        /\ Len(Delete(timers, sender_timerid)) = Len(timers)
        /\ DOMAIN Delete(timers, sender_timerid) = DOMAIN timers
        /\ \A n \in DOMAIN timers :
             /\ Delete(timers, sender_timerid)[n].owner = timers[n].owner
             /\ n = sender_timerid + 1 => ~ Delete(timers, sender_timerid)[n].armed
             /\ n # sender_timerid + 1 => Delete(timers, sender_timerid)[n] = timers[n]
    BY <2>1, DeleteKeeps
  <2> QED  BY <2>2, <2>3 DEF O
<1>6. ServerTypes'
  BY <1>2, <1>3, <1>5 DEF ServerTypes, ServerInv
<1>7. \A i \in Sessions' : Agrees(s_states[i])'
  <2>1. \A i \in Sessions \ {f} : Agrees(s_states'[i])
    BY <1>2 DEF Sessions, ServerInv
  <2> QED  BY <1>4, <2>1 DEF Agrees
<1>8. AloneInv'
  <2> SUFFICES ASSUME Alone' PROVE OneAtATime'
    BY DEF AloneInv
  <2>1. Alone
    BY <1>3 DEF Alone
  <2>2. OneAtATime
    BY <2>1 DEF AloneInv, ServerInv
  <2>3. sender_timerid + 1 = f /\ Sessions' = {}
    BY <1>1, <1>4, <2>2 DEF OneAtATime
  <2>4. ended' = "no" /\ Len(timers') = Len(s_states')
    BY <1>2, <1>3, <1>5, <2>2 DEF OneAtATime
  <2>5. \A n \in DOMAIN timers : timers'[n].owner = n /\ ~ timers'[n].armed
    <3> SUFFICES ASSUME NEW n \in DOMAIN timers
                 PROVE  timers'[n].owner = n /\ ~ timers'[n].armed
      OBVIOUS
    <3>1. CASE n = f
      BY <1>5, <2>2, <2>3, <3>1 DEF OneAtATime
    <3>2. CASE n # f
      <4>1. n \notin Sessions
        BY <2>2, <2>3, <3>2 DEF OneAtATime
      <4> QED  BY <1>5, <2>2, <2>3, <3>2, <4>1 DEF OneAtATime
    <3> QED  BY <3>1, <3>2
  <2> QED  BY <1>2, <1>5, <2>3, <2>4, <2>5 DEF OneAtATime
<1> QED  BY <1>2, <1>6, <1>7, <1>8 DEF ServerInv

\* A session after its first window has been sent.
LEMMA FirstSession ==
  ASSUME NEW k \in Clients, NEW c \in Chunks
  PROVE  LET s == [NewSession(k, c) EXCEPT !.last_packet_available = WINDOW,
                                           !.last_packet_sent = WINDOW,
                                           !.sent_count = WINDOW]
         IN  /\ s \in Session /\ s.last_packet_acked = 0
             /\ s.last_packet_available = WINDOW
             /\ s.last_packet_sent = WINDOW /\ s.sent_count = WINDOW
<1> DEFINE z == 0
           w == WINDOW
           n == NewSession(k, c)
           s == [n EXCEPT !.last_packet_available = w, !.last_packet_sent = w,
                          !.sent_count = w]
<1>1. /\ z \in 0..PACKETS /\ z \in 0..RESEND_AT
      /\ w \in 0..PACKETS /\ w \in 0..PACKETS + WINDOW /\ z \in 0..PACKETS + WINDOW
  BY Bounds DEF RESEND_AT
<1>2. n = [client |-> k, chunk |-> c, last_packet_acked |-> z,
           duplicated_acks_count |-> z, last_packet_available |-> z,
           last_packet_sent |-> z, sent_count |-> z]
  BY DEF NewSession
<1> HIDE DEF z, n
<1>3. n \in Session /\ n.last_packet_acked = z
  BY <1>1, <1>2 DEF Session
<1> HIDE DEF w
<1>4. s \in Session /\ s.last_packet_acked = z /\ s.last_packet_available = w
      /\ s.last_packet_sent = w /\ s.sent_count = w
  BY <1>1, <1>3 DEF Session
<1> QED  BY <1>4 DEF z, w, n

\* A GET opens a session whose counters agree; if it is the only one, the timer
\* created for it is the one that is named and armed.
LEMMA RecvGetInv ==
  ASSUME ServerInv, ended = "no", NEW k \in Clients, NEW m \in Request,
         RecvGet(k, m), UNCHANGED lost
  PROVE  ServerInv'
<1> DEFINE s == [NewSession(k, m.chunk) EXCEPT !.last_packet_available = WINDOW,
                                               !.last_packet_sent = WINDOW,
                                               !.sent_count = WINDOW]
           l == Len(s_states) + 1
           new == [owner |-> l, armed |-> FALSE, alive |-> TRUE]
<1>1. PACKETS \in Nat \ {0} /\ WINDOW \in Nat \ {0} /\ WINDOW <= PACKETS
  BY Bounds
<1>2. m.chunk \in Chunks
  BY DEF RecvGet, Request
<1>3. /\ s_states' = Append(s_states, s)
      /\ data_list' = Buffered(data_list, m.chunk, 1, WINDOW)
      /\ sender_timerid' = Len(timers)
      /\ timers' = Arm(Create(timers, Len(s_states')), sender_timerid')
      /\ SendTo(k, Burst(data_list', 0, WINDOW))
      /\ overlapped' = (overlapped \/ \E j \in Clients : Open(j) # {})
      /\ ended' = ended
  BY DEF RecvGet, NewId
<1>4. s \in Session /\ s.last_packet_acked = 0 /\ s.last_packet_available = WINDOW
      /\ s.last_packet_sent = WINDOW /\ s.sent_count = WINDOW
  BY <1>2, FirstSession
<1>5. Agrees(s)
  <2>1. Min({WINDOW, PACKETS}) = WINDOW
    BY <1>1, MinOfTwo
  <2> QED  BY <1>1, <1>4, <2>1 DEF Agrees
<1> HIDE DEF s
<1>6. /\ s_states' \in Seq(Session \cup {Destroyed}) /\ Len(s_states') = l
      /\ DOMAIN s_states' = 1..l /\ DOMAIN s_states = 1..l-1 /\ l \in Nat
      /\ s_states'[l] = s /\ \A i \in 1..l-1 : s_states'[i] = s_states[i]
  BY <1>3, <1>4 DEF ServerInv, ServerTypes
<1>7. Sessions' = Sessions \cup {l}
  BY <1>4, <1>6, DestroyedIsNone DEF Sessions
<1>8. data_list' \in Lists /\ data_list' # NoList
  <2>1. data_list \in Lists \cup {NoList}
    BY DEF ServerInv, ServerTypes
  <2>2. 1 \in Nat \ {0} /\ WINDOW \in Nat /\ WINDOW <= PACKETS + WINDOW
    BY <1>1
  <2> QED  BY <1>2, <1>3, <2>1, <2>2, BufferedIsList
<1>9. toClient' \in [Clients -> Seq(Packets)]
  <2>1. Burst(data_list', 0, WINDOW) \in Seq(Packets)
    BY <1>1, <1>8, BurstIsPackets
  <2> QED  BY <1>3, <2>1, SendToTypes DEF ServerInv
<1>10. /\ Create(timers, l) \in Seq(TimersOf(1..l)) /\ Len(timers) \in Nat
       /\ Len(Create(timers, l)) = Len(timers) + 1
       /\ Create(timers, l)[Len(timers) + 1] = new
       /\ \A n \in DOMAIN timers : Create(timers, l)[n] = timers[n]
  <2>1. timers \in Seq(TimersOf(1..l))
    <3>1. TimersOf(1..l-1) \subseteq TimersOf(1..l)
      BY <1>6 DEF TimersOf
    <3> QED  BY <1>6, <3>1, QueueWidens DEF ServerInv, ServerTypes
  <2>2. new \in TimersOf(1..l)
    BY <1>6 DEF TimersOf
  <2>3. Create(timers, l) = Append(timers, new)
    BY DEF Create
  <2> HIDE DEF new, l
  <2> QED  BY <2>1, <2>2, <2>3
<1>11. /\ timers' \in Seq(TimersOf(1..l)) /\ Len(timers') = Len(timers) + 1
       /\ timers'[Len(timers) + 1].owner = l /\ timers'[Len(timers) + 1].alive
       /\ \A n \in DOMAIN timers : timers'[n] = timers[n]
       /\ DOMAIN timers' = DOMAIN timers \cup {Len(timers) + 1}
  <2> DEFINE created == Create(timers, l)
             id == Len(timers)
  <2>1. timers' = Arm(created, id)
    BY <1>3, <1>6
  <2> HIDE DEF created
  <2>2. created \in Seq(TimersOf(1..l)) /\ id + 1 \in DOMAIN created
        /\ DOMAIN created = DOMAIN timers \cup {id + 1} /\ id + 1 \notin DOMAIN timers
    <3>1. id \in Nat /\ Len(created) = id + 1 /\ created \in Seq(TimersOf(1..l))
      BY <1>10 DEF created
    <3>2. DOMAIN created = 1..id + 1
      BY <3>1
    <3>3. timers \in Seq(TimersOf(DOMAIN s_states)) /\ Len(timers) = id
      BY DEF ServerInv, ServerTypes
    <3>4. DOMAIN timers = 1..id
      BY <3>3
    <3> HIDE DEF id
    <3> QED  BY <3>1, <3>2, <3>4
  <2> DEFINE O == 1..l
  <2> HIDE DEF l, id, O
  <2>4. created \in Seq(TimersOf(O)) /\ id + 1 \in DOMAIN created
    BY <2>2 DEF O
  <2>3. /\ Arm(created, id) \in Seq(TimersOf(O))
        /\ Len(Arm(created, id)) = Len(created)
        /\ DOMAIN Arm(created, id) = DOMAIN created
        /\ \A n \in DOMAIN created :
             /\ Arm(created, id)[n].owner = created[n].owner
             /\ Arm(created, id)[n].alive = created[n].alive
             /\ n # id + 1 => Arm(created, id)[n] = created[n]
    BY <2>4, ArmKeeps
  <2> QED  BY <1>10, <2>1, <2>2, <2>3 DEF created, id, O
<1>12. ServerTypes'
  BY <1>3, <1>6, <1>8, <1>10, <1>11 DEF ServerTypes, ServerInv
<1>13. \A i \in Sessions' : Agrees(s_states[i])'
  <2>1. ASSUME NEW i \in Sessions' PROVE Agrees(s_states'[i])
    <3>1. CASE i = l
      BY <1>5, <1>6, <3>1
    <3>2. CASE i # l
      BY <1>6, <1>7, <3>2 DEF ServerInv, Sessions
    <3> QED  BY <3>1, <3>2
  <2> QED  BY <2>1 DEF Agrees
<1>14. AloneInv'
  <2> SUFFICES ASSUME Alone' PROVE OneAtATime'
    BY DEF AloneInv
  <2>1. Alone /\ \A j \in Clients : Open(j) = {}
    <3>1. ~ overlapped' /\ Len(s_states') <= MAX_CONN
      BY DEF Alone
    <3>2. ~ overlapped /\ ~ \E j \in Clients : Open(j) # {}
      BY <1>3, <3>1, Zenon
    <3>3. Len(s_states) <= MAX_CONN
      BY <1>6, <3>1, Bounds
    <3> QED  BY <3>2, <3>3 DEF Alone
  <2>2. OneAtATime
    BY <2>1 DEF AloneInv, ServerInv
  <2>3. Sessions = {}
    <3> SUFFICES ASSUME NEW i \in Sessions PROVE FALSE
      OBVIOUS
    <3>1. s_states[i].client \in Clients
      BY DEF Sessions, ServerInv, ServerTypes, Session
    <3> QED  BY <2>1, <3>1 DEF Open, Sessions
  <2>4. Len(timers) + 1 = l
    BY <2>2 DEF OneAtATime
  <2>5. \A n \in DOMAIN timers' : timers'[n].owner = n /\ (timers'[n].armed => n = l)
    BY <1>11, <2>2, <2>3, <2>4 DEF OneAtATime
  <2> QED  BY <1>3, <1>6, <1>7, <1>8, <1>11, <2>2, <2>3, <2>4, <2>5 DEF OneAtATime
<1> QED  BY <1>9, <1>12, <1>13, <1>14 DEF ServerInv

\* One ACK of a client.
LEMMA AckInv ==
  ASSUME ServerInv, NEW k \in Clients, NEW a \in 0..PACKETS, Ack(k, a),
         UNCHANGED <<lost, overlapped>>
  PROVE  ServerInv'
<1> DEFINE s == s_states[FindSState(k)]
<1>1. CASE Found(k) = {}
  BY <1>1, ServerUnchanged DEF Ack, StrayAck, ServerInv, ServerTypes
<1>2. CASE Found(k) # {}
  <2>1. Alone => Exists(timers, sender_timerid) /\ data_list # NoList
    BY <1>2, FoundIsOpen, AloneHasAll DEF ServerInv
  <2>2. CASE AckTimerLost
    BY <2>1, <2>2, HaltInv DEF AckTimerLost
  <2>4. CASE DuplicateAck(k, a, s) \/ OlderAck(k, a, s)
    BY <1>2, <2>4, DuplicateAckInv, OlderAckInv
  <2>5. CASE NormalAck(k, a, s)
    BY <1>2, <2>5, NormalAckInv
  <2>6. CASE FinalAck(k, a, s)
    BY <1>2, <2>6, FinalAckInv
  <2> QED  BY <1>2, <2>2, <2>4, <2>5, <2>6 DEF Ack
<1> QED  BY <1>1, <1>2

LEMMA ServeInv ==
  ASSUME Inv, NEW k \in Clients, Serve(k)
  PROVE  Inv'
<1>1. PICK i \in Arrivals(toServer[k]) :
        /\ Takes(k, i)
        /\ \/ RecvGet(k, toServer[k][i])
           \/ /\ toServer[k][i].type = "ACK"
              /\ Ack(k, toServer[k][i].ack)
              /\ UNCHANGED overlapped
  BY DEF Serve
<1>2. ClientTypes' /\ toServer[k][i] \in Request /\ lost' = lost /\ ended = "no"
  BY <1>1, TakesInv DEF Inv
<1>3. CASE RecvGet(k, toServer[k][i])
  BY <1>2, <1>3, RecvGetInv DEF Inv
<1>4. CASE /\ toServer[k][i].type = "ACK"
           /\ Ack(k, toServer[k][i].ack)
           /\ UNCHANGED overlapped
  <2>1. toServer[k][i].ack \in 0..PACKETS
    BY <1>2, <1>4 DEF Request
  <2> QED  BY <1>2, <1>4, <2>1, AckInv DEF Inv
<1> QED  BY <1>1, <1>3, <1>4

\* An armed timer is the timer of an open session, as long as there is one at a time.
LEMMA ArmedIsOpen ==
  ASSUME ServerInv, Alone, NEW t \in DOMAIN timers, timers[t].armed
  PROVE  t \in Sessions /\ timers[t].owner = t /\ data_list # NoList
BY DEF ServerInv, AloneInv, OneAtATime

LEMMA TimerInv ==
  ASSUME Inv, Timer
  PROVE  Inv'
<1>1. PICK t \in DOMAIN timers : SenderTimer(t) \/ StaleTimer(t) \/ TimerListLost(t)
  BY DEF Timer
<1>2. ClientTypes'
  BY <1>1 DEF SenderTimer, StaleTimer, TimerListLost, Inv, ClientTypes, clientVars
<1>3. CASE SenderTimer(t)
  <2>1. timers[t].owner \in Sessions /\ Owner(t) \in Session /\ Agrees(Owner(t))
    <3>1. timers[t].owner \in DOMAIN s_states
      <4>1. timers[t] \in TimersOf(DOMAIN s_states)
        BY DEF Inv, ServerInv, ServerTypes
      <4> QED  BY <4>1 DEF TimersOf
    <3>2. timers[t].owner \in Sessions
      BY <1>3, <3>1 DEF SenderTimer, Owner, Sessions
    <3> QED  BY <1>3, <3>1, <3>2
             DEF SenderTimer, Owner, Inv, ServerInv, ServerTypes
  <2>2. toClient' \in [Clients -> Seq(Packets)]
    BY <1>3, <2>1, ResendTypes DEF SenderTimer, Inv
  <2> QED  BY <1>2, <1>3, <2>2, ServerUnchanged DEF SenderTimer, Inv, ServerInv, ServerTypes
<1>4. CASE StaleTimer(t)
  <2>1. ~ Alone
    BY <1>4, ArmedIsOpen DEF StaleTimer, Expires, Owner, Sessions, Inv
  <2> QED  BY <1>2, <1>4, <2>1, HaltInv DEF StaleTimer, Inv
<1>5. CASE TimerListLost(t)
  <2>1. ~ Alone
    BY <1>5, ArmedIsOpen DEF TimerListLost, Expires, Inv
  <2> QED  BY <1>2, <1>5, <2>1, HaltInv DEF TimerListLost, Inv
<1> QED  BY <1>1, <1>3, <1>4, <1>5

-----------------------------------------------------------------------------
(* What the clients and the network do. *)

LEMMA FlagSet ==
  ASSUME NEW f \in [Clients -> BOOLEAN], NEW k \in Clients, NEW b \in BOOLEAN
  PROVE  [f EXCEPT ![k] = b] \in [Clients -> BOOLEAN]
BY Zenon

\* A request or an ACK joins what is in flight to the uploader.
LEMMA SentTypes ==
  ASSUME ClientTypes, NEW k \in Clients, NEW m \in Request,
         toServer' = [toServer EXCEPT ![k] = Enqueue(@, <<m>>)]
  PROVE  toServer' \in [Clients -> Seq(Request)]
<1>1. toServer[k] \in Seq(Request) /\ <<m>> \in Seq(Request)
  BY DEF ClientTypes
<1>2. Enqueue(toServer[k], <<m>>) \in Seq(Request)
  BY <1>1, EnqueueKeeps
<1> QED  BY <1>2 DEF ClientTypes

LEMMA AcknowledgeTypes ==
  ASSUME ClientTypes, NEW k \in Clients, NEW a \in 0..PACKETS, Acknowledge(k, a)
  PROVE  toServer' \in [Clients -> Seq(Request)]
<1>1. [type |-> "ACK", ack |-> a] \in Request
  BY DEF Request
<1> QED  BY <1>1, SentTypes DEF Acknowledge

LEMMA AskNextInv ==
  ASSUME Inv, NEW k \in Clients, AskNext(k)
  PROVE  Inv'
<1> DEFINE c == Plan[k][asked[k] + 1]
<1>1. asked[k] \in Nat /\ asked[k] < Len(Plan[k]) /\ Plan[k] \in Seq(Chunks)
  BY Bounds DEF AskNext, Inv, ClientTypes
<1>2. asked[k] + 1 \in DOMAIN Plan[k] /\ asked[k] + 1 \in Nat /\ asked[k] + 1 <= Len(Plan[k])
  BY <1>1
<1>3. c \in Chunks
  BY <1>1, <1>2
<1>4. toServer' = [toServer EXCEPT ![k] = Enqueue(@, <<[type |-> "GET", chunk |-> c]>>)]
  BY DEF AskNext
<1> HIDE DEF c
<1>5. [type |-> "GET", chunk |-> c] \in Request
  BY <1>3 DEF Request
<1>6. toServer' \in [Clients -> Seq(Request)]
  BY <1>4, <1>5, SentTypes DEF Inv
<1>7. asked' \in [Clients -> Nat] /\ \A j \in Clients : asked'[j] <= Len(Plan[j])
  BY <1>2 DEF AskNext, Inv, ClientTypes
<1>8. correct' \in [Clients -> BOOLEAN] /\ receiver_timer' \in [Clients -> BOOLEAN]
  BY FlagSet DEF AskNext, Inv, ClientTypes
<1>9. status' \in [Clients -> {"idle", "receiving", "failed"}]
      /\ ack_number' \in [Clients -> 0..PACKETS]
  BY Bounds DEF AskNext, Inv, ClientTypes
<1>10. ServerInv'
  BY ServerUnchanged DEF AskNext, Inv, ServerInv, ServerTypes
<1> QED  BY <1>6, <1>7, <1>8, <1>9, <1>10 DEF Inv, ClientTypes

\* A packet that has arrived was typed, and leaves a typed queue.
LEMMA ArrivesTypes ==
  ASSUME Inv, NEW k \in Clients, NEW m, DataArrives(k, m)
  PROVE  ServerInv' /\ m \in Packets /\ asked' = asked
<1>1. PICK i \in Arrivals(toClient[k]) :
        /\ m = toClient[k][i]
        /\ \E rest \in After(toClient[k], i) : toClient' = [toClient EXCEPT ![k] = rest]
  BY DEF DataArrives
<1>2. PICK rest \in After(toClient[k], i) : toClient' = [toClient EXCEPT ![k] = rest]
  BY <1>1
<1>3. toClient[k] \in Seq(Packets)
  BY DEF Inv, ServerInv
<1>4. rest \in Seq(Packets) /\ toClient[k][i] \in Packets
  BY <1>3, AfterKeeps
<1>5. toClient' \in [Clients -> Seq(Packets)]
  BY <1>2, <1>4 DEF Inv, ServerInv
<1> QED  BY <1>1, <1>4, <1>5, ServerUnchanged DEF DataArrives, Inv, ServerInv, ServerTypes

LEMMA AckForRange ==
  ASSUME ClientTypes, NEW k \in Clients, NEW m \in Packets
  PROVE  AckFor(k, m.seq) \in 0..PACKETS /\ m.seq \in 0..PACKETS
<1>1. m.seq \in 1..PACKETS /\ ack_number[k] \in 0..PACKETS
  BY DEF Packets, ClientTypes
<1> QED  BY <1>1, Bounds DEF AckFor

LEMMA ReceiveInv ==
  ASSUME Inv, NEW k \in Clients, Receive(k)
  PROVE  Inv'
<1>1. PICK m \in Range(toClient[k]) :
        ExpectedData(k, m) \/ UnexpectedData(k, m) \/ StrayData(k, m)
  BY DEF Receive
<1>2. ServerInv' /\ m \in Packets /\ asked' = asked
  BY <1>1, ArrivesTypes DEF ExpectedData, UnexpectedData, StrayData
<1>3. AckFor(k, m.seq) \in 0..PACKETS /\ m.seq \in 0..PACKETS
  BY <1>2, AckForRange DEF Inv
<1>4. CASE ExpectedData(k, m)
  <2>1. toServer' \in [Clients -> Seq(Request)]
    BY <1>3, <1>4, AcknowledgeTypes DEF ExpectedData, Inv
  <2>2. ack_number' \in [Clients -> 0..PACKETS]
    BY <1>3, <1>4 DEF ExpectedData, Inv, ClientTypes
  <2>3. status' \in [Clients -> {"idle", "receiving", "failed"}]
    <3>1. status' = status \/ status' = [status EXCEPT ![k] = "idle"]
          \/ status' = [status EXCEPT ![k] = "failed"]
      BY <1>4 DEF ExpectedData
    <3> QED  BY <3>1 DEF Inv, ClientTypes
  <2>4. correct' \in [Clients -> BOOLEAN]
    <3> DEFINE b == correct[k] /\ m.body = <<Wanted(k), m.seq>>
    <3>1. b \in BOOLEAN
      OBVIOUS
    <3>2. correct' = [correct EXCEPT ![k] = b]
      BY <1>4, Zenon DEF ExpectedData
    <3> HIDE DEF b
    <3> QED  BY <3>1, <3>2, FlagSet DEF Inv, ClientTypes
  <2>5. receiver_timer' \in [Clients -> BOOLEAN]
    <3>1. (m.seq < PACKETS) \in BOOLEAN
      OBVIOUS
    <3> QED  BY <1>4, <3>1, FlagSet DEF ExpectedData, Inv, ClientTypes
  <2> QED  BY <1>2, <2>1, <2>2, <2>3, <2>4, <2>5 DEF Inv, ClientTypes
<1>5. CASE UnexpectedData(k, m)
  <2>1. toServer' \in [Clients -> Seq(Request)]
    BY <1>3, <1>5, AcknowledgeTypes DEF UnexpectedData, Inv
  <2>2. receiver_timer' \in [Clients -> BOOLEAN]
    <3>1. (status[k] = "receiving") \in BOOLEAN
      OBVIOUS
    <3> QED  BY <1>5, <3>1, FlagSet, Zenon DEF UnexpectedData, Inv, ClientTypes
  <2> QED  BY <1>2, <1>5, <2>1, <2>2 DEF UnexpectedData, Inv, ClientTypes
<1>6. CASE StrayData(k, m)
  BY <1>2, <1>6 DEF StrayData, Inv, ClientTypes
<1> QED  BY <1>1, <1>4, <1>5, <1>6

LEMMA ReceiverTimerInv ==
  ASSUME Inv, NEW k \in Clients, ReceiverTimer(k)
  PROVE  Inv'
<1>1. ack_number[k] \in 0..PACKETS
  BY DEF Inv, ClientTypes
<1>2. toServer' \in [Clients -> Seq(Request)]
  BY <1>1, AcknowledgeTypes DEF ReceiverTimer, Inv
<1>3. ServerInv'
  BY ServerUnchanged DEF ReceiverTimer, Inv, ServerInv, ServerTypes
<1> QED  BY <1>2, <1>3 DEF ReceiverTimer, Inv, ClientTypes, clientVars

LEMMA LoseInv ==
  ASSUME Inv, NEW k \in Clients, Lose(k)
  PROVE  Inv'
<1>1. CASE \E i \in Arrivals(toClient[k]) : LoseData(k, i)
  <2>1. PICK i \in Arrivals(toClient[k]) : LoseData(k, i)
    BY <1>1
  <2>2. RemoveAt(toClient[k], i) \in Seq(Packets)
    BY <2>1, LosesKeeps DEF LoseData, Inv, ServerInv
  <2>3. toClient' \in [Clients -> Seq(Packets)]
    BY <2>1, <2>2 DEF LoseData, Inv, ServerInv
  <2>4. ServerInv'
    BY <2>1, <2>3, ServerUnchanged DEF LoseData, Inv
  <2> QED  BY <2>1, <2>4 DEF LoseData, Inv, ClientTypes, clientVars
<1>2. CASE \E i \in Arrivals(toServer[k]) : LoseRequest(k, i)
  <2>1. PICK i \in Arrivals(toServer[k]) : LoseRequest(k, i)
    BY <1>2
  <2>2. RemoveAt(toServer[k], i) \in Seq(Request)
    BY <2>1, LosesKeeps DEF LoseRequest, Inv, ClientTypes
  <2>3. toServer' \in [Clients -> Seq(Request)]
    BY <2>1, <2>2 DEF LoseRequest, Inv, ClientTypes
  <2>4. ServerInv'
    BY <2>1, ServerUnchanged DEF LoseRequest, Inv, ServerInv
  <2> QED  BY <2>1, <2>3, <2>4 DEF LoseRequest, Inv, ClientTypes, clientVars
<1> QED  BY <1>1, <1>2 DEF Lose

-----------------------------------------------------------------------------
(* The invariant, and what follows from it. *)

LEMMA InitInv == Init => Inv
<1> SUFFICES ASSUME Init PROVE Inv
  OBVIOUS
<1>1. s_states = <<>> /\ timers = <<>> /\ DOMAIN s_states = {} /\ DOMAIN timers = {}
      /\ Len(s_states) = 0 /\ Len(timers) = 0
  BY DEF Init
<1>2. Sessions = {}
  BY <1>1 DEF Sessions
<1>3. ServerTypes
  <2>1. s_states \in Seq(Session \cup {Destroyed})
    BY <1>1
  <2>2. timers \in Seq(TimersOf(DOMAIN s_states))
    BY <1>1
  <2> QED  BY <2>1, <2>2 DEF Init, ServerTypes
<1>4. AloneInv
  BY <1>1, <1>2 DEF Init, AloneInv, OneAtATime
<1>5. ServerInv
  BY <1>2, <1>3, <1>4 DEF Init, ServerInv
<1>6. ack_number \in [Clients -> 0..PACKETS] /\ \A k \in Clients : asked[k] <= Len(Plan[k])
  BY Bounds DEF Init
<1>7. correct \in [Clients -> BOOLEAN] /\ receiver_timer \in [Clients -> BOOLEAN]
  BY Zenon DEF Init
<1> QED  BY <1>5, <1>6, <1>7 DEF Init, Inv, ClientTypes

\* Every step of the uploader, of a client and of the network preserves it.
LEMMA StepInv == Inv /\ [Next]_vars => Inv'
<1> SUFFICES ASSUME Inv, [Next]_vars PROVE Inv'
  OBVIOUS
<1>1. ASSUME NEW k \in Clients,
             Serve(k) \/ AskNext(k) \/ Receive(k) \/ ReceiverTimer(k) \/ Lose(k)
      PROVE  Inv'
  BY <1>1, ServeInv, AskNextInv, ReceiveInv, ReceiverTimerInv, LoseInv
<1>2. CASE Timer
  BY <1>2, TimerInv
<1>3. CASE UNCHANGED vars
  <2>1. ServerInv'
    BY <1>3, ServerUnchanged DEF vars, Inv, ServerInv, ServerTypes
  <2> QED  BY <1>3, <2>1 DEF vars, Inv, ClientTypes, clientVars
<1> QED  BY <1>1, <1>2, <1>3 DEF Next

\* Every reachable state satisfies the inductive invariant.
THEOREM SessionInvariance == Spec => []Inv
<1>1. Init => Inv
  BY InitInv
<1>2. Inv /\ [Next]_vars => Inv'
  BY StepInv
<1> QED  BY <1>1, <1>2, PTL DEF Spec

\* The state has the types the code's variables have: an ACK or a resend never
\* reads data_list outside its slots, nor sends a packet beyond the chunk.
THEOREM UploaderTypeCorrect == Spec => []TypeOK
<1>1. Inv => TypeOK
  BY DEF Inv, ServerInv, ServerTypes, ClientTypes, TypeOK, TimersOf, Lists, Packets
<1> QED  BY <1>1, SessionInvariance, PTL

\* case 4 keeps the counters of each session in step, with any number of sessions
\* open at once and any loss: available is acked plus a window, sent follows it to
\* the end of the chunk, and sent_count is last_packet_sent.
THEOREM CountersStayInStep == Spec => []CountersAgree
<1>1. Inv => CountersAgree
  BY DEF Inv, ServerInv, CountersAgree, Sessions, Agrees
<1> QED  BY <1>1, SessionInvariance, PTL

\* Sessions that follow one another never end the process: the timer case 4 sets
\* exists, an armed timer belongs to a session that is open, and the list it
\* resends from is there.
THEOREM AloneSurvives == Spec => []NeverEnds
<1>1. Inv => NeverEnds
  BY DEF Inv, ServerInv, AloneInv, OneAtATime, NeverEnds
<1> QED  BY <1>1, SessionInvariance, PTL

\* Sessions that follow one another leave nothing behind: with none open,
\* data_list is NULL and no sender timer is armed.
THEOREM NothingIsLeft == Spec => []IdleIsClean
<1>1. Inv => IdleIsClean
  <2> SUFFICES ASSUME Inv, Alone, \A k \in Clients : Open(k) = {}
               PROVE  /\ data_list = NoList
                      /\ \A t \in DOMAIN timers : ~timers[t].armed
    BY DEF IdleIsClean
  <2>1. OneAtATime
    BY DEF Inv, ServerInv, AloneInv
  <2>2. Sessions = {}
    BY DEF Sessions, Open, Inv, ServerInv, ServerTypes, Session
  <2> QED  BY <2>1, <2>2 DEF OneAtATime
<1> QED  BY <1>1, SessionInvariance, PTL

\* A buffer that is written is there.
LEMMA BufferedIsThere ==
  ASSUME NEW list, NEW c, NEW lo, NEW hi
  PROVE  Buffered(list, c, lo, hi) # NoList
<1>1. DOMAIN Buffered(list, c, lo, hi) = 1..WINDOW /\ 1 \in 1..WINDOW
  BY Bounds DEF Buffered
<1>2. DOMAIN NoList = {}
  BY DEF NoList
<1> QED  BY <1>1, <1>2

\* A timer that is deleted does not exist any more.
LEMMA DeletedIsGone ==
  ASSUME NEW O, NEW tms \in Seq(TimersOf(O)), NEW id, Exists(tms, id)
  PROVE  ~ Exists(Delete(tms, id), id)
<1> DEFINE u == [tms[id + 1] EXCEPT !.alive = FALSE, !.armed = FALSE]
<1>1. Delete(tms, id) = [tms EXCEPT ![id + 1] = u] /\ id + 1 \in DOMAIN tms
  BY DEF Delete, Exists
<1>2. tms[id + 1] \in TimersOf(O)
  BY <1>1
<1>3. ~ u.alive
  BY <1>2 DEF TimersOf
<1> HIDE DEF u
<1> QED  BY <1>1, <1>3 DEF Exists

\* An ACK leaves a list wherever it leaves the timer.
LEMMA AckKeepsList ==
  ASSUME Inv, AckMeetsList, NEW k \in Clients, NEW a, Ack(k, a)
  PROVE  AckMeetsList'
<1> DEFINE s == s_states[FindSState(k)]
<1>1. CASE UNCHANGED <<data_list, timers, sender_timerid>>
  BY <1>1 DEF AckMeetsList, Exists
<1>2. CASE DuplicateAck(k, a, s) \/ OlderAck(k, a, s)
  BY <1>2 DEF DuplicateAck, OlderAck, AckMeetsList
<1>3. CASE NormalAck(k, a, s)
  BY <1>3, BufferedIsThere DEF NormalAck, AckMeetsList
<1>4. CASE FinalAck(k, a, s)
  <2>1. /\ Exists(timers, sender_timerid) /\ sender_timerid' = sender_timerid
        /\ timers' = Delete(timers, sender_timerid)
    BY <1>4 DEF FinalAck, Finished
  <2>2. timers \in Seq(TimersOf(DOMAIN s_states))
    BY DEF Inv, ServerInv, ServerTypes
  <2>3. ~ Exists(Delete(timers, sender_timerid), sender_timerid)
    BY <2>1, <2>2, DeletedIsGone
  <2> QED  BY <2>1, <2>3 DEF AckMeetsList
<1> QED  BY <1>1, <1>2, <1>3, <1>4 DEF Ack, StrayAck, AckTimerLost, Halt, serverVars

\* However sessions overlap, case 4 gives slist_find and slist_destroy a list: as
\* long as the timer that it sets first exists, data_list is there, because the last
\* ACK of a session deletes that timer when it destroys the list.
THEOREM AcksMeetList == Spec => []AckMeetsList
<1>1. Init => AckMeetsList
  BY DEF Init, AckMeetsList, Exists
<1>2. Inv /\ AckMeetsList /\ [Next]_vars => AckMeetsList'
  <2> SUFFICES ASSUME Inv, AckMeetsList, [Next]_vars PROVE AckMeetsList'
    OBVIOUS
  <2>1. CASE UNCHANGED <<data_list, timers, sender_timerid>>
    BY <2>1 DEF AckMeetsList, Exists
  <2>2. ASSUME NEW k \in Clients, Serve(k) PROVE AckMeetsList'
    <3>1. ASSUME NEW m, RecvGet(k, m) PROVE AckMeetsList'
      BY <3>1, BufferedIsThere DEF RecvGet, AckMeetsList
    <3> QED  BY <2>2, <3>1, AckKeepsList DEF Serve
  <2>3. ASSUME NEW k \in Clients,
               AskNext(k) \/ Receive(k) \/ ReceiverTimer(k) \/ Lose(k)
        PROVE  UNCHANGED <<data_list, timers, sender_timerid>>
    BY <2>3 DEF AskNext, Receive, ExpectedData, UnexpectedData, StrayData, DataArrives,
                ReceiverTimer, Lose, LoseData, LoseRequest, serverVars
  <2>4. Timer => UNCHANGED <<data_list, timers, sender_timerid>>
    BY DEF Timer, SenderTimer, StaleTimer, TimerListLost, Halt, serverVars
  <2> QED  BY <2>1, <2>2, <2>3, <2>4 DEF Next, vars, serverVars
<1> QED  BY <1>1, <1>2, SessionInvariance, PTL DEF Spec
-----------------------------------------------------------------------------
(***************************************************************************)
(* What the clients get, over a network that loses datagrams but keeps     *)
(* their order, as the queues of hupsim.pl do.  A client either waits, and *)
(* then no session of it sends anything any more and nothing that is still *)
(* under way can be taken for the first packet of its next chunk; or the   *)
(* open session serves the chunk it asked for, and behind what is left of  *)
(* earlier sessions all that is under way to it is genuine.                *)
(***************************************************************************)

InOrder == Faults \subseteq {"lose"}

\* The buffered packets of a session, from the one that may have to be resent on.
Holds(list, s) ==
  \A p \in s.last_packet_acked + 1..s.last_packet_available :
    Find(list, Slot(p)) = <<s.chunk, p>>

RingInv == \A i \in Sessions : Holds(data_list, s_states[i])

\* Nothing is the first packet of a chunk.
Quiet(q) == \A x \in DOMAIN q : q[x].seq # 1

\* A request under way is the one the client waits for, and with the ACKs that follow
\* it the client has only repeated that it has nothing yet.
Late(req, st, c) ==
  \A x \in DOMAIN req : req[x].type = "GET" =>
    /\ st = "receiving" /\ req[x].chunk = c
    /\ \A y \in DOMAIN req : y > x => req[y].type = "ACK" /\ req[y].ack = 0

Waits(k) ==
  /\ \A i \in Open(k) : s_states[i].last_packet_sent = PACKETS
  /\ status[k] = "receiving" => ack_number[k] = 0
  /\ Quiet(toClient[k])
  /\ Late(toServer[k], status[k], Wanted(k))

\* Session s serves chunk c, of which the client has ack packets; its requests are
\* all ACKs of this session.
Follows(s, req, ack, c) ==
  /\ s.chunk = c
  /\ s.last_packet_acked <= ack /\ ack <= s.last_packet_sent
  /\ \A x \in DOMAIN req : req[x].type = "ACK" /\ req[x].ack <= ack

\* The first n packets under way are from earlier sessions, the others are genuine,
\* and the first of the chunk does not follow the last.
Fresh(q, n, c, sent) ==
  /\ \A x \in DOMAIN q : x <= n => q[x].seq # 1
  /\ \A x \in DOMAIN q : x > n => q[x].body = <<c, q[x].seq>> /\ q[x].seq <= sent
  /\ \A x, y \in DOMAIN q : n < x /\ x < y /\ q[x].seq = PACKETS => q[y].seq # 1

Receives(k) ==
  /\ status[k] = "receiving"
  /\ \E i \in Open(k) :
       /\ Follows(s_states[i], toServer[k], ack_number[k], Wanted(k))
       /\ \E n \in Nat :
            /\ ack_number[k] > 0 => n = 0
            /\ Fresh(toClient[k], n, Wanted(k), s_states[i].last_packet_sent)

Order(k) ==
  /\ correct[k] /\ status[k] # "failed"
  /\ status[k] = "receiving" => ack_number[k] < PACKETS
  /\ Waits(k) \/ Receives(k)

TurnsInv == Alone => RingInv /\ \A k \in Clients : Order(k)

-----------------------------------------------------------------------------
(* Queues that keep their order. *)

\* r is q without its head.
Popped(q, r) == \A x \in DOMAIN r : x + 1 \in DOMAIN q /\ r[x] = q[x + 1]

\* r is what of q and then b there is room for.
Joined(q, b, r) ==
  \A x \in DOMAIN r :
    \/ x \in DOMAIN q /\ r[x] = q[x]
    \/ x > Len(q) /\ x - Len(q) \in DOMAIN b /\ r[x] = b[x - Len(q)]

\* In order, only the head of a queue arrives or is lost, and it arrives once.
LEMMA HeadArrives ==
  ASSUME InOrder, NEW S, NEW q \in Seq(S), NEW i \in Arrivals(q),
         NEW r, r \in After(q, i) \/ r = RemoveAt(q, i)
  PROVE  i = 1 /\ 1 \in DOMAIN q /\ Popped(q, r)
<1>1. i = 1 /\ 1 \in DOMAIN q
  BY DEF InOrder, Arrivals
<1>2. r = RemoveAt(q, 1)
  BY <1>1 DEF InOrder, After
<1>3. Len(q) \in Nat \ {0} /\ DOMAIN q = 1..Len(q)
  BY <1>1, LenProperties
<1>4. r = SubSeq(q, 1, 0) \o SubSeq(q, 2, Len(q))
  BY <1>2 DEF RemoveAt
<1>5. r = SubSeq(q, 2, Len(q))
  BY <1>3, <1>4
<1>6. DOMAIN r = 1..Len(q) - 1 /\ \A x \in 1..Len(q) - 1 : r[x] = q[x + 1]
  BY <1>3, <1>5
<1> QED  BY <1>1, <1>3, <1>6 DEF Popped

LEMMA EnqueueJoins ==
  ASSUME NEW S, NEW q \in Seq(S), NEW b \in Seq(S)
  PROVE  Joined(q, b, Enqueue(q, b))
<1> DEFINE s == q \o b
           n == IF Len(s) <= CAP THEN Len(s) ELSE CAP
<1>1. s \in Seq(S) /\ Len(s) = Len(q) + Len(b) /\ Len(q) \in Nat /\ Len(b) \in Nat
  BY ConcatProperties, LenProperties
<1>2. n \in 0..Len(s)
  BY <1>1, LenProperties, LinkAssumption DEF LinkAssumption
<1>3. Enqueue(q, b) = SubSeq(s, 1, n)
  BY DEF Enqueue
<1> HIDE DEF n
<1>4. DOMAIN Enqueue(q, b) = 1..n /\ \A x \in 1..n : Enqueue(q, b)[x] = s[x]
  BY <1>1, <1>2, <1>3
<1>5. ASSUME NEW x \in 1..n
      PROVE  \/ x \in DOMAIN q /\ s[x] = q[x]
             \/ x > Len(q) /\ x - Len(q) \in DOMAIN b /\ s[x] = b[x - Len(q)]
  BY <1>1, <1>2, LenProperties, ConcatProperties
<1> QED  BY <1>4, <1>5 DEF Joined

\* A queue to which nothing was added.
LEMMA SameJoins ==
  ASSUME NEW q, NEW b
  PROVE  Joined(q, b, q)
BY DEF Joined

LEMMA QuietPopped ==
  ASSUME NEW q \in Seq(Packets), NEW r, Popped(q, r), Quiet(q)
  PROVE  Quiet(r)
BY DEF Popped, Quiet

LEMMA QuietJoined ==
  ASSUME NEW q \in Seq(Packets), NEW r, Joined(q, <<>>, r), Quiet(q)
  PROVE  Quiet(r)
BY DEF Joined, Quiet

LEMMA LatePopped ==
  ASSUME NEW q \in Seq(Request), NEW r \in Seq(Request), Popped(q, r), NEW st, NEW c,
         Late(q, st, c)
  PROVE  Late(r, st, c)
<1>1. \A x \in DOMAIN r : x \in Nat /\ x + 1 \in DOMAIN q /\ r[x] = q[x + 1]
  BY DEF Popped
<1> SUFFICES ASSUME NEW x \in DOMAIN r, r[x].type = "GET"
             PROVE  /\ st = "receiving" /\ r[x].chunk = c
                    /\ \A y \in DOMAIN r : y > x => r[y].type = "ACK" /\ r[y].ack = 0
  BY DEF Late
<1>2. /\ st = "receiving" /\ q[x + 1].chunk = c
      /\ \A y \in DOMAIN q : y > x + 1 => q[y].type = "ACK" /\ q[y].ack = 0
  BY <1>1 DEF Late
<1> QED  BY <1>1, <1>2

LEMMA FreshPopped ==
  ASSUME NEW q \in Seq(Packets), NEW r \in Seq(Packets), Popped(q, r), NEW n \in Nat,
         NEW c, NEW sent, Fresh(q, n, c, sent)
  PROVE  \E m \in Nat : (n = 0 => m = 0) /\ Fresh(r, m, c, sent)
<1> DEFINE m == IF n = 0 THEN 0 ELSE n - 1
<1>1. \A x \in DOMAIN r : x \in Nat \ {0} /\ x + 1 \in DOMAIN q /\ r[x] = q[x + 1]
  BY DEF Popped
<1>2. m \in Nat /\ (n = 0 => m = 0) /\ \A x \in Nat \ {0} : (x <= m => x + 1 <= n) /\ (x > m => x + 1 > n)
  OBVIOUS
<1> HIDE DEF m
<1>3. \A x \in DOMAIN r : x <= m => r[x].seq # 1
  BY <1>1, <1>2 DEF Fresh
<1>4. \A x \in DOMAIN r : x > m => r[x].body = <<c, r[x].seq>> /\ r[x].seq <= sent
  BY <1>1, <1>2 DEF Fresh
<1>5. \A x, y \in DOMAIN r : m < x /\ x < y /\ r[x].seq = PACKETS => r[y].seq # 1
  <2> SUFFICES ASSUME NEW x \in DOMAIN r, NEW y \in DOMAIN r, m < x, x < y,
                      r[x].seq = PACKETS
               PROVE  r[y].seq # 1
    OBVIOUS
  <2>1. x \in Nat \ {0} /\ y \in Nat \ {0}
    BY <1>1
  <2>2. n < x + 1 /\ x + 1 < y + 1
    <3>1. x > m /\ x + 1 > n
      BY <1>2, <2>1
    <3> HIDE DEF m
    <3> QED  BY <2>1, <3>1
  <2>3. x + 1 \in DOMAIN q /\ y + 1 \in DOMAIN q /\ q[x + 1].seq = PACKETS /\ r[y] = q[y + 1]
    BY <1>1
  <2> QED  BY <2>2, <2>3 DEF Fresh
<1>6. Fresh(r, m, c, sent)
  BY <1>3, <1>4, <1>5 DEF Fresh
<1> QED  BY <1>2, <1>6

\* What a session sends while the client follows it: nothing once the whole chunk has
\* been sent, and packet 1 only by itself.
Sends(s, t, b) ==
  /\ s.last_packet_sent = PACKETS => b = <<>>
  /\ \A j \in DOMAIN b : /\ b[j].body = <<s.chunk, b[j].seq>>
                         /\ b[j].seq <= t.last_packet_sent
                         /\ b[j].seq = 1 => Len(b) = 1

LEMMA FreshJoined ==
  ASSUME NEW q \in Seq(Packets), NEW b \in Seq(Packets), NEW r \in Seq(Packets),
         Joined(q, b, r), NEW n \in Nat, n <= Len(q),
         NEW s \in Session, NEW t \in Session, Sends(s, t, b),
         s.last_packet_sent <= t.last_packet_sent,
         Fresh(q, n, s.chunk, s.last_packet_sent)
  PROVE  Fresh(r, n, s.chunk, t.last_packet_sent)
<1> DEFINE c == s.chunk
           u == s.last_packet_sent
           v == t.last_packet_sent
           l == Len(q)
<1>1. /\ PACKETS \in Nat /\ u \in Nat /\ v \in Nat /\ u <= v /\ u <= PACKETS
  BY Bounds DEF Session
<1>11. PACKETS \in Nat /\ \A m \in Packets : m.seq \in Nat
  BY Bounds DEF Packets
<1>2. /\ l \in Nat /\ DOMAIN q = 1..l
      /\ \A x \in DOMAIN q : q[x].seq \in Nat
      /\ \A x \in DOMAIN b : b[x].seq \in Nat
  <2>1. l \in Nat /\ DOMAIN q = 1..l
    BY LenProperties
  <2>2. (\A x \in DOMAIN q : q[x] \in Packets) /\ (\A x \in DOMAIN b : b[x] \in Packets)
    OBVIOUS
  <2> QED  BY <1>11, <2>1, <2>2
<1>3. /\ u = PACKETS => b = <<>>
      /\ \A j \in DOMAIN b : /\ b[j].body = <<c, b[j].seq>> /\ b[j].seq <= v
                             /\ b[j].seq = 1 => Len(b) = 1
  BY DEF Sends
<1>4. /\ \A x \in DOMAIN q : x <= n => q[x].seq # 1
      /\ \A x \in DOMAIN q : x > n => q[x].body = <<c, q[x].seq>> /\ q[x].seq <= u
      /\ \A x, y \in DOMAIN q : n < x /\ x < y /\ q[x].seq = PACKETS => q[y].seq # 1
  BY DEF Fresh
<1>5. DOMAIN r \subseteq Nat /\ DOMAIN b = 1..Len(b) /\ Len(b) \in Nat /\ (b = <<>> => DOMAIN b = {})
  BY LenProperties
<1>6. \A x \in DOMAIN r : \/ x \in DOMAIN q /\ r[x] = q[x]
                          \/ x > l /\ x - l \in DOMAIN b /\ r[x] = b[x - l]
  BY DEF Joined
<1>10. n <= l
  OBVIOUS
<1> HIDE DEF c, u, v, l
<1>7. \A x \in DOMAIN r : x <= n => r[x].seq # 1
  BY <1>2, <1>4, <1>5, <1>6, <1>10
<1>8. \A x \in DOMAIN r : x > n => r[x].body = <<c, r[x].seq>> /\ r[x].seq <= v
  <2> SUFFICES ASSUME NEW x \in DOMAIN r, x > n
               PROVE  r[x].body = <<c, r[x].seq>> /\ r[x].seq <= v
    OBVIOUS
  <2>1. CASE x \in DOMAIN q /\ r[x] = q[x]
    BY <1>1, <1>2, <1>4, <2>1
  <2>2. CASE x > l /\ x - l \in DOMAIN b /\ r[x] = b[x - l]
    BY <1>3, <2>2
  <2> QED  BY <1>6, <2>1, <2>2
<1>9. \A x, y \in DOMAIN r : n < x /\ x < y /\ r[x].seq = PACKETS => r[y].seq # 1
  <2> SUFFICES ASSUME NEW x \in DOMAIN r, NEW y \in DOMAIN r, n < x, x < y,
                      r[x].seq = PACKETS, r[y].seq = 1
               PROVE  FALSE
    OBVIOUS
  <2>1. CASE y \in DOMAIN q /\ r[y] = q[y]
    <3>1. x \in DOMAIN q /\ r[x] = q[x]
      BY <1>2, <1>5, <1>6, <2>1
    <3> QED  BY <1>4, <2>1, <3>1
  <2>2. CASE y > l /\ y - l \in DOMAIN b /\ r[y] = b[y - l]
    <3>1. Len(b) = 1 /\ y = l + 1 /\ u # PACKETS
      BY <1>2, <1>3, <1>5, <2>2
    <3>2. x \in DOMAIN q /\ r[x] = q[x]
      BY <1>2, <1>5, <1>6, <3>1
    <3> QED  BY <1>1, <1>2, <1>4, <3>1, <3>2
  <2> QED  BY <1>6, <2>1, <2>2
<1> QED  BY <1>7, <1>8, <1>9 DEF Fresh, c, v

\* At most the whole queue is from earlier sessions.
LEMMA FreshCut ==
  ASSUME NEW q \in Seq(Packets), NEW n \in Nat, NEW c, NEW sent, Fresh(q, n, c, sent)
  PROVE  \E m \in Nat : m <= Len(q) /\ (n = 0 => m = 0) /\ Fresh(q, m, c, sent)
<1>1. Len(q) \in Nat /\ DOMAIN q = 1..Len(q)
  BY LenProperties
<1>2. CASE n <= Len(q)
  BY <1>2
<1>3. CASE n > Len(q)
  <2>1. \A x \in DOMAIN q : q[x].seq # 1
    BY <1>1, <1>3 DEF Fresh
  <2>2. Fresh(q, Len(q), c, sent)
    BY <1>1, <2>1 DEF Fresh
  <2> QED  BY <1>1, <1>3, <2>2
<1> QED  BY <1>1, <1>2, <1>3

-----------------------------------------------------------------------------
(* The ring. *)

\* Buffering lo..hi for chunk c leaves the last window in its slots: the new packets
\* are there, and those before lo have not been overwritten.
LEMMA BufferedFinds ==
  ASSUME NEW list \in Lists \cup {NoList}, NEW c, NEW lo \in Int, NEW hi \in Int,
         NEW p \in Int, hi - WINDOW < p, p <= hi,
         p >= lo \/ (list # NoList /\ Find(list, Slot(p)) = <<c, p>>)
  PROVE  Find(Buffered(list, c, lo, hi), Slot(p)) = <<c, p>>
<1> DEFINE j == Slot(p) + 1
           written == {w \in lo..hi : Slot(w) = j - 1 /\ w > hi - WINDOW}
<1>1. WINDOW \in Nat \ {0} /\ Slot(p) \in 0..WINDOW-1 /\ j \in 1..WINDOW /\ j - 1 = Slot(p)
  <2>1. WINDOW \in Nat \ {0} /\ Slot(p) \in 0..WINDOW-1
    BY Bounds, SlotRange
  <2> QED  BY <2>1
<1>2. ASSUME NEW w \in written PROVE w = p
  <2>1. w \in Int /\ w < p + WINDOW /\ p < w + WINDOW /\ (w - 1) % WINDOW = (p - 1) % WINDOW
    BY <1>1 DEF Slot
  <2> QED  BY <1>1, <2>1, PlacesApart
<1>3. Find(Buffered(list, c, lo, hi), Slot(p)) =
        IF written # {} THEN <<c, CHOOSE w \in written : TRUE>>
        ELSE IF list = NoList THEN Garbage ELSE Find(list, Slot(p))
  BY <1>1 DEF Buffered, Find
<1>4. CASE p >= lo
  <2>1. p \in written
    BY <1>1, <1>4
  <2> HIDE DEF written
  <2>2. (CHOOSE w \in written : TRUE) = p
    BY <1>2, <2>1
  <2> QED  BY <1>3, <2>1, <2>2
<1>5. CASE ~ (p >= lo)
  <2>1. p \notin written
    BY <1>5
  <2> HIDE DEF written
  <2>2. written = {}
    BY <1>2, <2>1
  <2> QED  BY <1>3, <1>5, <2>2
<1> QED  BY <1>4, <1>5

\* The packet built for a slot that holds it is genuine.
LEMMA HeldIsGenuine ==
  ASSUME NEW list, NEW s \in Session, Holds(list, s),
         NEW p \in s.last_packet_acked + 1..s.last_packet_available
  PROVE  Data(list, p).body = <<s.chunk, Data(list, p).seq>> /\ Data(list, p).seq = p
BY DEF Holds, Data

\* One at a time, a client has the open session or none, and find_s_state finds it.
LEMMA AloneOpen ==
  ASSUME Inv, Alone, NEW k \in Clients
  PROVE  /\ Found(k) = Open(k)
         /\ Open(k) \subseteq Sessions
         /\ \A i, j \in Sessions : i = j
         /\ \A i \in Open(k) : /\ s_states[i] \in Session /\ s_states[i].client = k
                               /\ Agrees(s_states[i]) /\ FindSState(k) = i
                               /\ data_list \in Lists /\ data_list # NoList
<1>1. ServerTypes /\ OneAtATime
  BY DEF Inv, ServerInv, AloneInv
<1>2. DOMAIN s_states = 1..Len(s_states) /\ Len(s_states) \in Nat /\ Len(s_states) <= MAX_CONN
      /\ MAX_CONN \in Nat
  BY <1>1, Bounds DEF ServerTypes, Alone
<1>3. Open(k) \subseteq Sessions /\ Open(k) \subseteq 1..Len(s_states)
  BY <1>2 DEF Open, Sessions
<1>4. Found(k) = Open(k)
  BY <1>2, <1>3 DEF Found
<1>5. \A i, j \in Sessions : i = j
  <2>1. \A i \in Sessions : i \in Nat /\ sender_timerid + 1 = i
    BY <1>1, <1>2 DEF OneAtATime, Sessions
  <2> QED  BY <2>1
<1>6. ASSUME NEW i \in Open(k)
      PROVE  /\ s_states[i] \in Session /\ s_states[i].client = k
             /\ Agrees(s_states[i]) /\ FindSState(k) = i
             /\ data_list \in Lists /\ data_list # NoList
  <2>1. i \in Sessions /\ s_states[i].client = k
    BY <1>3, <1>6 DEF Open
  <2>2. s_states[i] \in Session /\ Agrees(s_states[i])
    BY <1>1, <2>1 DEF Sessions, ServerTypes, Inv, ServerInv
  <2>3. FindSState(k) = i
    BY <1>1, <1>4, <1>5, <1>6, <2>1, FoundIsOpen
  <2>4. data_list \in Lists /\ data_list # NoList
    BY <1>1, <2>1 DEF OneAtATime, ServerTypes
  <2> QED  BY <2>1, <2>2, <2>3, <2>4
<1> QED  BY <1>3, <1>4, <1>5, <1>6

-----------------------------------------------------------------------------
(* Steps that keep the turns. *)

\* A client of which nothing changes.
LEMMA OrderKept ==
  ASSUME NEW k \in Clients, Order(k),
         Open(k)' = Open(k), \A i \in Open(k) : s_states'[i] = s_states[i],
         toClient'[k] = toClient[k], toServer'[k] = toServer[k],
         asked'[k] = asked[k], status'[k] = status[k],
         ack_number'[k] = ack_number[k], correct'[k] = correct[k]
  PROVE  Order(k)'
<1>1. Wanted(k)' = Wanted(k)
  BY DEF Wanted
<1>2. CASE Waits(k)
  BY <1>1, <1>2 DEF Waits, Order
<1>3. CASE Receives(k)
  BY <1>1, <1>3 DEF Receives, Order
<1> QED  BY <1>2, <1>3 DEF Order

\* What the session of a client sends, at an ACK or when its timer expires, keeps
\* the client's turn.
LEMMA AnswerKeeps ==
  ASSUME Inv, Inv', Alone, NEW k \in Clients, Order(k), NEW i \in Open(k),
         NEW t \in Session, NEW b \in Seq(Packets),
         s_states' = [s_states EXCEPT ![i] = t],
         t.client = k, t.chunk = s_states[i].chunk,
         s_states[i].last_packet_sent <= t.last_packet_sent,
         \/ t.last_packet_acked = s_states[i].last_packet_acked
         \/ \E x \in DOMAIN toServer[k] : /\ toServer[k][x].type = "ACK"
                                          /\ t.last_packet_acked = toServer[k][x].ack,
         Sends(s_states[i], t, b), Joined(toClient[k], b, toClient'[k]),
         toServer'[k] = toServer[k] \/ Popped(toServer[k], toServer'[k]),
         UNCHANGED clientVars
  PROVE  Order(k)'
<1> DEFINE s == s_states[i]
<1>1. /\ s \in Session /\ i \in DOMAIN s_states /\ Open(k) = {i}
      /\ s.last_packet_sent \in 0..PACKETS /\ t.last_packet_sent \in 0..PACKETS /\ PACKETS \in Nat
  BY AloneOpen, Bounds DEF Session, Open
<1>2. s_states'[i] = t /\ DOMAIN s_states' = DOMAIN s_states
      /\ \A j \in DOMAIN s_states : j # i => s_states'[j] = s_states[j]
  BY <1>1
<1>3. Open(k)' = {i}
  <2>1. t # Destroyed
    BY DestroyedIsNone
  <2> QED  BY <1>1, <1>2, <2>1 DEF Open
<1>4. /\ toClient[k] \in Seq(Packets) /\ toClient'[k] \in Seq(Packets)
      /\ toServer[k] \in Seq(Request) /\ toServer'[k] \in Seq(Request)
      /\ ack_number[k] \in Nat
  BY <1>1 DEF Inv, ServerInv, ClientTypes
<1>5. Wanted(k)' = Wanted(k) /\ status' = status /\ ack_number' = ack_number /\ correct' = correct
  BY DEF Wanted, clientVars
<1> HIDE DEF s
<1>6. CASE Waits(k)
  <2>1. s.last_packet_sent = PACKETS
    BY <1>6 DEF Waits, s
  <2>2. t.last_packet_sent = PACKETS
    BY <1>1, <2>1 DEF s
  <2>3. Quiet(toClient'[k])
    <3>1. b = <<>>
      BY <2>1 DEF Sends, s
    <3> QED  BY <1>4, <1>6, <3>1, QuietJoined DEF Waits
  <2>4. Late(toServer'[k], status[k], Wanted(k))
    BY <1>4, <1>6, LatePopped DEF Waits
  <2>5. Waits(k)'
    BY <1>2, <1>3, <1>5, <1>6, <2>2, <2>3, <2>4 DEF Waits
  <2> QED  BY <1>5, <2>5 DEF Order
<1>7. CASE Receives(k)
  <2>1. /\ status[k] = "receiving"
        /\ Follows(s, toServer[k], ack_number[k], Wanted(k))
    BY <1>1, <1>7 DEF Receives, s
  <2>2. PICK n \in Nat : /\ ack_number[k] > 0 => n = 0
                         /\ Fresh(toClient[k], n, Wanted(k), s.last_packet_sent)
    BY <1>1, <1>7 DEF Receives, s
  <2>3. PICK m \in Nat : /\ m <= Len(toClient[k]) /\ (n = 0 => m = 0)
                         /\ Fresh(toClient[k], m, Wanted(k), s.last_packet_sent)
    BY <1>4, <2>2, FreshCut
  <2>4. Wanted(k) = s.chunk
    BY <2>1 DEF Follows
  <2>5. Fresh(toClient'[k], m, Wanted(k), t.last_packet_sent)
    <3>1. s \in Session /\ Sends(s, t, b) /\ s.last_packet_sent <= t.last_packet_sent
      BY <1>1 DEF s
    <3>2. Fresh(toClient[k], m, s.chunk, s.last_packet_sent)
      BY <2>3, <2>4
    <3>3. Fresh(toClient'[k], m, s.chunk, t.last_packet_sent)
      BY <1>4, <2>3, <3>1, <3>2, FreshJoined
    <3> QED  BY <2>4, <3>3
  <2>6. Follows(t, toServer'[k], ack_number[k], Wanted(k))
    <3>1. t.last_packet_acked <= ack_number[k]
      BY <2>1 DEF Follows, s
    <3>2. ack_number[k] <= t.last_packet_sent
      <4>1. ack_number[k] <= s.last_packet_sent /\ s.last_packet_sent <= t.last_packet_sent
        BY <2>1 DEF Follows, s
      <4> QED  BY <1>1, <1>4, <4>1
    <3>3. \A x \in DOMAIN toServer'[k] :
            toServer'[k][x].type = "ACK" /\ toServer'[k][x].ack <= ack_number[k]
      BY <2>1 DEF Follows, Popped
    <3>4. t.chunk = Wanted(k)
      BY <2>4 DEF s
    <3> QED  BY <3>1, <3>2, <3>3, <3>4 DEF Follows
  <2>7. (ack_number[k] > 0 => m = 0)
    BY <2>2, <2>3
  <2>8. Receives(k)'
    BY <1>2, <1>3, <1>5, <2>1, <2>5, <2>6, <2>7 DEF Receives
  <2> QED  BY <1>5, <2>8, <1>7 DEF Order
<1> QED  BY <1>6, <1>7 DEF Order

\* A client whose server side is another one's.
LEMMA OtherKept ==
  ASSUME Inv, Alone, NEW k \in Clients, NEW j \in Clients, j # k, Order(j), NEW i \in Open(k),
         NEW t, t = Destroyed \/ (t \in Session /\ t.client = k),
         s_states' = [s_states EXCEPT ![i] = t],
         toClient'[j] = toClient[j], toServer'[j] = toServer[j],
         UNCHANGED clientVars
  PROVE  Order(j)'
<1>1. i \in DOMAIN s_states /\ s_states[i].client = k
  BY DEF Open
<1>2. s_states'[i] = t /\ DOMAIN s_states' = DOMAIN s_states
      /\ \A x \in DOMAIN s_states : x # i => s_states'[x] = s_states[x]
  BY <1>1
<1>3. i \notin Open(j) /\ ~ (s_states'[i] # Destroyed /\ s_states'[i].client = j)
  BY <1>1, <1>2 DEF Open
<1>4. Open(j)' = Open(j)
  BY <1>1, <1>2, <1>3 DEF Open
<1>5. \A x \in Open(j) : s_states'[x] = s_states[x]
  BY <1>2, <1>3 DEF Open
<1> QED  BY <1>4, <1>5, OrderKept DEF clientVars

\* A resend is genuine, and it is not made once the whole chunk has been sent.
LEMMA ResendSends ==
  ASSUME Inv, NEW k \in Clients, NEW s \in Session, Agrees(s), s.client = k,
         data_list \in Lists, Holds(data_list, s),
         NEW p, p = s.last_packet_acked + 1 \/ p = s.last_packet_sent,
         Resend(s, p)
  PROVE  /\ \E b \in Seq(Packets) : Sends(s, s, b) /\ Joined(toClient[k], b, toClient'[k])
         /\ \A j \in Clients : j # k => toClient'[j] = toClient[j]
<1>1. PACKETS \in Nat \ {0} /\ WINDOW \in Nat \ {0}
  BY Bounds
<1>2. /\ s.last_packet_acked \in 0..PACKETS
      /\ s.last_packet_available = s.last_packet_acked + WINDOW
      /\ s.sent_count = s.last_packet_sent /\ s.last_packet_sent \in 1..PACKETS
      /\ s.last_packet_sent = IF s.last_packet_acked + WINDOW <= PACKETS
                                THEN s.last_packet_acked + WINDOW ELSE PACKETS
  BY SessionCounters
<1>3. toClient \in [Clients -> Seq(Packets)]
  BY DEF Inv, ServerInv
<1>4. CASE s.sent_count > PACKETS - 1
  <2>1. Sends(s, s, <<>>)
    BY DEF Sends
  <2>2. UNCHANGED toClient
    BY <1>4 DEF Resend
  <2>3. Joined(toClient[k], <<>>, toClient'[k]) /\ <<>> \in Seq(Packets)
    BY <2>2, SameJoins
  <2> QED  BY <2>1, <2>2, <2>3
<1>5. CASE ~ (s.sent_count > PACKETS - 1)
  <2> DEFINE m == Data(data_list, p)
             b == <<m>>
  <2>1. /\ s.last_packet_sent < PACKETS /\ p \in 1..PACKETS /\ p <= s.last_packet_sent
        /\ p \in s.last_packet_acked + 1..s.last_packet_available
    BY <1>1, <1>2, <1>5
  <2>2. m \in Packets
    BY <2>1, DataIsPacket
  <2>3. m.body = <<s.chunk, m.seq>> /\ m.seq = p
    BY <2>1, HeldIsGenuine
  <2>4. toClient' = [toClient EXCEPT ![k] = Enqueue(@, b)]
    BY <1>5 DEF Resend, SendTo
  <2> HIDE DEF m
  <2>5. b \in Seq(Packets) /\ DOMAIN b = {1} /\ Len(b) = 1 /\ b[1] = m
    BY <2>2
  <2>6. Sends(s, s, b)
    BY <1>1, <1>2, <2>1, <2>3, <2>5 DEF Sends
  <2> HIDE DEF b
  <2>7. toClient'[k] = Enqueue(toClient[k], b) /\ toClient[k] \in Seq(Packets)
    BY <1>3, <2>4
  <2>8. Joined(toClient[k], b, toClient'[k])
    BY <2>5, <2>7, EnqueueJoins
  <2> QED  BY <1>3, <2>4, <2>5, <2>6, <2>8
<1> QED  BY <1>4, <1>5

\* The open session answers: every client keeps its turn, and the ring what may have
\* to be resent.
LEMMA AnsweredTurns ==
  ASSUME Inv, Inv', Alone, \A j \in Clients : Order(j), NEW k \in Clients, NEW i \in Open(k),
         NEW t \in Session, NEW b \in Seq(Packets),
         s_states' = [s_states EXCEPT ![i] = t],
         t.client = k, t.chunk = s_states[i].chunk,
         s_states[i].last_packet_sent <= t.last_packet_sent,
         \/ t.last_packet_acked = s_states[i].last_packet_acked
         \/ \E x \in DOMAIN toServer[k] : /\ toServer[k][x].type = "ACK"
                                          /\ t.last_packet_acked = toServer[k][x].ack,
         Sends(s_states[i], t, b), Joined(toClient[k], b, toClient'[k]),
         Holds(data_list', t),
         toServer'[k] = toServer[k] \/ Popped(toServer[k], toServer'[k]),
         \A j \in Clients : j # k => toClient'[j] = toClient[j] /\ toServer'[j] = toServer[j],
         UNCHANGED clientVars
  PROVE  RingInv' /\ \A j \in Clients : Order(j)'
<1>1. Order(k)'
  BY AnswerKeeps
<1>2. \A j \in Clients : j # k => Order(j)'
  BY OtherKept
<1>3. RingInv'
  <2>1. i \in DOMAIN s_states /\ \A x \in Sessions : x = i
    BY AloneOpen DEF Open
  <2>2. s_states'[i] = t /\ DOMAIN s_states' = DOMAIN s_states
        /\ \A x \in DOMAIN s_states : x # i => s_states'[x] = s_states[x]
    BY <2>1
  <2>3. \A x \in Sessions' : x = i
    BY <2>1, <2>2 DEF Sessions
  <2>4. \A x \in Sessions' : s_states'[x] = t
    BY <2>2, <2>3
  <2> QED  BY <2>4 DEF RingInv
<1> QED  BY <1>1, <1>2, <1>3

\* The ACK that case 4 handles was the head of the client's queue.
Acks(k, a) ==
  /\ \E x \in DOMAIN toServer[k] : toServer[k][x].type = "ACK" /\ a = toServer[k][x].ack
  /\ Popped(toServer[k], toServer'[k])
  /\ \A j \in Clients : j # k => toServer'[j] = toServer[j]
  /\ UNCHANGED clientVars

LEMMA DuplicateAckTurns ==
  ASSUME Inv, Inv', Alone, RingInv, \A j \in Clients : Order(j), NEW k \in Clients,
         NEW i \in Open(k), NEW a, Acks(k, a), DuplicateAck(k, a, s_states[i])
  PROVE  RingInv' /\ \A j \in Clients : Order(j)'
<1> DEFINE s == s_states[i]
           t == [s EXCEPT !.duplicated_acks_count = Duplicates(s)]
<1>1. s \in Session /\ s.client = k /\ Agrees(s) /\ FindSState(k) = i /\ data_list \in Lists
      /\ i \in Sessions
  BY AloneOpen
<1>2. s_states' = [s_states EXCEPT ![i] = t] /\ i \in DOMAIN s_states
  BY <1>1 DEF DuplicateAck, Updated, Sessions
<1>3. s_states'[i] = t /\ t # Destroyed
  <2>1. "chunk" \in DOMAIN t
    BY <1>1 DEF Session
  <2> QED  BY <1>2, <2>1 DEF Destroyed
<1> HIDE DEF t
<1>4. t \in Session
  BY <1>2, <1>3 DEF Inv, ServerInv, ServerTypes
<1>5. /\ t.client = k /\ t.chunk = s.chunk /\ t.last_packet_sent = s.last_packet_sent
      /\ t.last_packet_acked = s.last_packet_acked
      /\ t.last_packet_available = s.last_packet_available
  BY <1>1 DEF t, Session
<1>6. Holds(data_list, s)
  BY <1>1 DEF RingInv
<1>7. /\ \E b \in Seq(Packets) : Sends(s, s, b) /\ Joined(toClient[k], b, toClient'[k])
      /\ \A j \in Clients : j # k => toClient'[j] = toClient[j]
  <2>1. CASE UNCHANGED toClient
    <3>1. Sends(s, s, <<>>) /\ <<>> \in Seq(Packets)
      BY DEF Sends
    <3> QED  BY <2>1, <3>1, SameJoins
  <2>2. CASE Resend(s, a + 1)
    <3>1. a = s.last_packet_acked
      BY DEF DuplicateAck
    <3> QED  BY <1>1, <1>6, <2>2, <3>1, ResendSends
  <2> QED  BY <2>1, <2>2 DEF DuplicateAck
<1>8. PICK b \in Seq(Packets) : Sends(s, s, b) /\ Joined(toClient[k], b, toClient'[k])
  BY <1>7
<1>9. Sends(s, t, b)
  BY <1>5, <1>8 DEF Sends
<1>10. Holds(data_list', t)
  <2>1. data_list' = data_list
    BY DEF DuplicateAck
  <2> QED  BY <1>5, <1>6, <2>1 DEF Holds
<1>11. s.last_packet_sent <= t.last_packet_sent
  BY <1>1, <1>5, Bounds DEF Session
<1> QED  BY <1>2, <1>4, <1>5, <1>7, <1>8, <1>9, <1>10, <1>11, AnsweredTurns DEF Acks

LEMMA OlderAckTurns ==
  ASSUME Inv, Inv', Alone, RingInv, \A j \in Clients : Order(j), NEW k \in Clients,
         NEW i \in Open(k), NEW a, Acks(k, a), OlderAck(k, a, s_states[i])
  PROVE  RingInv' /\ \A j \in Clients : Order(j)'
<1> DEFINE s == s_states[i]
           t == [s EXCEPT !.duplicated_acks_count = 0]
<1>1. s \in Session /\ s.client = k /\ Agrees(s) /\ FindSState(k) = i /\ i \in Sessions
  BY AloneOpen
<1>2. s_states' = [s_states EXCEPT ![i] = t] /\ i \in DOMAIN s_states
  BY <1>1 DEF OlderAck, Updated, Sessions
<1>3. s_states'[i] = t /\ t # Destroyed
  <2>1. "chunk" \in DOMAIN t
    BY <1>1 DEF Session
  <2> QED  BY <1>2, <2>1 DEF Destroyed
<1> HIDE DEF t
<1>4. t \in Session
  BY <1>2, <1>3 DEF Inv, ServerInv, ServerTypes
<1>5. /\ t.client = k /\ t.chunk = s.chunk /\ t.last_packet_sent = s.last_packet_sent
      /\ t.last_packet_acked = s.last_packet_acked
      /\ t.last_packet_available = s.last_packet_available
  BY <1>1 DEF t, Session
<1>6. toClient' = toClient /\ data_list' = data_list
  BY DEF OlderAck
<1>7. Sends(s, t, <<>>) /\ <<>> \in Seq(Packets) /\ Joined(toClient[k], <<>>, toClient'[k])
  BY <1>6, SameJoins DEF Sends
<1>8. Holds(data_list', t)
  BY <1>1, <1>5, <1>6 DEF RingInv, Holds
<1>9. s.last_packet_sent <= t.last_packet_sent
  BY <1>1, <1>5, Bounds DEF Session
<1> QED  BY <1>2, <1>4, <1>5, <1>6, <1>7, <1>8, <1>9, AnsweredTurns DEF Acks

\* A new window is buffered over packets that are acknowledged, and what is sent of
\* it is genuine and not the first packet.
LEMMA NormalAckTurns ==
  ASSUME Inv, Inv', Alone, RingInv, \A j \in Clients : Order(j), NEW k \in Clients,
         NEW i \in Open(k), NEW a \in 0..PACKETS, Acks(k, a), NormalAck(k, a, s_states[i])
  PROVE  RingInv' /\ \A j \in Clients : Order(j)'
<1> DEFINE s == s_states[i]
           d == a - s.last_packet_acked
           n == Sendable(s, d)
           t == [s EXCEPT !.duplicated_acks_count = 0,
                          !.last_packet_acked = a,
                          !.last_packet_available = @ + d,
                          !.last_packet_sent = @ + n,
                          !.sent_count = @ + n]
           b == Burst(data_list', s.last_packet_sent, n)
<1>1. s \in Session /\ s.client = k /\ Agrees(s) /\ FindSState(k) = i /\ i \in Sessions
      /\ data_list \in Lists
  BY AloneOpen
<1>2. /\ s_states' = [s_states EXCEPT ![i] = t] /\ i \in DOMAIN s_states
      /\ data_list' = Buffered(data_list, s.chunk, s.last_packet_available + 1,
                               s.last_packet_available + d)
      /\ toClient' = [toClient EXCEPT ![k] = Enqueue(@, b)]
      /\ a > s.last_packet_acked
  BY <1>1 DEF NormalAck, Updated, Sessions, SendTo
<1>3. s_states'[i] = t /\ t # Destroyed
  <2>1. "chunk" \in DOMAIN t
    BY <1>1 DEF Session
  <2> QED  BY <1>2, <2>1 DEF Destroyed
<1>4. /\ t.client = k /\ t.chunk = s.chunk /\ t.last_packet_sent = s.last_packet_sent + n
      /\ t.last_packet_acked = a
      /\ t.last_packet_available = s.last_packet_available + d
  BY <1>1 DEF Session
<1> HIDE DEF t
<1>5. t \in Session /\ Agrees(t)
  <2>1. DOMAIN s_states' = DOMAIN s_states
    BY <1>2
  <2>2. i \in Sessions'
    BY <1>2, <1>3, <2>1 DEF Sessions
  <2>3. s_states'[i] \in Session
    BY <2>2 DEF Inv, ServerInv, ServerTypes, Sessions
  <2>4. Agrees(s_states'[i])
    BY <2>2 DEF Inv, ServerInv, Agrees
  <2> QED  BY <1>3, <2>3, <2>4
<1>6. /\ PACKETS \in Nat \ {0} /\ WINDOW \in Nat \ {0}
      /\ s.last_packet_acked \in 0..PACKETS /\ d \in Nat \ {0}
      /\ s.last_packet_available = s.last_packet_acked + WINDOW
      /\ s.sent_count = s.last_packet_sent /\ s.last_packet_sent \in 1..PACKETS
      /\ t.last_packet_sent \in 1..PACKETS
  BY <1>1, <1>2, <1>5, Bounds, SessionCounters
<1>7. n = IF d <= PACKETS - s.sent_count THEN d ELSE PACKETS - s.sent_count
  BY <1>6, MinOfTwo DEF Sendable
<1> HIDE DEF n
<1>8. /\ n \in Nat /\ s.last_packet_sent + n <= PACKETS
      /\ s.last_packet_sent <= t.last_packet_sent
      /\ s.last_packet_sent = PACKETS => n = 0
  BY <1>4, <1>6, <1>7
<1>9. a <= s.last_packet_sent
  <2>1. CASE Waits(k)
    BY <1>6, <2>1 DEF Waits
  <2>2. CASE Receives(k)
    <3>1. Follows(s, toServer[k], ack_number[k], Wanted(k))
      BY <1>1, <2>2, AloneOpen DEF Receives
    <3>2. a <= ack_number[k] /\ ack_number[k] <= s.last_packet_sent /\ ack_number[k] \in Nat
      BY <1>6, <3>1 DEF Follows, Acks, Inv, ClientTypes
    <3> QED  BY <1>6, <3>2
  <2> QED  BY <2>1, <2>2 DEF Order
<1>10. Holds(data_list', t)
  <2>1. data_list # NoList /\ Holds(data_list, s)
    BY <1>1, AloneOpen DEF RingInv
  <2> DEFINE lo == s.last_packet_available + 1
             hi == s.last_packet_available + d
  <2>2. lo \in Int /\ hi \in Int /\ hi = a + WINDOW /\ t.last_packet_available = hi
        /\ lo = s.last_packet_acked + WINDOW + 1
    BY <1>4, <1>6
  <2> SUFFICES ASSUME NEW p \in a + 1..hi
               PROVE  Find(data_list', Slot(p)) = <<s.chunk, p>>
    BY <1>4, <2>2 DEF Holds
  <2> HIDE DEF lo, hi
  <2>3. p \in Int /\ hi - WINDOW < p /\ p <= hi
    BY <1>6, <2>2
  <2>4. p >= lo \/ p \in s.last_packet_acked + 1..s.last_packet_available
    BY <1>2, <1>6, <2>2, <2>3
  <2>5. p >= lo \/ (data_list # NoList /\ Find(data_list, Slot(p)) = <<s.chunk, p>>)
    BY <2>1, <2>4 DEF Holds
  <2>6. Find(Buffered(data_list, s.chunk, lo, hi), Slot(p)) = <<s.chunk, p>>
    BY <1>1, <2>2, <2>3, <2>5, BufferedFinds
  <2> QED  BY <1>2, <2>6 DEF lo, hi
<1>11. b \in Seq(Packets)
  <2>1. s.last_packet_available + d \in Nat /\ s.last_packet_available + d <= PACKETS + WINDOW
        /\ s.last_packet_available + 1 \in Nat \ {0} /\ s.chunk \in Chunks
    BY <1>1, <1>6 DEF Session
  <2>2. data_list' \in Lists
    BY <1>1, <1>2, <2>1, BufferedIsList
  <2> QED  BY <1>6, <1>8, <2>2, BurstIsPackets
<1>12. Sends(s, t, b)
  <2>1. DOMAIN b = 1..n /\ \A j \in 1..n : b[j] = Data(data_list', s.last_packet_sent + j)
    BY DEF Burst
  <2>2. ASSUME NEW j \in 1..n
        PROVE  /\ b[j].body = <<s.chunk, b[j].seq>> /\ b[j].seq <= t.last_packet_sent
               /\ b[j].seq # 1
    <3> DEFINE p == s.last_packet_sent + j
    <3>1. s.last_packet_sent = s.last_packet_acked + WINDOW
      <4>1. s.last_packet_sent # PACKETS
        BY <1>8, <2>2
      <4> QED  BY <1>1, <4>1, SessionCounters
    <3>2. p \in t.last_packet_acked + 1..t.last_packet_available
      BY <1>4, <1>6, <1>7, <1>8, <1>9, <3>1
    <3>3. p # 1 /\ p <= t.last_packet_sent
      BY <1>4, <1>6, <1>8
    <3> HIDE DEF p
    <3>4. Data(data_list', p).body = <<t.chunk, Data(data_list', p).seq>>
          /\ Data(data_list', p).seq = p
      BY <1>5, <1>10, <3>2, HeldIsGenuine
    <3>5. b[j] = Data(data_list', p)
      BY <2>1 DEF p
    <3> QED  BY <1>4, <3>3, <3>4, <3>5
  <2>3. s.last_packet_sent = PACKETS => b = <<>>
    BY <1>8, <1>11, <2>1
  <2> HIDE DEF b
  <2> QED  BY <2>1, <2>2, <2>3 DEF Sends
<1>13. Joined(toClient[k], b, toClient'[k])
  <2> HIDE DEF b
  <2>1. toClient \in [Clients -> Seq(Packets)]
    BY DEF Inv, ServerInv
  <2>2. toClient'[k] = Enqueue(toClient[k], b)
    BY <1>2, <2>1
  <2> QED  BY <1>11, <2>1, <2>2, EnqueueJoins
<1>14. \A j \in Clients : j # k => toClient'[j] = toClient[j]
  BY <1>2 DEF Inv, ServerInv
<1> HIDE DEF b
<1> QED  BY <1>2, <1>4, <1>5, <1>8, <1>10, <1>11, <1>12, <1>13, <1>14, AnsweredTurns DEF Acks

\* The last ACK comes from a client that has its chunk: nobody is served any more.
LEMMA FinalAckTurns ==
  ASSUME Inv, Alone, \A j \in Clients : Order(j), NEW k \in Clients,
         NEW i \in Open(k), NEW a, Acks(k, a), FinalAck(k, a, s_states[i]),
         toServer'[k] \in Seq(Request)
  PROVE  RingInv' /\ \A j \in Clients : Order(j)'
<1>1. /\ s_states[i] \in Session /\ FindSState(k) = i /\ i \in Sessions
      /\ \A x \in Sessions : x = i
  BY AloneOpen
<1>2. s_states' = [s_states EXCEPT ![i] = Destroyed] /\ i \in DOMAIN s_states
  BY <1>1 DEF FinalAck, Updated, Closed, Sessions
<1>3. /\ DOMAIN s_states' = DOMAIN s_states /\ s_states'[i] = Destroyed
      /\ \A x \in DOMAIN s_states : x # i => s_states'[x] = s_states[x]
  BY <1>2
<1>4. Sessions' = {}
  BY <1>1, <1>3 DEF Sessions
<1>5. toClient' = toClient /\ UNCHANGED clientVars
  BY DEF FinalAck, Acks
<1>6. Order(k)'
  <2>1. ~ Receives(k)
    <3> SUFFICES ASSUME Receives(k) PROVE FALSE
      OBVIOUS
    <3>1. Follows(s_states[i], toServer[k], ack_number[k], Wanted(k)) /\ status[k] = "receiving"
      BY AloneOpen DEF Receives
    <3>2. a <= ack_number[k] /\ ack_number[k] < PACKETS /\ a >= PACKETS
      BY <3>1 DEF Follows, Acks, Order, FinalAck
    <3>3. ack_number[k] \in Nat /\ PACKETS \in Nat /\ toServer[k] \in Seq(Request)
      BY Bounds DEF Inv, ClientTypes
    <3>4. \A m \in Request : m.type = "ACK" => m.ack \in Nat
      BY Bounds DEF Request
    <3>5. a \in Nat
      BY <3>3, <3>4 DEF Acks
    <3> QED  BY <3>2, <3>3, <3>5
  <2>2. Waits(k)
    BY <2>1 DEF Order
  <2>3. Wanted(k)' = Wanted(k) /\ status' = status /\ ack_number' = ack_number
        /\ correct' = correct
    BY <1>5 DEF Wanted, clientVars
  <2>4. Open(k)' = {}
    BY <1>4 DEF Open, Sessions
  <2>5. toServer[k] \in Seq(Request)
    BY DEF Inv, ClientTypes
  <2>6. Late(toServer'[k], status[k], Wanted(k))
    BY <2>2, <2>5, LatePopped DEF Waits, Acks
  <2>7. Waits(k)'
    BY <1>5, <2>2, <2>3, <2>4, <2>6 DEF Waits
  <2> QED  BY <2>3, <2>7 DEF Order
<1>7. \A j \in Clients : j # k => Order(j)'
  BY <1>2, <1>5, OtherKept DEF Acks
<1> QED  BY <1>4, <1>6, <1>7 DEF RingInv

\* An ACK without a session takes its place in no one's turn.
LEMMA StrayAckTurns ==
  ASSUME Inv, Alone, RingInv, \A j \in Clients : Order(j), NEW k \in Clients,
         Open(k) = {}, NEW a, Acks(k, a), StrayAck, toServer'[k] \in Seq(Request)
  PROVE  RingInv' /\ \A j \in Clients : Order(j)'
<1>1. UNCHANGED serverVars /\ toClient' = toClient /\ UNCHANGED clientVars
  BY DEF StrayAck, Acks
<1>2. \A j \in Clients : Open(j)' = Open(j)
  BY <1>1 DEF Open, serverVars
<1>3. RingInv'
  BY <1>1 DEF RingInv, Sessions, serverVars
<1>4. Order(k)'
  <2>1. Waits(k)
    BY DEF Order, Receives
  <2>2. Wanted(k)' = Wanted(k) /\ status' = status /\ ack_number' = ack_number
        /\ correct' = correct
    BY <1>1 DEF Wanted, clientVars
  <2>3. toServer[k] \in Seq(Request)
    BY DEF Inv, ClientTypes
  <2>4. Late(toServer'[k], status[k], Wanted(k))
    BY <2>1, <2>3, LatePopped DEF Waits, Acks
  <2>5. Waits(k)'
    BY <1>1, <1>2, <2>1, <2>2, <2>4 DEF Waits
  <2> QED  BY <2>2, <2>5 DEF Order
<1>5. \A j \in Clients : j # k => Order(j)'
  BY <1>1, <1>2, OrderKept DEF Acks, serverVars, clientVars
<1> QED  BY <1>3, <1>4, <1>5

LEMMA AckTurns ==
  ASSUME Inv, Inv', Alone, Alone', RingInv, \A j \in Clients : Order(j), NEW k \in Clients,
         NEW a \in 0..PACKETS, Acks(k, a), Ack(k, a)
  PROVE  RingInv' /\ \A j \in Clients : Order(j)'
<1>1. toServer'[k] \in Seq(Request)
  BY DEF Inv, ClientTypes
<1>2. CASE Found(k) = {}
  <2>1. Open(k) = {}
    BY <1>2, AloneOpen
  <2> QED  BY <1>1, <1>2, <2>1, StrayAckTurns DEF Ack
<1>3. CASE Found(k) # {}
  <2>1. PICK i \in Open(k) : FindSState(k) = i
    BY <1>3, AloneOpen
  <2>2. ended' = "no"
    BY DEF Inv, ServerInv, AloneInv, OneAtATime
  <2>3. ~ AckTimerLost
    BY <2>2 DEF AckTimerLost, Halt
  <2>4. CASE DuplicateAck(k, a, s_states[i])
    BY <2>4, DuplicateAckTurns
  <2>5. CASE OlderAck(k, a, s_states[i])
    BY <2>5, OlderAckTurns
  <2>6. CASE NormalAck(k, a, s_states[i])
    BY <2>6, NormalAckTurns
  <2>7. CASE FinalAck(k, a, s_states[i])
    BY <1>1, <2>7, FinalAckTurns
  <2> QED  BY <1>3, <2>1, <2>3, <2>4, <2>5, <2>6, <2>7 DEF Ack
<1> QED  BY <1>2, <1>3

\* A GET that is taken in while no session is open opens the one the client waits for.
LEMMA RecvGetTurns ==
  ASSUME Inv, Inv', Alone, Alone', \A j \in Clients : Order(j), NEW k \in Clients,
         1 \in DOMAIN toServer[k], RecvGet(k, toServer[k][1]),
         Popped(toServer[k], toServer'[k]),
         \A j \in Clients : j # k => toServer'[j] = toServer[j],
         UNCHANGED clientVars
  PROVE  RingInv' /\ \A j \in Clients : Order(j)'
<1> DEFINE m == toServer[k][1]
           s == [NewSession(k, m.chunk) EXCEPT !.last_packet_available = WINDOW,
                                               !.last_packet_sent = WINDOW,
                                               !.sent_count = WINDOW]
           l == Len(s_states) + 1
           b == Burst(data_list', 0, WINDOW)
<1>1. PACKETS \in Nat \ {0} /\ WINDOW \in Nat \ {0} /\ WINDOW <= PACKETS
  BY Bounds
<1>2. /\ m.type = "GET"
      /\ s_states' = Append(s_states, s)
      /\ data_list' = Buffered(data_list, m.chunk, 1, WINDOW)
      /\ toClient' = [toClient EXCEPT ![k] = Enqueue(@, b)]
      /\ overlapped' = (overlapped \/ \E j \in Clients : Open(j) # {})
  BY DEF RecvGet, SendTo
<1>3. m.chunk \in Chunks
  <2>1. m \in Request
    BY DEF Inv, ClientTypes
  <2> QED  BY <1>2, <2>1 DEF Request
<1>4. \A j \in Clients : Open(j) = {}
  <2>1. ~ overlapped'
    BY DEF Alone
  <2> QED  BY <1>2, <2>1, Zenon
<1>5. /\ s \in Session /\ s.last_packet_acked = 0 /\ s.last_packet_available = WINDOW
      /\ s.last_packet_sent = WINDOW /\ s.client = k /\ s.chunk = m.chunk
  <2>1. s.client = k /\ s.chunk = m.chunk
    BY DEF NewSession
  <2> QED  BY <1>3, <2>1, FirstSession
<1> HIDE DEF s, m
<1>6. /\ DOMAIN s_states = 1..l - 1 /\ DOMAIN s_states' = 1..l /\ l \in Nat \ {0}
      /\ s_states'[l] = s /\ \A x \in 1..l - 1 : s_states'[x] = s_states[x]
  BY <1>2, <1>5 DEF Inv, ServerInv, ServerTypes
<1>7. \A x \in DOMAIN s_states : s_states[x] = Destroyed
  <2> SUFFICES ASSUME NEW x \in DOMAIN s_states, s_states[x] # Destroyed PROVE FALSE
    OBVIOUS
  <2>1. s_states[x].client \in Clients
    BY DEF Inv, ServerInv, ServerTypes, Session
  <2> QED  BY <1>4, <2>1 DEF Open
<1> HIDE DEF l
<1>8. /\ Sessions' = {l} /\ Open(k)' = {l}
      /\ \A j \in Clients : j # k => Open(j)' = {}
  BY <1>5, <1>6, <1>7, DestroyedIsNone DEF Sessions, Open
<1>9. Holds(data_list', s)
  <2> SUFFICES ASSUME NEW p \in 0 + 1..WINDOW
               PROVE  Find(data_list', Slot(p)) = <<m.chunk, p>>
    BY <1>5 DEF Holds
  <2>1. data_list \in Lists \cup {NoList}
    BY DEF Inv, ServerInv, ServerTypes
  <2>2. 1 \in Int /\ WINDOW \in Int /\ p \in Int /\ WINDOW - WINDOW < p /\ p <= WINDOW /\ p >= 1
    BY <1>1
  <2> QED  BY <1>2, <2>1, <2>2, BufferedFinds
<1>10. RingInv'
  BY <1>6, <1>8, <1>9 DEF RingInv
<1>11. \A j \in Clients : j # k => Order(j)'
  <2> SUFFICES ASSUME NEW j \in Clients, j # k PROVE Order(j)'
    OBVIOUS
  <2>1. Open(j)' = Open(j) /\ Open(j) = {} /\ toClient'[j] = toClient[j]
    BY <1>2, <1>4, <1>8 DEF Inv, ServerInv
  <2> QED  BY <2>1, OrderKept DEF clientVars
<1>12. Order(k)'
  <2>1. Waits(k)
    BY <1>4 DEF Order, Receives
  <2>2. Wanted(k)' = Wanted(k) /\ status' = status /\ ack_number' = ack_number
        /\ correct' = correct
    BY DEF Wanted, clientVars
  <2>3. /\ status[k] = "receiving" /\ m.chunk = Wanted(k) /\ ack_number[k] = 0
        /\ \A y \in DOMAIN toServer[k] : y > 1 =>
             toServer[k][y].type = "ACK" /\ toServer[k][y].ack = 0
    BY <1>2, <2>1 DEF Waits, Late, m
  <2>4. Follows(s, toServer'[k], 0, Wanted(k))
    <3>1. \A x \in DOMAIN toServer'[k] :
            /\ x + 1 \in DOMAIN toServer[k] /\ x + 1 > 1
            /\ toServer'[k][x] = toServer[k][x + 1]
      <4>1. toServer'[k] \in Seq(Request)
        BY DEF Inv, ClientTypes
      <4> QED  BY <4>1 DEF Popped
    <3> QED  BY <1>1, <1>5, <2>3, <3>1 DEF Follows
  <2>5. toClient[k] \in Seq(Packets) /\ toClient'[k] \in Seq(Packets)
    BY DEF Inv, ServerInv
  <2>6. data_list' \in Lists
    <3>1. data_list \in Lists \cup {NoList}
      BY DEF Inv, ServerInv, ServerTypes
    <3>2. 1 \in Nat \ {0} /\ WINDOW \in Nat /\ WINDOW <= PACKETS + WINDOW
      BY <1>1
    <3> QED  BY <1>2, <1>3, <3>1, <3>2, BufferedIsList
  <2>7. b \in Seq(Packets)
    <3>1. 0 \in Nat /\ WINDOW \in Nat /\ 0 + WINDOW <= PACKETS
      BY <1>1
    <3> QED  BY <2>6, <3>1, BurstIsPackets
  <2>8. /\ DOMAIN b = 1..WINDOW
        /\ \A x \in 1..WINDOW : b[x].body = <<m.chunk, b[x].seq>> /\ b[x].seq = x
    <3>1. DOMAIN b = 1..WINDOW /\ \A x \in 1..WINDOW : b[x] = Data(data_list', x)
      BY <1>1 DEF Burst
    <3>2. \A x \in 1..WINDOW : x \in s.last_packet_acked + 1..s.last_packet_available
      BY <1>5
    <3>3. \A x \in 1..WINDOW : Data(data_list', x).body = <<s.chunk, Data(data_list', x).seq>>
                               /\ Data(data_list', x).seq = x
      BY <1>5, <1>9, <3>2, HeldIsGenuine
    <3> QED  BY <1>5, <3>1, <3>3
  <2> HIDE DEF b
  <2>9. Joined(toClient[k], b, toClient'[k])
    <3>1. toClient'[k] = Enqueue(toClient[k], b)
      BY <1>2 DEF Inv, ServerInv
    <3> QED  BY <2>5, <2>7, <3>1, EnqueueJoins
  <2> DEFINE n == Len(toClient[k])
             q == toClient[k]
             r == toClient'[k]
  <2>10. n \in Nat /\ DOMAIN q = 1..n /\ DOMAIN r \subseteq Nat
    BY <2>5, LenProperties
  <2>11. \A x \in DOMAIN r : \/ x <= n /\ x \in DOMAIN q /\ r[x] = q[x]
                             \/ x > n /\ x - n \in 1..WINDOW /\ r[x] = b[x - n]
    BY <2>8, <2>9, <2>10 DEF Joined
  <2>12. Quiet(q)
    BY <2>1 DEF Waits
  <2> HIDE DEF n, q, r
  <2>13. Fresh(r, n, m.chunk, WINDOW)
    <3>1. \A x \in DOMAIN r : x <= n => r[x].seq # 1
      BY <2>10, <2>11, <2>12 DEF Quiet
    <3>2. \A x \in DOMAIN r : x > n =>
            r[x].body = <<m.chunk, r[x].seq>> /\ r[x].seq <= WINDOW /\ r[x].seq = x - n
      BY <1>1, <2>8, <2>10, <2>11
    <3>3. \A x, y \in DOMAIN r : n < x /\ x < y /\ r[x].seq = PACKETS => r[y].seq # 1
      BY <2>10, <3>2
    <3> QED  BY <3>1, <3>2, <3>3 DEF Fresh
  <2>14. Receives(k)'
    BY <1>5, <1>6, <1>8, <2>2, <2>3, <2>4, <2>10, <2>13 DEF Receives, r
  <2> QED  BY <2>2, <2>14 DEF Order
<1> QED  BY <1>10, <1>11, <1>12

\* The timer of the open session resends the packet sent last.
LEMMA TimerTurns ==
  ASSUME Inv, Inv', Alone, Alone', RingInv, \A j \in Clients : Order(j), Timer
  PROVE  RingInv' /\ \A j \in Clients : Order(j)'
<1>1. PICK n \in DOMAIN timers : SenderTimer(n) \/ StaleTimer(n) \/ TimerListLost(n)
  BY DEF Timer
<1>2. ended' = "no"
  BY DEF Inv, ServerInv, AloneInv, OneAtATime
<1>3. SenderTimer(n)
  BY <1>1, <1>2 DEF StaleTimer, TimerListLost, Halt
<1> DEFINE i == timers[n].owner
           s == s_states[i]
           k == s.client
<1>4. i \in Sessions
  <2>1. timers[n] \in TimersOf(DOMAIN s_states)
    BY DEF Inv, ServerInv, ServerTypes
  <2>2. i \in DOMAIN s_states
    BY <2>1 DEF TimersOf
  <2> QED  BY <1>3, <2>2 DEF SenderTimer, Owner, Sessions
<1>5. k \in Clients
  BY <1>4 DEF Sessions, Inv, ServerInv, ServerTypes, Session
<1>6. i \in Open(k)
  BY <1>4 DEF Open, Sessions
<1>7. s \in Session /\ Agrees(s) /\ data_list \in Lists /\ Holds(data_list, s)
  BY <1>4, <1>5, <1>6, AloneOpen DEF RingInv
<1>8. Resend(s, s.last_packet_sent) /\ UNCHANGED <<serverVars, toServer, clientVars>>
  BY <1>3 DEF SenderTimer, Owner
<1> HIDE DEF k, i
<1>9. s.client = k
  BY DEF k
<1>10. PICK b \in Seq(Packets) : Sends(s, s, b) /\ Joined(toClient[k], b, toClient'[k])
  BY <1>5, <1>7, <1>8, <1>9, ResendSends
<1>11. \A j \in Clients : j # k => toClient'[j] = toClient[j]
  BY <1>5, <1>7, <1>8, <1>9, ResendSends
<1>12. s_states' = [s_states EXCEPT ![i] = s] /\ data_list' = data_list
  BY <1>4, <1>8 DEF serverVars, Sessions, Inv, ServerInv, ServerTypes
<1>13. s.last_packet_sent <= s.last_packet_sent
  BY <1>7, Bounds DEF Session
<1> QED  BY <1>5, <1>6, <1>7, <1>8, <1>9, <1>10, <1>11, <1>12, <1>13, AnsweredTurns

LEMMA ServeTurns ==
  ASSUME InOrder, Inv, Inv', Alone, Alone', RingInv, \A j \in Clients : Order(j),
         NEW k \in Clients, Serve(k)
  PROVE  RingInv' /\ \A j \in Clients : Order(j)'
<1>1. PICK i \in Arrivals(toServer[k]) :
        /\ Takes(k, i)
        /\ \/ RecvGet(k, toServer[k][i])
           \/ /\ toServer[k][i].type = "ACK"
              /\ Ack(k, toServer[k][i].ack)
              /\ UNCHANGED overlapped
  BY DEF Serve
<1>2. PICK rest \in After(toServer[k], i) : toServer' = [toServer EXCEPT ![k] = rest]
  BY <1>1 DEF Takes
<1>3. toServer \in [Clients -> Seq(Request)]
  BY DEF Inv, ClientTypes
<1>4. i = 1 /\ 1 \in DOMAIN toServer[k] /\ Popped(toServer[k], rest)
  BY <1>3, HeadArrives
<1>5. /\ Popped(toServer[k], toServer'[k])
      /\ \A j \in Clients : j # k => toServer'[j] = toServer[j]
      /\ UNCHANGED clientVars
  BY <1>1, <1>2, <1>3, <1>4 DEF Takes
<1>6. CASE RecvGet(k, toServer[k][1])
  BY <1>4, <1>5, <1>6, RecvGetTurns
<1>7. CASE toServer[k][1].type = "ACK" /\ Ack(k, toServer[k][1].ack)
  <2>1. toServer[k][1].ack \in 0..PACKETS
    <3>1. toServer[k][1] \in Request
      BY <1>3, <1>4
    <3> QED  BY <1>7, <3>1 DEF Request
  <2>2. Acks(k, toServer[k][1].ack)
    BY <1>4, <1>5, <1>7 DEF Acks
  <2> QED  BY <1>7, <2>1, <2>2, AckTurns
<1> QED  BY <1>1, <1>4, <1>6, <1>7

-----------------------------------------------------------------------------
(* The clients and the network. *)

LEMMA JoinedOne ==
  ASSUME NEW q \in Seq(Request), NEW m, NEW r \in Seq(Request), Joined(q, <<m>>, r)
  PROVE  \A x \in DOMAIN r : \/ x \in 1..Len(q) /\ x \in DOMAIN q /\ r[x] = q[x]
                             \/ x = Len(q) + 1 /\ r[x] = m
<1>1. DOMAIN <<m>> = {1} /\ <<m>>[1] = m /\ Len(q) \in Nat /\ DOMAIN q = 1..Len(q)
      /\ DOMAIN r \subseteq Nat
  BY LenProperties
<1> DEFINE b == <<m>>
<1>2. \A x \in DOMAIN r : \/ x \in DOMAIN q /\ r[x] = q[x]
                          \/ x > Len(q) /\ x - Len(q) \in DOMAIN b /\ r[x] = b[x - Len(q)]
  BY DEF Joined
<1>3. DOMAIN b = {1} /\ b[1] = m
  BY <1>1
<1> HIDE DEF b
<1> QED  BY <1>1, <1>2, <1>3

\* The client repeats, after its request, that it has nothing yet.
LEMMA LateJoined ==
  ASSUME NEW q \in Seq(Request), NEW r \in Seq(Request), NEW a, NEW st, NEW c,
         Joined(q, <<[type |-> "ACK", ack |-> a]>>, r),
         st = "receiving" => a = 0,
         Late(q, st, c)
  PROVE  Late(r, st, c)
<1> DEFINE m == [type |-> "ACK", ack |-> a]
           l == Len(q)
<1>1. m.type = "ACK" /\ m.type # "GET" /\ m.ack = a
  OBVIOUS
<1>2. Joined(q, <<m>>, r)
  OBVIOUS
<1> HIDE DEF m
<1>3. \A x \in DOMAIN r : \/ x \in 1..l /\ x \in DOMAIN q /\ r[x] = q[x]
                          \/ x = l + 1 /\ r[x] = m
  BY <1>2, JoinedOne
<1> SUFFICES ASSUME NEW x \in DOMAIN r, r[x].type = "GET"
             PROVE  /\ st = "receiving" /\ r[x].chunk = c
                    /\ \A y \in DOMAIN r : y > x => r[y].type = "ACK" /\ r[y].ack = 0
  BY DEF Late
<1>4. x \in DOMAIN q /\ r[x] = q[x]
  BY <1>1, <1>3
<1>5. /\ st = "receiving" /\ r[x].chunk = c
      /\ \A y \in DOMAIN q : y > x => q[y].type = "ACK" /\ q[y].ack = 0
  BY <1>4 DEF Late
<1> QED  BY <1>1, <1>3, <1>5

\* Where the server stands still, a client of which nothing else changes.
LEMMA ServerStill ==
  ASSUME UNCHANGED serverVars, \A j \in Clients : Order(j), RingInv, NEW k \in Clients,
         Order(k)',
         \A j \in Clients : j # k => /\ toClient'[j] = toClient[j] /\ toServer'[j] = toServer[j]
                                     /\ asked'[j] = asked[j] /\ status'[j] = status[j]
                                     /\ ack_number'[j] = ack_number[j]
                                     /\ correct'[j] = correct[j]
  PROVE  RingInv' /\ \A j \in Clients : Order(j)'
<1>1. RingInv'
  BY DEF RingInv, Sessions, serverVars
<1>2. s_states' = s_states /\ \A j \in Clients : Open(j)' = Open(j)
  BY DEF Open, serverVars
<1>3. \A j \in Clients : j # k => Order(j)'
  BY <1>2, OrderKept
<1> QED  BY <1>1, <1>3

\* A datagram arrives or is lost, the client repeats its last ACK, and nothing else.
LEMMA RepeatKeeps ==
  ASSUME Inv, Inv', NEW k \in Clients, Order(k), UNCHANGED serverVars,
         toClient'[k] = toClient[k] \/ Popped(toClient[k], toClient'[k]),
         \/ toServer'[k] = toServer[k] \/ Popped(toServer[k], toServer'[k])
         \/ Joined(toServer[k], <<[type |-> "ACK", ack |-> ack_number[k]]>>, toServer'[k]),
         asked'[k] = asked[k], status'[k] = status[k],
         ack_number'[k] = ack_number[k], correct'[k] = correct[k]
  PROVE  Order(k)'
<1>1. /\ toClient[k] \in Seq(Packets) /\ toClient'[k] \in Seq(Packets)
      /\ toServer[k] \in Seq(Request) /\ toServer'[k] \in Seq(Request)
      /\ ack_number[k] \in Nat
  BY Bounds DEF Inv, ServerInv, ClientTypes
<1>2. Wanted(k)' = Wanted(k) /\ Open(k)' = Open(k) /\ s_states' = s_states
  BY DEF Wanted, Open, serverVars
<1>3. CASE Waits(k)
  <2>1. Quiet(toClient'[k])
    BY <1>1, <1>3, QuietPopped DEF Waits
  <2>2. Late(toServer'[k], status[k], Wanted(k))
    <3>1. Late(toServer[k], status[k], Wanted(k)) /\ (status[k] = "receiving" => ack_number[k] = 0)
      BY <1>3 DEF Waits
    <3> QED  BY <1>1, <3>1, LatePopped, LateJoined
  <2>3. Waits(k)'
    BY <1>2, <1>3, <2>1, <2>2 DEF Waits
  <2> QED  BY <2>3 DEF Order
<1>4. CASE Receives(k)
  <2>1. PICK i \in Open(k) :
          /\ Follows(s_states[i], toServer[k], ack_number[k], Wanted(k))
          /\ \E n \in Nat :
               /\ ack_number[k] > 0 => n = 0
               /\ Fresh(toClient[k], n, Wanted(k), s_states[i].last_packet_sent)
    BY <1>4 DEF Receives
  <2>2. PICK n \in Nat :
          /\ ack_number[k] > 0 => n = 0
          /\ Fresh(toClient[k], n, Wanted(k), s_states[i].last_packet_sent)
    BY <2>1
  <2>3. \E m \in Nat :
          /\ ack_number[k] > 0 => m = 0
          /\ Fresh(toClient'[k], m, Wanted(k), s_states[i].last_packet_sent)
    <3>1. CASE toClient'[k] = toClient[k]
      BY <2>2, <3>1
    <3>2. CASE Popped(toClient[k], toClient'[k])
      <4>1. \E m \in Nat : (n = 0 => m = 0)
              /\ Fresh(toClient'[k], m, Wanted(k), s_states[i].last_packet_sent)
        BY <1>1, <2>2, <3>2, FreshPopped
      <4> QED  BY <2>2, <4>1
    <3> QED  BY <3>1, <3>2
  <2>4. Follows(s_states[i], toServer'[k], ack_number[k], Wanted(k))
    <3>1. CASE toServer'[k] = toServer[k] \/ Popped(toServer[k], toServer'[k])
      BY <2>1, <3>1 DEF Follows, Popped
    <3>2. CASE Joined(toServer[k], <<[type |-> "ACK", ack |-> ack_number[k]]>>, toServer'[k])
      <4> DEFINE m == [type |-> "ACK", ack |-> ack_number[k]]
      <4>1. m.type = "ACK" /\ m.ack <= ack_number[k]
        BY <1>1
      <4> HIDE DEF m
      <4>2. \A x \in DOMAIN toServer'[k] :
              \/ x \in DOMAIN toServer[k] /\ toServer'[k][x] = toServer[k][x]
              \/ toServer'[k][x] = m
        BY <1>1, <3>2, JoinedOne DEF m
      <4> QED  BY <2>1, <4>1, <4>2 DEF Follows
    <3> QED  BY <3>1, <3>2
  <2>5. Receives(k)'
    BY <1>2, <1>4, <2>3, <2>4 DEF Receives
  <2> QED  BY <2>5, <1>4 DEF Order
<1> QED  BY <1>3, <1>4 DEF Order

\* DataArrives takes the head of what is under way to the client.
LEMMA HeadOfData ==
  ASSUME InOrder, Inv, NEW k \in Clients, NEW m, DataArrives(k, m)
  PROVE  /\ 1 \in DOMAIN toClient[k] /\ m = toClient[k][1] /\ m \in Packets
         /\ Popped(toClient[k], toClient'[k])
         /\ \A j \in Clients : j # k => toClient'[j] = toClient[j]
         /\ UNCHANGED <<serverVars, asked>>
<1>1. toClient \in [Clients -> Seq(Packets)]
  BY DEF Inv, ServerInv
<1>2. PICK i \in Arrivals(toClient[k]) :
        /\ m = toClient[k][i]
        /\ \E rest \in After(toClient[k], i) : toClient' = [toClient EXCEPT ![k] = rest]
  BY DEF DataArrives
<1>3. PICK rest \in After(toClient[k], i) : toClient' = [toClient EXCEPT ![k] = rest]
  BY <1>2
<1>4. i = 1 /\ 1 \in DOMAIN toClient[k] /\ Popped(toClient[k], rest)
  BY <1>1, HeadArrives
<1> QED  BY <1>1, <1>2, <1>3, <1>4 DEF DataArrives

\* What the client sends joins its requests, and no other's.
LEMMA Acknowledges ==
  ASSUME Inv, NEW k \in Clients, NEW a \in 0..PACKETS, Acknowledge(k, a)
  PROVE  /\ Joined(toServer[k], <<[type |-> "ACK", ack |-> a]>>, toServer'[k])
         /\ \A j \in Clients : j # k => toServer'[j] = toServer[j]
<1> DEFINE m == [type |-> "ACK", ack |-> a]
<1>1. m \in Request
  BY DEF Request
<1>2. toServer' = [toServer EXCEPT ![k] = Enqueue(@, <<m>>)]
  BY DEF Acknowledge
<1> HIDE DEF m
<1>3. toServer \in [Clients -> Seq(Request)] /\ <<m>> \in Seq(Request)
  BY <1>1 DEF Inv, ClientTypes
<1>4. Joined(toServer[k], <<m>>, Enqueue(toServer[k], <<m>>))
  BY <1>3, EnqueueJoins
<1> QED  BY <1>2, <1>3, <1>4 DEF m

\* The next packet is genuine: it is the first only if it is of the open session, and
\* with the last nothing of the session is left that could be taken for a first.
LEMMA ExpectedKeeps ==
  ASSUME InOrder, Inv, Inv', Alone, NEW k \in Clients, Order(k), NEW m, ExpectedData(k, m)
  PROVE  Order(k)'
<1>1. /\ 1 \in DOMAIN toClient[k] /\ m = toClient[k][1] /\ m \in Packets
      /\ Popped(toClient[k], toClient'[k]) /\ UNCHANGED <<serverVars, asked>>
  BY HeadOfData DEF ExpectedData
<1>2. /\ status[k] = "receiving" /\ m.seq = ack_number[k] + 1
      /\ Acknowledge(k, m.seq) /\ ack_number'[k] = m.seq
  BY DEF ExpectedData, AckFor, Inv, ClientTypes
<1>3. /\ toClient[k] \in Seq(Packets) /\ toClient'[k] \in Seq(Packets)
      /\ toServer[k] \in Seq(Request) /\ toServer'[k] \in Seq(Request)
      /\ ack_number[k] \in Nat /\ m.seq \in 1..PACKETS /\ PACKETS \in Nat \ {0}
  <2>1. /\ toClient[k] \in Seq(Packets) /\ toClient'[k] \in Seq(Packets)
        /\ toServer[k] \in Seq(Request) /\ toServer'[k] \in Seq(Request)
    BY DEF Inv, ServerInv, ClientTypes
  <2>2. m.seq \in 1..PACKETS
    BY <1>1 DEF Packets
  <2>3. ack_number[k] \in Nat /\ PACKETS \in Nat \ {0}
    BY Bounds DEF Inv, ClientTypes
  <2> QED  BY <2>1, <2>2, <2>3
<1>4. Wanted(k)' = Wanted(k) /\ Open(k)' = Open(k) /\ s_states' = s_states
  BY <1>1 DEF Wanted, Open, serverVars
<1>5. ~ Waits(k)
  <2> SUFFICES ASSUME Waits(k) PROVE FALSE
    OBVIOUS
  <2>1. m.seq = 1
    BY <1>2 DEF Waits
  <2> QED  BY <1>1, <2>1 DEF Waits, Quiet
<1>6. PICK i \in Open(k) :
        /\ Follows(s_states[i], toServer[k], ack_number[k], Wanted(k))
        /\ \E n \in Nat :
             /\ ack_number[k] > 0 => n = 0
             /\ Fresh(toClient[k], n, Wanted(k), s_states[i].last_packet_sent)
  BY <1>5 DEF Order, Receives
<1>7. PICK n \in Nat :
        /\ ack_number[k] > 0 => n = 0
        /\ Fresh(toClient[k], n, Wanted(k), s_states[i].last_packet_sent)
  BY <1>6
<1> DEFINE s == s_states[i]
           q == toClient[k]
           r == toClient'[k]
<1>8. n = 0
  <2> SUFFICES ASSUME n # 0 PROVE FALSE
    OBVIOUS
  <2>1. m.seq = 1 /\ 1 <= n
    BY <1>2, <1>3, <1>7
  <2> QED  BY <1>1, <1>7, <2>1 DEF Fresh
<1>9. m.body = <<Wanted(k), m.seq>> /\ m.seq <= s.last_packet_sent
  <2>1. \A x \in DOMAIN q : x > 0 =>
          q[x].body = <<Wanted(k), q[x].seq>> /\ q[x].seq <= s.last_packet_sent
    BY <1>7, <1>8 DEF Fresh
  <2> QED  BY <1>1, <2>1
<1>10. correct'[k] = TRUE
  <2>1. correct'[k] = (correct[k] /\ m.body = <<Wanted(k), m.seq>>)
    BY Zenon DEF ExpectedData, Inv, ClientTypes
  <2>2. correct[k] = TRUE
    BY Zenon DEF Order, Inv, ClientTypes
  <2> QED  BY <1>9, <2>1, <2>2
<1>11. Follows(s, toServer'[k], m.seq, Wanted(k))
  <2>1. /\ s.chunk = Wanted(k) /\ s.last_packet_acked <= ack_number[k]
        /\ \A x \in DOMAIN toServer[k] :
             toServer[k][x].type = "ACK" /\ toServer[k][x].ack <= ack_number[k]
    BY <1>6 DEF Follows
  <2>2. s.last_packet_acked \in Nat
    BY AloneOpen, Bounds DEF Session
  <2>3. s.last_packet_acked <= m.seq
    BY <1>2, <1>3, <2>1, <2>2
  <2>4. Joined(toServer[k], <<[type |-> "ACK", ack |-> m.seq]>>, toServer'[k])
    <3>1. m.seq \in 0..PACKETS
      BY <1>3
    <3> QED  BY <1>2, <3>1, Acknowledges
  <2>5. \A x \in DOMAIN toServer'[k] :
          \/ x \in DOMAIN toServer[k] /\ toServer'[k][x] = toServer[k][x]
          \/ toServer'[k][x] = [type |-> "ACK", ack |-> m.seq]
    BY <1>3, <2>4, JoinedOne
  <2>6. \A v \in Request : v.type = "ACK" => v.ack \in Int
    BY Bounds DEF Request
  <2>7. \A x \in DOMAIN toServer[k] : toServer[k][x].ack <= m.seq
    BY <1>2, <1>3, <2>1, <2>6
  <2>8. \A x \in DOMAIN toServer'[k] :
          toServer'[k][x].type = "ACK" /\ toServer'[k][x].ack <= m.seq
    BY <1>3, <2>1, <2>5, <2>7
  <2> QED  BY <1>9, <2>1, <2>3, <2>8 DEF Follows
<1>12. Fresh(r, 0, Wanted(k), s.last_packet_sent)
  BY <1>1, <1>3, <1>7, <1>8, FreshPopped
<1>13. CASE m.seq < PACKETS
  <2>1. status'[k] = "receiving"
    BY <1>2, <1>13 DEF ExpectedData
  <2>2. Receives(k)'
    BY <1>2, <1>4, <1>6, <1>11, <1>12, <2>1 DEF Receives
  <2> QED  BY <1>2, <1>10, <1>13, <2>1, <2>2 DEF Order
<1>14. CASE ~ (m.seq < PACKETS)
  <2>1. m.seq = PACKETS
    BY <1>3, <1>14
  <2>2. status'[k] = "idle"
    BY <1>10, <1>14 DEF ExpectedData, Inv, ClientTypes
  <2>3. \A x \in Open(k) : s_states[x].last_packet_sent = PACKETS
    <3>1. s.last_packet_sent \in 0..PACKETS
      BY AloneOpen DEF Session
    <3>2. s.last_packet_sent = PACKETS
      BY <1>3, <1>9, <2>1, <3>1
    <3>3. \A x \in Open(k) : x = i
      BY AloneOpen
    <3> QED  BY <3>2, <3>3
  <2>4. Quiet(r)
    <3>1. \A y \in DOMAIN q : 1 < y => q[y].seq # 1
      BY <1>1, <1>7, <1>8, <2>1 DEF Fresh
    <3>2. \A y \in DOMAIN r : y + 1 \in DOMAIN q /\ 1 < y + 1 /\ r[y] = q[y + 1]
      BY <1>1, <1>3 DEF Popped
    <3> QED  BY <3>1, <3>2 DEF Quiet
  <2>5. Late(toServer'[k], "idle", Wanted(k))
    BY <1>11 DEF Late, Follows
  <2>6. Waits(k)'
    BY <1>4, <2>2, <2>3, <2>4, <2>5 DEF Waits
  <2> QED  BY <1>10, <2>2, <2>6 DEF Order
<1> QED  BY <1>13, <1>14

LEMMA ReceiveTurns ==
  ASSUME InOrder, Inv, Inv', Alone, RingInv, \A j \in Clients : Order(j),
         NEW k \in Clients, Receive(k)
  PROVE  RingInv' /\ \A j \in Clients : Order(j)'
<1>1. PICK m \in Range(toClient[k]) :
        ExpectedData(k, m) \/ UnexpectedData(k, m) \/ StrayData(k, m)
  BY DEF Receive
<1>2. /\ m \in Packets /\ Popped(toClient[k], toClient'[k])
      /\ \A j \in Clients : j # k => toClient'[j] = toClient[j]
      /\ UNCHANGED serverVars /\ asked' = asked
  BY <1>1, HeadOfData DEF ExpectedData, UnexpectedData, StrayData
<1>3. AckFor(k, m.seq) \in 0..PACKETS
  BY <1>2, AckForRange DEF Inv
<1>4. CASE ExpectedData(k, m)
  <2>1. Order(k)'
    BY <1>4, ExpectedKeeps
  <2>2. \A j \in Clients : j # k => toServer'[j] = toServer[j]
    BY <1>3, <1>4, Acknowledges DEF ExpectedData
  <2>3. \A j \in Clients : j # k => /\ status'[j] = status[j] /\ ack_number'[j] = ack_number[j]
                                    /\ correct'[j] = correct[j]
    <3>1. \A j \in Clients : j # k => status'[j] = status[j] /\ ack_number'[j] = ack_number[j]
      BY <1>4 DEF ExpectedData, Inv, ClientTypes
    <3>2. \A j \in Clients : j # k => correct'[j] = correct[j]
      BY <1>4, Zenon DEF ExpectedData, Inv, ClientTypes
    <3> QED  BY <3>1, <3>2
  <2> QED  BY <1>2, <2>1, <2>2, <2>3, ServerStill
<1>5. CASE UnexpectedData(k, m)
  <2>1. AckFor(k, m.seq) = ack_number[k]
    BY <1>5 DEF UnexpectedData, AckFor
  <2>2. /\ Joined(toServer[k], <<[type |-> "ACK", ack |-> ack_number[k]]>>, toServer'[k])
        /\ \A j \in Clients : j # k => toServer'[j] = toServer[j]
    BY <1>3, <1>5, <2>1, Acknowledges DEF UnexpectedData
  <2>3. UNCHANGED <<status, ack_number, correct>>
    BY <1>5 DEF UnexpectedData
  <2>4. Order(k)'
    BY <1>2, <2>2, <2>3, RepeatKeeps
  <2> QED  BY <1>2, <2>2, <2>3, <2>4, ServerStill
<1>6. CASE StrayData(k, m)
  <2>1. UNCHANGED <<toServer, status, ack_number, correct>>
    BY <1>6 DEF StrayData
  <2>2. Order(k)'
    BY <1>2, <2>1, RepeatKeeps
  <2> QED  BY <1>2, <2>1, <2>2, ServerStill
<1> QED  BY <1>1, <1>4, <1>5, <1>6

LEMMA ReceiverTimerTurns ==
  ASSUME Inv, Inv', RingInv, \A j \in Clients : Order(j), NEW k \in Clients, ReceiverTimer(k)
  PROVE  RingInv' /\ \A j \in Clients : Order(j)'
<1>1. ack_number[k] \in 0..PACKETS
  BY DEF Inv, ClientTypes
<1>2. /\ Joined(toServer[k], <<[type |-> "ACK", ack |-> ack_number[k]]>>, toServer'[k])
      /\ \A j \in Clients : j # k => toServer'[j] = toServer[j]
  BY <1>1, Acknowledges DEF ReceiverTimer
<1>3. UNCHANGED <<serverVars, toClient, asked, status, ack_number, correct>>
  BY DEF ReceiverTimer, clientVars
<1>4. Order(k)'
  BY <1>2, <1>3, RepeatKeeps
<1> QED  BY <1>2, <1>3, <1>4, ServerStill

LEMMA LoseTurns ==
  ASSUME InOrder, Inv, Inv', RingInv, \A j \in Clients : Order(j), NEW k \in Clients, Lose(k)
  PROVE  RingInv' /\ \A j \in Clients : Order(j)'
<1>1. toClient \in [Clients -> Seq(Packets)] /\ toServer \in [Clients -> Seq(Request)]
  BY DEF Inv, ServerInv, ClientTypes
<1>2. CASE \E i \in Arrivals(toClient[k]) : LoseData(k, i)
  <2>1. PICK i \in Arrivals(toClient[k]) : LoseData(k, i)
    BY <1>2
  <2>2. toClient' = [toClient EXCEPT ![k] = RemoveAt(toClient[k], i)]
        /\ UNCHANGED <<serverVars, asked, status, ack_number, correct, toServer>>
    BY <2>1 DEF LoseData, clientVars
  <2>3. Popped(toClient[k], toClient'[k])
        /\ \A j \in Clients : j # k => toClient'[j] = toClient[j]
    BY <1>1, <2>2, HeadArrives
  <2>4. Order(k)'
    BY <2>2, <2>3, RepeatKeeps
  <2> QED  BY <2>2, <2>3, <2>4, ServerStill
<1>3. CASE \E i \in Arrivals(toServer[k]) : LoseRequest(k, i)
  <2>1. PICK i \in Arrivals(toServer[k]) : LoseRequest(k, i)
    BY <1>3
  <2>2. toServer' = [toServer EXCEPT ![k] = RemoveAt(toServer[k], i)]
        /\ UNCHANGED <<serverVars, asked, status, ack_number, correct, toClient>>
    BY <2>1 DEF LoseRequest, clientVars
  <2>3. Popped(toServer[k], toServer'[k])
        /\ \A j \in Clients : j # k => toServer'[j] = toServer[j]
    BY <1>1, <2>2, HeadArrives
  <2>4. Order(k)'
    BY <2>2, <2>3, RepeatKeeps
  <2> QED  BY <2>2, <2>3, <2>4, ServerStill
<1> QED  BY <1>2, <1>3 DEF Lose

\* A client asks for its next chunk: what is still under way is not its first packet.
LEMMA AskNextTurns ==
  ASSUME Inv, Inv', RingInv, \A j \in Clients : Order(j), NEW k \in Clients, AskNext(k)
  PROVE  RingInv' /\ \A j \in Clients : Order(j)'
<1> DEFINE c == Plan[k][asked[k] + 1]
           m == [type |-> "GET", chunk |-> c]
<1>1. /\ status[k] = "idle" /\ UNCHANGED <<serverVars, toClient>>
      /\ asked' = [asked EXCEPT ![k] = @ + 1]
      /\ status' = [status EXCEPT ![k] = "receiving"]
      /\ ack_number' = [ack_number EXCEPT ![k] = 0]
      /\ correct' = [correct EXCEPT ![k] = TRUE]
  BY DEF AskNext
<1>2. toServer' = [toServer EXCEPT ![k] = Enqueue(@, <<m>>)]
  BY DEF AskNext
<1>3. m.type = "GET" /\ m.chunk = c
  OBVIOUS
<1>4. m \in Request
  <2>1. asked[k] \in Nat /\ asked[k] < Len(Plan[k]) /\ Plan[k] \in Seq(Chunks)
    BY Bounds DEF AskNext, Inv, ClientTypes
  <2>2. c \in Chunks
    BY <2>1
  <2> QED  BY <2>2 DEF Request
<1> HIDE DEF m
<1>5. /\ toServer \in [Clients -> Seq(Request)] /\ toServer' \in [Clients -> Seq(Request)]
      /\ <<m>> \in Seq(Request)
  BY <1>4 DEF Inv, ClientTypes
<1>6. Joined(toServer[k], <<m>>, toServer'[k])
  BY <1>2, <1>5, EnqueueJoins
<1>7. Wanted(k)' = c
  BY <1>1 DEF Wanted, Inv, ClientTypes
<1> HIDE DEF c
<1>8. Waits(k)
  BY <1>1 DEF Order, Receives
<1>9. Late(toServer'[k], "receiving", c)
  <2> DEFINE q == toServer[k]
             r == toServer'[k]
             l == Len(q)
  <2>1. \A x \in DOMAIN r : \/ x \in 1..l /\ x \in DOMAIN q /\ r[x] = q[x]
                            \/ x = l + 1 /\ r[x] = m
    BY <1>5, <1>6, JoinedOne
  <2>2. \A x \in DOMAIN q : q[x].type # "GET"
    BY <1>1, <1>8 DEF Waits, Late
  <2>3. l \in Nat
    BY <1>5, LenProperties
  <2> HIDE DEF q, r, l
  <2>4. \A x \in DOMAIN r : r[x].type = "GET" => x = l + 1 /\ r[x] = m
    BY <2>1, <2>2
  <2>5. \A x \in DOMAIN r : x <= l + 1
    BY <2>1, <2>3
  <2>6. \A x, y \in DOMAIN r : r[x].type = "GET" => ~ (y > x)
    BY <2>1, <2>3, <2>4, <2>5
  <2>7. Late(r, "receiving", c)
    BY <1>3, <2>4, <2>6 DEF Late
  <2> QED  BY <2>7 DEF r
<1>10. status'[k] = "receiving" /\ ack_number'[k] = 0
  BY <1>1 DEF Inv, ClientTypes
<1>11. correct'[k] = TRUE
  BY <1>1, Zenon DEF Inv, ClientTypes
<1>12. Open(k)' = Open(k) /\ s_states' = s_states
  BY <1>1 DEF Open, serverVars
<1>13. Waits(k)'
  BY <1>1, <1>7, <1>8, <1>9, <1>10, <1>12 DEF Waits
<1>14. Order(k)'
  BY <1>10, <1>11, <1>13, Bounds DEF Order
<1>15. \A j \in Clients : j # k => /\ toServer'[j] = toServer[j] /\ asked'[j] = asked[j]
                                   /\ status'[j] = status[j] /\ ack_number'[j] = ack_number[j]
  BY <1>1, <1>2 DEF Inv, ClientTypes
<1>16. \A j \in Clients : j # k => correct'[j] = correct[j]
  BY <1>1, Zenon DEF Inv, ClientTypes
<1> QED  BY <1>1, <1>14, <1>15, <1>16, ServerStill

-----------------------------------------------------------------------------
(* The turns are kept always. *)

\* An ACK makes no session; it destroys at most what it finds.
LEMMA AckMakesNone ==
  ASSUME Inv, NEW k \in Clients, NEW a, Ack(k, a)
  PROVE  Len(s_states') = Len(s_states)
<1>1. s_states \in Seq(Session \cup {Destroyed})
  BY DEF Inv, ServerInv, ServerTypes
<1>2. CASE UNCHANGED s_states
  BY <1>2
<1>3. CASE \E s : Updated(k, s)
  BY <1>1, <1>3 DEF Updated
<1>4. UNCHANGED s_states \/ \E s : Updated(k, s)
  BY DEF Ack, StrayAck, AckTimerLost, DuplicateAck, OlderAck, NormalAck,
         FinalAck, Halt, serverVars
<1> QED  BY <1>2, <1>3, <1>4

\* Once sessions have overlapped, or there were too many, they have for ever.
LEMMA AloneBefore ==
  ASSUME Inv, [Next]_vars, Alone'
  PROVE  Alone
<1>1. s_states \in Seq(Session \cup {Destroyed}) /\ MAX_CONN \in Nat
  BY Bounds DEF Inv, ServerInv, ServerTypes
<1>2. CASE UNCHANGED <<s_states, overlapped>>
  BY <1>2 DEF Alone
<1>3. ASSUME NEW k \in Clients, Serve(k) PROVE Alone
  <2>1. PICK i \in Arrivals(toServer[k]) :
          \/ RecvGet(k, toServer[k][i])
          \/ Ack(k, toServer[k][i].ack) /\ UNCHANGED overlapped
    BY <1>3 DEF Serve
  <2>2. CASE RecvGet(k, toServer[k][i])
    <3>1. PICK s : s_states' = Append(s_states, s)
      BY <2>2 DEF RecvGet
    <3>2. Len(s_states') = Len(s_states) + 1 /\ Len(s_states) \in Nat
      BY <1>1, <3>1
    <3>3. overlapped => overlapped'
      BY <2>2, Zenon DEF RecvGet
    <3> QED  BY <1>1, <3>2, <3>3 DEF Alone
  <2>3. CASE Ack(k, toServer[k][i].ack) /\ UNCHANGED overlapped
    <3>1. Len(s_states') = Len(s_states)
      BY <2>3, AckMakesNone
    <3> QED  BY <2>3, <3>1 DEF Alone
  <2> QED  BY <2>1, <2>2, <2>3
<1>4. ASSUME NEW k \in Clients, AskNext(k) \/ Receive(k) \/ ReceiverTimer(k) \/ Lose(k)
      PROVE  UNCHANGED <<s_states, overlapped>>
  BY <1>4 DEF AskNext, Receive, ExpectedData, UnexpectedData, StrayData, DataArrives,
              ReceiverTimer, Lose, LoseData, LoseRequest, serverVars
<1>5. ASSUME Timer PROVE UNCHANGED <<s_states, overlapped>>
  BY <1>5 DEF Timer, SenderTimer, StaleTimer, TimerListLost, Halt, serverVars
<1> QED  BY <1>2, <1>3, <1>4, <1>5 DEF Next, vars, serverVars

LEMMA TurnsStep == InOrder /\ Inv /\ TurnsInv /\ Inv' /\ [Next]_vars => TurnsInv'
<1> SUFFICES ASSUME InOrder, Inv, TurnsInv, Inv', [Next]_vars, Alone'
             PROVE  RingInv' /\ \A j \in Clients : Order(j)'
  BY DEF TurnsInv
<1>1. Alone /\ RingInv /\ \A j \in Clients : Order(j)
  BY AloneBefore DEF TurnsInv
<1>2. ASSUME NEW k \in Clients,
             Serve(k) \/ AskNext(k) \/ Receive(k) \/ ReceiverTimer(k) \/ Lose(k)
      PROVE  RingInv' /\ \A j \in Clients : Order(j)'
  BY <1>1, <1>2, ServeTurns, AskNextTurns, ReceiveTurns, ReceiverTimerTurns, LoseTurns
<1>3. CASE Timer
  BY <1>1, <1>3, TimerTurns
<1>4. CASE UNCHANGED vars
  <2>1. RingInv'
    BY <1>1, <1>4 DEF RingInv, Sessions, vars, serverVars
  <2>2. s_states' = s_states /\ \A j \in Clients : Open(j)' = Open(j)
    BY <1>4 DEF Open, vars, serverVars
  <2>3. \A j \in Clients : Order(j)'
    BY <1>1, <1>4, <2>2, OrderKept DEF vars, clientVars
  <2> QED  BY <2>1, <2>3
<1> QED  BY <1>2, <1>3, <1>4 DEF Next

LEMMA TurnsInit == Init => TurnsInv
<1> SUFFICES ASSUME Init PROVE RingInv /\ \A k \in Clients : Order(k)
  BY DEF TurnsInv
<1>1. s_states = <<>> /\ DOMAIN s_states = {}
  BY DEF Init
<1>2. RingInv
  BY <1>1 DEF RingInv, Sessions
<1>3. ASSUME NEW k \in Clients PROVE Order(k)
  <2>1. /\ toClient[k] = <<>> /\ toServer[k] = <<>> /\ status[k] = "idle" /\ Open(k) = {}
    BY <1>1 DEF Init, Open
  <2>2. correct[k]
    BY Zenon DEF Init
  <2>3. Waits(k)
    BY <2>1 DEF Waits, Quiet, Late
  <2> QED  BY <2>1, <2>2, <2>3 DEF Order
<1> QED  BY <1>2, <1>3

InTurn == InOrder /\ Inv /\ TurnsInv

\* In order and one at a time, the ring holds what may have to be resent and every
\* client is in its turn.
THEOREM TurnsInvariance == InOrder /\ Spec => []InTurn
<1>1. InOrder /\ Init => InTurn
  BY InitInv, TurnsInit DEF InTurn
<1>2. InTurn /\ [Next]_vars => InTurn'
  BY StepInv, TurnsStep DEF InTurn, InOrder
<1> QED  BY <1>1, <1>2, PTL DEF Spec

\* Sessions that follow one another serve each client the bytes of its own chunk,
\* whatever is lost and resent, although they share the ring and DATA names no chunk.
THEOREM ClientsGetTheirOwn == InOrder /\ Spec => []OwnBytes
<1>1. InTurn => OwnBytes
  BY DEF InTurn, TurnsInv, Order, OwnBytes
<1> QED  BY <1>1, TurnsInvariance, PTL

\* An ACK, which names no chunk either, finds the session of the chunk that its
\* client is receiving, and the two agree up to a window.
THEOREM AcksFind == InOrder /\ Spec => []AckFindsItsSession
<1>1. ASSUME InTurn PROVE AckFindsItsSession
  <2> SUFFICES ASSUME NEW k \in Clients, Alone, status[k] = "receiving", ack_number[k] > 0
               PROVE  /\ Found(k) # {}
                      /\ LET s == s_states[FindSState(k)]
                         IN  /\ s.chunk = Wanted(k)
                             /\ s.last_packet_acked <= ack_number[k]
                             /\ ack_number[k] <= s.last_packet_sent
    BY DEF AckFindsItsSession
  <2>1. ~ Waits(k)
    BY DEF Waits
  <2>2. PICK i \in Open(k) : Follows(s_states[i], toServer[k], ack_number[k], Wanted(k))
    BY <1>1, <2>1 DEF InTurn, TurnsInv, Order, Receives
  <2>3. Found(k) # {} /\ FindSState(k) = i
    BY <1>1, AloneOpen DEF InTurn
  <2> QED  BY <2>2, <2>3 DEF Follows
<1>2. InTurn => AckFindsItsSession
  BY <1>1
<1> QED  BY <1>2, TurnsInvariance, PTL
=============================================================================
