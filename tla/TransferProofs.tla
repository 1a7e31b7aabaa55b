--------------------------- MODULE TransferProofs ---------------------------
(***************************************************************************)
(* The window of Transfer is safe for every number of packets, every size  *)
(* of the window and of the queues, and any mixture of lost, repeated and  *)
(* reordered packets.                                                      *)
(***************************************************************************)
EXTENDS Transfer, LinkProofs

-----------------------------------------------------------------------------
(* The slots of data_list. *)

\* Two packets less than a window apart that share a slot are the same packet.
LEMMA SlotsApart ==
  ASSUME NEW i \in Int, NEW j \in Int,
         i < j + WINDOW, j < i + WINDOW, Slot(i) = Slot(j)
  PROVE  i = j
<1>1. WINDOW \in Nat \ {0}
  BY TransferAssumption DEF TransferAssumption
<1>2. (i - 1) % WINDOW = (j - 1) % WINDOW
  BY DEF Slot
<1> QED  BY <1>1, <1>2, PlacesApart

\* Every packet has a slot, and the first window fills every slot.
LEMMA SlotRange ==
  /\ \A p \in Int : Slot(p) \in 0..WINDOW-1
  /\ \A k \in 0..WINDOW-1 : Slot(k + 1) = k
<1>1. WINDOW \in Nat \ {0}
  BY TransferAssumption DEF TransferAssumption
<1>2. \A p \in Int : (p - 1) % WINDOW \in 0..WINDOW-1
  BY <1>1
<1>3. \A k \in 0..WINDOW-1 : k % WINDOW = k
  BY <1>1
<1>4. \A k \in 0..WINDOW-1 : (k + 1) - 1 = k
  OBVIOUS
<1> QED  BY <1>2, <1>3, <1>4 DEF Slot

\* Buffering lo..hi leaves every packet of the last window in its slot: the new
\* ones are there, and the ones before lo have not been overwritten.
LEMMA BufferedSlot ==
  ASSUME NEW ring, NEW lo \in Int, NEW hi \in Int, NEW p \in Int,
         hi - WINDOW < p, p <= hi
  PROVE  Buffered(ring, lo, hi)[Slot(p)] = IF p >= lo THEN p ELSE ring[Slot(p)]
<1> DEFINE written == {w \in lo..hi : Slot(w) = Slot(p) /\ w > hi - WINDOW}
<1>1. WINDOW \in Nat \ {0} /\ Slot(p) \in 0..WINDOW-1
  BY TransferAssumption, SlotRange DEF TransferAssumption
<1>2. ASSUME NEW w \in written PROVE w = p
  <2>1. w \in Int /\ w < p + WINDOW /\ p < w + WINDOW /\ Slot(w) = Slot(p)
    BY <1>1
  <2> QED  BY <2>1, SlotsApart
<1>3. Buffered(ring, lo, hi)[Slot(p)] =
        IF written = {} THEN ring[Slot(p)] ELSE CHOOSE w \in written : TRUE
  BY <1>1 DEF Buffered
<1> HIDE DEF written
<1>4. CASE p >= lo
  <2>1. p \in written
    BY <1>4 DEF written
  <2>2. (CHOOSE w \in written : TRUE) = p
    BY <1>2, <2>1
  <2> QED  BY <1>3, <1>4, <2>1, <2>2
<1>5. CASE ~(p >= lo)
  <2>1. written = {}
    BY <1>2, <1>5 DEF written
  <2> QED  BY <1>3, <1>5, <2>1
<1> QED  BY <1>4, <1>5

\* The first window fills every slot of data_list, whatever it held.
LEMMA BufferedFirst ==
  ASSUME NEW ring
  PROVE  Buffered(ring, 1, WINDOW) \in [0..WINDOW-1 -> 1..PACKETS + WINDOW]
<1> USE TransferAssumption DEF TransferAssumption
<1>1. ASSUME NEW k \in 0..WINDOW-1
      PROVE  Buffered(ring, 1, WINDOW)[k] \in 1..PACKETS + WINDOW
  <2> DEFINE written == {w \in 1..WINDOW : Slot(w) = k /\ w > WINDOW - WINDOW}
  <2>1. Buffered(ring, 1, WINDOW)[k] =
          IF written = {} THEN ring[k] ELSE CHOOSE w \in written : TRUE
    BY DEF Buffered
  <2>2. k + 1 \in written
    BY SlotRange
  <2>3. \A w \in written : w \in 1..PACKETS + WINDOW
    OBVIOUS
  <2> QED  BY <2>1, <2>2, <2>3
<1> QED  BY <1>1 DEF Buffered

\* A data_list that is full stays full.
LEMMA BufferedNext ==
  ASSUME NEW ring \in [0..WINDOW-1 -> 1..PACKETS + WINDOW],
         NEW lo \in Nat \ {0}, NEW hi \in Nat, hi <= PACKETS + WINDOW
  PROVE  Buffered(ring, lo, hi) \in [0..WINDOW-1 -> 1..PACKETS + WINDOW]
<1> USE TransferAssumption DEF TransferAssumption
<1>1. ASSUME NEW k \in 0..WINDOW-1
      PROVE  Buffered(ring, lo, hi)[k] \in 1..PACKETS + WINDOW
  <2> DEFINE written == {w \in lo..hi : Slot(w) = k /\ w > hi - WINDOW}
  <2>1. Buffered(ring, lo, hi)[k] =
          IF written = {} THEN ring[k] ELSE CHOOSE w \in written : TRUE
    BY DEF Buffered
  <2>2. \A w \in written : w \in 1..PACKETS + WINDOW
    OBVIOUS
  <2>3. ring[k] \in 1..PACKETS + WINDOW
    OBVIOUS
  <2> QED  BY <2>1, <2>2, <2>3
<1> QED  BY <1>1 DEF Buffered

\* A burst of packets that are in their slots is genuine.
LEMMA BurstGenuine ==
  ASSUME NEW ring, NEW p \in Nat, NEW n \in Nat, NEW m \in Nat, p + n <= m,
         \A i \in 1..n : ring[Slot(p + i)] = p + i
  PROVE  /\ Burst(ring, p, n) \in Seq(Genuine(m))
         /\ DOMAIN Burst(ring, p, n) = 1..n
         /\ \A i \in 1..n : Burst(ring, p, n)[i] = [seq |-> p + i, body |-> p + i]
<1>1. \A i \in 1..n : Burst(ring, p, n)[i] = [seq |-> p + i, body |-> p + i]
  BY DEF Burst, Data
<1>2. \A i \in 1..n : [seq |-> p + i, body |-> p + i] \in Genuine(m)
  BY DEF Genuine
<1>3. Burst(ring, p, n) = [i \in 1..n |-> Data(ring, p + i)]
  BY DEF Burst
<1>4. Burst(ring, p, n) \in [1..n -> Genuine(m)]
  BY <1>1, <1>2, <1>3
<1>5. Burst(ring, p, n) \in Seq(Genuine(m))
  BY <1>4, NumberedIsSeq
<1> QED  BY <1>1, <1>3, <1>5

\* A packet that was sent before n is one that was sent before any later m.
LEMMA GenuineWidens ==
  ASSUME NEW m \in Nat, NEW n \in Nat, m <= n
  PROVE  Genuine(m) \subseteq Genuine(n)
BY DEF Genuine

\* A genuine packet is a well-typed DATA packet.
LEMMA GenuineType ==
  ASSUME NEW m \in Nat
  PROVE  Genuine(m) \subseteq [seq : Nat, body : Nat]
BY DEF Genuine

-----------------------------------------------------------------------------
(* The inductive invariant. *)

\* The client waits for data and nothing is buffered: the invariant holds at first.
LEMMA InitInv == Init => Inv
<1> SUFFICES ASSUME Init PROVE Inv
  OBVIOUS
<1> USE TransferAssumption DEF TransferAssumption, Init
<1>1. TypeOK
  <2>1. /\ toClient \in Seq([seq : Nat, body : Nat])
        /\ toServer \in Seq(0..PACKETS)
        /\ temp_data \in Seq(Nat)
    OBVIOUS
  <2>2. data_list \in [0..WINDOW-1 -> 1..PACKETS + WINDOW] \cup {NoList}
    OBVIOUS
  <2>3. FlagsOK
    BY Zenon DEF FlagsOK
  <2> QED  BY <2>1, <2>2, <2>3 DEF TypeOK, RESEND_AT
<1>2. WireInv
  BY DEF WireInv
<1>3. CountersInv /\ SessionInv /\ RingHoldsWindow
  BY DEF CountersInv, SessionInv, RingHoldsWindow
<1>4. ClientInv
  <2>1. <<>> = [i \in 1..0 |-> i]
    OBVIOUS
  <2> QED  BY <2>1 DEF ClientInv
<1> QED  BY <1>1, <1>2, <1>3, <1>4 DEF Inv

\* The first window: everything sent is in its slot.
LEMMA RecvGetInv ==
  ASSUME Inv, RecvGet
  PROVE  Inv'
<1> USE TransferAssumption DEF TransferAssumption
<1>1. /\ session = "idle" /\ last_packet_acked = 0 /\ ack_number = 0
      /\ toClient \in Seq(Genuine(0))
  BY DEF Inv, CountersInv, RecvGet, ClientInv, WireInv, TypeOK
<1>2. data_list' \in [0..WINDOW-1 -> 1..PACKETS + WINDOW]
  BY BufferedFirst DEF RecvGet
<1>3. \A p \in 1..WINDOW : data_list'[Slot(p)] = p
  <2>1. ASSUME NEW p \in 1..WINDOW
        PROVE  Buffered(data_list, 1, WINDOW)[Slot(p)] = p
    BY BufferedSlot
  <2> QED  BY <2>1 DEF RecvGet
<1>4. toClient' \in Seq(Genuine(WINDOW))
  <2>1. Burst(data_list', 0, WINDOW) \in Seq(Genuine(WINDOW))
    <3>1. \A i \in 1..WINDOW : data_list'[Slot(0 + i)] = 0 + i
      BY <1>3
    <3> QED  BY <3>1, BurstGenuine
  <2>2. toClient \in Seq(Genuine(WINDOW))
    BY <1>1, QueueWidens, GenuineWidens
  <2> QED  BY <2>1, <2>2, EnqueueKeeps DEF RecvGet
<1>5. WireInv'
  BY <1>4 DEF Inv, WireInv, RecvGet, clientVars
<1>6. TypeOK'
  <2>1. toClient' \in Seq([seq : Nat, body : Nat])
    BY <1>4, GenuineType, QueueWidens
  <2>2. FlagsOK'
    BY Zenon DEF Inv, TypeOK, FlagsOK, RecvGet, clientVars
  <2> QED  BY <1>2, <2>1, <2>2 DEF Inv, TypeOK, RecvGet, clientVars
<1>7. CountersInv' /\ SessionInv'
  BY <1>1, <1>2 DEF CountersInv, SessionInv, RecvGet, clientVars
<1>8. RingHoldsWindow'
  BY <1>1, <1>3 DEF RingHoldsWindow, RecvGet
<1>9. ClientInv'
  BY <1>1 DEF Inv, ClientInv, RecvGet, clientVars
<1> QED  BY <1>5, <1>6, <1>7, <1>8, <1>9 DEF Inv

\* A resend of a packet of the window is genuine, and so is what is in flight
\* after it.
LEMMA ResentGenuine ==
  ASSUME Inv, session = "sending",
         NEW p \in last_packet_acked + 1 .. last_packet_sent
  PROVE  Resent(p) \in Seq(Genuine(last_packet_sent))
<1> USE TransferAssumption DEF TransferAssumption
<1>1. /\ last_packet_acked \in Nat /\ last_packet_sent \in Nat
      /\ last_packet_sent <= last_packet_acked + WINDOW
      /\ toClient \in Seq(Genuine(last_packet_sent))
  BY DEF Inv, TypeOK, CountersInv, WireInv
<1>2. data_list[Slot(p)] = p
  BY <1>1 DEF Inv, RingHoldsWindow
<1>3. Data(data_list, p) \in Genuine(last_packet_sent)
  BY <1>1, <1>2 DEF Data, Genuine
<1>4. <<Data(data_list, p)>> \in Seq(Genuine(last_packet_sent))
  BY <1>3
<1> QED  BY <1>1, <1>4, EnqueueKeeps DEF Resent

\* What an arriving ACK says, and the queue it leaves.
LEMMA AckArrivesInv ==
  ASSUME Inv, NEW i \in DOMAIN toServer, AckArrives(i)
  PROVE  /\ toServer[i] \in 0..ack_number
         /\ toServer' \in Seq(0..ack_number)
         /\ toServer' \in Seq(0..PACKETS)
<1>1. toServer \in Seq(0..ack_number) /\ 0..ack_number \subseteq 0..PACKETS
  BY TransferAssumption DEF TransferAssumption, Inv, WireInv, TypeOK
<1>2. toServer' \in Seq(0..ack_number) /\ toServer[i] \in 0..ack_number
  BY <1>1, AfterKeeps DEF AckArrives
<1> QED  BY <1>1, <1>2, QueueWidens

\* Actions of the uploader that only take an ACK and at most resend.
LEMMA DuplicateAckInv ==
  ASSUME Inv, DuplicateAck
  PROVE  Inv'
<1> USE TransferAssumption DEF TransferAssumption
<1>1. PICK i \in DOMAIN toServer : AckArrives(i)
  BY DEF DuplicateAck
<1>2. toServer' \in Seq(0..ack_number) /\ toServer' \in Seq(0..PACKETS)
  BY <1>1, AckArrivesInv
<1>3. /\ session = "sending"
      /\ Missing \in last_packet_acked + 1 .. last_packet_sent
      /\ last_packet_sent \in Nat
      /\ toClient \in Seq(Genuine(last_packet_sent))
  <2>1. session = "sending" /\ last_packet_acked < PACKETS
    BY DEF DuplicateAck, Inv, SessionInv
  <2>2. last_packet_acked \in Nat /\ last_packet_sent \in Nat
    BY DEF Inv, TypeOK
  <2>3. last_packet_acked < last_packet_sent
    BY <2>1, <2>2 DEF Inv, CountersInv
  <2> QED  BY <2>1, <2>2, <2>3 DEF Missing, Inv, WireInv
<1>4. toClient' \in Seq(Genuine(last_packet_sent))
  BY <1>3, ResentGenuine DEF DuplicateAck
<1>5. WireInv'
  BY <1>2, <1>4 DEF WireInv, DuplicateAck, clientVars
<1>6. TypeOK'
  <2>1. toClient' \in Seq([seq : Nat, body : Nat])
    BY <1>3, <1>4, GenuineType, QueueWidens
  <2>2. FlagsOK'
    BY Zenon DEF Inv, TypeOK, FlagsOK, DuplicateAck, clientVars
  <2>3. duplicated_acks_count' \in 0..RESEND_AT
    BY DEF Inv, TypeOK, DuplicateAck, RESEND_AT
  <2> QED  BY <1>2, <2>1, <2>2, <2>3 DEF Inv, TypeOK, DuplicateAck, clientVars
<1>7. CountersInv' /\ SessionInv' /\ RingHoldsWindow' /\ ClientInv'
  BY <1>3 DEF Inv, CountersInv, SessionInv, RingHoldsWindow, ClientInv,
              DuplicateAck, clientVars
<1> QED  BY <1>5, <1>6, <1>7 DEF Inv

\* An old ACK only leaves its queue.
LEMMA OlderAckInv ==
  ASSUME Inv, OlderAck
  PROVE  Inv'
<1>1. PICK i \in DOMAIN toServer : AckArrives(i)
  BY DEF OlderAck
<1>2. toServer' \in Seq(0..ack_number) /\ toServer' \in Seq(0..PACKETS)
  BY <1>1, AckArrivesInv
<1>3. WireInv'
  BY <1>2 DEF Inv, WireInv, OlderAck, clientVars
<1>4. TypeOK'
  <2>1. FlagsOK'
    BY Zenon DEF Inv, TypeOK, FlagsOK, OlderAck, clientVars
  <2> QED  BY <1>2, <2>1 DEF Inv, TypeOK, OlderAck, clientVars, RESEND_AT
<1>5. CountersInv' /\ SessionInv' /\ RingHoldsWindow' /\ ClientInv'
  BY DEF Inv, CountersInv, SessionInv, RingHoldsWindow, ClientInv,
         OlderAck, clientVars
<1> QED  BY <1>3, <1>4, <1>5 DEF Inv

\* The ACK of the last packet closes a session whose chunk is stored.
LEMMA FinalAckInv ==
  ASSUME Inv, FinalAck
  PROVE  Inv'
<1> USE TransferAssumption DEF TransferAssumption
<1>1. PICK i \in DOMAIN toServer : AckArrives(i) /\ toServer[i] >= PACKETS
  BY DEF FinalAck, LastAck
<1>2. /\ toServer' \in Seq(0..ack_number) /\ toServer' \in Seq(0..PACKETS)
      /\ ack_number = PACKETS
  BY <1>1, AckArrivesInv DEF Inv, TypeOK
<1>3. WireInv'
  BY <1>2 DEF Inv, WireInv, FinalAck, clientVars
<1>4. TypeOK'
  <2>1. FlagsOK'
    BY Zenon DEF Inv, TypeOK, FlagsOK, FinalAck, clientVars
  <2> QED  BY <1>2, <2>1 DEF Inv, TypeOK, FinalAck, clientVars, RESEND_AT
<1>5. CountersInv' /\ RingHoldsWindow' /\ ClientInv'
  BY DEF Inv, CountersInv, RingHoldsWindow, ClientInv, FinalAck, clientVars
<1>6. SessionInv'
  BY <1>2 DEF SessionInv, FinalAck, clientVars
<1> QED  BY <1>3, <1>4, <1>5, <1>6 DEF Inv

\* An ACK without a session only leaves its queue.
LEMMA StrayAckInv ==
  ASSUME Inv, StrayAck
  PROVE  Inv'
<1>1. PICK i \in DOMAIN toServer : AckArrives(i)
  BY DEF StrayAck
<1>2. toServer' \in Seq(0..ack_number) /\ toServer' \in Seq(0..PACKETS)
  BY <1>1, AckArrivesInv
<1>3. WireInv'
  BY <1>2 DEF Inv, WireInv, StrayAck, clientVars, serverVars, counters
<1>4. TypeOK'
  <2>1. FlagsOK'
    BY Zenon DEF Inv, TypeOK, FlagsOK, StrayAck, clientVars, serverVars, counters
  <2> QED  BY <1>2, <2>1 DEF Inv, TypeOK, StrayAck, clientVars, serverVars, counters
<1>5. CountersInv' /\ SessionInv' /\ RingHoldsWindow' /\ ClientInv'
  BY DEF Inv, CountersInv, SessionInv, RingHoldsWindow, ClientInv,
         StrayAck, clientVars, serverVars, counters
<1> QED  BY <1>3, <1>4, <1>5 DEF Inv

\* The sender timer resends a packet of the window.
LEMMA SenderTimerInv ==
  ASSUME Inv, SenderTimer
  PROVE  Inv'
<1> USE TransferAssumption DEF TransferAssumption
<1>1. /\ session = "sending"
      /\ last_packet_sent \in last_packet_acked + 1 .. last_packet_sent
      /\ last_packet_sent \in Nat
  BY DEF SenderTimer, Inv, TypeOK, CountersInv, SessionInv
<1>2. toClient' \in Seq(Genuine(last_packet_sent))
  BY <1>1, ResentGenuine DEF SenderTimer
<1>3. WireInv'
  BY <1>2 DEF Inv, WireInv, SenderTimer, clientVars, serverVars, counters
<1>4. TypeOK'
  <2>1. toClient' \in Seq([seq : Nat, body : Nat])
    BY <1>1, <1>2, GenuineType, QueueWidens
  <2>2. FlagsOK'
    BY Zenon DEF Inv, TypeOK, FlagsOK, SenderTimer, clientVars, serverVars, counters
  <2> QED  BY <2>1, <2>2
           DEF Inv, TypeOK, SenderTimer, clientVars, serverVars, counters
<1>5. CountersInv' /\ SessionInv' /\ RingHoldsWindow' /\ ClientInv'
  BY DEF Inv, CountersInv, SessionInv, RingHoldsWindow, ClientInv,
         SenderTimer, clientVars, serverVars, counters
<1> QED  BY <1>3, <1>4, <1>5 DEF Inv

\* The window moves: the slots it leaves are the ones the new packets take.
LEMMA NormalAckInv ==
  ASSUME Inv, NormalAck
  PROVE  Inv'
<1> USE TransferAssumption DEF TransferAssumption
<1>1. PICK i \in DOMAIN toServer :
        /\ AckArrives(i)
        /\ toServer[i] > last_packet_acked
        /\ ~LastAck(toServer[i])
        /\ Advance(toServer[i])
  BY DEF NormalAck
<1> DEFINE a == toServer[i]
           d == a - last_packet_acked
           lpa == last_packet_available
           lps == last_packet_sent
           n == Sendable(d)
<1>2. /\ a \in 0..ack_number
      /\ toServer' \in Seq(0..ack_number) /\ toServer' \in Seq(0..PACKETS)
  BY <1>1, AckArrivesInv
<1>3. /\ session = "sending" /\ lpa = last_packet_acked + WINDOW
      /\ lps = IF lpa <= PACKETS THEN lpa ELSE PACKETS
      /\ sent_count = lps /\ last_packet_acked \in Nat
      /\ data_list \in [0..WINDOW-1 -> 1..PACKETS + WINDOW]
      /\ ack_number \in Nat /\ ack_number <= lps
  BY DEF NormalAck, Inv, TypeOK, CountersInv, SessionInv, ClientInv
<1>4. /\ a \in Nat /\ a > last_packet_acked /\ a < PACKETS /\ a <= ack_number
      /\ d \in 1..WINDOW /\ d = a - last_packet_acked
  BY <1>1, <1>2, <1>3 DEF LastAck
<1>5. /\ data_list' = Buffered(data_list, lpa + 1, lpa + d)
      /\ last_packet_available' = lpa + d
      /\ last_packet_acked' = a
      /\ toClient' = Enqueue(toClient, Burst(data_list', lps, n))
      /\ last_packet_sent' = lps + n
      /\ sent_count' = sent_count + n
  BY <1>1 DEF Advance
<1>6. /\ n \in 0..d /\ lps + n \in Nat /\ lps + n <= PACKETS
      /\ lps + n = IF lpa + d <= PACKETS THEN lpa + d ELSE PACKETS
  <2>1. n = IF d <= PACKETS - lps THEN d ELSE PACKETS - lps
    BY <1>3 DEF Sendable
  <2>2. PACKETS \in Nat /\ WINDOW \in Nat /\ d \in Nat /\ lpa \in Nat
    BY <1>3, <1>4, TransferAssumption DEF TransferAssumption
  <2>3. lps = IF lpa <= PACKETS THEN lpa ELSE PACKETS
    BY <1>3
  <2> HIDE DEF d, lpa, lps, n
  <2> QED  BY <2>1, <2>2, <2>3
<1> HIDE DEF a, d, lpa, lps, n
<1>7. data_list' \in [0..WINDOW-1 -> 1..PACKETS + WINDOW]
  <2>1. lpa + 1 \in Nat \ {0} /\ lpa + d \in Nat /\ lpa + d <= PACKETS + WINDOW
    BY <1>3, <1>4
  <2> QED  BY <2>1, <1>3, <1>5, BufferedNext
<1>8. \A p \in a + 1 .. a + WINDOW : data_list'[Slot(p)] = p
  <2> SUFFICES ASSUME NEW p \in a + 1 .. a + WINDOW
               PROVE  data_list'[Slot(p)] = p
    OBVIOUS
  <2>1. /\ lpa + 1 \in Int /\ lpa + d \in Int /\ p \in Int
        /\ (lpa + d) - WINDOW < p /\ p <= lpa + d
    BY <1>3, <1>4
  <2>2. data_list'[Slot(p)] = IF p >= lpa + 1 THEN p ELSE data_list[Slot(p)]
    BY <2>1, <1>5, BufferedSlot
  <2>3. CASE p >= lpa + 1
    BY <2>2, <2>3
  <2>4. CASE ~(p >= lpa + 1)
    <3>1. p \in last_packet_acked + 1 .. last_packet_acked + WINDOW
      BY <2>4, <1>3, <1>4
    <3>2. data_list[Slot(p)] = p
      BY <3>1, <1>3 DEF Inv, RingHoldsWindow
    <3> QED  BY <3>2, <2>2, <2>4
  <2> QED  BY <2>3, <2>4
<1>9. toClient' \in Seq(Genuine(lps + n))
  <2>1. \A j \in 1..n : data_list'[Slot(lps + j)] = lps + j
    <3> SUFFICES ASSUME NEW j \in 1..n
                 PROVE  lps + j \in a + 1 .. a + WINDOW
      BY <1>8
    <3> QED  BY <1>3, <1>4, <1>6
  <2>2. lps \in Nat /\ n \in Nat
    BY <1>3, <1>4, <1>6
  <2>3. Burst(data_list', lps, n) \in Seq(Genuine(lps + n))
    <3>1. lps + n \in Nat /\ lps + n <= lps + n
      BY <2>2
    <3> QED  BY ONLY <2>1, <2>2, <3>1, BurstGenuine
  <2>4. toClient \in Seq(Genuine(lps))
    BY DEF Inv, WireInv, lps
  <2>5. toClient \in Seq(Genuine(lps + n))
    BY <2>2, <2>4, <1>6, GenuineWidens, QueueWidens
  <2> QED  BY <2>3, <2>5, <1>5, EnqueueKeeps
<1>10. WireInv'
  BY <1>2, <1>5, <1>9 DEF WireInv, NormalAck, clientVars
<1>11. TypeOK'
  <2>1. toClient' \in Seq([seq : Nat, body : Nat])
    BY <1>6, <1>9, GenuineType, QueueWidens
  <2>2. FlagsOK'
    BY Zenon DEF Inv, TypeOK, FlagsOK, NormalAck, clientVars
  <2>3. /\ last_packet_acked' \in 0..PACKETS
        /\ last_packet_available' \in 0..PACKETS + WINDOW
        /\ last_packet_sent' \in 0..PACKETS
        /\ sent_count' \in 0..PACKETS
    BY <1>3, <1>4, <1>5, <1>6
  <2>4. /\ session' \in {"idle", "sending", "done"}
        /\ duplicated_acks_count' \in 0..RESEND_AT
        /\ status' \in {"receiving", "verified", "failed"}
        /\ ack_number' \in 0..PACKETS
        /\ temp_data' \in Seq(Nat)
    BY DEF Inv, TypeOK, NormalAck, clientVars, RESEND_AT
  <2> QED  BY <1>2, <1>7, <2>1, <2>2, <2>3, <2>4 DEF TypeOK
<1>12. CountersInv'
  <2>1. session' = "sending" /\ ~get'
    BY <1>3 DEF NormalAck, Inv, CountersInv
  <2> QED  BY <2>1, <1>3, <1>4, <1>5, <1>6 DEF CountersInv
<1>13. SessionInv'
  BY <1>3, <1>4, <1>5, <1>7 DEF SessionInv, NormalAck
<1>14. RingHoldsWindow'
  BY <1>5, <1>8 DEF RingHoldsWindow
<1>15. ClientInv'
  BY <1>3, <1>4, <1>5, <1>6 DEF Inv, ClientInv, NormalAck, clientVars
<1> QED  BY <1>10, <1>11, <1>12, <1>13, <1>14, <1>15 DEF Inv

\* What an arriving DATA packet is, and the queue it leaves.
LEMMA DataArrivesInv ==
  ASSUME Inv, NEW i \in DOMAIN toClient, DataArrives(i)
  PROVE  /\ toClient[i] \in Genuine(last_packet_sent)
         /\ toClient' \in Seq(Genuine(last_packet_sent))
         /\ toClient' \in Seq([seq : Nat, body : Nat])
<1>1. toClient \in Seq(Genuine(last_packet_sent)) /\ last_packet_sent \in Nat
  BY DEF Inv, WireInv, TypeOK
<1>2. /\ toClient[i] \in Genuine(last_packet_sent)
      /\ toClient' \in Seq(Genuine(last_packet_sent))
  BY <1>1, AfterKeeps DEF DataArrives
<1> QED  BY <1>1, <1>2, GenuineType, QueueWidens

\* An acknowledgement of what is stored, a included, is sent.
LEMMA SendAckInv ==
  ASSUME Inv, NEW n \in ack_number..PACKETS, NEW a \in 0..n, SendAck(a)
  PROVE  /\ toServer' \in Seq(0..n)
         /\ toServer' \in Seq(0..PACKETS)
<1>1. /\ toServer \in Seq(0..ack_number)
      /\ 0..ack_number \subseteq 0..n
      /\ 0..n \subseteq 0..PACKETS
  BY TransferAssumption DEF TransferAssumption, Inv, WireInv, TypeOK
<1>2. toServer \in Seq(0..n) /\ <<a>> \in Seq(0..n)
  <2>1. toServer \in Seq(0..n)
    BY ONLY <1>1, QueueWidens
  <2> QED  BY <2>1
<1>3. toServer' \in Seq(0..n)
  BY <1>2, EnqueueKeeps DEF SendAck
<1> QED  BY <1>1, <1>3, QueueWidens

\* The expected packet is genuine, so it extends the chunk by its next packet,
\* and the hash of a whole chunk matches.
LEMMA ExpectedDataInv ==
  ASSUME Inv, ExpectedData
  PROVE  Inv'
<1> USE TransferAssumption DEF TransferAssumption
<1>1. PICK i \in DOMAIN toClient :
        /\ DataArrives(i)
        /\ toClient[i].seq = ack_number + 1
        /\ temp_data' = Append(temp_data, toClient[i].body)
        /\ SendAck(AckFor(toClient[i].seq))
  BY DEF ExpectedData
<1>2. /\ ack_number \in Nat /\ ack_number < PACKETS
      /\ last_packet_sent \in 0..PACKETS
      /\ last_packet_acked <= ack_number
      /\ temp_data = [j \in 1..ack_number |-> j]
      /\ last_packet_acked \in Nat
  <2>1. /\ ack_number \in Nat /\ last_packet_sent \in 0..PACKETS
        /\ last_packet_acked \in Nat
    BY DEF Inv, TypeOK
  <2>2. ack_number < PACKETS
    BY DEF ExpectedData, Inv, ClientInv
  <2> QED  BY <2>1, <2>2 DEF Inv, ClientInv
<1>3. /\ toClient[i] \in Genuine(last_packet_sent)
      /\ toClient' \in Seq(Genuine(last_packet_sent))
      /\ toClient' \in Seq([seq : Nat, body : Nat])
  BY <1>1, DataArrivesInv
<1>4. toClient[i].body = ack_number + 1 /\ ack_number + 1 <= last_packet_sent
  BY <1>1, <1>2, <1>3 DEF Genuine
<1>5. ack_number' = ack_number + 1
  BY DEF ExpectedData
<1>6. temp_data' = [j \in 1..ack_number + 1 |-> j]
  <2> DEFINE old == [j \in 1..ack_number |-> j]
  <2>1. old \in Seq(Nat) /\ Len(old) = ack_number
    BY <1>2
  <2>2. temp_data' = Append(old, ack_number + 1)
    BY <1>1, <1>2, <1>4
  <2>3. Append(old, ack_number + 1) = [j \in 1..ack_number + 1 |-> j]
    BY <1>2, <2>1
  <2> QED  BY <2>2, <2>3
<1>7. temp_data' \in Seq(Nat) /\ Len(temp_data') = ack_number + 1
  BY <1>2, <1>6
<1>8. status' = IF ack_number + 1 < PACKETS THEN "receiving" ELSE "verified"
  <2>1. CASE ack_number + 1 < PACKETS
    BY <2>1, <1>2, <1>7 DEF ExpectedData
  <2>2. CASE ~(ack_number + 1 < PACKETS)
    <3>1. ack_number + 1 = PACKETS
      BY <2>2, <1>2
    <3>2. HashMatches(temp_data')
      BY <3>1, <1>6 DEF HashMatches
    <3> QED  BY <3>1, <3>2, <1>2, <1>7 DEF ExpectedData
  <2> QED  BY <2>1, <2>2
<1>9. toServer' \in Seq(0..ack_number + 1) /\ toServer' \in Seq(0..PACKETS)
  <2>1. SendAck(ack_number + 1)
    BY <1>1 DEF AckFor
  <2>2. ack_number + 1 \in ack_number..PACKETS /\ ack_number + 1 \in 0..ack_number + 1
    BY <1>2
  <2> QED  BY <2>1, <2>2, SendAckInv
<1>10. WireInv'
  BY <1>3, <1>5, <1>9 DEF WireInv, ExpectedData, serverVars, counters
<1>11. TypeOK'
  <2>1. FlagsOK'
    <3>1. receiver_timer' \in BOOLEAN
      BY Zenon DEF ExpectedData
    <3> QED  BY <3>1, Zenon DEF Inv, TypeOK, FlagsOK, ExpectedData, serverVars, counters
  <2>2. /\ ack_number' \in 0..PACKETS
        /\ status' \in {"receiving", "verified", "failed"}
    BY <1>2, <1>5, <1>8
  <2> QED  BY <1>3, <1>7, <1>9, <2>1, <2>2
           DEF Inv, TypeOK, ExpectedData, serverVars, counters
<1>12. CountersInv' /\ RingHoldsWindow'
  BY DEF Inv, CountersInv, RingHoldsWindow, ExpectedData, serverVars, counters
<1>13. SessionInv'
  BY <1>2, <1>5 DEF Inv, SessionInv, ExpectedData, serverVars, counters
<1>14. ClientInv'
  BY <1>2, <1>4, <1>5, <1>6, <1>8
     DEF ClientInv, ExpectedData, serverVars, counters
<1> QED  BY <1>10, <1>11, <1>12, <1>13, <1>14 DEF Inv

\* Any other DATA packet is answered with the ACK of what is stored.
LEMMA UnexpectedDataInv ==
  ASSUME Inv, UnexpectedData
  PROVE  Inv'
<1> USE TransferAssumption DEF TransferAssumption
<1>1. PICK i \in DOMAIN toClient :
        /\ DataArrives(i)
        /\ toClient[i].seq # ack_number + 1
        /\ SendAck(AckFor(toClient[i].seq))
  BY DEF UnexpectedData
<1>2. /\ toClient' \in Seq(Genuine(last_packet_sent))
      /\ toClient' \in Seq([seq : Nat, body : Nat])
  BY <1>1, DataArrivesInv
<1>3. toServer' \in Seq(0..ack_number) /\ toServer' \in Seq(0..PACKETS)
  <2>1. SendAck(ack_number)
    BY <1>1 DEF AckFor
  <2>2. ack_number \in ack_number..PACKETS /\ ack_number \in 0..ack_number
    BY DEF Inv, TypeOK
  <2> QED  BY <2>1, <2>2, SendAckInv
<1>4. WireInv'
  BY <1>2, <1>3 DEF WireInv, UnexpectedData, serverVars, counters
<1>5. TypeOK'
  <2>1. FlagsOK'
    <3>1. receiver_timer' \in BOOLEAN
      BY Zenon DEF UnexpectedData
    <3> QED  BY <3>1, Zenon DEF Inv, TypeOK, FlagsOK, UnexpectedData, serverVars, counters
  <2> QED  BY <1>2, <1>3, <2>1 DEF Inv, TypeOK, UnexpectedData, serverVars, counters
<1>6. CountersInv' /\ SessionInv' /\ RingHoldsWindow' /\ ClientInv'
  BY DEF Inv, CountersInv, SessionInv, RingHoldsWindow, ClientInv,
         UnexpectedData, serverVars, counters
<1> QED  BY <1>4, <1>5, <1>6 DEF Inv

\* What is left: one queue changes, and nothing else.
LEMMA DataLeavesInv ==
  ASSUME Inv, toClient' \in Seq(Genuine(last_packet_sent)),
         UNCHANGED <<get, toServer, serverVars, clientVars>>
  PROVE  Inv'
<1> USE DEF serverVars, clientVars, counters
<1>1. last_packet_sent \in Nat
  BY TransferAssumption DEF TransferAssumption, Inv, TypeOK
<1>2. toClient' \in Seq([seq : Nat, body : Nat])
  BY <1>1, GenuineType, QueueWidens
<1>3. FlagsOK'
  BY Zenon DEF Inv, TypeOK, FlagsOK
<1>4. TypeOK' /\ WireInv'
  BY <1>2, <1>3 DEF Inv, TypeOK, WireInv
<1>5. CountersInv' /\ SessionInv' /\ RingHoldsWindow' /\ ClientInv'
  BY DEF Inv, CountersInv, SessionInv, RingHoldsWindow, ClientInv
<1> QED  BY <1>4, <1>5 DEF Inv

\* The same, for the queue of ACKs.
LEMMA AcksChangeInv ==
  ASSUME Inv, toServer' \in Seq(0..ack_number), toServer' \in Seq(0..PACKETS),
         UNCHANGED <<get, toClient, serverVars, clientVars>>
  PROVE  Inv'
<1> USE DEF serverVars, clientVars, counters
<1>1. FlagsOK'
  BY Zenon DEF Inv, TypeOK, FlagsOK
<1>2. TypeOK' /\ WireInv'
  BY <1>1 DEF Inv, TypeOK, WireInv
<1>3. CountersInv' /\ SessionInv' /\ RingHoldsWindow' /\ ClientInv'
  BY DEF Inv, CountersInv, SessionInv, RingHoldsWindow, ClientInv
<1> QED  BY <1>2, <1>3 DEF Inv

\* DATA without a connection only leaves its queue.
LEMMA StrayDataInv ==
  ASSUME Inv, StrayData
  PROVE  Inv'
BY DataArrivesInv, DataLeavesInv DEF StrayData

\* The receiver timer repeats the ACK of what is stored.
LEMMA ReceiverTimerInv ==
  ASSUME Inv, ReceiverTimer
  PROVE  Inv'
<1>1. ack_number \in ack_number..PACKETS /\ ack_number \in 0..ack_number
  BY TransferAssumption DEF TransferAssumption, Inv, TypeOK
<1>2. toServer' \in Seq(0..ack_number) /\ toServer' \in Seq(0..PACKETS)
  BY <1>1, SendAckInv DEF ReceiverTimer
<1> QED  BY <1>2, AcksChangeInv DEF ReceiverTimer

\* A lost packet only leaves its queue.
LEMMA LossInv ==
  ASSUME Inv, LoseData \/ LoseAck
  PROVE  Inv'
<1>1. CASE LoseData
  <2>1. toClient' \in Seq(Genuine(last_packet_sent))
    BY <1>1, LosesKeeps DEF LoseData, Inv, WireInv
  <2> QED  BY <1>1, <2>1, DataLeavesInv DEF LoseData
<1>2. CASE LoseAck
  <2>1. toServer' \in Seq(0..ack_number) /\ toServer' \in Seq(0..PACKETS)
    BY <1>2, LosesKeeps DEF LoseAck, Inv, WireInv, TypeOK
  <2> QED  BY <1>2, <2>1, AcksChangeInv DEF LoseAck
<1> QED  BY <1>1, <1>2

\* A lost GET leaves the client waiting and the uploader idle.
LEMMA LoseGetInv ==
  ASSUME Inv, LoseGet
  PROVE  Inv'
<1> USE DEF serverVars, clientVars, counters
<1>1. FlagsOK'
  BY Zenon DEF Inv, TypeOK, FlagsOK, LoseGet
<1>2. TypeOK' /\ WireInv'
  BY <1>1 DEF Inv, TypeOK, WireInv, LoseGet
<1>3. CountersInv' /\ SessionInv' /\ RingHoldsWindow' /\ ClientInv'
  BY DEF Inv, CountersInv, SessionInv, RingHoldsWindow, ClientInv, LoseGet
<1> QED  BY <1>2, <1>3 DEF Inv

\* Every step of the two ends and of the network preserves the invariant.
LEMMA StepInv == Inv /\ [Next]_vars => Inv'
<1> SUFFICES ASSUME Inv, [Next]_vars PROVE Inv'
  OBVIOUS
<1>1. CASE Server
  BY <1>1, RecvGetInv, DuplicateAckInv, OlderAckInv, NormalAckInv, FinalAckInv,
     StrayAckInv, SenderTimerInv DEF Server
<1>2. CASE Client
  BY <1>2, ExpectedDataInv, UnexpectedDataInv, StrayDataInv, ReceiverTimerInv
     DEF Client
<1>3. CASE Network
  BY <1>3, LossInv, LoseGetInv DEF Network
<1>4. CASE UNCHANGED vars
  <2>1. toServer' \in Seq(0..ack_number) /\ toServer' \in Seq(0..PACKETS)
    BY <1>4 DEF vars, Inv, WireInv, TypeOK
  <2> QED  BY <1>4, <2>1, AcksChangeInv DEF vars
<1> QED  BY <1>1, <1>2, <1>3, <1>4 DEF Next

\* Every reachable state satisfies the inductive invariant.
THEOREM Invariance == Spec => []Inv
<1>1. Init => Inv
  BY InitInv
<1>2. Inv /\ [Next]_vars => Inv'
  BY StepInv
<1> QED  BY <1>1, <1>2, PTL DEF Spec

-----------------------------------------------------------------------------
(* The safety properties. *)

\* The state has the types the code's variables have.
THEOREM TypeCorrect == Spec => []TypeOK
<1>1. Inv => TypeOK
  BY DEF Inv
<1> QED  BY <1>1, Invariance, PTL

\* The stored bytes are the chunk's, in order, and only they are acknowledged.
THEOREM StorageIsSound == Spec => []StoredInOrder
<1>1. Inv => StoredInOrder
  BY TransferAssumption
     DEF TransferAssumption, Inv, TypeOK, ClientInv, StoredInOrder
<1> QED  BY <1>1, Invariance, PTL

\* Every packet that may have to be resent is still in its slot of data_list.
THEOREM RingIsSound == Spec => []RingHoldsWindow
<1>1. Inv => RingHoldsWindow
  BY DEF Inv
<1> QED  BY <1>1, Invariance, PTL

\* The two ends are never more than a window apart.
THEOREM EndsAgree == Spec => []WindowAgreement
<1>1. Inv => WindowAgreement
  <2> SUFFICES ASSUME Inv PROVE WindowAgreement
    OBVIOUS
  <2>1. last_packet_acked \in Nat /\ last_packet_sent \in Nat /\ ack_number \in Nat
    BY TransferAssumption DEF TransferAssumption, Inv, TypeOK
  <2>2. last_packet_acked <= ack_number /\ ack_number <= last_packet_sent
    BY DEF Inv, ClientInv
  <2>3. session # "idle" => last_packet_sent <= last_packet_acked + WINDOW
    BY <2>1, TransferAssumption DEF TransferAssumption, Inv, CountersInv
  <2>4. session = "sending" => last_packet_acked < PACKETS
    BY DEF Inv, SessionInv
  <2> QED  BY <2>2, <2>3, <2>4 DEF WindowAgreement
<1> QED  BY <1>1, Invariance, PTL

\* The packets of a burst after lps that are added to a queue are in the window.
LEMMA BurstSent ==
  ASSUME NEW lps \in Nat, NEW n \in Nat, NEW ring, NEW q \in Seq(Genuine(lps)),
         \A j \in 1..n : ring[Slot(lps + j)] = lps + j,
         NEW low \in Nat, NEW high \in Nat,
         low <= lps, lps + n <= PACKETS, lps + n <= high,
         NEW i \in DOMAIN Enqueue(q, Burst(ring, lps, n)) \ DOMAIN q
  PROVE  InWindow(Enqueue(q, Burst(ring, lps, n))[i], low, high)
<1> USE TransferAssumption DEF TransferAssumption
<1> DEFINE b == Burst(ring, lps, n)
           S == Genuine(lps + n)
<1>1. lps + n \in Nat /\ lps <= lps + n /\ lps + n <= lps + n
  OBVIOUS
<1>2. b \in Seq(S) /\ DOMAIN b = 1..n
  BY <1>1, BurstGenuine
<1>3. \A j \in 1..n : b[j] = [seq |-> lps + j, body |-> lps + j]
  BY DEF Burst, Data
<1>4. q \in Seq(S)
  BY <1>1, GenuineWidens, QueueWidens
<1>5. i \in DOMAIN Enqueue(q, b) \ DOMAIN q
  OBVIOUS
<1> HIDE DEF b, S
<1>6. PICK j \in 1..n : Enqueue(q, b)[i] = b[j]
  BY <1>2, <1>4, <1>5, EnqueueAdds
<1>7. Enqueue(q, b)[i] = [seq |-> lps + j, body |-> lps + j]
  BY <1>3, <1>6
<1>8. lps + j > low /\ lps + j <= high /\ lps + j <= PACKETS
  OBVIOUS
<1> QED  BY <1>7, <1>8 DEF InWindow, b

\* So is a resent packet.
LEMMA ResendSent ==
  ASSUME Inv, session = "sending",
         NEW p \in last_packet_acked + 1 .. last_packet_sent,
         NEW i \in DOMAIN Resent(p) \ DOMAIN toClient
  PROVE  InWindow(Resent(p)[i], last_packet_acked, last_packet_acked + WINDOW)
<1> USE TransferAssumption DEF TransferAssumption
<1> DEFINE S == Genuine(last_packet_sent)
           m == [seq |-> p, body |-> p]
<1>1. /\ last_packet_acked \in Nat /\ last_packet_sent \in 0..PACKETS
      /\ last_packet_sent <= last_packet_acked + WINDOW
      /\ toClient \in Seq(S)
  BY DEF Inv, TypeOK, CountersInv, WireInv
<1>2. data_list[Slot(p)] = p
  BY <1>1 DEF Inv, RingHoldsWindow
<1>3. Data(data_list, p) = m /\ m \in S
  BY <1>1, <1>2 DEF Data, Genuine
<1>4. Resent(p) = Enqueue(toClient, <<m>>)
  BY <1>3 DEF Resent
<1> HIDE DEF S, m
<1>5. i \in DOMAIN Enqueue(toClient, <<m>>) \ DOMAIN toClient
  BY <1>4
<1>6. Resent(p)[i] = m
  BY <1>1, <1>3, <1>4, <1>5, EnqueueAddsOne
<1>7. /\ p > last_packet_acked /\ p <= last_packet_acked + WINDOW /\ p <= PACKETS
  BY <1>1
<1> QED  BY <1>6, <1>7 DEF InWindow, m

\* The packet at position i is new in flight and in the window.
SentNow(i) ==
  InWindow(toClient'[i], last_packet_acked, last_packet_acked' + WINDOW)

\* Actions that send no DATA leave nothing new in flight.
LEMMA NothingSent ==
  ASSUME Inv, NEW i \in DOMAIN toClient' \ DOMAIN toClient,
         \/ OlderAck \/ FinalAck \/ StrayAck \/ Client \/ Network \/ UNCHANGED vars
  PROVE  FALSE
<1>1. toClient \in Seq(Genuine(last_packet_sent))
  BY DEF Inv, WireInv
<1>2. CASE UNCHANGED toClient
  BY <1>2
<1>3. CASE \E j \in DOMAIN toClient : DataArrives(j)
  <2>1. DOMAIN toClient' \subseteq DOMAIN toClient
    BY <1>1, <1>3, AfterKeeps DEF DataArrives
  <2> QED  BY <2>1
<1>4. CASE LoseData
  <2>1. DOMAIN toClient' \subseteq DOMAIN toClient
    BY <1>1, <1>4, LosesKeeps DEF LoseData
  <2> QED  BY <2>1
<1> QED
  BY <1>2, <1>3, <1>4
     DEF OlderAck, FinalAck, StrayAck, Client, ExpectedData, UnexpectedData,
         StrayData, ReceiverTimer, Network, LoseGet, LoseAck, vars

\* The GET puts the first window on the wire.
LEMMA FirstWindowSent ==
  ASSUME Inv, RecvGet, NEW i \in DOMAIN toClient' \ DOMAIN toClient
  PROVE  SentNow(i)
<1> USE TransferAssumption DEF TransferAssumption
<1>1. /\ last_packet_acked = 0 /\ last_packet_acked' = 0
      /\ toClient \in Seq(Genuine(0))
  BY DEF Inv, CountersInv, WireInv, TypeOK, RecvGet
<1> DEFINE ring == Buffered(data_list, 1, WINDOW)
           q == Enqueue(toClient, Burst(ring, 0, WINDOW))
<1>2. toClient' = q
  BY DEF RecvGet
<1>3. \A j \in 1..WINDOW : ring[Slot(0 + j)] = 0 + j
  BY BufferedSlot
<1> HIDE DEF ring
<1>4. i \in DOMAIN q \ DOMAIN toClient
  BY <1>2
<1>5. InWindow(q[i], 0, WINDOW)
  BY <1>1, <1>3, <1>4, BurstSent
<1>6. last_packet_acked' + WINDOW = WINDOW
  BY <1>1
<1> HIDE DEF q
<1> QED  BY <1>1, <1>2, <1>5, <1>6 DEF SentNow

\* A normal ACK puts packets of the window it opens on the wire.
LEMMA NextWindowSent ==
  ASSUME Inv, Inv', NormalAck, NEW i \in DOMAIN toClient' \ DOMAIN toClient
  PROVE  SentNow(i)
<1> USE TransferAssumption DEF TransferAssumption
<1>1. PICK k \in DOMAIN toServer :
        AckArrives(k) /\ toServer[k] > last_packet_acked /\ Advance(toServer[k])
  BY DEF NormalAck
<1> DEFINE a == toServer[k]
           lps == last_packet_sent
           n == Sendable(a - last_packet_acked)
           ring == data_list'
           q == Enqueue(toClient, Burst(ring, lps, n))
           lps1 == last_packet_sent'
<1> HIDE DEF a, lps, n, ring, q, lps1
<1>2. last_packet_acked' = a /\ toClient' = q /\ lps1 = lps + n
  BY <1>1 DEF Advance, a, lps, n, ring, q, lps1
<1>3. /\ session = "sending" /\ session' = "sending"
      /\ last_packet_acked \in Nat /\ sent_count \in 0..PACKETS
      /\ lps \in Nat /\ lps1 \in 0..PACKETS
  BY DEF NormalAck, Inv, TypeOK, lps, lps1
<1>4. a \in Nat /\ a > last_packet_acked /\ a <= lps
  <2>1. a \in 0..ack_number
    BY <1>1, AckArrivesInv DEF a
  <2>2. ack_number \in Nat /\ ack_number <= lps
    BY DEF Inv, TypeOK, ClientInv, lps
  <2> QED  BY <1>1, <1>3, <2>1, <2>2 DEF a
<1>5. n \in Nat
  <2>1. a - last_packet_acked \in Nat
    BY <1>3, <1>4
  <2> QED  BY <1>3, <2>1 DEF Sendable, n
<1>6. lps + n <= PACKETS /\ lps + n <= a + WINDOW
  <2>1. lps1 = IF a + WINDOW <= PACKETS THEN a + WINDOW ELSE PACKETS
    BY <1>2, <1>3 DEF Inv, CountersInv, lps1
  <2> QED  BY <1>2, <1>3, <1>4, <2>1
<1>7. \A j \in 1..n : ring[Slot(lps + j)] = lps + j
  <2> SUFFICES ASSUME NEW j \in 1..n
               PROVE  ring[Slot(lps + j)] = lps + j
    OBVIOUS
  <2>1. lps + j \in a + 1 .. a + WINDOW
    BY <1>3, <1>4, <1>5, <1>6
  <2>2. \A p \in a + 1 .. a + WINDOW : ring[Slot(p)] = p
    BY <1>2, <1>3 DEF Inv, RingHoldsWindow, ring
  <2> QED  BY <2>1, <2>2
<1>8. toClient \in Seq(Genuine(lps)) /\ last_packet_acked <= lps
  BY <1>3, <1>4 DEF Inv, WireInv, lps
<1>9. i \in DOMAIN q \ DOMAIN toClient
  BY <1>2
<1>10. InWindow(q[i], last_packet_acked, a + WINDOW)
  <2>1. a + WINDOW \in Nat
    BY <1>4
  <2> QED  BY <1>3, <1>5, <1>6, <1>7, <1>8, <1>9, <2>1, BurstSent DEF q
<1> QED  BY <1>2, <1>10 DEF SentNow

\* Duplicate ACKs and the sender timer put packets of the window on the wire.
LEMMA ResendsSent ==
  ASSUME Inv, DuplicateAck \/ SenderTimer,
         NEW i \in DOMAIN toClient' \ DOMAIN toClient
  PROVE  SentNow(i)
<1> USE TransferAssumption DEF TransferAssumption
<1>1. session = "sending" /\ last_packet_acked' = last_packet_acked
  BY DEF DuplicateAck, SenderTimer, Inv, CountersInv, SessionInv, serverVars,
         counters, TypeOK
<1>2. /\ last_packet_acked \in Nat /\ last_packet_sent \in Nat
      /\ last_packet_acked < last_packet_sent
  <2>1. last_packet_acked \in Nat /\ last_packet_sent \in Nat
    BY DEF Inv, TypeOK
  <2>2. last_packet_acked < PACKETS
    BY <1>1 DEF Inv, SessionInv
  <2> QED  BY <1>1, <2>1, <2>2 DEF Inv, CountersInv
<1>3. CASE DuplicateAck
  <2>1. Missing \in last_packet_acked + 1 .. last_packet_sent
    BY <1>2 DEF Missing
  <2>2. toClient' = Resent(Missing)
    BY <1>3 DEF DuplicateAck
  <2>3. i \in DOMAIN Resent(Missing) \ DOMAIN toClient
    BY <2>2
  <2>4. InWindow(Resent(Missing)[i], last_packet_acked, last_packet_acked + WINDOW)
    BY <1>1, <2>1, <2>3, ResendSent
  <2> QED  BY <1>1, <2>2, <2>4 DEF SentNow
<1>4. CASE SenderTimer
  <2>1. last_packet_sent \in last_packet_acked + 1 .. last_packet_sent
    BY <1>2
  <2>2. toClient' = Resent(last_packet_sent)
    BY <1>4 DEF SenderTimer
  <2>3. i \in DOMAIN Resent(last_packet_sent) \ DOMAIN toClient
    BY <2>2
  <2>4. InWindow(Resent(last_packet_sent)[i], last_packet_acked,
                 last_packet_acked + WINDOW)
    BY <1>1, <2>1, <2>3, ResendSent
  <2> QED  BY <1>1, <2>2, <2>4 DEF SentNow
<1> QED  BY <1>3, <1>4

\* No step puts a packet on the wire that is outside the window or not genuine.
THEOREM SendsAreInWindow == Spec => SendsWithinWindow
<1> DEFINE A == \A i \in DOMAIN toClient' \ DOMAIN toClient :
                  InWindow(toClient'[i], last_packet_acked, last_packet_acked' + WINDOW)
<1>1. Inv /\ Inv' /\ [Next]_vars => [A]_vars
  <2> SUFFICES ASSUME Inv, Inv', [Next]_vars,
                      NEW i \in DOMAIN toClient' \ DOMAIN toClient
               PROVE  SentNow(i)
    BY DEF SentNow
  <2>1. CASE RecvGet
    BY <2>1, FirstWindowSent
  <2>2. CASE NormalAck
    BY <2>2, NextWindowSent
  <2>3. CASE DuplicateAck \/ SenderTimer
    BY <2>3, ResendsSent
  <2>4. CASE OlderAck \/ FinalAck \/ StrayAck \/ Client \/ Network \/ UNCHANGED vars
    BY <2>4, NothingSent
  <2> QED  BY <2>1, <2>2, <2>3, <2>4 DEF Next, Server
<1> QED  BY <1>1, Invariance, PTL DEF Spec, SendsWithinWindow

-----------------------------------------------------------------------------
(* Refinement: the transfer delivers the chunk. *)

\* Every step stores the next packet of the chunk, opens or closes the session,
\* or changes nothing the abstract delivery speaks of.
THEOREM Refinement == Spec => DeliversChunk
<1>1. Init => Delivery!Init
  BY DEF Init, Delivery!Init
<1>2. Inv /\ [Next]_vars => [Delivery!Next]_(Delivery!vars)
  <2> SUFFICES ASSUME Inv, [Next]_vars
               PROVE  [Delivery!Next]_(Delivery!vars)
    OBVIOUS
  <2> USE DEF Delivery!vars, clientVars, serverVars, counters
  <2>1. CASE RecvGet
    <3>1. session = "idle"
      BY <2>1 DEF RecvGet, Inv, CountersInv
    <3> QED  BY <2>1, <3>1 DEF RecvGet, Delivery!Next, Delivery!Accept
  <2>2. CASE FinalAck
    <3>1. PICK i \in DOMAIN toServer : AckArrives(i) /\ toServer[i] >= PACKETS
      BY <2>2 DEF FinalAck, LastAck
    <3>2. toServer[i] \in 0..ack_number
      BY <3>1, AckArrivesInv
    <3>3. ~(ack_number < PACKETS)
      BY <3>1, <3>2, TransferAssumption DEF TransferAssumption, Inv, TypeOK
    <3>4. status = "verified"
      BY <3>3 DEF Inv, ClientInv
    <3> QED  BY <2>2, <3>4 DEF FinalAck, Delivery!Next, Delivery!Close
  <2>3. CASE ExpectedData
    <3>1. Inv'
      BY <2>3, ExpectedDataInv
    <3>2. /\ ack_number \in Nat /\ ack_number' = ack_number + 1
          /\ ack_number' \in 0..PACKETS
          /\ status = "receiving"
      BY <2>3, <3>1 DEF ExpectedData, Inv, TypeOK
    <3>3. session = "sending"
      <4>1. session # "idle"
        BY <3>1, <3>2, <2>3, TransferAssumption
           DEF TransferAssumption, Inv, CountersInv, ClientInv, ExpectedData
      <4>2. session # "done"
        BY <3>2, TransferAssumption DEF TransferAssumption, Inv, SessionInv
      <4> QED  BY <4>1, <4>2 DEF Inv, TypeOK
    <3>4. temp_data = [j \in 1..ack_number |-> j]
          /\ temp_data' = [j \in 1..ack_number + 1 |-> j]
      BY <3>1, <3>2 DEF Inv, ClientInv
    <3>5. Len(temp_data) = ack_number /\ Len(temp_data') = ack_number + 1
      BY <3>2, <3>4
    <3>6. temp_data' = Append(temp_data, Len(temp_data) + 1)
      BY <3>2, <3>4, <3>5
    <3>7. status' = IF Len(temp_data') = PACKETS THEN "verified" ELSE "receiving"
      BY <3>1, <3>2, <3>5, TransferAssumption
         DEF TransferAssumption, Inv, ClientInv
    <3> QED  BY <2>3, <3>2, <3>3, <3>6, <3>7
             DEF ExpectedData, Delivery!Next, Delivery!Store
  <2>4. CASE DuplicateAck \/ OlderAck \/ NormalAck \/ StrayAck \/ SenderTimer
    BY <2>4 DEF DuplicateAck, OlderAck, NormalAck, StrayAck, SenderTimer
  <2>5. CASE UnexpectedData \/ StrayData \/ ReceiverTimer \/ Network
    BY <2>5 DEF UnexpectedData, StrayData, ReceiverTimer, Network, LoseGet,
                LoseData, LoseAck
  <2>6. CASE UNCHANGED vars
    BY <2>6 DEF vars
  <2> QED  BY <2>1, <2>2, <2>3, <2>4, <2>5, <2>6 DEF Next, Server, Client
<1> QED  BY <1>1, <1>2, Invariance, PTL DEF Spec, DeliversChunk, Delivery!Spec
=============================================================================
