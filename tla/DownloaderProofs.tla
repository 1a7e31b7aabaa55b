-------------------------- MODULE DownloaderProofs --------------------------
(***************************************************************************)
(* The client's lists, connections, timers and file, for any peers and     *)
(* chunks, any timing of the timers, and uploaders that may send any       *)
(* bytes.                                                                  *)
(***************************************************************************)
EXTENDS Downloader, SListProofs

\* The lists: a chunk is wished once and only if the chunk file names it; a chunk
\* that a connection waits for is in downloading, once, and so is its connection.
ListsInv ==
  /\ IsInjective(wish) /\ ToSet(wish) \subseteq ToSet(WishList)
  /\ gets = 0 => wish = <<>>
  /\ IsInjective(downloading)
  /\ \A i \in DOMAIN c_states : Receiving(i) => c_states[i].chunk \in ToSet(downloading)
  /\ OneDownloadPerChunk

FileInv == WrittenIsVerified /\ (gets = 0 => DOMAIN file = {})

TimersOf(n) == [owner : {WHOHAS} \cup 1..n, armed : BOOLEAN, alive : BOOLEAN]

Types ==
  /\ gets \in 0..GETS
  /\ wish \in Seq(Chunks) /\ downloading \in Seq(Chunks)
  /\ c_states \in Seq(CState \cup {Destroyed})
  /\ timers \in Seq(TimersOf(Len(c_states)))
  /\ whohas_timerid \in {NULL} \cup 0..Len(timers)-1
  /\ receiver_timerid \in {NULL} \cup 0..Len(timers)-1
  /\ DOMAIN file \subseteq Nat /\ \A pos \in DOMAIN file : file[pos] \subseteq Chunks
  /\ exited \in BOOLEAN
  /\ toPeer \in [Peers -> Seq(Request)]
  /\ toClient \in [Peers -> Seq(Datagram)]

Inv == Types /\ ListsInv /\ FileInv

-----------------------------------------------------------------------------
(* Facts about the constants and the operators. *)

LEMMA Constants ==
  /\ Has \in [Peers -> SUBSET Chunks]
  /\ WishList \in Seq(Chunks) /\ IsInjective(WishList)
  /\ PACKETS \in Nat \ {0} /\ MAX_CONN \in Nat /\ GETS \in Nat /\ RESENDS \in Nat
  /\ Garbage \notin Chunks /\ "none" \notin Peers
BY DownloaderAssumption DEF DownloaderAssumption

\* What is read of a list is as long as its length field says.
LEMMA ListedIsList ==
  ASSUME NEW S, NEW list \in Seq(S)
  PROVE  /\ Entries(list) \in Nat
         /\ DOMAIN Listed(list) = 1..Entries(list)
         /\ \A i \in 1..Entries(list) :
              Listed(list)[i] # Garbage => i \in DOMAIN list /\ Listed(list)[i] = list[i]
<1>1. Len(list) \in Nat /\ DOMAIN list = 1..Len(list)
  OBVIOUS
<1>2. TotalLength(list) \in Nat
  BY <1>1 DEF TotalLength, HEADER, COUNT, HASH
<1>3. Entries(list) \in Nat
  BY <1>2 DEF Entries, HASH
<1> QED  BY <1>1, <1>3 DEF Listed

\* Case 0 offers a chunk it has and has read.
LEMMA OfferIsFound ==
  ASSUME NEW list \in Seq(Chunks), NEW p \in Peers, FoundIn(Listed(list), p) # {}
  PROVE  LET i == Min(FoundIn(Listed(list), p))
         IN  /\ i \in DOMAIN list /\ Listed(list)[i] = list[i]
             /\ list[i] \in Has[p] /\ list[i] \in Chunks
             /\ \A j \in FoundIn(Listed(list), p) : i <= j
<1> DEFINE F == FoundIn(Listed(list), p)
           i == Min(F)
<1>1. DOMAIN Listed(list) = 1..Entries(list) /\ Entries(list) \in Nat
  BY ListedIsList
<1>2. F \subseteq Nat
  BY <1>1 DEF FoundIn
<1>3. i \in F /\ \A j \in F : i <= j
  BY <1>2, NatMin
<1>4. i \in 1..Entries(list) /\ Listed(list)[i] \in Has[p]
  BY <1>1, <1>3 DEF FoundIn
<1> HIDE DEF F, i
<1>5. Listed(list)[i] # Garbage
  BY <1>4, Constants
<1>6. i \in DOMAIN list /\ Listed(list)[i] = list[i]
  BY <1>4, <1>5, ListedIsList
<1> QED  BY <1>3, <1>4, <1>6 DEF F, i

LEMMA UploadIsPackets ==
  ASSUME NEW bytes \in Chunks, NEW again \in 0..RESENDS
  PROVE  /\ Upload(bytes, again) \in Seq(Datagram)
         /\ Len(Upload(bytes, again)) = PACKETS + again
         /\ \A i \in 1..PACKETS + again :
              Upload(bytes, again)[i] =
                [type |-> "DATA", seq |-> IF i <= PACKETS THEN i ELSE PACKETS, bytes |-> bytes]
<1> DEFINE n == PACKETS + again
           data(i) == [type |-> "DATA", seq |-> IF i <= PACKETS THEN i ELSE PACKETS,
                       bytes |-> bytes]
<1>1. n \in Nat /\ PACKETS \in Nat \ {0}
  BY Constants
<1>2. \A i \in 1..n : data(i) \in Datagram
  <2> SUFFICES ASSUME NEW i \in 1..n PROVE data(i) \in Datagram
    OBVIOUS
  <2> DEFINE s == IF i <= PACKETS THEN i ELSE PACKETS
  <2>1. s \in 1..PACKETS
    BY <1>1
  <2> HIDE DEF s
  <2>2. [type |-> "DATA", seq |-> s, bytes |-> bytes] \in Datagram
    BY <2>1 DEF Datagram
  <2> QED  BY <2>2 DEF s
<1>3. Upload(bytes, again) = [i \in 1..n |-> data(i)]
  BY DEF Upload
<1> HIDE DEF n, data
<1>4. Upload(bytes, again) \in [1..n -> Datagram]
  BY <1>2, <1>3
<1>5. Upload(bytes, again) \in Seq(Datagram) /\ Len(Upload(bytes, again)) = n
  BY <1>1, <1>4
<1> QED  BY <1>3, <1>5 DEF n, data

\* The connection find_c_state returns is one of that peer.
LEMMA FoundIsConn ==
  ASSUME Types, NEW p \in Peers, Found(p) # {}
  PROVE  /\ Min(Found(p)) \in DOMAIN c_states /\ Min(Found(p)) <= MAX_CONN
         /\ Conn(p) \in CState /\ Conn(p).server = p /\ Conn(p) # Destroyed
         /\ \A j \in Found(p) : Min(Found(p)) <= j
<1>1. Found(p) \subseteq Nat
  BY DEF Found, Types
<1>2. Min(Found(p)) \in Found(p) /\ \A j \in Found(p) : Min(Found(p)) <= j
  BY <1>1, NatMin
<1>3. Conn(p).server = p /\ Conn(p) \in CState \cup {Destroyed}
  BY <1>2 DEF Found, Conn, Types
<1>4. Conn(p) # Destroyed
  BY <1>3, Constants DEF Destroyed
<1> QED  BY <1>2, <1>3, <1>4 DEF Found

\* Timers are changed one at a time.
LEMMA TimerTypes ==
  ASSUME NEW n, NEW tms \in Seq(TimersOf(n))
  PROVE  /\ \A id : id + 1 \in DOMAIN tms => Arm(tms, id) \in Seq(TimersOf(n))
                                             /\ Len(Arm(tms, id)) = Len(tms)
         /\ \A id : id + 1 \in DOMAIN tms => Disarm(tms, id) \in Seq(TimersOf(n))
                                             /\ Len(Disarm(tms, id)) = Len(tms)
         /\ \A id : Delete(tms, id) \in Seq(TimersOf(n)) /\ Len(Delete(tms, id)) = Len(tms)
         /\ \A o \in {WHOHAS} \cup 1..n : Create(tms, o) \in Seq(TimersOf(n))
                                          /\ Len(Create(tms, o)) = Len(tms) + 1
<1>1. ASSUME NEW id, id + 1 \in DOMAIN tms
      PROVE  /\ Arm(tms, id) \in Seq(TimersOf(n)) /\ Len(Arm(tms, id)) = Len(tms)
             /\ Disarm(tms, id) \in Seq(TimersOf(n)) /\ Len(Disarm(tms, id)) = Len(tms)
  <2> DEFINE a == [tms[id + 1] EXCEPT !.armed = TRUE]
             d == [tms[id + 1] EXCEPT !.armed = FALSE]
  <2>1. tms[id + 1] \in TimersOf(n)
    BY <1>1
  <2>2. a \in TimersOf(n) /\ d \in TimersOf(n)
    BY <2>1 DEF TimersOf
  <2>3. Arm(tms, id) = [tms EXCEPT ![id + 1] = a]
        /\ Disarm(tms, id) = [tms EXCEPT ![id + 1] = d]
    BY DEF Arm, Disarm
  <2> HIDE DEF a, d
  <2> QED  BY <1>1, <2>2, <2>3
<1>2. ASSUME NEW id
      PROVE  Delete(tms, id) \in Seq(TimersOf(n)) /\ Len(Delete(tms, id)) = Len(tms)
  <2>1. CASE Exists(tms, id)
    <3> DEFINE u == [tms[id + 1] EXCEPT !.alive = FALSE, !.armed = FALSE]
    <3>1. id + 1 \in DOMAIN tms /\ tms[id + 1] \in TimersOf(n)
      BY <2>1 DEF Exists
    <3>2. u \in TimersOf(n)
      BY <3>1 DEF TimersOf
    <3>3. Delete(tms, id) = [tms EXCEPT ![id + 1] = u]
      BY <2>1, <3>1 DEF Delete
    <3> HIDE DEF u
    <3> QED  BY <3>1, <3>2, <3>3
  <2>2. CASE ~ Exists(tms, id)
    BY <2>2 DEF Delete
  <2> QED  BY <2>1, <2>2
<1>3. ASSUME NEW o \in {WHOHAS} \cup 1..n
      PROVE  Create(tms, o) \in Seq(TimersOf(n)) /\ Len(Create(tms, o)) = Len(tms) + 1
  <2>1. [owner |-> o, armed |-> FALSE, alive |-> TRUE] \in TimersOf(n)
    BY DEF TimersOf
  <2> QED  BY <2>1 DEF Create
<1> QED  BY <1>1, <1>2, <1>3

\* send_whohas keeps the types, whether or not it ends the process.
LEMMA AskedTypes ==
  ASSUME Types, NEW list \in Seq(Chunks), NEW n, NEW tms \in Seq(TimersOf(n)),
         Asked(list, tms), whohas_timerid' + 1 \in DOMAIN tms
  PROVE  /\ timers' \in Seq(TimersOf(n)) /\ Len(timers') = Len(tms)
         /\ toPeer' \in [Peers -> Seq(Request)]
<1> DEFINE w == [type |-> "WHOHAS", chunks |-> list]
<1>1. w \in Request
  BY DEF Request
<1>2. timers' = Arm(tms, whohas_timerid') /\ toPeer' = [p \in Peers |-> Append(toPeer[p], w)]
  BY DEF Asked
<1> HIDE DEF w
<1>3. \A p \in Peers : Append(toPeer[p], w) \in Seq(Request)
  BY <1>1 DEF Types
<1>4. toPeer' \in [Peers -> Seq(Request)]
  BY <1>2, <1>3
<1> QED  BY <1>2, <1>4, TimerTypes

LEMMA AskTypes ==
  ASSUME Types, NEW list \in Seq(Chunks), NEW n, NEW tms \in Seq(TimersOf(n)),
         Ask(list, tms)
  PROVE  /\ timers' \in Seq(TimersOf(n)) /\ Len(timers') = Len(tms)
         /\ toPeer' \in [Peers -> Seq(Request)] /\ exited' \in BOOLEAN
<1>1. CASE Exists(tms, whohas_timerid')
  <2>1. Asked(list, tms) /\ whohas_timerid' + 1 \in DOMAIN tms /\ exited' = exited
    BY <1>1 DEF Ask, Exists
  <2> QED  BY <2>1, AskedTypes DEF Types
<1>2. CASE ~ Exists(tms, whohas_timerid')
  BY <1>2 DEF Ask, Types
<1> QED  BY <1>1, <1>2

\* The lists, the connections and the file stay as they are.
LEMMA ListsUnchanged ==
  ASSUME Inv, UNCHANGED <<gets, wish, downloading, c_states, file>>
  PROVE  ListsInv' /\ FileInv'
BY DEF Inv, ListsInv, FileInv, Receiving, OneDownloadPerChunk, WrittenIsVerified

-----------------------------------------------------------------------------
(* The commands of the user, the timer and the other peers. *)

LEMMA UserGetInv ==
  ASSUME Inv, UserGet \/ NoOutputFile
  PROVE  Inv'
<1>1. /\ gets' = gets + 1 /\ gets < GETS /\ wish' = Loaded
      /\ whohas_timerid' = Len(timers) /\ Asked(wish', Create(timers, WHOHAS))
      /\ file' = <<>> \/ file' = file
      /\ exited' = exited \/ exited' = TRUE
      /\ UNCHANGED <<downloading, c_states, receiver_timerid, toClient>>
  BY DEF UserGet, NoOutputFile, ProcessGet, NewId
<1>2. gets \in Nat /\ gets' \in 0..GETS /\ gets' # 0
  BY <1>1, Constants DEF Inv, Types
<1>3. wish' \in Seq(Chunks) /\ IsInjective(wish') /\ ToSet(wish') \subseteq ToSet(WishList)
  BY <1>1, Constants DEF Loaded, Inv, Types, ListsInv
<1>4. timers \in Seq(TimersOf(Len(c_states))) /\ Len(timers) \in Nat
  BY DEF Inv, Types
<1>5. /\ Create(timers, WHOHAS) \in Seq(TimersOf(Len(c_states)))
      /\ Len(Create(timers, WHOHAS)) = Len(timers) + 1
  BY <1>4, TimerTypes
<1>6. /\ timers' \in Seq(TimersOf(Len(c_states))) /\ Len(timers') = Len(timers) + 1
      /\ toPeer' \in [Peers -> Seq(Request)] /\ exited' \in BOOLEAN
  <2>1. Len(timers) + 1 \in DOMAIN Create(timers, WHOHAS)
    BY <1>4, <1>5
  <2>2. exited' \in BOOLEAN
    BY <1>1 DEF Inv, Types
  <2> QED  BY <1>1, <1>3, <1>5, <2>1, <2>2, AskedTypes DEF Inv
<1>7. Types'
  <2>1. whohas_timerid' \in 0..Len(timers')-1
        /\ receiver_timerid' \in {NULL} \cup 0..Len(timers')-1
    BY <1>1, <1>4, <1>6 DEF Inv, Types
  <2> QED  BY <1>1, <1>2, <1>3, <1>6, <2>1 DEF Inv, Types
<1>8. ListsInv'
  BY <1>1, <1>2, <1>3 DEF Inv, ListsInv, Receiving, OneDownloadPerChunk
<1>9. FileInv'
  <2>1. CASE file' = <<>>
    BY <1>2, <2>1 DEF FileInv, WrittenIsVerified
  <2>2. CASE file' = file
    <3>1. wish' = wish \/ DOMAIN file = {}
      BY <1>1 DEF Loaded, Inv, FileInv
    <3> QED  BY <1>2, <2>2, <3>1 DEF Inv, FileInv, WrittenIsVerified
  <2> QED  BY <1>1, <2>1, <2>2
<1> QED  BY <1>7, <1>8, <1>9 DEF Inv

LEMMA NoChunkFileInv ==
  ASSUME Inv, NoChunkFile
  PROVE  Inv'
<1>1. /\ exited' = TRUE
      /\ UNCHANGED <<gets, wish, downloading, c_states, timers, whohas_timerid,
                     receiver_timerid, file, toPeer, toClient>>
  BY DEF NoChunkFile, peerVars
<1>2. Types'
  BY <1>1 DEF Inv, Types
<1> QED  BY <1>1, <1>2, ListsUnchanged DEF Inv

LEMMA WhohasTimerInv ==
  ASSUME Inv, WhohasTimer
  PROVE  Inv'
<1>1. /\ whohas_timerid' = NULL /\ Ask(wish, Delete(timers, whohas_timerid))
      /\ UNCHANGED <<gets, wish, downloading, c_states, receiver_timerid, file, toClient>>
  BY DEF WhohasTimer
<1>2. timers \in Seq(TimersOf(Len(c_states))) /\ wish \in Seq(Chunks)
  BY DEF Inv, Types
<1>3. /\ Delete(timers, whohas_timerid) \in Seq(TimersOf(Len(c_states)))
      /\ Len(Delete(timers, whohas_timerid)) = Len(timers)
  BY <1>2, TimerTypes
<1>4. /\ timers' \in Seq(TimersOf(Len(c_states))) /\ Len(timers') = Len(timers)
      /\ toPeer' \in [Peers -> Seq(Request)] /\ exited' \in BOOLEAN
  BY <1>1, <1>2, <1>3, AskTypes DEF Inv
<1>5. Types'
  BY <1>1, <1>4 DEF Inv, Types
<1> QED  BY <1>1, <1>5, ListsUnchanged DEF Inv

\* The other peers change what is in flight, and nothing else.
LEMMA PeersInv ==
  ASSUME Inv, NEW p \in Peers, AnswerWhohas(p) \/ ServeGet(p)
  PROVE  Inv'
<1>1. /\ UNCHANGED <<gets, wish, downloading, c_states, timers, whohas_timerid,
                     receiver_timerid, file, exited>>
      /\ toPeer[p] # <<>> /\ toPeer' = [toPeer EXCEPT ![p] = Tail(@)]
  BY DEF AnswerWhohas, ServeGet, Asks
<1>2. toPeer[p] \in Seq(Request) /\ toClient[p] \in Seq(Datagram)
  BY DEF Inv, Types
<1>3. Head(toPeer[p]) \in Request /\ Tail(toPeer[p]) \in Seq(Request)
  BY <1>1, <1>2
<1>4. toPeer' \in [Peers -> Seq(Request)]
  BY <1>1, <1>3 DEF Inv, Types
<1>5. toClient' \in [Peers -> Seq(Datagram)]
  <2>1. CASE AnswerWhohas(p)
    <3> DEFINE asked == Head(toPeer[p]).chunks
               found == FoundIn(Listed(asked), p)
               first == Listed(asked)[Min(found)]
    <3>1. asked \in Seq(Chunks)
      BY <1>3, <2>1 DEF AnswerWhohas, Asks, Request
    <3>2. toClient' = IF found = {} THEN toClient
                      ELSE [toClient EXCEPT ![p] = Append(@, [type |-> "IHAVE", first |-> first])]
      BY <2>1 DEF AnswerWhohas
    <3>3. found # {} => first \in Chunks
      BY <3>1, OfferIsFound
    <3> HIDE DEF found, first
    <3>4. found # {} => [type |-> "IHAVE", first |-> first] \in Datagram
      BY <3>3 DEF Datagram
    <3>5. CASE found = {}
      BY <3>2, <3>5 DEF Inv, Types
    <3>6. CASE found # {}
      <4>1. Append(toClient[p], [type |-> "IHAVE", first |-> first]) \in Seq(Datagram)
        BY <1>2, <3>4, <3>6
      <4> QED  BY <3>2, <3>6, <4>1 DEF Inv, Types
    <3> QED  BY <3>5, <3>6
  <2>2. CASE ServeGet(p)
    <3>1. Head(toPeer[p]).chunk \in Chunks
      BY <1>3, <2>2 DEF ServeGet, Asks, Request
    <3>2. PICK bytes \in Chunks, again \in 0..RESENDS :
             toClient' = [toClient EXCEPT ![p] = @ \o Upload(bytes, again)]
      BY <2>2, <3>1 DEF ServeGet
    <3>3. Upload(bytes, again) \in Seq(Datagram)
      BY UploadIsPackets
    <3>4. toClient[p] \o Upload(bytes, again) \in Seq(Datagram)
      BY <1>2, <3>3
    <3> QED  BY <3>2, <3>4 DEF Inv, Types
  <2> QED  BY <2>1, <2>2
<1>6. Types'
  BY <1>1, <1>4, <1>5 DEF Inv, Types
<1> QED  BY <1>1, <1>6, ListsUnchanged DEF Inv

-----------------------------------------------------------------------------
(* What the client does with a datagram. *)

LEMMA ArrivesTypes ==
  ASSUME Types, NEW p \in Peers, NEW m, Arrives(p, m)
  PROVE  /\ m \in Datagram
         /\ m.type = "IHAVE" => Offered(m) \in Chunks
         /\ m.type = "DATA" => m.seq \in 1..PACKETS /\ m.bytes \in Chunks
         /\ toClient' \in [Peers -> Seq(Datagram)]
<1>1. /\ toClient[p] \in Seq(Datagram) /\ toClient[p] # <<>> /\ m = Head(toClient[p])
      /\ toClient' = [toClient EXCEPT ![p] = Tail(@)]
  BY DEF Arrives, Types
<1>2. m \in Datagram /\ Tail(toClient[p]) \in Seq(Datagram)
  BY <1>1
<1>3. toClient' \in [Peers -> Seq(Datagram)]
  BY <1>1, <1>2 DEF Types
<1>4. m.type = "IHAVE" => Offered(m) \in Chunks
  BY <1>2 DEF Datagram, Offered
<1>5. m.type = "DATA" => m.seq \in 1..PACKETS /\ m.bytes \in Chunks
  BY <1>2 DEF Datagram
<1> QED  BY <1>2, <1>3, <1>4, <1>5

\* What is ignored, and what ends the process.
LEMMA IgnoredInv ==
  ASSUME Inv, NEW p \in Peers, NEW m,
         IhaveNotAsked(p, m) \/ DataStray(p, m) \/ TimerLost(p, m)
  PROVE  Inv'
<1>1. /\ Arrives(p, m) /\ exited' \in BOOLEAN
      /\ UNCHANGED <<gets, wish, downloading, c_states, timers, whohas_timerid,
                     receiver_timerid, file, toPeer>>
  BY DEF IhaveNotAsked, DataStray, TimerLost, Ignored, Inv, Types
<1>2. Types'
  BY <1>1, ArrivesTypes DEF Inv, Types
<1> QED  BY <1>1, <1>2, ListsUnchanged DEF Inv

\* Only a timer is started or stopped.
LEMMA OnlyTimerInv ==
  ASSUME Inv, NEW p \in Peers, NEW m, IhaveDownloading(p, m) \/ DataRepeated(p, m)
  PROVE  Inv'
<1>1. /\ Arrives(p, m)
      /\ UNCHANGED <<gets, wish, downloading, c_states, whohas_timerid,
                     receiver_timerid, file, exited, toPeer>>
  BY DEF IhaveDownloading, DataRepeated
<1>2. timers \in Seq(TimersOf(Len(c_states)))
  BY DEF Inv, Types
<1>3. timers' \in Seq(TimersOf(Len(c_states))) /\ Len(timers') = Len(timers)
  <2>1. CASE IhaveDownloading(p, m)
    <3>1. timers' = Disarm(timers, whohas_timerid) /\ whohas_timerid + 1 \in DOMAIN timers
      BY <2>1 DEF IhaveDownloading, Stopped, Exists
    <3> QED  BY <1>2, <3>1, TimerTypes
  <2>2. CASE DataRepeated(p, m)
    <3>1. timers' = Arm(timers, receiver_timerid) /\ receiver_timerid + 1 \in DOMAIN timers
      BY <2>2 DEF DataRepeated, Exists
    <3> QED  BY <1>2, <3>1, TimerTypes
  <2> QED  BY <2>1, <2>2
<1>4. Types'
  BY <1>1, <1>3, ArrivesTypes DEF Inv, Types
<1> QED  BY <1>1, <1>4, ListsUnchanged DEF Inv

LEMMA TimersWiden ==
  ASSUME NEW n \in Nat, NEW tms \in Seq(TimersOf(n))
  PROVE  tms \in Seq(TimersOf(n + 1))
<1>1. \A x \in TimersOf(n) : x \in TimersOf(n + 1)
  BY DEF TimersOf
<1>2. \A i \in 1..Len(tms) : tms[i] \in TimersOf(n + 1)
  BY <1>1
<1> QED  BY <1>2

LEMMA IhaveAcceptedInv ==
  ASSUME Inv, NEW p \in Peers, NEW m, IhaveAccepted(p, m)
  PROVE  Inv'
<1> DEFINE c == Offered(m)
           n == Len(c_states)
           g == [type |-> "GET", chunk |-> c]
<1>1. /\ Arrives(p, m) /\ m.type = "IHAVE"
      /\ Search(wish, c) # -1 /\ Search(downloading, c) = -1
      /\ whohas_timerid + 1 \in DOMAIN timers
      /\ toPeer' = [toPeer EXCEPT ![p] = Append(@, g)]
      /\ downloading' = PushBack(downloading, c)
      /\ c_states' = Append(c_states, NewConnection(p, c))
      /\ receiver_timerid' = Len(timers)
      /\ timers' = Create(Disarm(timers, whohas_timerid), Len(c_states'))
      /\ UNCHANGED <<gets, wish, whohas_timerid, file, exited>>
  BY DEF IhaveAccepted, Wished, Entered, Stopped, NewId, Exists
<1>2. /\ wish \in Seq(Chunks) /\ downloading \in Seq(Chunks)
      /\ c_states \in Seq(CState \cup {Destroyed}) /\ n \in Nat
      /\ timers \in Seq(TimersOf(n)) /\ Len(timers) \in Nat
      /\ toPeer \in [Peers -> Seq(Request)]
  BY DEF Inv, Types
<1>3. c \in Chunks /\ toClient' \in [Peers -> Seq(Datagram)]
  BY <1>1, ArrivesTypes DEF Inv
<1>4. c \in ToSet(wish) /\ c \notin ToSet(downloading)
  BY <1>1, <1>2, SearchDecides
<1>5. g \in Request
  BY <1>3 DEF Request
<1>6. NewConnection(p, c) \in CState
  BY <1>3, Constants DEF NewConnection, CState
<1> HIDE DEF c, g, n
<1>7. toPeer' \in [Peers -> Seq(Request)]
  <2>1. Append(toPeer[p], g) \in Seq(Request)
    BY <1>2, <1>5
  <2> QED  BY <1>1, <1>2, <2>1
<1>8. /\ downloading' \in Seq(Chunks) /\ IsInjective(downloading')
      /\ ToSet(downloading') = ToSet(downloading) \cup {c}
  <2>1. IsInjective(downloading)
    BY DEF Inv, ListsInv
  <2>2. /\ PushBack(downloading, c) \in Seq(Chunks)
        /\ ToSet(PushBack(downloading, c)) = ToSet(downloading) \cup {c}
        /\ IsInjective(PushBack(downloading, c))
    BY <1>2, <1>3, <1>4, <2>1, PushBackKeeps
  <2> QED  BY <1>1, <2>2
<1>9. /\ c_states' \in Seq(CState \cup {Destroyed}) /\ Len(c_states') = n + 1
      /\ DOMAIN c_states' = 1..n + 1 /\ DOMAIN c_states = 1..n
      /\ c_states'[n + 1] = NewConnection(p, c)
      /\ \A i \in 1..n : c_states'[i] = c_states[i]
  BY <1>1, <1>2, <1>6 DEF n
<1>10. /\ timers' \in Seq(TimersOf(n + 1)) /\ Len(timers') = Len(timers) + 1
  <2> DEFINE d == Disarm(timers, whohas_timerid)
  <2>1. d \in Seq(TimersOf(n)) /\ Len(d) = Len(timers)
    BY <1>1, <1>2, TimerTypes
  <2> HIDE DEF d
  <2>2. d \in Seq(TimersOf(n + 1))
    BY <1>2, <2>1, TimersWiden
  <2>3. n + 1 \in {WHOHAS} \cup 1..n + 1
    BY <1>2
  <2>4. Create(d, n + 1) \in Seq(TimersOf(n + 1)) /\ Len(Create(d, n + 1)) = Len(d) + 1
    BY <2>2, <2>3, TimerTypes
  <2>5. timers' = Create(d, n + 1)
    BY <1>1, <1>9 DEF d
  <2> QED  BY <2>1, <2>4, <2>5
<1>11. Types'
  <2>1. whohas_timerid' \in {NULL} \cup 0..Len(timers')-1
        /\ receiver_timerid' \in {NULL} \cup 0..Len(timers')-1
    BY <1>1, <1>2, <1>10 DEF Inv, Types
  <2>2. timers' \in Seq(TimersOf(Len(c_states')))
    BY <1>9, <1>10
  <2> QED  BY <1>1, <1>3, <1>7, <1>8, <1>9, <2>1, <2>2 DEF Inv, Types
<1>12. \A i \in 1..n : Receiving(i)' <=> Receiving(i)
  BY <1>9 DEF Receiving
<1>13. c_states'[n + 1].chunk = c
  BY <1>9 DEF NewConnection
<1>14. \A i \in 1..n : Receiving(i) => c_states[i].chunk \in ToSet(downloading)
  BY <1>9 DEF Inv, ListsInv
<1>15. \A i \in DOMAIN c_states' :
         Receiving(i)' => c_states'[i].chunk \in ToSet(downloading)'
  <2> SUFFICES ASSUME NEW i \in 1..n + 1, Receiving(i)'
               PROVE  c_states'[i].chunk \in ToSet(downloading')
    BY <1>9
  <2>1. ToSet(downloading') = ToSet(downloading) \cup {c}
    BY <1>8
  <2>2. CASE i \in 1..n
    BY <1>9, <1>12, <1>14, <2>1, <2>2
  <2>3. CASE i = n + 1
    BY <1>13, <2>1, <2>3
  <2> QED  BY <1>2, <2>2, <2>3
<1>16. OneDownloadPerChunk'
  <2> SUFFICES ASSUME NEW i \in 1..n + 1, NEW j \in 1..n + 1, Receiving(i)', Receiving(j)',
                      c_states'[i].chunk = c_states'[j].chunk
               PROVE  i = j
    BY <1>9 DEF OneDownloadPerChunk
  <2>1. CASE i \in 1..n /\ j \in 1..n
    <3>1. Receiving(i) /\ Receiving(j) /\ c_states[i].chunk = c_states[j].chunk
      BY <1>9, <1>12, <2>1
    <3> QED  BY <1>9, <2>1, <3>1 DEF Inv, ListsInv, OneDownloadPerChunk
  <2>2. CASE i \in 1..n /\ j = n + 1
    BY <1>4, <1>9, <1>12, <1>13, <1>14, <2>2
  <2>3. CASE i = n + 1 /\ j \in 1..n
    BY <1>4, <1>9, <1>12, <1>13, <1>14, <2>3
  <2> QED  BY <1>2, <2>1, <2>2, <2>3
<1>17. ListsInv'
  BY <1>1, <1>8, <1>15, <1>16 DEF Inv, ListsInv
<1>18. FileInv'
  BY <1>1 DEF Inv, FileInv, WrittenIsVerified
<1> QED  BY <1>11, <1>17, <1>18 DEF Inv

\* What a packet that is expected is stored in.
LEMMA ExpectedConn ==
  ASSUME Inv, NEW p \in Peers, NEW m, Arrives(p, m), Expected(p, m),
         m.seq = Conn(p).ack_number + 1
  PROVE  LET i == Min(Found(p))
             c == Conn(p).chunk
         IN  /\ i \in DOMAIN c_states /\ Receiving(i) /\ c_states[i] = Conn(p)
             /\ c \in ToSet(wish) /\ c \in ToSet(downloading) /\ gets # 0
             /\ m.seq \in 1..PACKETS /\ Stored(p, m) \in CState
             /\ Stored(p, m).chunk = c /\ Stored(p, m).ack_number = m.seq
             /\ Stored(p, m).server = p
<1> DEFINE i == Min(Found(p))
           c == Conn(p).chunk
<1>1. Found(p) # {} /\ Search(wish, c) # -1 /\ m.type = "DATA"
  BY DEF Expected
<1>2. /\ i \in DOMAIN c_states /\ Conn(p) \in CState /\ Conn(p) # Destroyed
      /\ c_states[i] = Conn(p) /\ Conn(p).server = p
  BY <1>1, FoundIsConn DEF Inv, Conn
<1>3. m.seq \in 1..PACKETS /\ m.bytes \in Chunks
  BY <1>1, ArrivesTypes DEF Inv
<1>4. Conn(p).ack_number \in 0..PACKETS /\ Conn(p).temp_data \subseteq Chunks
  BY <1>2 DEF CState
<1>5. Conn(p).ack_number < PACKETS
  BY <1>3, <1>4, Constants
<1>6. Receiving(i)
  BY <1>2, <1>5 DEF Receiving
<1>7. wish \in Seq(Chunks)
  BY DEF Inv, Types
<1>8. c \in ToSet(wish)
  BY <1>1, <1>7, SearchDecides
<1>9. gets # 0
  BY <1>8 DEF Inv, ListsInv, ToSet
<1>10. c \in ToSet(downloading)
  BY <1>2, <1>6 DEF Inv, ListsInv
<1>11. m.seq \in 0..PACKETS /\ Conn(p).temp_data \cup {m.bytes} \subseteq Chunks
  BY <1>3, <1>4
<1>12. /\ Stored(p, m) \in CState /\ Stored(p, m).chunk = c
       /\ Stored(p, m).ack_number = m.seq /\ Stored(p, m).server = p
  BY <1>2, <1>11 DEF Stored, CState
<1> QED  BY <1>2, <1>3, <1>6, <1>8, <1>9, <1>10, <1>12

LEMMA DataStoredInv ==
  ASSUME Inv, NEW p \in Peers, NEW m, DataStored(p, m)
  PROVE  Inv'
<1> DEFINE i == Min(Found(p))
           s == Stored(p, m)
<1>1. /\ Arrives(p, m) /\ Expected(p, m) /\ m.seq = Conn(p).ack_number + 1
      /\ receiver_timerid + 1 \in DOMAIN timers
      /\ c_states' = [c_states EXCEPT ![i] = s]
      /\ timers' = Arm(timers, receiver_timerid)
      /\ UNCHANGED <<gets, wish, downloading, whohas_timerid, receiver_timerid,
                     file, exited, toPeer>>
  BY DEF DataStored, Exists
<1>2. /\ i \in DOMAIN c_states /\ Receiving(i) /\ s \in CState
      /\ s.chunk = c_states[i].chunk
  BY <1>1, ExpectedConn
<1>3. c_states \in Seq(CState \cup {Destroyed}) /\ timers \in Seq(TimersOf(Len(c_states)))
  BY DEF Inv, Types
<1> HIDE DEF i, s
<1>4. /\ c_states' \in Seq(CState \cup {Destroyed}) /\ Len(c_states') = Len(c_states)
      /\ DOMAIN c_states' = DOMAIN c_states /\ c_states'[i] = s
      /\ \A j \in DOMAIN c_states : j # i => c_states'[j] = c_states[j]
  BY <1>1, <1>2, <1>3
<1>5. timers' \in Seq(TimersOf(Len(c_states))) /\ Len(timers') = Len(timers)
  BY <1>1, <1>3, TimerTypes
<1>6. Types'
  <2>1. toClient' \in [Peers -> Seq(Datagram)]
    BY <1>1, ArrivesTypes DEF Inv
  <2> QED  BY <1>1, <1>4, <1>5, <2>1 DEF Inv, Types
<1>7. \A j \in DOMAIN c_states :
        /\ Receiving(j)' => Receiving(j)
        /\ c_states'[j].chunk = c_states[j].chunk
  BY <1>2, <1>4 DEF Receiving
<1>8. ListsInv'
  <2>1. OneDownloadPerChunk'
    BY <1>4, <1>7 DEF Inv, ListsInv, OneDownloadPerChunk
  <2>2. \A j \in DOMAIN c_states' : Receiving(j)' => c_states'[j].chunk \in ToSet(downloading)'
    BY <1>1, <1>4, <1>7 DEF Inv, ListsInv
  <2> QED  BY <1>1, <2>1, <2>2 DEF Inv, ListsInv
<1>9. FileInv'
  BY <1>1 DEF Inv, FileInv, WrittenIsVerified
<1> QED  BY <1>6, <1>8, <1>9 DEF Inv

\* The last packet: one download less, and its chunk out of downloading.
LEMMA LastDataInv ==
  ASSUME Inv, NEW p \in Peers, NEW m, LastData(p, m), NEW s,
         c_states' = [c_states EXCEPT ![Min(Found(p))] = s],
         s = Stored(p, m) \/ s = Destroyed
  PROVE  /\ c_states' \in Seq(CState \cup {Destroyed}) /\ Len(c_states') = Len(c_states)
         /\ downloading' \in Seq(Chunks) /\ IsInjective(downloading')
         /\ \A j \in DOMAIN c_states' : Receiving(j)' => c_states'[j].chunk \in ToSet(downloading')
         /\ OneDownloadPerChunk'
         /\ Finished(timers) \in Seq(TimersOf(Len(c_states)))
         /\ Len(Finished(timers)) = Len(timers)
<1> DEFINE c == Conn(p).chunk
<1> PICK i : i = Min(Found(p))
  OBVIOUS
<1>1. /\ Arrives(p, m) /\ Expected(p, m) /\ m.seq = Conn(p).ack_number + 1 /\ m.seq = PACKETS
      /\ downloading' = PopIndex(downloading, Search(downloading, c))
  BY DEF LastData
<1>2. /\ i \in DOMAIN c_states /\ Receiving(i) /\ c_states[i].chunk = c
      /\ Stored(p, m) \in CState /\ Stored(p, m).ack_number = PACKETS
  BY <1>1, ExpectedConn
<1>3. /\ c_states \in Seq(CState \cup {Destroyed}) /\ timers \in Seq(TimersOf(Len(c_states)))
      /\ downloading \in Seq(Chunks) /\ IsInjective(downloading)
      /\ OneDownloadPerChunk
      /\ \A j \in DOMAIN c_states : Receiving(j) => c_states[j].chunk \in ToSet(downloading)
  BY DEF Inv, Types, ListsInv
<1>4. s \in CState \cup {Destroyed} /\ (s = Destroyed \/ s.ack_number = PACKETS)
  BY <1>2
<1> HIDE DEF c
<1>5. /\ c_states' \in Seq(CState \cup {Destroyed}) /\ Len(c_states') = Len(c_states)
      /\ DOMAIN c_states' = DOMAIN c_states /\ c_states'[i] = s
      /\ \A j \in DOMAIN c_states : j # i => c_states'[j] = c_states[j]
  BY <1>2, <1>3, <1>4
<1>6. /\ downloading' \in Seq(Chunks) /\ IsInjective(downloading')
      /\ ToSet(downloading) \ {c} \subseteq ToSet(downloading')
  BY <1>1, <1>3, PopKeeps
<1>7. ~ Receiving(i)'
  BY <1>4, <1>5, Constants DEF Receiving
<1>8. \A j \in DOMAIN c_states' :
        Receiving(j)' => j # i /\ Receiving(j) /\ c_states'[j] = c_states[j]
  BY <1>5, <1>7 DEF Receiving
<1>9. \A j \in DOMAIN c_states' : Receiving(j)' => c_states'[j].chunk # c
  BY <1>2, <1>3, <1>5, <1>8 DEF OneDownloadPerChunk
<1>10. OneDownloadPerChunk'
  BY <1>3, <1>5, <1>8 DEF OneDownloadPerChunk
<1>11. \A j \in DOMAIN c_states' : Receiving(j)' => c_states'[j].chunk \in ToSet(downloading')
  BY <1>3, <1>5, <1>6, <1>8, <1>9
<1>12. /\ Finished(timers) \in Seq(TimersOf(Len(c_states)))
       /\ Len(Finished(timers)) = Len(timers)
  BY <1>3, TimerTypes DEF Finished
<1> QED  BY <1>5, <1>6, <1>10, <1>11, <1>12

LEMMA ChunkFailedInv ==
  ASSUME Inv, NEW p \in Peers, NEW m, ChunkFailed(p, m)
  PROVE  Inv'
<1> DEFINE c == Conn(p).chunk
<1>1. /\ LastData(p, m) /\ Arrives(p, m)
      /\ c_states' = [c_states EXCEPT ![Min(Found(p))] = Stored(p, m)]
      /\ Ask(<<c>>, Finished(timers)) /\ receiver_timerid' = NULL
      /\ UNCHANGED <<gets, whohas_timerid, wish, file>>
  BY DEF ChunkFailed, LastData
<1>2. /\ c_states' \in Seq(CState \cup {Destroyed}) /\ Len(c_states') = Len(c_states)
      /\ downloading' \in Seq(Chunks) /\ IsInjective(downloading')
      /\ \A j \in DOMAIN c_states' : Receiving(j)' => c_states'[j].chunk \in ToSet(downloading')
      /\ OneDownloadPerChunk'
      /\ Finished(timers) \in Seq(TimersOf(Len(c_states)))
      /\ Len(Finished(timers)) = Len(timers)
  BY <1>1, LastDataInv
<1>3. <<c>> \in Seq(Chunks)
  <2>1. c \in Chunks
    BY <1>1, ExpectedConn DEF LastData, CState
  <2> QED  BY <2>1
<1>4. /\ timers' \in Seq(TimersOf(Len(c_states))) /\ Len(timers') = Len(timers)
      /\ toPeer' \in [Peers -> Seq(Request)] /\ exited' \in BOOLEAN
  BY <1>1, <1>2, <1>3, AskTypes DEF Inv
<1>5. Types'
  <2>1. toClient' \in [Peers -> Seq(Datagram)]
    BY <1>1, ArrivesTypes DEF Inv
  <2> QED  BY <1>1, <1>2, <1>4, <2>1 DEF Inv, Types
<1>6. ListsInv'
  BY <1>1, <1>2 DEF Inv, ListsInv
<1>7. FileInv'
  BY <1>1 DEF Inv, FileInv, WrittenIsVerified
<1> QED  BY <1>5, <1>6, <1>7 DEF Inv

\* A verified chunk leaves the wish list and is in the file.
LEMMA VerifiedShrinks ==
  ASSUME Inv, NEW p \in Peers, NEW m, NextChunk(p, m) \/ LastChunk(p, m)
  PROVE  LET c == Conn(p).chunk
             k == Search(wish, c) + 1
         IN  /\ k \in DOMAIN wish /\ wish[k] = c /\ wish' = RemoveAt(wish, k)
             /\ Offset(c) \in Nat /\ file' = Write({c}, Offset(c))
             /\ c \in ToSet(wish) /\ gets # 0
<1> DEFINE c == Conn(p).chunk
           k == Search(wish, c) + 1
<1>1. /\ ChunkVerified(p, m) /\ LastData(p, m) /\ Arrives(p, m) /\ Expected(p, m)
      /\ m.seq = Conn(p).ack_number + 1 /\ HashMatches(Stored(p, m))
      /\ file' = Write(Stored(p, m).temp_data, Offset(c))
  BY DEF NextChunk, LastChunk, ChunkVerified, LastData
<1>2. /\ c \in ToSet(wish) /\ c \in ToSet(downloading) /\ Stored(p, m).chunk = c /\ gets # 0
  BY <1>1, ExpectedConn
<1>3. wish \in Seq(Chunks) /\ downloading \in Seq(Chunks)
  BY DEF Inv, Types
<1>4. k \in DOMAIN wish /\ wish[k] = c /\ Search(wish, c) \in 0..Len(wish)-1
  BY <1>2, <1>3, SearchFinds
<1>5. Search(downloading, c) \in 0..Len(downloading)-1
  BY <1>2, <1>3, SearchFinds
<1>6. Offset(c) \in Nat
  BY <1>5 DEF Offset
<1>7. Stored(p, m).temp_data = {c}
  BY <1>1, <1>2 DEF HashMatches
<1>8. wish' = RemoveAt(wish, k)
  <2>1. CASE NextChunk(p, m)
    <3>1. Len(wish) > 1 /\ wish' = PopIndex(wish, Search(wish, c))
      BY <2>1 DEF NextChunk, Shrunk, Size
    <3> QED  BY <1>2, <1>3, <3>1, PopFound
  <2>2. CASE LastChunk(p, m)
    <3>1. Len(wish) = 1 /\ wish' = <<>>
      BY <2>2 DEF LastChunk, Destroy, Size
    <3> HIDE DEF k
    <3>2. RemoveAt(wish, k) \in Seq(Chunks) /\ Len(RemoveAt(wish, k)) = Len(wish) - 1
      BY <1>3, <1>4, RemoveAtShape
    <3> QED  BY <3>1, <3>2
  <2> QED  BY <2>1, <2>2
<1> QED  BY <1>1, <1>2, <1>4, <1>6, <1>7, <1>8

LEMMA ChunkDoneInv ==
  ASSUME Inv, NEW p \in Peers, NEW m, NextChunk(p, m) \/ LastChunk(p, m)
  PROVE  Inv'
<1> DEFINE c == Conn(p).chunk
           k == Search(wish, c) + 1
           pos == Offset(c)
<1>1. /\ LastData(p, m) /\ Arrives(p, m)
      /\ c_states' = [c_states EXCEPT ![Min(Found(p))] = Destroyed]
      /\ receiver_timerid' = NULL
      /\ UNCHANGED <<gets, whohas_timerid>>
  BY DEF NextChunk, LastChunk, ChunkVerified, LastData, Closed
<1>2. /\ k \in DOMAIN wish /\ wish[k] = c /\ wish' = RemoveAt(wish, k)
      /\ pos \in Nat /\ file' = Write({c}, pos) /\ c \in ToSet(wish) /\ gets # 0
  BY VerifiedShrinks
<1>3. /\ c_states' \in Seq(CState \cup {Destroyed}) /\ Len(c_states') = Len(c_states)
      /\ downloading' \in Seq(Chunks) /\ IsInjective(downloading')
      /\ \A j \in DOMAIN c_states' : Receiving(j)' => c_states'[j].chunk \in ToSet(downloading')
      /\ OneDownloadPerChunk'
      /\ Finished(timers) \in Seq(TimersOf(Len(c_states)))
      /\ Len(Finished(timers)) = Len(timers)
  BY <1>1, LastDataInv
<1>4. wish \in Seq(Chunks) /\ IsInjective(wish) /\ ToSet(wish) \subseteq ToSet(WishList)
  BY DEF Inv, Types, ListsInv
<1>5. c \in Chunks
  BY <1>2, <1>4
<1> HIDE DEF c, k, pos
<1>6. /\ wish' \in Seq(Chunks) /\ IsInjective(wish')
      /\ ToSet(wish') = ToSet(wish) \ {c}
  BY <1>2, <1>4, RemoveAtShape, RemoveAtRemoves
<1>7. /\ timers' \in Seq(TimersOf(Len(c_states))) /\ Len(timers') = Len(timers)
      /\ toPeer' \in [Peers -> Seq(Request)] /\ exited' \in BOOLEAN
  <2>1. CASE NextChunk(p, m)
    <3>1. Ask(wish', Finished(timers))
      BY <2>1 DEF NextChunk
    <3> QED  BY <1>3, <1>6, <3>1, AskTypes DEF Inv
  <2>2. CASE LastChunk(p, m)
    BY <1>3, <2>2 DEF LastChunk, Inv, Types
  <2> QED  BY <2>1, <2>2
<1>8. /\ DOMAIN file' = DOMAIN file \cup {pos}
      /\ \A q \in DOMAIN file' : file'[q] = IF q = pos THEN {c} ELSE file[q]
  BY <1>2 DEF Write
<1>9. Types'
  <2>1. toClient' \in [Peers -> Seq(Datagram)]
    BY <1>1, ArrivesTypes DEF Inv
  <2>2. DOMAIN file' \subseteq Nat /\ \A q \in DOMAIN file' : file'[q] \subseteq Chunks
    BY <1>2, <1>5, <1>8 DEF Inv, Types
  <2> QED  BY <1>1, <1>3, <1>6, <1>7, <2>1, <2>2 DEF Inv, Types
<1>10. ListsInv'
  <2>1. ToSet(wish)' \subseteq ToSet(WishList)'
    BY <1>4, <1>6
  <2> QED  BY <1>1, <1>2, <1>3, <1>6, <2>1 DEF ListsInv
<1>11. FileInv'
  <2> SUFFICES ASSUME NEW q \in DOMAIN file'
               PROVE  \E d \in ToSet(WishList) \ ToSet(wish') : file'[q] = {d}
    BY <1>1, <1>2 DEF FileInv, WrittenIsVerified
  <2>1. CASE q = pos
    BY <1>2, <1>4, <1>6, <1>8, <2>1
  <2>2. CASE q # pos
    <3>1. q \in DOMAIN file /\ file'[q] = file[q]
      BY <1>8, <2>2
    <3>2. PICK d \in ToSet(WishList) \ ToSet(wish) : file[q] = {d}
      BY <3>1 DEF Inv, FileInv, WrittenIsVerified
    <3> QED  BY <1>6, <3>1, <3>2
  <2> QED  BY <2>1, <2>2
<1> QED  BY <1>9, <1>10, <1>11 DEF Inv

-----------------------------------------------------------------------------
(* The specification. *)

LEMMA InitInv == Init => Inv
<1> SUFFICES ASSUME Init PROVE Inv
  OBVIOUS
<1>1. Types
  <2>1. /\ toPeer = [p \in Peers |-> <<>>] /\ toClient = [p \in Peers |-> <<>>]
        /\ wish = <<>> /\ downloading = <<>> /\ c_states = <<>> /\ timers = <<>>
        /\ file = <<>> /\ exited = FALSE /\ gets = 0
        /\ whohas_timerid = NULL /\ receiver_timerid = NULL
    BY DEF Init, NoStates
  <2>2. toPeer \in [Peers -> Seq(Request)] /\ toClient \in [Peers -> Seq(Datagram)]
    BY <2>1
  <2>3. gets \in 0..GETS
    BY <2>1, Constants
  <2>4. timers \in Seq(TimersOf(Len(c_states)))
    BY <2>1
  <2>5. DOMAIN file \subseteq Nat /\ \A pos \in DOMAIN file : file[pos] \subseteq Chunks
    BY <2>1
  <2>6. c_states \in Seq(CState \cup {Destroyed})
    BY <2>1
  <2>7. wish \in Seq(Chunks) /\ downloading \in Seq(Chunks)
    BY <2>1
  <2>8. exited \in BOOLEAN
    BY <2>1
  <2> QED  BY <2>1, <2>2, <2>3, <2>4, <2>5, <2>6, <2>7, <2>8 DEF Types
<1>2. ListsInv
  BY DEF Init, NoStates, ListsInv, OneDownloadPerChunk, IsInjective, ToSet
<1>3. FileInv
  BY DEF Init, FileInv, WrittenIsVerified
<1> QED  BY <1>1, <1>2, <1>3 DEF Inv

LEMMA NextInv ==
  ASSUME Inv, [Next]_vars
  PROVE  Inv'
<1>1. CASE UserGet \/ NoOutputFile \/ NoChunkFile
  BY <1>1, UserGetInv, NoChunkFileInv
<1>2. CASE WhohasTimer
  BY <1>2, WhohasTimerInv
<1>3. ASSUME NEW p \in Peers, AnswerWhohas(p) \/ ServeGet(p)
      PROVE  Inv'
  BY <1>3, PeersInv
<1>4. ASSUME NEW p \in Peers, Inbound(p)
      PROVE  Inv'
  <2>1. PICK m \in First(toClient[p]) : Ihave(p, m) \/ DataPacket(p, m) \/ TimerLost(p, m)
    BY <1>4 DEF Inbound
  <2>2. CASE Ihave(p, m)
    BY <2>2, IgnoredInv, OnlyTimerInv, IhaveAcceptedInv DEF Ihave
  <2>3. CASE DataPacket(p, m)
    BY <2>3, IgnoredInv, OnlyTimerInv, DataStoredInv, ChunkFailedInv, ChunkDoneInv
       DEF DataPacket
  <2>4. CASE TimerLost(p, m)
    BY <2>4, IgnoredInv
  <2> QED  BY <2>1, <2>2, <2>3, <2>4
<1>5. CASE UNCHANGED vars
  BY <1>5 DEF vars, peerVars, Inv, Types, ListsInv, FileInv, OneDownloadPerChunk,
              Receiving, WrittenIsVerified
<1> QED  BY <1>1, <1>2, <1>3, <1>4, <1>5 DEF Next

\* The invariant of the client, whatever the other peers send.
THEOREM Invariance == Spec => []Inv
<1> QED  BY InitInv, NextInv, PTL DEF Spec

\* Every variable of the client stays in its type: timer numbers are those of timers
\* there are, and the owner of a receiver timer is a connection that was made.
THEOREM TypeCorrect == Spec => []TypeOK
<1>1. ASSUME Types PROVE TypeOK
  <2>1. DOMAIN c_states = 1..Len(c_states)
    BY <1>1 DEF Types
  <2> QED  BY <1>1, <2>1 DEF Types, TypeOK, TimersOf
<1>2. Inv => TypeOK
  BY <1>1 DEF Inv
<1> QED  BY <1>2, Invariance, PTL

\* No chunk is ever downloaded over two connections at once: case 1 looks a chunk up
\* in the list of those being downloaded before it makes a connection, and case 3
\* takes it out of that list only when its last packet has come.
THEOREM OneDownload == Spec => []OneDownloadPerChunk
<1>1. Inv => OneDownloadPerChunk
  BY DEF Inv, ListsInv
<1> QED  BY <1>1, Invariance, PTL

\* Whatever bytes the uploaders send, what is in the output file are whole chunks of
\* the chunk file, and only such as are not asked for any more.
THEOREM FileIsVerified == Spec => []WrittenIsVerified
<1>1. Inv => WrittenIsVerified
  BY DEF Inv, FileInv
<1> QED  BY <1>1, Invariance, PTL

\* A chunk leaves the wish list only in the step that writes it, and the others keep
\* their order.
THEOREM WishShrinks == Spec => WishShrinksByWriting
<1> DEFINE Shrinks == gets > 0 /\ wish' # wish =>
             \E i \in DOMAIN wish : /\ wish' = RemoveAt(wish, i)
                                    /\ {wish[i]} \in {file'[pos] : pos \in DOMAIN file'}
<1>1. ASSUME Inv, [Next]_vars PROVE [Shrinks]_vars
  <2> SUFFICES ASSUME Next, gets > 0, wish' # wish PROVE Shrinks
    BY <1>1
  <2>1. ~ (UserGet \/ NoOutputFile \/ NoChunkFile)
    BY DEF UserGet, NoOutputFile, NoChunkFile, ProcessGet, Loaded
  <2>2. ~ WhohasTimer
    BY DEF WhohasTimer
  <2>3. PICK p \in Peers : Inbound(p)
    BY <2>1, <2>2 DEF Next, AnswerWhohas, ServeGet
  <2>4. PICK m : NextChunk(p, m) \/ LastChunk(p, m)
    BY <2>3 DEF Inbound, Ihave, DataPacket, IhaveNotAsked, IhaveDownloading, IhaveAccepted,
         TimerLost, DataStray, DataRepeated, DataStored, ChunkFailed, Ignored
  <2> DEFINE c == Conn(p).chunk
             k == Search(wish, c) + 1
             pos == Offset(c)
  <2>5. /\ k \in DOMAIN wish /\ wish[k] = c /\ wish' = RemoveAt(wish, k)
        /\ file' = Write({c}, pos)
    BY <1>1, <2>4, VerifiedShrinks
  <2> HIDE DEF c, k, pos
  <2>6. pos \in DOMAIN file' /\ file'[pos] = {c}
    BY <2>5 DEF Write
  <2> QED  BY <2>5, <2>6
<1>2. Inv /\ [Next]_vars => [Shrinks]_vars
  BY <1>1
<1> QED  BY <1>2, Invariance, PTL DEF Spec, WishShrinksByWriting

-----------------------------------------------------------------------------
(* Lists of hashes survive the datagram if they fit in the receive buffer. *)

\* Case 0 goes round once for each hash as long as the length has not wrapped.
LEMMA EntriesCount ==
  ASSUME NEW S, NEW list \in Seq(S), Len(list) <= 3275
  PROVE  Entries(list) = Len(list)
<1>1. Len(list) \in Nat
  OBVIOUS
<1>2. TotalLength(list) = 20 + 20 * Len(list)
  BY <1>1 DEF TotalLength, HEADER, COUNT, HASH
<1> QED BY <1>1, <1>2 DEF Entries, HASH

\* A WHOHAS whose hashes fit in the buffer is read exactly as it was written.
THEOREM ListSurvives ==
  ASSUME NEW S, NEW list \in Seq(S), Len(list) <= Capacity
  PROVE  Listed(list) = list
<1>1. BUFLEN \in Nat /\ BUFLEN >= 20 /\ BUFLEN <= 65535 /\ Len(list) \in Nat
  BY CodecAssumption DEF CodecAssumption
<1>2. 20 + 20 * Len(list) <= BUFLEN
  BY <1>1 DEF Capacity, HEADER, COUNT, HASH
<1>3. Len(list) <= 3275
  BY <1>1, <1>2
<1>4. Entries(list) = Len(list)
  BY <1>3, EntriesCount
<1>5. \A i \in 1..Len(list) : Fits(i)
  BY <1>1, <1>2 DEF Fits, HEADER, COUNT, HASH
<1>6. Listed(list) = [i \in 1..Len(list) |-> list[i]]
  BY <1>4, <1>5 DEF Listed
<1>7. list = [i \in 1..Len(list) |-> list[i]]
  OBVIOUS
<1> QED BY <1>6, <1>7

\* Of a longer list the first hashes are read as they were written, and the others
\* from bytes beyond the buffer, as long as the length has not wrapped.
THEOREM LongListIsCut ==
  ASSUME NEW S, NEW list \in Seq(S), Len(list) > Capacity, Len(list) <= 3275
  PROVE  /\ Len(Listed(list)) = Len(list)
         /\ \A i \in 1..Len(list) :
              Listed(list)[i] = IF i <= Capacity THEN list[i] ELSE Garbage
<1>1. BUFLEN \in Nat /\ BUFLEN >= 20 /\ BUFLEN <= 65535 /\ Len(list) \in Nat
  BY CodecAssumption DEF CodecAssumption
<1>2. Entries(list) = Len(list)
  BY EntriesCount
<1>3. \A i \in 1..Len(list) : Fits(i) <=> i <= Capacity
  BY <1>1 DEF Fits, Capacity, HEADER, COUNT, HASH
<1>4. Listed(list) = [i \in 1..Len(list) |-> IF i <= Capacity THEN list[i] ELSE Garbage]
  BY <1>2, <1>3 DEF Listed
<1>5. Listed(list) \in Seq(S \cup {Garbage})
  BY <1>1, <1>4
<1> QED BY <1>1, <1>4, <1>5
=============================================================================
