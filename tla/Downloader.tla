----------------------------- MODULE Downloader -----------------------------
(***************************************************************************)
(* The downloading half of a peer: the wish list of a GET command, WHOHAS  *)
(* and IHAVE, one c_state per chunk asked for, the two timers of the       *)
(* client, and the output file.                                            *)
(*                                                                         *)
(* A chunk is a model value; the bytes a packet carries are the chunk they *)
(* were read from.  The other peers answer as cases 0 and 2 of             *)
(* process_inbound_udp do.  Nothing is lost on the way: an assumption, as  *)
(* the code repeats neither a GET nor a lost packet of the last window.    *)
(* Transfer models the packets of a chunk, their losses, and receiver_     *)
(* timer_handler, which only repeats an ACK.                               *)
(*                                                                         *)
(* A definition named X_Slip is X with a slip a programmer could make; the *)
(* specification never uses it.                                            *)
(***************************************************************************)
EXTENDS Codec, SList, Timers, FiniteSets

CONSTANTS
  Peers,      \* config.peers
  Chunks,     \* the chunks there are
  Has,        \* peer |-> the chunks in its has_chunk_list
  WishList,   \* the chunk file of the GET command
  PACKETS,    \* packets of a chunk
  MAX_CONN,   \* config.max_conn
  GETS,       \* bound: GET commands the user types
  RESENDS,    \* bound: repeats of the last DATA packet of a chunk
  FILES_FAIL, \* TRUE: the chunk file or the output file may not open
  Corrupt,    \* TRUE: an uploader may send the bytes of another chunk
  PROMPT      \* TRUE: the WHOHAS timer expires only when nothing is in flight

DownloaderAssumption ==
  /\ Has \in [Peers -> SUBSET Chunks]
  /\ WishList \in Seq(Chunks) \ {<<>>}
  /\ IsInjective(WishList)
  /\ PACKETS \in Nat \ {0} /\ MAX_CONN \in Nat /\ GETS \in Nat /\ RESENDS \in Nat
  /\ FILES_FAIL \in BOOLEAN /\ Corrupt \in BOOLEAN /\ PROMPT \in BOOLEAN
  /\ Garbage \notin Chunks     \* bytes beyond the receive buffer match no hash
  /\ "none" \notin Peers       \* a freed connection matches no address

ASSUME DownloaderAssumption

VARIABLES
  gets,                 \* GET commands so far; chunk_hashes is NULL before the first
  wish,                 \* chunk_hashes
  downloading,          \* downloading_chunk_hashes
  c_states,             \* the connections in the order they were made
  timers,               \* the timers of the process, see Timers
  whohas_timerid, receiver_timerid,
  file,                 \* output_fp: offset, in chunks |-> the chunks whose bytes are there
  exited,               \* a timer or a file was not there and the process ended
  toPeer, toClient      \* peer |-> the datagrams in flight to it, and from it

peerVars == <<toPeer, toClient>>
vars == <<gets, wish, downloading, c_states, timers, whohas_timerid,
          receiver_timerid, file, exited, peerVars>>

NoStates  == <<>>                    \* the table init_state_manager makes
Destroyed == [server |-> "none"]     \* the empty state destroy_c_state leaves

\* What the expiry of a timer passes to its handler: WHOHAS, or for a receiver
\* timer the position in c_states of the connection it was made for.
WHOHAS == 0

CState == [server : Peers, chunk : Chunks, ack_number : 0..PACKETS, temp_data : SUBSET Chunks]

\* An IHAVE lists every chunk that was found; only its first entry is ever read, and
\* that is what is kept of it here.
Datagram ==
  [type : {"IHAVE"}, first : Chunks]
    \cup [type : {"DATA"}, seq : 1..PACKETS, bytes : Chunks]

Request ==
  [type : {"WHOHAS"}, chunks : Seq(Chunks)] \cup [type : {"GET"}, chunk : Chunks]

TypeOK ==
  /\ gets \in 0..GETS
  /\ wish \in Seq(Chunks) /\ downloading \in Seq(Chunks)
  /\ c_states \in Seq(CState \cup {Destroyed})
  /\ timers \in Seq([owner : {WHOHAS} \cup DOMAIN c_states,
                     armed : BOOLEAN, alive : BOOLEAN])
  /\ {whohas_timerid, receiver_timerid} \subseteq {NULL} \cup 0..Len(timers)-1
  /\ DOMAIN file \subseteq Nat /\ \A pos \in DOMAIN file : file[pos] \subseteq Chunks
  /\ exited \in BOOLEAN
  /\ toPeer \in [Peers -> Seq(Request)]
  /\ toClient \in [Peers -> Seq(Datagram)]

Init ==
  /\ gets = 0
  /\ wish = <<>> /\ downloading = <<>> /\ c_states = NoStates
  /\ timers = <<>> /\ whohas_timerid = NULL /\ receiver_timerid = NULL
  /\ file = <<>>
  /\ exited = FALSE
  /\ toPeer = [p \in Peers |-> <<>>] /\ toClient = [p \in Peers |-> <<>>]

-----------------------------------------------------------------------------
(* Asking for chunks. *)

\* send_whohas(list) once its timer exists, for timers tms and the new whohas_timerid.
Asked(list, tms) ==
  /\ timers' = Arm(tms, whohas_timerid')
  /\ toPeer' = [p \in Peers |-> Append(toPeer[p], [type |-> "WHOHAS", chunks |-> list])]

\* send_whohas(list): starting a timer that does not exist ends the process before
\* anything is sent.
Ask(list, tms) ==
  IF Exists(tms, whohas_timerid')
    THEN /\ Asked(list, tms)
         /\ UNCHANGED exited
    ELSE /\ exited' = TRUE
         /\ timers' = tms
         /\ UNCHANGED toPeer

\* init_chunk_hashes reads the chunk file of the first GET only.
Loaded == IF gets = 0 THEN WishList ELSE wish

\* process_get up to the output file; its WHOHAS timer is new.
ProcessGet ==
  /\ ~exited
  /\ gets < GETS
  /\ gets' = gets + 1
  /\ wish' = Loaded
  /\ whohas_timerid' = NewId(timers)
  /\ Asked(wish', Create(timers, WHOHAS))
  /\ UNCHANGED <<downloading, c_states, receiver_timerid, toClient>>

\* process_get: the output file is started afresh by every GET.
UserGet ==
  /\ ProcessGet
  /\ file' = <<>>
  /\ UNCHANGED exited

\* "fail to open output_file": the process ends, with WHOHAS sent already.
NoOutputFile ==
  /\ FILES_FAIL
  /\ ProcessGet
  /\ exited' = TRUE
  /\ UNCHANGED file

\* "Fail to read chunkfile": the first GET ends the process.
NoChunkFile ==
  /\ FILES_FAIL
  /\ ~exited
  /\ gets = 0 /\ gets < GETS
  /\ exited' = TRUE
  /\ UNCHANGED <<gets, wish, downloading, c_states, timers, whohas_timerid,
                 receiver_timerid, file, peerVars>>

MayExpire == PROMPT => \A p \in Peers : toPeer[p] = <<>> /\ toClient[p] = <<>>

\* whohas_timer_handler: the timer is deleted and its number forgotten before
\* WHOHAS is sent again.
WhohasTimer ==
  /\ ~exited
  /\ MayExpire
  /\ \E t \in DOMAIN timers : timers[t].armed /\ timers[t].owner = WHOHAS
  /\ whohas_timerid' = NULL
  /\ Ask(wish, Delete(timers, whohas_timerid))
  /\ UNCHANGED <<gets, wish, downloading, c_states, receiver_timerid, file, toClient>>

-----------------------------------------------------------------------------
(* The other peers. *)

Asks(p, type) == toPeer[p] # <<>> /\ Head(toPeer[p]).type = type

\* The positions in a list where case 0 finds a chunk that peer p has.
FoundIn(list, p) == {i \in DOMAIN list : list[i] \in Has[p]}

\* case 0: an IHAVE for those of the chunks read that the peer has, if there are any.
AnswerWhohas(p) ==
  /\ Asks(p, "WHOHAS")
  /\ LET list == Listed(Head(toPeer[p]).chunks)
     IN  toClient' = IF FoundIn(list, p) = {} THEN toClient
                     ELSE [toClient EXCEPT ![p] =
                             Append(@, [type |-> "IHAVE", first |-> list[Min(FoundIn(list, p))]])]
  /\ toPeer' = [toPeer EXCEPT ![p] = Tail(@)]
  /\ UNCHANGED <<gets, wish, downloading, c_states, timers, whohas_timerid,
                 receiver_timerid, file, exited>>

\* The packets of one upload; the last one is repeated again times.
Upload(bytes, again) ==
  [i \in 1..PACKETS + again |->
     [type |-> "DATA", seq |-> IF i <= PACKETS THEN i ELSE PACKETS, bytes |-> bytes]]

\* case 2, and the packets of the chunk as they come where none is lost; the last one
\* may come again.  A client sends GET for a chunk that was offered to it.
ServeGet(p) ==
  /\ Asks(p, "GET")
  /\ \E bytes \in IF Corrupt THEN Chunks ELSE {Head(toPeer[p]).chunk}, again \in 0..RESENDS :
       toClient' = [toClient EXCEPT ![p] = @ \o Upload(bytes, again)]
  /\ toPeer' = [toPeer EXCEPT ![p] = Tail(@)]
  /\ UNCHANGED <<gets, wish, downloading, c_states, timers, whohas_timerid,
                 receiver_timerid, file, exited>>

-----------------------------------------------------------------------------
(* The first datagram m in flight from p is taken in. *)
Arrives(p, m) ==
  /\ ~exited
  /\ toClient[p] # <<>>
  /\ m = Head(toClient[p])
  /\ toClient' = [toClient EXCEPT ![p] = Tail(@)]

Ignored ==
  UNCHANGED <<gets, wish, downloading, c_states, timers, whohas_timerid,
              receiver_timerid, file, exited, toPeer>>

-----------------------------------------------------------------------------
(* case 1: an IHAVE. *)

\* The chunk an IHAVE is read for: only the first one.
Offered(m) == m.first

Wished(m) == m.type = "IHAVE" /\ Search(wish, Offered(m)) # -1

IhaveNotAsked(p, m) ==
  /\ m.type = "IHAVE"
  /\ ~Wished(m)
  /\ Arrives(p, m)
  /\ Ignored

\* Slip: the timer is left running.
Stopped_Running(tms) == tms

\* The timers after set_start_timer(whohas_timerid, 0).
Stopped(tms) == Disarm(tms, whohas_timerid)

IhaveDownloading(p, m) ==
  /\ Wished(m)
  /\ Exists(timers, whohas_timerid)
  /\ Search(downloading, Offered(m)) # -1
  /\ Arrives(p, m)
  /\ timers' = Stopped(timers)
  /\ UNCHANGED <<gets, wish, downloading, c_states, whohas_timerid,
                 receiver_timerid, file, exited, toPeer>>

\* Slip: the chunk is not entered in the list.
Entered_Not(list, c) == list

Entered(list, c) == PushBack(list, c)

\* A connection after init_client_state and state_receiving_chunk.
NewConnection(p, c) == [server |-> p, chunk |-> c, ack_number |-> 0, temp_data |-> {}]

\* The chunk is asked for with GET, over a new connection with a timer of its own.
IhaveAccepted(p, m) ==
  /\ Wished(m)
  /\ Exists(timers, whohas_timerid)
  /\ Search(downloading, Offered(m)) = -1
  /\ Arrives(p, m)
  /\ toPeer' = [toPeer EXCEPT ![p] = Append(@, [type |-> "GET", chunk |-> Offered(m)])]
  /\ downloading' = Entered(downloading, Offered(m))
  /\ c_states' = Append(c_states, NewConnection(p, Offered(m)))
  /\ receiver_timerid' = NewId(timers)
  /\ timers' = Create(Stopped(timers), Len(c_states'))
  /\ UNCHANGED <<gets, wish, whohas_timerid, file, exited>>

-----------------------------------------------------------------------------
(* case 3: a DATA packet. *)

\* Slip: the last slot is not looked at.
Found_Short(p) ==
  {i \in DOMAIN c_states : i < MAX_CONN /\ c_states[i].server = p}

\* The connections find_c_state can find: it looks at the first MAX_CONN slots.
Found(p) == {i \in DOMAIN c_states : i <= MAX_CONN /\ c_states[i].server = p}

\* The connection find_c_state returns; there must be one.
Conn(p) == c_states[Min(Found(p))]

\* The packet belongs to a connection whose chunk is wished.
Expected(p, m) ==
  /\ m.type = "DATA"
  /\ Found(p) # {}
  /\ Search(wish, Conn(p).chunk) # -1

DataStray(p, m) ==
  /\ m.type = "DATA"
  /\ ~Expected(p, m)
  /\ Arrives(p, m)
  /\ Ignored

\* Cases 1 and 3 first set a timer; one that does not exist ends the process.
TimerLost(p, m) ==
  /\ \/ Wished(m) /\ ~Exists(timers, whohas_timerid)
     \/ Expected(p, m) /\ ~Exists(timers, receiver_timerid)
  /\ Arrives(p, m)
  /\ exited' = TRUE
  /\ UNCHANGED <<gets, wish, downloading, c_states, timers, whohas_timerid,
                 receiver_timerid, file, toPeer>>

DataRepeated(p, m) ==
  /\ Expected(p, m)
  /\ Exists(timers, receiver_timerid)
  /\ m.seq # Conn(p).ack_number + 1
  /\ Arrives(p, m)
  /\ timers' = Arm(timers, receiver_timerid)
  /\ UNCHANGED <<gets, wish, downloading, c_states, whohas_timerid,
                 receiver_timerid, file, exited, toPeer>>

\* The connection after packet m.
Stored(p, m) ==
  [Conn(p) EXCEPT !.ack_number = m.seq, !.temp_data = @ \cup {m.bytes}]

DataStored(p, m) ==
  /\ Expected(p, m)
  /\ Exists(timers, receiver_timerid)
  /\ m.seq = Conn(p).ack_number + 1
  /\ m.seq < PACKETS
  /\ Arrives(p, m)
  /\ c_states' = [c_states EXCEPT ![Min(Found(p))] = Stored(p, m)]
  /\ timers' = Arm(timers, receiver_timerid)
  /\ UNCHANGED <<gets, wish, downloading, whohas_timerid, receiver_timerid,
                 file, exited, toPeer>>

\* Slip: the timer is not deleted.
Finished_Running(tms) == tms

\* The timers when a chunk is complete.
Finished(tms) == Delete(tms, receiver_timerid)

\* The last packet of a chunk: its timer goes, and its entry in the list.
LastData(p, m) ==
  /\ Expected(p, m)
  /\ Exists(timers, receiver_timerid)
  /\ m.seq = Conn(p).ack_number + 1
  /\ m.seq = PACKETS
  /\ Arrives(p, m)
  /\ receiver_timerid' = NULL
  /\ downloading' = PopIndex(downloading, Search(downloading, Conn(p).chunk))
  /\ UNCHANGED <<gets, whohas_timerid>>

\* Slip: only the length is compared.
HashMatches_Length(conn) == conn.ack_number = PACKETS

HashMatches(conn) == conn.temp_data = {conn.chunk}

\* The SHA-1 is not the chunk's: WHOHAS for this chunk only; the connection stays.
ChunkFailed(p, m) ==
  /\ LastData(p, m)
  /\ ~HashMatches(Stored(p, m))
  /\ c_states' = [c_states EXCEPT ![Min(Found(p))] = Stored(p, m)]
  /\ Ask(<<Conn(p).chunk>>, Finished(timers))
  /\ UNCHANGED <<wish, file>>

\* Slip: the chunk is written at its place in the wish list.
Offset_Wish(c) == Search(wish, c)

\* Slip: the place is looked up after the chunk has been popped.
Offset_Popped(c) == Search(PopIndex(downloading, Search(downloading, c)), c)

\* Where a chunk is written: its place in the list of chunks being downloaded.
Offset(c) == Search(downloading, c)

Write(bytes, pos) ==
  [q \in DOMAIN file \cup {pos} |-> IF q = pos THEN bytes ELSE file[q]]

\* Slip: the place in the other list is used.
Shrunk_Downloading(c) == PopIndex(wish, Search(downloading, c))

\* The wish list without c, which is not its only chunk.
Shrunk(c) == PopIndex(wish, Search(wish, c))

\* Slip: the connection is kept, as after a mismatch.
Closed_Kept(conn) == conn

\* What is left of a connection in c_states.
Closed(conn) == Destroyed

\* The chunk is written and its connection destroyed.
ChunkVerified(p, m) ==
  /\ LastData(p, m)
  /\ HashMatches(Stored(p, m))
  /\ file' = Write(Stored(p, m).temp_data, Offset(Conn(p).chunk))
  /\ c_states' = [c_states EXCEPT ![Min(Found(p))] = Closed(Stored(p, m))]

\* More chunks are wished: WHOHAS for them.
NextChunk(p, m) ==
  /\ ChunkVerified(p, m)
  /\ Size(wish) > 1
  /\ wish' = Shrunk(Conn(p).chunk)
  /\ Ask(wish', Finished(timers))

\* The last one: the wish list is emptied and the file closed.
LastChunk(p, m) ==
  /\ ChunkVerified(p, m)
  /\ Size(wish) = 1
  /\ wish' = Destroy(wish)
  /\ timers' = Finished(timers)
  /\ UNCHANGED <<toPeer, exited>>

-----------------------------------------------------------------------------
Ihave(p, m) ==
  IhaveNotAsked(p, m) \/ IhaveDownloading(p, m) \/ IhaveAccepted(p, m)

DataPacket(p, m) ==
  DataStray(p, m) \/ DataRepeated(p, m) \/ DataStored(p, m)
    \/ ChunkFailed(p, m) \/ NextChunk(p, m) \/ LastChunk(p, m)

First(queue) == IF queue = <<>> THEN {} ELSE {Head(queue)}

\* The client takes in the first datagram in flight from p.
Inbound(p) == \E m \in First(toClient[p]) :
  Ihave(p, m) \/ DataPacket(p, m) \/ TimerLost(p, m)

Next ==
  \/ UserGet \/ NoOutputFile \/ NoChunkFile
  \/ WhohasTimer
  \/ \E p \in Peers : AnswerWhohas(p) \/ ServeGet(p) \/ Inbound(p)

Spec == Init /\ [][Next]_vars

-----------------------------------------------------------------------------
(* Safety. *)

Receiving(i) == c_states[i] # Destroyed /\ c_states[i].ack_number < PACKETS

\* No chunk is downloaded over two connections at once, whatever IHAVEs of
\* several peers, late ones included, and whatever new WHOHASs do.
OneDownloadPerChunk ==
  \A i, j \in DOMAIN c_states :
    Receiving(i) /\ Receiving(j) /\ c_states[i].chunk = c_states[j].chunk => i = j

\* DATA has no chunk in it and finds its connection by the sender's address
\* alone: every connection that still waits for data is the one that
\* find_c_state finds for its peer.
DataFindsItsConnection ==
  \A i \in DOMAIN c_states : Receiving(i) => i = Min(Found(c_states[i].server))

\* A wished chunk that case 1 takes to be downloading already really is: the
\* three lists of the client agree, so that no chunk is refused for ever, and
\* the place where a chunk will be written exists.
RefusedOnlyWhileReceiving ==
  (ToSet(wish) \cap ToSet(downloading)) =
    {c_states[i].chunk : i \in {i \in DOMAIN c_states : Receiving(i)}}

\* Bytes get into the file only when they are all of one wished chunk, and that
\* chunk is then asked for no more; corrupted bytes never get there.
WrittenIsVerified ==
  \A pos \in DOMAIN file :
    \E c \in ToSet(WishList) \ ToSet(wish) : file[pos] = {c}

\* A chunk leaves the wish list only in the step that writes it, and the list
\* keeps the order of the chunk file.
WishShrinksByWriting ==
  [][ gets > 0 /\ wish' # wish =>
        \E i \in DOMAIN wish :
          /\ wish' = RemoveAt(wish, i)
          /\ {wish[i]} \in {file'[pos] : pos \in DOMAIN file'} ]_vars

\* The file is assembled in the order of the chunk file.
AssembledInOrder ==
  \A pos \in DOMAIN file : file[pos] = {WishList[pos + 1]}

\* The expiry of an armed receiver timer finds the connection it was made for:
\* receiver_timer_handler never sees a c_state that was destroyed.
ArmedTimerHasItsConnection ==
  \A t \in DOMAIN timers :
    timers[t].armed /\ timers[t].owner # WHOHAS => Receiving(timers[t].owner)

Promise == INSTANCE Download WITH
  Want     <- ToSet(WishList),
  started  <- gets > 0,
  wanted   <- ToSet(wish),
  fetching <- {<<c_states[i].chunk, c_states[i].server>> :
                 i \in {i \in DOMAIN c_states : Receiving(i)}}

\* The client implements the abstract download: no chunk is fetched twice at a
\* time or after it was written, no peer is asked for two chunks at once, and
\* what is wanted shrinks exactly by successful fetches, however the answers,
\* timers and packets of several peers come in.
KeepsPromise == Promise!Spec

\* The client never ends because it sets a timer that does not exist.
NeverExits == ~exited

\* The client is never stuck: while chunks are wished, either something is on its
\* way to it or to a peer, or a WHOHAS timer is armed.  No refused offer, stopped
\* timer or finished download leaves it waiting for what nobody will send.
NeverStuck ==
  gets > 0 /\ wish # <<>> /\ ~exited =>
    \/ \E p \in Peers : toPeer[p] # <<>> \/ toClient[p] # <<>>
    \/ \E t \in DOMAIN timers : timers[t].armed /\ timers[t].owner = WHOHAS

\* "Downloaded chunk %d succeed, writing to file..." (case 3): what has been
\* written for one GET stays in the file.
WrittenStays ==
  [][ gets' = gets => \A pos \in DOMAIN file : file'[pos] = file[pos] ]_vars

\* "SHA-1 error, resending whohas..." (case 3): the offer that answers this
\* WHOHAS is taken up; a chunk that nothing is being received for is not refused.
ReaskIsAnswered ==
  [][ \A p \in Peers, c \in Chunks :
        /\ \E m \in First(toClient[p]) : IhaveDownloading(p, m) /\ Offered(m) = c
        => \E i \in DOMAIN c_states : Receiving(i) /\ c_states[i].chunk = c ]_vars

-----------------------------------------------------------------------------
(* Liveness. *)

\* Peers and client handle every datagram that arrives, and an armed interval
\* timer expires.
Fairness ==
  /\ WF_vars(WhohasTimer)
  /\ \A p \in Peers : WF_vars(AnswerWhohas(p)) /\ WF_vars(ServeGet(p)) /\ WF_vars(Inbound(p))

FairSpec == Spec /\ Fairness

\* A GET command is carried out: in the end every wished chunk is in the file.
Downloads ==
  gets > 0 ~> \A i \in DOMAIN WishList :
                i - 1 \in DOMAIN file /\ file[i - 1] = {WishList[i]}
=============================================================================
