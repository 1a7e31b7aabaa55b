# TLA+ specification of P2P_Protocol

The program is a file-sharing peer in C. A peer asks all others who has the
chunks of a file (WHOHAS), is answered with the chunks they have (IHAVE), asks
for one (GET) and receives it as 512 DATA packets of 1024 bytes, acknowledged
with cumulative ACKs. `hupsim.pl` simulates the network between peers: routers
with bounded queues.

## The system

One process, `peer.c`, is uploader and downloader at once. It is single-threaded:
`peer_run` takes one datagram or one command line at a time, and three signal
handlers run when an interval timer expires.

| part | state | operations | what makes it correct |
|---|---|---|---|
| transfer, uploader's end (`peer.c`, `state.c`) | `s_state`: counters of packets acknowledged, buffered, sent, bytes sent, duplicate ACKs; `data_list`, a ring of 8 packets; the sender timer | case 2 (GET) and case 4 (ACK) of `process_inbound_udp`, `sender_timer_handler` | a packet that may be resent is still in its slot; no more than a window is on the way; the session ends only when the chunk has arrived |
| transfer, downloader's end | `c_state`: last packet acknowledged, bytes stored; the receiver timer | case 3 (DATA), `receiver_timer_handler` | bytes are stored once and in order whatever the network does |
| downloader | the wish list, the list of chunks being downloaded, the connections, WHOHAS and receiver timers, the output file | `process_get`, `send_whohas`, case 1 (IHAVE), case 3, `whohas_timer_handler` | the lists agree; a chunk is downloaded once; only verified bytes are written, each chunk in its place; every wished chunk is downloaded |
| uploader with several clients | `s_states`, `data_list` and `sender_timerid` shared by all sessions | cases 2 and 4, `sender_timer_handler` | clients are served their own bytes; an ACK finds the session it is for; the last session gives everything back |
| connection tables (`state.c`) | two arrays of `MAX_CONN` pointers and their sizes | append, search by address, destroy | a connection is found by its peer's address |
| lists (`slist.c`) | a linked list | push, pop, search, replace | positions shift as callers expect |
| packets (`package.c`) | – | build and serialise, read a list of hashes | the list that is read is the list that was sent |
| input buffer (`input_buffer.c`) | buffer and fill level | read, split at line ends, shift | every line is handled once and whole; no read leaves the buffer |
| simulator (`hupsim.pl`) | routers, queues, routing tables | enqueue, run, shortest paths | routes are shortest and lead to their destination; datagrams keep their order over several queues |
| start-up (`bt_parse.c`), hashing (`sha.c`, `chunk.c`), `spiffy.c`, debugging | – | – | – |

The parts interact by datagrams between processes, by the global variables of
`peer.c` (`chunk_hashes`, `downloading_chunk_hashes`, `data_list`, `sm`, three
timer variables) within one, and by signals. What is hard: lost, repeated and
reordered datagrams; timers that expire while the answer is on its way; the
reuse of ring slots; bookkeeping spread over lists that shift; one global where
there should be one variable per connection; `NULL` as a timer number. The list
`hazards` of `PROJECT.json` places each at its line.

## The modules

| module | models | state and actions |
|---|---|---|
| `Link` | one direction of the path between two peers: NSQueue of `hupsim.pl`, and UDP's faults | operators on a sequence of packets in flight |
| `ChunkDelivery` | what a transfer promises, without packets' loss, ACKs or timers | `session`, `status`, `stored`; `Accept`, `Store`, `Close` |
| `Transfer` | one chunk from GET to the last ACK: cases 2, 3, 4 and two timer handlers | one variable per field of `s_state` and `c_state`, one action per branch of a handler |
| `Uploader` | all sessions of an uploader: cases 2 and 4 and `sender_timer_handler`, with the clients' side of a chunk | `s_states`, `data_list`, the timers and `sender_timerid`; one action per branch of case 4, three for what the timer handler can meet |
| `Download` | what a client promises: wanted chunks, and who is asked for which | `wanted`, `fetching`; start, ask, fetched, given up |
| `Downloader` | a GET command from the command line to the output file, with several peers | lists, connections, timers and file; one action per branch of cases 1 and 3, `UserGet` and its two exits (`NoChunkFile`, `NoOutputFile`), `WhohasTimer` |
| `Codec` | a list of hashes in a datagram: lengths, their widths, the receive buffer, the loop that reads the list | operators |
| `SList`, `Timers` | lists of `slist.c`; kernel timers and the variables that name them | operators |
| `InputBuffer` | `create_userbuf` and `process_user_input`: reads of any size, line ends, the shift, the unsigned offset | `buf`, `cur`; `Read`, `HandleLine`, `TooLong` |
| `Network` | `hupsim.pl` from its start: the routing table each router computes, and datagrams that travel from queue to queue | `distance`, `predecessor`, `startRoute`, `routingTable`, `queues`; `CreateTable`, `Visit`, `Follow` and `Enter` for the rounds of its loops, `Insert`, `Run` |
| `MCTransfer`, `MCDownloader`, `MCUploader`, `MCInputBuffer`, `MCNetwork` | – | instances for TLC |
| `TransferProofs`, `UploaderProofs`, `DownloaderProofs`, `DownloadProofs`, `InputBufferProofs`, `NetworkProofs` | – | theorems (`DownloaderProofs` also those about `Codec`) |
| `LinkProofs`, `SListProofs` | – | lemmas about queues and lists that these share |

`Transfer`, `Uploader` and `Network` extend `Link`. `Downloader` uses `Codec`,
`SList` and `Timers`, `Uploader` the last two; `Downloader` takes from
`Transfer` what `ChunkDelivery` says: what arrives of a chunk arrives in order. That
all of it arrives, and every WHOHAS, IHAVE and GET, it assumes: its network loses
nothing, see below. Its other peers (`AnswerWhohas`, `ServeGet`) are cases 0 and 2
of `process_inbound_udp`. Three views of one program, then: the packets of one
chunk (`Transfer`), the sessions of one uploader (`Uploader`), the chunks of one
client (`Downloader`). `PROJECT.json` maps each definition to its lines.

### How code became model

* Handlers are atomic. The timer that a handler could race with is disarmed by
  its first statement, for one connection. The short time before it, and a
  handler interrupted inside `malloc`, are not modelled.
* A chunk's bytes are known by where they come from: in `Transfer` the body of a
  packet is the number of the packet it was read as, in `Uploader` also the
  chunk; in `Downloader` the bytes are a chunk. A SHA-1 matches exactly when the
  bytes are the chunk's.
* Byte counters count packets: `sent_byte_num > 511 * 1024` is `sent_count >
  PACKETS - 1`. The ring reads ahead past the end of the chunk as the code does;
  a body above `PACKETS` stands for those bytes.
* `seq_number` of `s_state` and logging are left out; nothing reads them.
  `duplicated_acks_count` stops at `RESEND_AT`, where the code only tests `>= 2`.
* `Transfer` sees one GET, delivered at most once: what a further session does to
  the first is `Uploader`'s.
* `Timers`: on Linux timer numbers count from 0 in each process and `NULL` is 0,
  so a timer variable set to `NULL` names the first timer, while it exists. In
  `Downloader` the peer only downloads, hence timer 0 is its WHOHAS timer; in
  `Uploader` it only uploads.
* Unused slots of `c_states` and `s_states` are taken to be `NULL`. Slots are never
  reused, so `MAX_CONN` bounds the connections of the whole life of a process; one
  beyond it is stored outside the array and not found. `destroy_s_state` and
  `destroy_c_state` look for their slot with the address in the memory they have
  just freed; both sides of the comparison read the same bytes, so they find it.
  The small block that is left there is taken to match no peer's address.
* `Uploader`: a timer that fires for a session that was freed ends the process
  (`StaleTimer`) or happens to send nothing, which is a step that changes nothing.
  Clients ask only for chunks that were offered to them, so "GET packages I don't have"
  (`peer.c:424`) does not occur, here or in the other models. A client that has a chunk
  with a wrong SHA-1 ("failed") keeps its connection and answers further packets.
* Every datagram is one of this program's: the tests of the magic number and the
  version (`peer.c:329`) always pass.
* `Downloader`: with `FILES_FAIL` the chunk file of the first GET, or the output file of
  any, may fail to open, and the process ends. Of the chunks an IHAVE lists only the first is kept, the only one case 1
  reads. The wish list has no chunk twice. A chunk file with hashes that
  agree up to a zero byte (`strncmp`) is not modelled. Bytes beyond the receive
  buffer are taken to match no hash.
* `InputBuffer`: a failing `read` is left out, and so is what the code does with a
  line. The newline becomes a zero byte (`input_buffer.c:47`) before the rest is shifted;
  with a line of more than half the buffer that byte stays where it is (`Ended`, `Shifted`). `TooLong` is the exit of "buffer full; line too long!".
* `Network`: `Nodes` are the nodes `nodes.map` has an address of; a datagram for any other
  address is dropped (`Drop`). Of `spiffy_sendto` only the header is modelled, not its
  failures. A topology is a set of links; rates and latencies only decide when the
  head of a queue leaves, which is left open. `createTable` is modelled by rounds: `Visit` is one
  of the loop that visits vertices, `Follow` one of the `while` loop that goes back, and
  `Enter` the end of that loop. Routers and vertices are taken in the order of
  their numbers, as the arrays of the code are. A router that cannot be reached makes
  `createTable` loop for ever (reading the `id` of an undefined predecessor brings it
  into being, so the test for "route with no pred" never fails): then `Start` has
  no step and the simulator never listens.
* A definition called `X_Slip`, `X_Early` and so on, introduced by "Slip:", is a
  mistake a programmer could make in `X`. The specifications do not use it. With
  it in the place of `X` the property named for it in `PROJECT.json` fails.

## The runs

| run | question | bounds |
|---|---|---|
| `transfer_safe` | is the window protocol safe over a bad network, and does it implement `ChunkDelivery`? | 5 packets and a window of 3: each slot is used again, the window passes the end of the chunk; queues of 3 overflow; losses, repeats, reordering; timers at any time |
| `transfer_lossy` | does a transfer get past losses? | 9 packets, window 3: three windows, any packet lost any number of times |
| `download_all` | is a GET carried out when every peer has every chunk? | 2 peers, 2 chunks; the answers of one peer arrive during the download from the other |
| `download_many` | do lists and connections stay consistent while downloads overlap, is the client ever left waiting for nothing, and does it implement `Download`? | 2 peers with different chunks, 3 chunks, 2 GETs, WHOHAS timers at any time, files that do not open; a receive buffer of two hashes, so that the first WHOHAS exceeds it |
| `download_corrupt` | do wrong bytes stay out of the file? | 2 peers that send any chunk's bytes, 3 chunks, 2 GETs: also after a SHA-1 error, with the connection that stays behind, and until a timer that is gone is set |
| `upload_turns` | do sessions that share a ring and a timer variable serve each client its own chunk, and does no ACK meet a list that is gone? | 2 clients, 3 GETs for 2 chunks, 4 packets and a window of 2, queues of 3, losses, 2 slots of `s_states`: the third session does not fit, sessions overlap or follow a session whose last ACK was lost |
| `input_buffer` | are lines handled as typed, and does the buffer hold what it is given? | 8 bytes, two letters and newline, reads of any size; `cur` wraps at 32 |
| `network` | are the tables right whatever predecessors the tables before have left, do all of `createTable`'s loops end, and does traffic keep its order and drain? | every graph on at most 4 routers, a ring of 5 and `topo.map` (9 routers); 4 datagrams on three flows that meet and one flow to an address of no node, queues of 2 |

Two chunks already make the lists shift and three make a list of more than one
element shrink at either end; peers meet only in the client's lists and timers, and
between them these runs take every branch of cases 1 and 3. One repeated DATA packet
per chunk is enough to arrive during, and after, the next download. For the uploader
two sessions are all that can meet over one `data_list`, and the third shows what
both leave behind. A ring of five has two ways round of
different length, and `topo.map` a cycle and branches. In the input buffer
reads of any size within 8 bytes meet every position of a line end, of the middle
and of the end of the buffer.

`PROMPT` says that a timer expires only when
nothing is in flight, that is, that the network is fast against the timers of
3 and 5 seconds; the safety runs of `Transfer` and `download_many` do not assume it.
`CHECK_DEADLOCK FALSE`: a transfer, a GET, a plan or a simulation without further
datagrams is done and stops, and so does a process that has exited.

What the runs find true is listed with each property. These conditions matter.

* Nothing is lost in any run of `Downloader`. Its safety properties are about what
  arrives; `Downloads` and `NeverStuck` need it: a GET is not repeated when it is lost
  (`LoseGet` of `Transfer`), nor is a packet of the last window, and then the client waits
  for ever.
* `ArmedTimerHasItsConnection`, `NeverExits`, `AssembledInOrder` and `Downloads` are
  checked where downloads do not overlap, all files open and the timers are slow, and they do not hold
  elsewhere: with overlapping downloads one timer variable serves two connections,
  and a WHOHAS timer that expires can end the process (`whohas_timer_handler` starts
  timer `NULL`).
* `NeverStuck`, `DataFindsItsConnection`, `RefusedOnlyWhileReceiving` and `KeepsPromise`
  hold as long as no chunk is corrupted: after a SHA-1 error the connection stays, and
  so may the chunk in the list of chunks being downloaded.
* The properties of `Uploader` but `TypeOK`, `CountersAgree` and `AckMeetsList` are for
  sessions that are `Alone`: no session is opened while another one is open, and there are no more
  than `MAX_CONN` of them. A session whose last ACK is lost stays open, so the next one
  is not alone; what the code does then is the fourth finding.
* That clients served at once get each other's bytes, that a lost last ACK leaves a
  session open, that slots of `s_states` and `c_states` run out, that a connection stays
  after a SHA-1 error, that a second download or an expired WHOHAS timer mixes up the
  timer variables: the code does just this, and the properties are stated for where it
  does not happen. `hazards` lists each with a note and without a property.
* No run promises the last window of a chunk over a lossy network, see the first
  finding; `Served` is about a network that loses nothing.
* `LinesAsTyped` is for a buffer that was never more than half full. The bound is
  tight for an odd index of the last byte, as the code's: with one byte more, `memmove` leaves a copy of the last bytes behind the new
  end. Half of the code's 8192 bytes is 4096, the longest line a terminal in canonical
  mode hands over. `Terminated` and the range of `cur` need no such condition.

Four runs show a disagreement between the code and what it says of itself:

* `transfer_resend`: `send_data` refuses resends once the last packet has gone out
  (`peer.c:190`), while `peer.c:556` logs "resend packet".
* `download_three`: the third chunk is written over the second (`peer.c:514`).
* `download_reask`: after a SHA-1 error the answer to the new WHOHAS is refused
  (`peer.c:493`, `slist.c:93`).
* `upload_together`: two clients at once, without any loss; the session that ends first
  destroys `data_list` (`peer.c:576`) and deletes the one timer that `sender_timerid`
  names, which is the younger session's. The timer of the older session goes on, and when
  it expires `slist_find` is given `NULL`: the process ends in its assertion
  (`slist.c:109`). The list is never missed by an ACK: the timer an ACK sets first is
  gone with the list, and the process ends there (`peer.c:546`). This is `AckMeetsList`, which
  holds however many sessions run at once.

### Fairness

`Transfer`: every handler is run when its datagram arrives, because `peer_run`
never stops looking at the socket; strongly fair where a lossy network may take
the datagram away, which says that not every copy of a packet that is sent for
ever is lost. The two timers are interval timers and expire again and again. No
fairness of losses, and `RecvGet` is only weakly fair: a GET is not repeated.
`Downloader`: the peers answer, the client takes in what arrives, an armed timer
expires. The user types a command or not. `Uploader`: the uploader and its clients
take in what arrives; no timer needs to expire. `Network`: the set-up of `main` goes on
as long as it has something to do; its loop sleeps
no longer than until the head of some queue is due and then visits every router, so
some queue that has something is served again and again.

## The proofs

`TransferProofs` proves for all `PACKETS`, `WINDOW <= PACKETS`, `CAP` and `Faults`,
from `LinkAssumption` and `TransferAssumption` alone, every safety property that
`transfer_safe` checks: type correctness, storage in order, the ring, the
agreement of the two ends, that sends are in the window and genuine, and that
`Transfer` implements `ChunkDelivery`.

None of these is inductive. That the stored bytes are right needs that every
packet in flight is genuine (`WireInv`); that a resent packet is genuine needs
that its slot has not been overwritten (`RingHoldsWindow`), which needs that
buffering runs exactly one window ahead of acknowledgements (`CountersInv`), that
no ACK in flight exceeds what is stored (`WireInv`) and that nothing is stored that
was not sent (`ClientInv`). `Inv` is their conjunction; TLC checks it as an
invariant of `transfer_safe` first. The one arithmetic fact is `SlotsApart`: packets
less than a window apart have different slots. There is one lemma per action;
`StepInv` joins them.

`UploaderProofs` proves for any clients and plans, all `PACKETS`, `WINDOW <= PACKETS`,
`MAX_CONN` and `CAP`, any faults and any timing of the timers, from `LinkAssumption` and
`UploaderAssumption`: type correctness, `CountersAgree`, `NeverEnds`, `IdleIsClean` and
`AckMeetsList`.
The invariant `Inv` adds what ties the globals to the sessions while these follow one
another (`OneAtATime`): timers and slots of `s_states` are created in pairs, so timer
number `i - 1` belongs to session `i`; the session that is open is the one whose timer
`sender_timerid` names, and only its timer is armed; there is a list exactly while it
is open. The counters need none of this, so they agree also while sessions overlap. Nor
does `AckMeetsList`: a timer is created only where the list is made or kept, and the list
goes only together with the timer in `sender_timerid`.

It also proves `OwnBytes` and `AckFindsItsSession` under `InOrder`: the network may lose
datagrams, but neither repeats nor reorders them, as the queues of `hupsim.pl` do not.
DATA and ACK name no chunk, so a copy of packet 1 of an earlier chunk that came late would
be stored as the first packet of the next one. Agreement of the counters does not exclude
this; the invariant `TurnsInv` says what does. A client either waits (`Waits`): no session
of it has anything left to send, nothing under way to it is a first packet, and a GET under
way is the one it waits for, followed only by ACK 0. Or it receives (`Receives`): the open
session is of the chunk it wants, all its requests are ACKs of that session, and behind
the packets that earlier sessions left under way, none of them a first one, all are genuine
and packet 1 does not follow the last. `RingInv` is what makes resends genuine. That packet
1 does not follow the last is what carries a client from its last packet back to waiting,
and holds because resends stop once the whole chunk was sent. TLC checks the invariant on
the instance of `upload_turns` first, and with windows of one packet and of a whole chunk.

`DownloaderProofs` proves for any chunks, peers and GET commands, peers that corrupt
chunks included, and any timing of the WHOHAS timers, from `DownloaderAssumption`: type
correctness, `OneDownloadPerChunk`, `WrittenIsVerified` and `WishShrinksByWriting`. The
invariant ties the list of chunks being downloaded to the connections (`ListsInv`): what
is received is in the list, and the list has nothing twice.

`DownloadProofs` proves `RefusedOnlyWhileReceiving`, `DataFindsItsConnection`,
`NeverStuck` and that `Downloader` implements `Download`, under the condition `Clean`
of the constants:

* no peer corrupts chunks: after a SHA-1 error the connection stays behind and so may
  the chunk in `downloading`, and then none of them holds (`download_reask`);
* `MAX_CONN` is at least the number of chunks of the GET: `c_states` has one slot for
  each connection ever made, and a connection without one is never found;
* a chunk has two packets or more: with a single one a repeated DATA of the last chunk
  could not be told from the first of the next.

`CleanInv` has five parts on top of the invariant of `DownloaderProofs`. Lists are sent in
the order of the chunk file and only shrink, so every offer of a peer that is still in
flight names the first wished chunk it has (`OffersInv`); since a peer that is being
downloaded from is asked for exactly that chunk, it never has two connections
(`ConnsInv`). Every connection ever made was for another place of the chunk file, an
injection that bounds their number (`SlotsInv`). What is in flight from a peer fits what
its connection waits for (`FlightInv`), and the WHOHAS timer and the numbers that name it
agree (`TimersInv`). TLC checks each of these on the instance of `download_many` first.
The refinement maps wished chunks to `wanted` and connections that receive to
`fetching`; there is one lemma for each branch of cases 1 and 3.

The last part of `DownloadProofs` proves the other safety properties of `download_all`,
`NeverExits` and `ArmedTimerHasItsConnection`, and for at most two chunks
`AssembledInOrder`, for one GET command that is carried out promptly (`Orderly`: besides
`Clean`, `PROMPT`, one GET whose files open, every peer has every wished chunk, there is a peer, the receive
buffer has room for one hash, and the 16 bits of the length do not wrap). The constants of
`download_all` satisfy this, and the conditions are needed: TLC refutes `NeverExits` on
variants of that instance with a second GET, with a timer that is faster than the answers,
and with a buffer one byte shorter than a hash needs, `AssembledInOrder` with a third chunk,
and all three with three chunks of which each peer has two. `OrderlyInv` has two parts. The
WHOHAS timer runs only while each peer has a WHOHAS for the wished chunks before it, or the
offer that answers it is on its way (`WhohasRuns`); so it never expires while nothing is in
flight (`NeverExpires`), and the timer numbered 0, which `NULL` stands for, is never
deleted. All those offers name the first wished chunk (`FirstWish`), so a second download
cannot begin before the first is over (`ReceiverRuns`), and the one `receiver_timerid`
always names the timer of the one connection that receives. `PlacesInv` says why the file is
right with two chunks: the only element of `downloading` is never popped, so that the second
chunk finds itself at place 1.

`InputBufferProofs` proves for every buffer size, word size and alphabet that the
buffer stays terminated, that lines are handled as typed, and the range of `cur`. The
invariant it adds for the lines is `CleanTail`: while the buffer was never more than half
full, the bytes from the middle on are still zero, so that every shift brings zeros to the
end of the text. Where more than half is in use, what counts is the zero byte that a
line end becomes. For the range it is `CurRange`: a `cur` that has wrapped is below 0 by no
more than lies behind some zero byte, and what is taken for a further line ends before
that byte.

For `Codec`, `DownloaderProofs` proves for every list and buffer that a list of at most
`Capacity` hashes is read as it was sent (74 with the code's 1500 bytes), and that of a
longer one the first `Capacity` are; both up to 3275 hashes, where the 16 bits of the
length wrap.

`NetworkProofs` proves for every topology, any nodes and flows, all `SENDS` and `CAP`, from
`LinkAssumption` and `NetworkAssumption` (a link joins two routers, and there are fewer
than `INFINITY` of them), every safety property that `network` checks: type correctness,
`RoutesAreShortest`, `WayBackGetsShorter` and `ArriveInOrder`; and that `createTable`
never dies for want of a queue (`CreateTableNeverDies`).

`TableInv` is the invariant of `createTable`, in four parts. `PredInv` says what a
predecessor is even when another router's computation left it: a neighbour. `DijkstraInv` is
Dijkstra's algorithm between two visits: a known distance is that of some way, whose last
link comes from a vertex that is done and one link nearer; the edges of vertices that are
done are relaxed; and these are no farther than the others. Once all are done, a distance is
no more than one greater along any link, so it is not more than the length of any way
(`WithinBound`, by a minimal counterexample over the length of the way), and the distances
below `INFINITY` have no gap, so they are below the number of routers (`BelowCount`, by an
injection), which is why one more link from a vertex that is known cannot lead to one that
is not (`FarIsFar`). `WalkInv` says that a walk back from a vertex has a way to that vertex
behind it, or stays among the vertices that cannot be reached; the second is why
predecessors that were left over never end up in a table although they are followed.
`TablesInv` is what the tables are made of, shortest first links. TLC checks all of them,
and `FlightInv`, on graphs of up to four routers and on the ring of `network` first.

`FlightInv` is for the datagrams. The way of a flow is the smallest set of routers that has
its source and is closed under the tables (`OnWay`). Since every hop is one link nearer, no
two routers of it are as far from the destination (`WayIsLine`), so all datagrams of a flow
are in one line of queues, and of two the one that is ahead was sent first. A datagram that
leaves the head of a queue is behind all that are nearer and ahead of all the others
(`MayCome`), and it stays so at the end of the next queue (`PassKeeps`), or is the next to
arrive (`HandKeeps`); one that is dropped leaves the others in order. `Distance` is defined
by a recursive function, and `WithinSteps` proves that this function exists, since the
library's induction theorems cannot be used.

Only model-checked: liveness (`ReachesLastWindow`, `Starts`, `Drains`, `Served`, `Downloads`),
since fairness is out of the provers' reach. Every other property of a passing run is a
theorem, under the conditions given above.

## Plan

1. `SListPointers`: the linked list cell by cell, shown to implement `SList`.
2. A peer that uploads and downloads at once: `NULL` then names whichever timer it
   created first.

## Not modelled

* Start-up (`bt_parse.c`): sequential, its results are the constants of the models.
  SHA-1 (`sha.c`) and the chunk files (`chunk.c`, `make_chunks.c`): what the models need
  of them is that hashes agree exactly when the bytes do.
* Signal handlers that interrupt other handlers at any statement: what a handler does
  to the heap it interrupts has no useful model at this level.
* A GET for a chunk the peer does not have, and datagrams of other programs, see "How
  code became model".
* Losses in `Downloader`: what a lost GET leads to is clear from the code, which has no
  retry, and lost packets are `Transfer`'s.
* Start-up of `spiffy.c` and its tests, debugging aids.
