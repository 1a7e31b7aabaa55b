-------------------------------- MODULE Codec --------------------------------
(***************************************************************************)
(* A list of chunk hashes in a datagram: the lengths package.c and peer.c  *)
(* write for it, their widths, the buffer it is received in, and the loop  *)
(* that reads it again.  A hash is a value of any kind.                    *)
(***************************************************************************)
EXTENDS Integers, Sequences

CONSTANT BUFLEN      \* the bytes process_inbound_udp receives: 1500 in the code

CodecAssumption == BUFLEN \in Nat /\ BUFLEN >= 20 /\ BUFLEN <= 65535

ASSUME CodecAssumption

HEADER == 16      \* header_length
COUNT  == 4       \* the number of hashes and padding
HASH   == 20      \* bytes of a SHA-1

Garbage == "garbage"      \* bytes beyond the buffer

\* init_package: total_packet_length has 16 bits.
TotalLength(list) == (HEADER + COUNT + HASH * Len(list)) % 65536

\* send_whohas, send_ihave: the number of hashes has 8 bits; nobody reads it.
ChunkNum(list) == Len(list) % 256

\* The hashes that lie within the received bytes.
Fits(i) == HEADER + COUNT + HASH * i <= BUFLEN

\* How often the loop of case 0 runs: for i = 20, 40, ... below the total length.
Entries(list) == IF TotalLength(list) <= HASH THEN 0 ELSE (TotalLength(list) - 1) \div HASH

\* What case 0 reads of a list that was sent.
Listed(list) ==
  [i \in 1..Entries(list) |-> IF Fits(i) /\ i <= Len(list) THEN list[i] ELSE Garbage]

\* The longest list that is received whole: 74 hashes.
Capacity == (BUFLEN - HEADER - COUNT) \div HASH
=============================================================================
