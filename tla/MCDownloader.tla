---------------------------- MODULE MCDownloader ----------------------------
(***************************************************************************)
(* Instances of Downloader for TLC: who has which chunks, and what is      *)
(* wished.                                                                 *)
(***************************************************************************)
EXTENDS Downloader

CONSTANTS A, B, c1, c2, c3

\* Every peer has every chunk.
HasAll == [p \in Peers |-> Chunks]

\* Two peers that share the chunks and have one in common.
HasSome == [p \in Peers |-> IF p = A THEN {c1, c2} ELSE {c2, c3}]

Wish2 == <<c1, c2>>
Wish3 == <<c1, c2, c3>>
=============================================================================
