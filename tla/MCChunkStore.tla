---------------------------- MODULE MCChunkStore ----------------------------
(* Small instances of ChunkStore: a chunk of two blocks and an empty one.  *)
EXTENDS ChunkStore, TLC

CONSTANTS h0, h2

MCHash == {h0, h2}
MCByte == 0..2
MCContent == h0 :> <<>> @@ h2 :> <<1, 2>>

Exact(h) == [data |-> MCContent[h], size |-> Len(MCContent[h])]

(* Replicas of the two blocks with a wrong block, with a block too few     *)
(* behind a right size, and with a block too many; a replica of the empty  *)
(* chunk that is not empty.                                                *)
Rotten ==
    h0 :> {[data |-> <<0>>, size |-> 1]} @@
    h2 :> {[data |-> <<0, 2>>, size |-> 2], [data |-> <<1>>, size |-> 2],
           [data |-> <<1, 2, 0>>, size |-> 3]}

ExactFiles  == [h \in MCHash |-> {Exact(h)}]
RottenFiles == [h \in MCHash |-> {Exact(h)} \cup Rotten[h]]

(* Goroutines are interchangeable (used by safety runs only).              *)
Symmetry == Permutations(Thread)

=============================================================================
