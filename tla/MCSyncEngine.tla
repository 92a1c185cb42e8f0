---------------------------- MODULE MCSyncEngine ----------------------------
(* Small instances of SyncEngine: workers and chunks are                   *)
(* interchangeable (the symmetry is used by safety runs only).             *)
EXTENDS SyncEngine, TLC

Symmetry == Permutations(Worker) \cup Permutations(Chunk)

=============================================================================
