----------------------------- MODULE MCSqlStore -----------------------------
(* The SQL store with two hashes that are looked up in two batches, by a   *)
(* node that holds chunks or by one that is not registered.                *)
EXTENDS SqlStore, TLC

CONSTANTS h1, h2

Requests == {<<h1, h2>>}

Handlers == Permutations(Call)

=============================================================================
