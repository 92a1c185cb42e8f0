----------------------------- MODULE MCRegistry -----------------------------
(* Three nodes: 2 is in the rack of 1, the requester; 3 on its host.       *)
EXTENDS Registry, TLC

Place(host, rack) == [host |-> host, rack |-> rack, zone |-> "z", region |-> Unnamed]

Localities == <<Place("x", "r"), Place("y", "r"), Place("x", Unnamed)>>

Handlers == Permutations(Call)

=============================================================================
