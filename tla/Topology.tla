------------------------------ MODULE Topology ------------------------------
(***************************************************************************)
(* Network distance between two daemons and the order in which the tracker *)
(* names peers (pkg/topology/topology.go).  A locality is a record of four *)
(* names, Unnamed where the operator has set none.  That names are trimmed *)
(* and compared without regard to case is left out: equal means equal.     *)
(***************************************************************************)
EXTENDS Integers

CONSTANT Unnamed

Shares(a, b, level) == a[level] # Unnamed /\ a[level] = b[level]

(* Variant: the rack is looked at before the host.                         *)
DistanceRackFirst(a, b) ==
    IF Shares(a, b, "rack") THEN 0
    ELSE IF Shares(a, b, "host") THEN 10
    ELSE IF Shares(a, b, "zone") THEN 20
    ELSE IF Shares(a, b, "region") THEN 30
    ELSE 40

Distance(a, b) ==
    IF Shares(a, b, "host") THEN 0
    ELSE IF Shares(a, b, "rack") THEN 10
    ELSE IF Shares(a, b, "zone") THEN 20
    ELSE IF Shares(a, b, "region") THEN 30
    ELSE 40

Nowhere == [level \in {"host", "rack", "zone", "region"} |-> Unnamed]

(* The comparison of SortPeersByProximity: the nearer peer first, the      *)
(* smaller node ID among peers as near.  loc gives the peers' localities.  *)
Before(self, loc, m, n) ==
    LET dm == Distance(self, loc[m])  dn == Distance(self, loc[n])
    IN  IF dm = dn THEN m < n ELSE dm < dn

=============================================================================
