--------------------------- MODULE MCQuotaManager ---------------------------
(* Small instances of QuotaManager: two artifacts that share a chunk.      *)
EXTENDS QuotaManager, TLC

CONSTANTS h1, h2, a1, a2

MCHash == {h1, h2}
MCSize == h1 :> 1 @@ h2 :> 2
MCArtifact == {a1, a2}
MCManifests == a1 :> {h1, h2} @@ a2 :> {h2}

(* Pins: the shared chunk alone, next to spiderctl, crashes and failing    *)
(* writes.  Evictions: both chunks and a clock, so that there is an order. *)
Pins == [hashes |-> {h2}, high |-> 2, maxTime |-> 0,
         tools |-> {"pin", "unpin"}, faults |-> {"crash", "disk"}]
Evictions == [hashes |-> {h1, h2}, high |-> 3, maxTime |-> 1,
              tools |-> {}, faults |-> {"disk"}]
MCSetups == {Pins, Evictions}

=============================================================================
