SPECIFICATION Spec
CONSTANTS
    Chunk = {c1, c2}
    Worker = {w1, w2}
    Peer = {p1, p2}
    BadPeers = {p2}
    MaxInflight = 1
    RetryAttempts = 2
    UntrustedAfter = 2
    Origins = {TRUE, FALSE}
    Faults = {"refuse", "cut", "origin", "cancel", "evict"}
    None = None
INVARIANTS InflightExact WorkConserved
SYMMETRY Symmetry
