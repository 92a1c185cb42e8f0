SPECIFICATION Spec
CONSTANTS
    Node = {n1}
    h1 = h1
    h2 = h2
    Chunk = {h1, h2}
    Artifact = {a}
    Call = {c1, c2}
    Free = Free
    Second = 2
    Expiry = 2
    MaxWait = 1
    INBatch = 1
    Request <- Requests
    Requester = {n1, guest}
    MaxBusy = 2
    MaxNow = 4
SYMMETRY Handlers
INVARIANTS LocateExact
PROPERTIES PrunesOnlySilent ImplementsStore
