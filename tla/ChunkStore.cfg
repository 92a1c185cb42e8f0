SPECIFICATION Spec
CONSTANTS
    h0 = h0
    h2 = h2
    Hash <- MCHash
    Thread = {t1, t2}
    Byte <- MCByte
    Content <- MCContent
    PeerFiles <- RottenFiles
    OriginFiles <- RottenFiles
    Garbage = 0
    MaxOrigin = 1
    Faults = {"disk", "crash", "power"}
    NoFile = NoFile
    NoThread = NoThread
    NoHash = NoHash
INVARIANTS PartialExclusive CommittedIntegrity OriginCap
SYMMETRY Symmetry
