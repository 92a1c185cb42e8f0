SPECIFICATION Spec
CONSTANTS
    h0 = h0
    h2 = h2
    Hash <- MCHash
    Thread = {t1, t2}
    Byte <- MCByte
    Content <- MCContent
    PeerFiles <- RottenFiles
    OriginFiles <- ExactFiles
    Garbage = 0
    MaxOrigin = 1
    Faults = {}
    NoFile = NoFile
    NoThread = NoThread
    NoHash = NoHash
INVARIANTS CleanOriginAccepted
SYMMETRY Symmetry
