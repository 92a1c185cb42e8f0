SPECIFICATION FairSpec
CONSTANTS
    h0 = h0
    h2 = h2
    Hash <- MCHash
    Thread = {t1, t2}
    Byte <- MCByte
    Content <- MCContent
    PeerFiles <- ExactFiles
    OriginFiles <- ExactFiles
    Garbage = 0
    MaxOrigin = 1
    Faults = {"crash"}
    NoFile = NoFile
    NoThread = NoThread
    NoHash = NoHash
INVARIANTS NoSpuriousMismatch
PROPERTIES TransferReturns
