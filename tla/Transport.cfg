SPECIFICATION NetFairSpec
CONSTANTS
    Thread = {t1, t2}
    Addr = {a1, a2}
    Conn = {c1, c2, c3}
    MaxConns = 1
    MaxConcurrency = 1
    MaxQueueSize = 1
    Unstable = {a1}
    Nobody = Nobody
INVARIANTS PoolSound UploadsExact
PROPERTIES StopReturns DownloadsReturn
