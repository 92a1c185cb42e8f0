SPECIFICATION AdvFairSpec
CONSTANTS
    Item = {i1, i2, i3}
    ChanCap = 1
    RetryCap = 2
    BatchSize = 2
    MaxRetries = 2
INVARIANTS ItemConserved GivenUpAlike StopTriesAll
PROPERTIES StopReturns HashSettles
