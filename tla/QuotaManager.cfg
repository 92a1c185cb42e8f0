SPECIFICATION FairSpec
CONSTANTS
    h1 = h1
    h2 = h2
    a1 = a1
    a2 = a2
    Hash <- MCHash
    Size <- MCSize
    Artifact <- MCArtifact
    Manifests <- MCManifests
    Configured = {a1}
    Low = 1
    Setups <- MCSetups
INVARIANTS RefCountExact DiskCovered PinDurable DiskAccounted EvictionReachesTarget
PROPERTIES PinnedKept EvictionCatchesUp
