SPECIFICATION FairSpec
CONSTANTS
    Node = {n1}
    Chunk = {h}
    Artifact = {}
    Call = {c1, c2}
    Asked = {"peer", "rows"}
    MaxAddr = 2
INVARIANTS CacheCoherent
PROPERTIES DeadPeerForgotten AdvertisedIsLocated
