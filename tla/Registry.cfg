SPECIFICATION Spec
CONSTANTS
    Node = {1, 2, 3}
    Chunk = {h}
    Artifact = {a}
    Expiry = 0
    Slack = 0
    MaxNow = 1
    Call = {c1, c2}
    Seeder = {2, 3}
    Self = 1
    Wanted = a
    Loc <- Localities
    Unnamed = Unnamed
SYMMETRY Handlers
INVARIANTS MilestonesExact SeededIsReady NearestFirst RefreshDropsStale
