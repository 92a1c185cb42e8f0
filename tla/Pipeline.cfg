SPECIFICATION Spec
CONSTANTS
    ChunkSize = 2
    Path = {1, 2}
    Content <- MCContent
    Junk = 0
    Absent = Absent
    None = None
    MaxCommands = 3
    MaxEdits = 1
    MaxFaults = 1
INVARIANTS PublishFaithful CompletedExact NoWrongFile PublishedCanBeSynced VerifyExact
CHECK_DEADLOCK FALSE
