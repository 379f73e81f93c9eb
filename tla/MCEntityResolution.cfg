SPECIFICATION Spec
CONSTANTS
    Entities = {"a", "b", "c"}
    Values = {"x", "y", "xy"}
    Feed <- ChainFeed
    Similar <- ChainSimilar
    NoMerge <- NoPairs
    Relations <- OneRelation
    Consumers = {c1, c2}
    Absent = Absent
    Idle = Idle
    MaxMerged = 4
    MaxWrites = 4
    MaxRetries = 1
INVARIANTS
    MergedOnlyByMatch
    HomesAreLive
    Resolved
    EdgesEndLive
SYMMETRY InstanceSymmetry
CONSTRAINT Explored
CHECK_DEADLOCK FALSE
