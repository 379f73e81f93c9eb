CONSTANTS
    Partitions = {0}
    Junk = Junk
    Logs <- OneLog
    Service = "lotus"
    MaxRestarts = 1
    Bindings = {"b0", "b1"}
    Edited = {"b1"}
    Mappings = {"m0"}
    Configs <- Edits
    InitRows <- Start
    Operators = {p1}
    Versions = {1, 2}
    CacheMax = 1
    MaxWrites = 2
    MaxFaults = 1
SPECIFICATION Spec
INVARIANTS
    MatchedIsAccountedFor
    UntouchedSeeAll
    MatcherAgrees
PROPERTIES
    TablesWin
    TriedUpToPoison
