CONSTANTS
    Partitions = {1, 2}
    Service = "ivy"
    Junk = Junk
    Logs <- CaseLogs
    StrategiesOf <- CaseStrategies
    Excluded = {"seen"}
    MaxRestarts = 1
    MaxFaults = 1
    MaxTime = 2
SPECIFICATION Spec
INVARIANTS
    CommitAfterHandler
    PairsExact
    FingerprintFresh
    LastWordHolds
    
