CONSTANTS
    Executions = {"x1", "x2"}
    Plans <- Cases
    MaxRetries = 1
    MaxLoops = 2
    MaxRun = 3
    StepTimeout = 2
    HttpTimeout = 1
    MaxWait = 2
    MaxDelay = 1
    SlotTTL = 2
    BlockTime = 2
    Skew = 2
    MaxFaults = 1
SPECIFICATION Spec
INVARIANTS
    InFlightBounded
    TokensAlive
    SavedWasEmitted
    SuccessCoversPages
PROPERTIES
    EveryExecutionEnds
    SlotsComeBack
