CONSTANTS
    j1 = j1 j2 = j2 j3 = j3 p1 = p1 p2 = p2 w1 = w1 w2 = w2 o1 = o1 o2 = o2
    Jobs = {j1}
    Kind <- OnlyPlan
    Processors = {p1, p2}
    Workers = {w1, w2}
    Operators = {}
    MaxRetries = 1
    BatchSize = 1
    DLQMaxLen = 1
    MaxMsgs = 1
    MaxDead = 2
    Prompt = FALSE
    Faults = {"ack", "claim", "crash"}
SPECIFICATION Spec
SYMMETRY Symmetry
INVARIANTS
    NoSilentLoss
    RunsArePaidFor
    DeliveryBound
    BuriedAfterBudget
PROPERTIES
    LedgerSpec
