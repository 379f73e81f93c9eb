CONSTANTS
    j1 = j1 j2 = j2 j3 = j3 p1 = p1 p2 = p2 w1 = w1 w2 = w2 o1 = o1 o2 = o2
    Jobs = {j1, j2, j3}
    Kind <- PlanAndOthers
    Processors = {p1}
    Workers = {w1}
    Operators = {}
    MaxRetries = 1
    BatchSize = 1
    DLQMaxLen = 2
    MaxMsgs = 2
    MaxDead = 4
    Prompt = FALSE
    Faults = {}
SPECIFICATION LoopSpec
INVARIANTS
    TypeOK
PROPERTIES
    EveryDeliverySettles
    EverythingSettles
