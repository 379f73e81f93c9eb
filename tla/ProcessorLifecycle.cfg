CONSTANTS
    Workers = {w1, w2}
    ChanCap = 2
    MaxJobs = 3
SPECIFICATION Spec
INVARIANTS
    StoppedMeansDrained
PROPERTIES
    StopEnds
