CONSTANTS
    Plans = {p1, p2}
    Schedulers = {s1, s2}
    Free = Free
    BatchSize = 1
    MaxJobs = 1
    MaxFaults = 1
    Toggles = {p2}
    Stops = {s2}
SPECIFICATION FairSpec
INVARIANTS
    OwnsUnlessExpired
PROPERTIES
    DuePlansGetJobs
