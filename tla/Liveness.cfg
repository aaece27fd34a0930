\* Two agents, one of which runs one of the two types; one fault.
CONSTANTS
    j1 = j1
    j2 = j2
    w1 = w1
    w2 = w2
    a1 = a1
    a2 = a2
    copy = copy
    wait = wait
    JobIDs = {j1, j2}
    AgentIDs = {a1, a2}
    JobTypes = {copy, wait}
    RetryLimits = {2}
    NoAgent = NoAgent
    Workers = {w1, w2}
    AgentOf <- TwoAgents
    Capabilities <- AllAndWait
    NoJob = NoJob
    MaxFaults = 1
    MaxStops = 1
SPECIFICATION SmallFairSpec
INVARIANTS
    HolderIsAssignee
PROPERTIES
    EventuallyAtRest
    StopEnds
