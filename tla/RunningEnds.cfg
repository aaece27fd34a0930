\* One job, two workers that keep running, one fault.
CONSTANTS
    j1 = j1
    j2 = j2
    w1 = w1
    w2 = w2
    a1 = a1
    a2 = a2
    copy = copy
    wait = wait
    JobIDs = {j1}
    AgentIDs = {a1}
    JobTypes = {wait}
    RetryLimits = {2}
    NoAgent = NoAgent
    Workers = {w1, w2}
    AgentOf <- SharedId
    Capabilities <- OnlyWait
    NoJob = NoJob
    MaxFaults = 1
    MaxStops = 0
SPECIFICATION FairSpec
PROPERTIES
    RunningEnds
