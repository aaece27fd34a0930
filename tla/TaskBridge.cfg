\* Two processes that share the default agent id, two jobs with one retry, two faults.
CONSTANTS
    j1 = j1
    j2 = j2
    w1 = w1
    w2 = w2
    a1 = a1
    a2 = a2
    copy = copy
    wait = wait
    JobIDs = {j1, j2}
    AgentIDs = {a1}
    JobTypes = {wait}
    RetryLimits = {2}
    NoAgent = NoAgent
    Workers = {w1, w2}
    AgentOf <- SharedId
    Capabilities <- OnlyWait
    NoJob = NoJob
    MaxFaults = 2
    MaxStops = 1
SPECIFICATION Spec
SYMMETRY JobAndWorkerSymmetry
INVARIANTS
    TypeOK
    OneAttemptAtATime
    ReportsCurrentAttempt
    OneOrphanPerFault
    FailedAfterLastAttempt
PROPERTIES
    SettledStays
    ImplementsLease
