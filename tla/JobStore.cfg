\* Three jobs of two types compete for two agents; one limit is
\* below the first attempt, one leaves room for a retry.
CONSTANTS
    JobIDs = {j1, j2, j3}
    AgentIDs = {a1, a2}
    JobTypes = {copy, wait}
    RetryLimits = {0, 2}
    NoAgent = NoAgent
SPECIFICATION StoreSpec
SYMMETRY JobsAndAgents
INVARIANTS
    StoreTypeOK
    JobOrderComplete
    AttemptsBounded
    NotFailedEarly
    OwnerConsistency
PROPERTIES
    NoOvertaking
    AttemptsCounted
