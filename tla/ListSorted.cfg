\* Two handlers create two jobs.
CONSTANTS
    JobIDs = {j1, j2}
    AgentIDs = {a1}
    JobTypes = {wait}
    RetryLimits = {2}
    NoAgent = NoAgent
    Handlers = {h1, h2}
    Unknown = Unknown
    Nothing = Nothing
    MaxStamps = 2
SPECIFICATION ApiSpec
INVARIANTS
    ListSorted
