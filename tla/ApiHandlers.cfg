\* Two handlers at a time, two jobs that may be run twice.
CONSTANTS
    JobIDs = {j1, j2}
    AgentIDs = {a1}
    JobTypes = {wait}
    RetryLimits = {2}
    NoAgent = NoAgent
    Handlers = {h1, h2}
    Unknown = Unknown
    Nothing = Nothing
    MaxStamps = 2
SPECIFICATION ApiSpec
SYMMETRY HandlersAndJobs
INVARIANTS
    ApiTypeOK
    CreateVerdict
    CancelVerdict
    OneReport
    ResultAccepted
    ShowsResult
    ListedInRealTime
PROPERTIES
    RealTimeFIFO
