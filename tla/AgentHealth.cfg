\* The intervals of cmd/server and internal/agent in units of five thirds of a
\* second; no message is under way for longer than one, and no two calls in a
\* row fail.
CONSTANTS
    Agents = {a1}
    Period = 6
    ClientTimeout = 9
    Interval = 9
    Threshold = 18
    MaxDelay = 1
    MaxFailures = 1
    MaxSteps = 1
    Forward = 19
    Back = 3
SPECIFICATION Spec
INVARIANTS
    TypeOK
    NoFalseOffline
    DetectionBound
    OfflineMeansStale
PROPERTIES
    ForgottenStays
    CrashedDetected
    OfflineRecovers
