\* Two agents on one host, two files; durations of 4 bits and of two units a second.
CONSTANTS
    w1 = w1
    w2 = w2
    p = p
    q = q
    a = a
    b = b
    Workers = {w1, w2}
    Paths = {p, q}
    Blocks = {a, b}
    Contents <- TwoContents
    Hole = Hole
    Absent = Absent
    Statuses = {200, 204}
    JobsOf <- AllAndCopy
    Second = 2
    Default = 5
    Word = 16
SPECIFICATION FairSpec
INVARIANTS
    TypeOK
    SuccessIsFaithful
    MissingSourceHarmless
    AcceptedIsUsable
    WaitVerdict
PROPERTIES
    ExecutionEnds
