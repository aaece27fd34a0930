\* One agent and a copy whose source is its destination.
CONSTANTS
    w1 = w1
    w2 = w2
    p = p
    q = q
    a = a
    b = b
    Workers = {w1}
    Paths = {p, q}
    Blocks = {a, b}
    Contents <- TwoContents
    Hole = Hole
    Absent = Absent
    Statuses = {200, 204}
    JobsOf <- CopyOntoItself
    Second = 2
    Default = 5
    Word = 16
SPECIFICATION Spec
INVARIANTS
    CopyIsFaithful
