\* One attempt, one request that answers some of the items.
SPECIFICATION Spec
CONSTANTS
    Items = {i1, i2}
    MaxAttempts = 1
    Limit = 2
    Prefixes = {p1}
    Starters = {t1}
    Submissions = {s1}
    Workers = {w1}
    None = None
INVARIANTS
    PassedMeansAllItemsPassed
CHECK_DEADLOCK FALSE
