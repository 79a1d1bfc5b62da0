\* Two workers evaluate the two answers of one attempt.
SPECIFICATION Spec
CONSTANTS
    Items = {i1, i2}
    MaxAttempts = 1
    Limit = 2
    Prefixes = {p1}
    Starters = {t1}
    Submissions = {s1}
    Workers = {w1, w2}
    None = None
INVARIANTS
    ResolvedIsDecided
CHECK_DEADLOCK FALSE
