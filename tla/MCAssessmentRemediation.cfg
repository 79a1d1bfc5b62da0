\* A start request after the only attempt failed.
SPECIFICATION Spec
CONSTANTS
    Items = {i1, i2}
    MaxAttempts = 1
    Limit = 2
    Prefixes = {p1}
    Starters = {t1, t2}
    Submissions = {s1}
    Workers = {w1}
    None = None
INVARIANTS
    RefusalLeavesPath
CHECK_DEADLOCK FALSE
