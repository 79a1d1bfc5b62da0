\* Two items, up to two attempts, three starts, two submit requests, two workers.
SPECIFICATION FairSpec
CONSTANTS
    Items = {i1, i2}
    MaxAttempts = 2
    Limit = 2
    Prefixes = {p1, p2}
    Starters = {t1, t2, t3}
    Submissions = {s1, s2}
    Workers = {w1, w2}
    None = None
INVARIANTS
    AtMostOneInProgress
    NoAttemptAfterPass
    RunAnswersOnce
    
PROPERTIES
    FailedIsFinal
    
CHECK_DEADLOCK FALSE
