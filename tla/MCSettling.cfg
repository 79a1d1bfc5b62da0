\* Two requests of one user with one key, two workers, two test cases, two failures.
SPECIFICATION FairSpec
CONSTANTS
    Requests = {r1, r2}
    Keys = {k1}
    Workers = {w1, w2}
    u1 = u1  u2 = u2  e0 = e0  e1 = e1  eDraft = eDraft
    Users = {u2}
    Exercises = {e1}
    MCTests = 2
    Published <- MCPublished
    TestCount <- MCTestCount
    DailyQuota <- MCDailyQuota
    NoQuota = NoQuota
    Limit = 2
    MaxOpen = 2
    MaxCopies = 2
    MaxFaults = 2
    None = None
INVARIANTS
    TypeOK
    
PROPERTIES
    ImplementsLifecycle
    EveryAttemptSettles
CHECK_DEADLOCK FALSE
