\* Three requests, two of a user at one time, over two users and three keys.
SPECIFICATION Spec
CONSTANTS
    Requests = {r1, r2, r3}
    Keys = {k1, k2, k3}
    Workers = {w1}
    u1 = u1  u2 = u2  e0 = e0  e1 = e1  eDraft = eDraft
    Users = {u1, u2}
    Exercises = {e0, eDraft}
    MCTests = 0
    Published <- MCPublished
    TestCount <- MCTestCount
    DailyQuota <- MCDailyQuota
    NoQuota = NoQuota
    Limit = 1
    MaxOpen = 2
    MaxCopies = 2
    MaxFaults = 1
    None = None
SYMMETRY Symmetry
INVARIANTS
    OneAttemptPerKey
    AnswersOwnAttempt
    
    
    NumberSharedOnlyByRacers
CHECK_DEADLOCK FALSE
