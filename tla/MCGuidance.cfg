\* Three hint requests, two open at a time, over two attempts and two levels;
\* two drafts, two publish requests, one decision.
SPECIFICATION Spec
CONSTANTS
    HintRequests = {1, 2, 3}
    a1 = a1  a2 = a2  s1 = s1  s2 = s2
    HintAttempts = {a1, a2}
    Students = {s1, s2}
    OwnerOf <- MCOwnerOf
    HintQuota <- MCHintQuota
    Unlimited = Unlimited
    MaxHintLevel = 2
    MaxCalls = 2
    MaxOpenHints = 2
    MaxHintFaults = 1
    NoAttempt = NoAttempt
    Drafts = {1, 2}
    Publishes = {1, 2}
    m1 = m1  l1 = l1  c1 = c1
    Modules = {m1}
    Lessons = {l1}
    ModuleOf <- MCModuleOf
    Concepts = {c1}
    Payloads <- MCPayloads
    Decisions = {i1}
    GateReadings <- MCGateReadings
    NoContent = NoContent
INVARIANTS
    RepeatedOnlyByRace
    HintOverrunBounded
    CallsAccountedFor
    DuplicatesOnlyByRace
    FollowsLadder
PROPERTIES
    DeliversInSequence
    
    FlaggedGetsReview
CHECK_DEADLOCK FALSE
