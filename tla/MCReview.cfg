\* Two sessions, two concepts, three answers over two keys, two workers.
SPECIFICATION FairSpec
CONSTANTS
    MaxSessions = 2
    Concepts = {c1, c2}
    Keys = {k1, k2}
    MaxRequests = 3
    Workers = {w1, w2}
    None = None
INVARIANTS
    DecisionMatchesItems
    ItemRunsOnce
PROPERTIES
    CompletedIsFinal
    AnsweredSessionIsDecided
CHECK_DEADLOCK FALSE
