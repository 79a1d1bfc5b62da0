\* One account, two wrong codes allowed and three sent.
SPECIFICATION Spec
CONSTANTS
    Identifiers = {i1}
    Spellings = {s1}
    MaxTokens = 1
    MaxAttempts = 2
    MaxWrong = 3
    Clients = {c1}
INVARIANTS
    AttemptsExhausted
CHECK_DEADLOCK FALSE
