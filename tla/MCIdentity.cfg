\* One identifier in two spellings, three tokens, three requests.
SPECIFICATION Spec
CONSTANTS
    Identifiers = {i1}
    Spellings = {s1, s2}
    MaxTokens = 3
    MaxAttempts = 2
    MaxWrong = 1
    Clients = {c1, c2, c3}
SYMMETRY Symmetry
INVARIANTS
    
    
    RotatedOnce
    OneLivingToken
PROPERTIES
    EndedLoginStaysEnded
CHECK_DEADLOCK FALSE
