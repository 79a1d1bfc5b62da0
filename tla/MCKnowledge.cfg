\* Two workers; two attempts on one concept, two on both concepts.
SPECIFICATION Spec
CONSTANTS
    c1 = c1
    Concepts = {c1, c2}
    Single = {a1, a2}
    Double = {b1, b2}
    Attempts <- MCAttempts
    ConceptsOf <- MCConceptsOf
    Workers = {w1, w2}
    Window = 2
    MinEvidence = 2
    ProficientPct = 60
    MasteredPct = 85
    StrongPct = 75
    Threshold = 2
    None = None
SYMMETRY Symmetry
INVARIANTS
    FlawCountExact
    CountsAllEvidence
    MasteredIsEarned
PROPERTIES
    NoLeap
CHECK_DEADLOCK FALSE
