\* Two rows, four deliveries of four events, a cancel request.
SPECIFICATION Spec
CONSTANTS
    MaxRows = 2
    Events <- MCEvents
    Deliveries = {d1, d2, d3, d4}
    Cancels = {c1}
    GracePeriod = 1
    MaxDay = 3
    None = None
SYMMETRY Symmetry
INVARIANTS
    EventAppliedOnce
    
PROPERTIES
    
    EndedIsFinal
CHECK_DEADLOCK FALSE
