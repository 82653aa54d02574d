\* One policy of either setting; two calls in flight.
CONSTANTS
    None = None
    d1 = d1
    d2 = d2
    o1 = o1
    a1 = a1
    LastPolicy = 1
    Settings <- Either
    Hour = 1
    Detections = {d1, d2}
    Callers = {o1, a1}
    CanFail = TRUE
    MaxTime = 3
    MaxIds = 2
SPECIFICATION Spec
INVARIANTS TypeOK ProposalIsRequested OneDecision CooldownHolds HourlyLimitHolds
SYMMETRY Interchangeable
CHECK_DEADLOCK FALSE
