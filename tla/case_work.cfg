\* Two calls of the case service, and one of the alert workflow, in flight.
CONSTANTS
    k1 = k1
    None = None
    Detections = {d1}
    Keys = {k1}
    KeyOf <- OneKey
    Window = 0
    Sessions = {s1}
    Analysts = TRUE
    MaxTime = 0
    MaxAlerts = 1
    Targets = {"in_progress", "closed", "approved", "running", "cancelled"}
    Desks = {a1, a2}
    MaxCases = 2
    MaxRuns = 1
SPECIFICATION Spec
INVARIANTS TypeOK RunsAreApproved EscalatedIsTriaged OneCasePerAlert TimelineTells
PROPERTIES LifecyclesLegal
SYMMETRY Interchangeable
CHECK_DEADLOCK FALSE
