\* Two calls in flight; the window is shorter than the run.
CONSTANTS
    k1 = k1
    None = None
    Detections = {d1, d2}
    Keys = {k1}
    KeyOf <- OneKey
    Window = 0
    Sessions = {s1, s2}
    Analysts = TRUE
    MaxTime = 1
    MaxAlerts = 2
SPECIFICATION Spec
INVARIANTS TypeOK CountTellsDetections OneActiveAlert IngestedIsLinked
PROPERTIES LifecycleLegal
SYMMETRY Interchangeable
CHECK_DEADLOCK FALSE
