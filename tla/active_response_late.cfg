\* One operation whose deadline falls between two rounds.
CONSTANTS
    k1 = k1
    e1 = e1
    None = None
    Requests = {r1}
    Keys = {k1}
    KeyOf <- OneKey
    Targets = {e1}
    TargetOf <- OneTarget
    Sessions = {s1}
    MaxRollbacks = 0
    CanFail = FALSE
    RequestTimeout = 1
    Timeout = 1
    Poll = 2
    MaxAge = 1
    MaxTime = 5
SPECIFICATION Spec
PROPERTIES NothingArrived
CHECK_DEADLOCK FALSE
