\* One request, two racing operations, every failure and stop; dispatching takes no time.
CONSTANTS
    k1 = k1
    e1 = e1
    None = None
    Requests = {r1}
    Keys = {k1}
    KeyOf <- OneKey
    Targets = {e1}
    TargetOf <- OneTarget
    Sessions = {s1, s2}
    MaxRollbacks = 1
    CanFail = TRUE
    RequestTimeout = 0
    Timeout = 1
    Poll = 1
    MaxAge = 1
    MaxTime = 2
SPECIFICATION Spec
INVARIANTS TypeOK RecordIsProven StatusTellsEndpoint
SYMMETRY SessionSymmetry
CHECK_DEADLOCK FALSE
