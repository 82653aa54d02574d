\* Two racing operations, endpoints and a network that owe nothing, no rollback.
CONSTANTS
    k1 = k1
    e1 = e1
    None = None
    Requests = {r1}
    Keys = {k1}
    KeyOf <- OneKey
    Targets = {e1}
    TargetOf <- OneTarget
    Sessions = {s1, s2}
    MaxRollbacks = 0
    CanFail = FALSE
    RequestTimeout = 1
    Timeout = 1
    Poll = 1
    MaxAge = 1
    MaxTime = 3
SPECIFICATION FairSpec
PROPERTIES EnforcementLeavesEvidence
CHECK_DEADLOCK FALSE
