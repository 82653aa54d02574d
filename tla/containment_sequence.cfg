\* One call at a time, every failure, two requests for two endpoints.
CONSTANTS
    r1 = r1
    r2 = r2
    k1 = k1
    k2 = k2
    None = None
    Requests = {r1, r2}
    Keys = {k1, k2}
    KeyOf <- OwnKey
    Targets = {r1, r2}
    TargetOf <- OwnTarget
    Sessions = {s1}
    MaxRollbacks = 2
    CanFail = TRUE
SPECIFICATION Spec
INVARIANTS AtMostOneExecution StatusTellsEndpoint ChainLinked
CHECK_DEADLOCK FALSE
