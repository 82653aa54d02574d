\* The consumer alone, nothing fails, no poison.
CONSTANTS
    e1 = e1
    e2 = e2
    e3 = e3
    k1 = k1
    None = None
    Log <- LogClean
    Events = {e1, e2, e3}
    Keys = {k1}
    KeyOf <- OneKey
    Window = 0
    MaxTime = 2
    MaxAlerts = 3
    Consumer = consumer
    Replayers = {}
    CanFail = FALSE
    CanRestart = FALSE
SPECIFICATION FairSpec
INVARIANTS CommittedHasEvidence
PROPERTIES Drains
CHECK_DEADLOCK FALSE
