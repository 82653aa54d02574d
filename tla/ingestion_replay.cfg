\* The consumer and a replay; awaits raise, the service restarts.
CONSTANTS
    e1 = e1
    e2 = e2
    e3 = e3
    k1 = k1
    None = None
    Log <- LogMixed
    Events = {e1, e2, e3}
    Keys = {e1, e2, e3}
    KeyOf <- OwnKey
    Window = 0
    MaxTime = 0
    MaxAlerts = 5
    Consumer = consumer
    Replayers = {w1}
    CanFail = TRUE
    CanRestart = TRUE
SPECIFICATION Spec
INVARIANTS TypeOK CommittedHasEvidence ObservedAtMostOnce
PROPERTIES LetterLifecycle
CHECK_DEADLOCK FALSE
