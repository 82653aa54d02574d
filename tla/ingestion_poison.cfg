\* The consumer alone, one unparsable delivery, restarts.
CONSTANTS
    e1 = e1
    e2 = e2
    e3 = e3
    k1 = k1
    None = None
    Log <- LogPoison
    Events = {e1, e2, e3}
    Keys = {k1}
    KeyOf <- OneKey
    Window = 0
    MaxTime = 0
    MaxAlerts = 3
    Consumer = consumer
    Replayers = {}
    CanFail = FALSE
    CanRestart = FALSE
SPECIFICATION FairSpec
PROPERTIES ReceiptReleasesPartition
CHECK_DEADLOCK FALSE
