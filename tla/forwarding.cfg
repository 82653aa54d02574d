\* A batch of two; a retry can overtake its first attempt.
CONSTANTS
    None = None
    h1 = h1
    h2 = h2
    Alerts <- FourAlerts
    KindOf <- OneOfEach
    BatchSize = 2
    Handlers = {h1, h2}
    MaxFaults = 2
SPECIFICATION FairSpec
INVARIANTS TypeOK NothingDropped RecordedIsEvidence
PROPERTIES RevokedStaysOut KeepsHandoff EveryAlertArrives
CHECK_DEADLOCK FALSE
