\* Two requests with one key, two calls in flight, every failure.
CONSTANTS
    r1 = r1
    r2 = r2
    k1 = k1
    k2 = k2
    None = None
    Requests = {r1, r2}
    Keys = {k1, k2}
    KeyOf <- SameKey
    Targets = {r1, r2}
    TargetOf <- OwnTarget
    Sessions = {s1, s2}
    MaxRollbacks = 2
    CanFail = TRUE
SPECIFICATION Spec
INVARIANTS TypeOK DecisionGoverns OneRequestPerKey EvidenceIsAudited
PROPERTIES KeepsPromise
SYMMETRY SessionSymmetry
CHECK_DEADLOCK FALSE
