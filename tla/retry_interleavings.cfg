SPECIFICATION Spec
CONSTANTS
    Calls = {c1, c2}
    Handlers = {h1, h2}
    NoCall = NoCall
    Services <- MCServices
    ServiceOf <- MCServiceOf
    Configs <- ShortConfig
    FaultKinds = {"store", "publish", "unconfirmed", "connection", "crash", "startup"}
    MaxFaults = 1
SYMMETRY Symmetry
INVARIANTS
    StatusNeverOvercounts
    StatusCoherent
    CallerOutcomeAudited
CHECK_DEADLOCK FALSE
