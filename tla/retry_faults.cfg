SPECIFICATION FairSpec
CONSTANTS
    Calls = {c1}
    Handlers = {h1, h2}
    NoCall = NoCall
    Services <- MCServices
    ServiceOf <- MCServiceOf
    Configs <- ManyConfigs
    FaultKinds = {"store", "publish", "unconfirmed", "connection", "crash", "startup"}
    MaxFaults = 2
INVARIANTS
    AttemptsBounded
    NoSilentLoss
    ForksOnlyByRedelivery
    LogsExplainQueue
PROPERTIES
    ImplementsContract
    EveryRetrySettles
CHECK_DEADLOCK FALSE
