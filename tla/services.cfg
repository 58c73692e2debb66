SPECIFICATION Spec
CONSTANTS
    Requests = {r1, r2}
    Calls = {c1, c2, c3}
    Browsers = {r1, r2}
    Chats = {r1, r2}
    Conversations = {conversation}
    Users = {alice, bob}
    Nobody = Nobody
    None = None
    Off = Off
    KeyCounts = {0, 1, 2, 3, 4}
    MaxChunks = 1
    Life = 3
    ExpiryBuffer = 1
    DefaultTtl = 4
    MaxDelay = 1
    SpotifyClock = 4
    SpotifyTokenBound = 3
    RefreshLife = 1
    AuthClock = 2
    AuthTokenBound = 3
    MaxStamps = 3
    Legacy = 2
    MaxMessages = 3
    MemoryClock = 1
    MonitorClock = 2
    CompactFrom = 2
    ReadLimit = 3
    WindowBudget = 2
    SummaryBudgets = {1, 3}
SYMMETRY Symmetry
INVARIANTS
    CountsAndDeletionsHold
    HistoryHolds
    RotationIsFair
    AccountStaysUsable
    SessionsHold
    MemoryIsAccountedFor
    StatusIsTrue
PROPERTY
    CachedTokenIsValid
CHECK_DEADLOCK FALSE
