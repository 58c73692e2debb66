SPECIFICATION Spec
CONSTANTS
    t1 = t1  t2 = t2
    s1 = s1  c1 = c1  k1 = k1
    Tabs = {t1, t2}
    Streams = {s1}
    Calls = {c1}
    Checks = {k1}
    Placements <- TwoPlacements
    MaxTokens = 2
INVARIANTS
    OneRefreshPerTab
PROPERTIES
    ResentWithNewerToken
    RequestsSettle
CHECK_DEADLOCK FALSE
