SPECIFICATION FairSpec
CONSTANTS
    Responses <- ShopResponses
    Queries = {"x"}
    Entries <- ServiceEntries
    PageSize = 2
    MaxClicks = 2
    MaxVisits = 2
    None = None
PROPERTY NamedSourcesAreRefreshed
CHECK_DEADLOCK FALSE
