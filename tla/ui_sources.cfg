SPECIFICATION FairSpec
CONSTANTS
    Responses <- AllResponses
    Queries = {"x"}
    Entries <- ServiceEntries
    PageSize = 2
    MaxClicks = 2
    MaxVisits = 2
    None = None
INVARIANTS
    SourcesAgree
PROPERTIES
    HistoryStays
    RefreshedOnOpen
CHECK_DEADLOCK FALSE
