SPECIFICATION Spec
CONSTANTS
    Services = {"platform", weather}
    HourLength = 2
    WindowHours = 1
    MaxAudits = 3
    MaxRecords = 3
    Requests = {first, second, third}
    MaxRefreshes = 2
    JsonValues <- SmallJsonValues
    Documents <- SmallDocuments
    Segments = {"a", "b"}
    Paths <- SmallPaths
    ListKeys <- SmallListKeys
    Sources <- SmallSources
    KeyOf <- SmallKeyOf
    Colors = {"red"}
    OtherColors = {"own", "p1", "p2"}
    Palette <- TwoColors
    Columns = {"cell", "id"}
    Tables <- SmallTables
    NumberOf <- SmallNumberOf
    TextRankOf <- SmallTextRankOf
    Queries <- SmallQueries
    Absent = "null"
    PageSize = 2
    PlaneWidth = 7
    Sessions = 3
    Fields = {to, body}
    Required = {to}
    Texts = {text}
    Blank = Blank
    MaxMounts = 3
    Word = Word
    Responses <- SmallResponses
    Answers <- SmallAnswers
    MaxQueries = 2
    Touches = {thumb, finger}
    Mouse = Mouse
    ImageWidth = 2
    MaxZoom = 3
    Accounts = {alice, bob}
    MaxEvents = 4
    None = None
    Off = Off
INVARIANTS
    SummaryTellsTheLog
    RefreshIsHonest
    DataAreFound
    ColorsAndBarsHold
    TableShowsRows
    FormKeepsInput
    TimerCounts
    SettingsAreTrue
    ViewerHolds
    AccessSettles
PROPERTY
    ChartsObey
CHECK_DEADLOCK FALSE
