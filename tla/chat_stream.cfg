SPECIFICATION FairSpec
CONSTANT MaxEvents = 3
INVARIANTS
    ShownAsSent
    OutcomeIsRecorded
PROPERTY
    StreamEnds
CHECK_DEADLOCK FALSE
