SPECIFICATION FairSpec
CONSTANTS
    Turns = {t1, t2}
    Existing = {e1}
    New = {n1}
    OldTurn = old
    None = None
    Waiting = Waiting
INVARIANTS
    StreamUnderControl
    NothingSentDisappears
PROPERTY
    EverySendEnds
CHECK_DEADLOCK FALSE
