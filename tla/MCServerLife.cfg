SPECIFICATION FairLifeSpec
CONSTANTS
    ann = ann
    ben = ben
    Key = {ann}
    ID = {1}
    Hold = 1
    MaxTime = 3
    Kinds = {"master", "login", "user", "game"}
INVARIANTS
    LifeTypeOK
    DaemonEndsFirst
    OneLateSend
PROPERTIES
    FiltersDupes
    OldEntriesOnly
    PacketsAreDecided
    InterruptEnds
\* The process ends, or waits for mtx for ever.
CHECK_DEADLOCK FALSE
