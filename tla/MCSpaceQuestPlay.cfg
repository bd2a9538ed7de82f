SPECIFICATION FairSpecAll
CONSTANTS
    ann = ann
    ben = ben
    Client = {ann, ben}
    MaxShip = 4
    MaxCopies = 2
    Lossy = FALSE
    Redelivered = {}
    Running = {"login", "user", "game"}
    MaxMasterStarts = 0
    MAX_BUCKETS = 2
    MaxRequests = 2
    Slow = FALSE
    Prepared = TRUE
    Spawned = 1
    MaxBullets = 1
    MaxStarts = 1
    Sends = {"FIRE"}
    Interruptible = FALSE
INVARIANTS
    TypeOKAll
    BucketsAreBalanced
    LoginsAreUnderway
PROPERTIES
    ClientsComeToPlay
    PlayersAreServed
    CommandsReachTheirShip
    ImplementsSpaceQuest
