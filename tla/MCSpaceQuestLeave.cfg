SPECIFICATION Spec
CONSTANTS
    ann = ann
    ben = ben
    Client = {ann, ben}
    MaxShip = 3
    MaxCopies = 1
    Lossy = TRUE
    Redelivered = {}
    Running = {"user", "game"}
    MaxMasterStarts = 0
    MAX_BUCKETS = 2
    MaxRequests = 3
    Slow = TRUE
    Prepared = FALSE
    Spawned = 0
    MaxBullets = 1
    MaxStarts = 1
    Sends = {"FIRE"}
    Interruptible = TRUE
SYMMETRY ClientSymmetry
INVARIANTS
    PendingUsersAreCovered
    AnswersAreCounted
    NoClientAborts
    UsersSteerTheirOwnShips
    FreePlacesAreFree
    ServedOnce
\* A server that met undefined behaviour stops, and the others wait for it.
CHECK_DEADLOCK FALSE
