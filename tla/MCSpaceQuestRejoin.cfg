SPECIFICATION Spec
CONSTANTS
    ann = ann
    ben = ben
    Client = {ann}
    MaxShip = 2
    MaxCopies = 1
    Lossy = TRUE
    Redelivered = {}
    Running = {"user", "game"}
    MaxMasterStarts = 1
    MAX_BUCKETS = 2
    MaxRequests = 3
    Slow = TRUE
    Prepared = FALSE
    Spawned = 0
    MaxBullets = 1
    MaxStarts = 2
    Sends = {"USE"}
    Interruptible = TRUE
INVARIANTS
    TypeOK
    PendingUsersAreCovered
    FreePlacesAreFree
\* A server that met undefined behaviour stops, and the others wait for it.
CHECK_DEADLOCK FALSE
