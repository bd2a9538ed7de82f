SPECIFICATION Spec
CONSTANTS
    ann = ann
    ben = ben
    Client = {ann, ben}
    MaxShip = 3
    MaxCopies = 1
    Lossy = FALSE
    Redelivered = {}
    Running = {"user", "game"}
    MaxMasterStarts = 0
    MAX_BUCKETS = 2
    MaxRequests = 2
    Slow = FALSE
    Prepared = TRUE
    Spawned = 0
    MaxBullets = 1
    MaxStarts = 1
    Sends = {}
    Interruptible = TRUE
SYMMETRY ClientSymmetry
PROPERTIES
    AddressFindsUserInfo
\* A server that met undefined behaviour stops, and the others wait for it.
CHECK_DEADLOCK FALSE
