SPECIFICATION FairSpec
CONSTANTS
    Circle = 3
    MaxSpeed = 3
    DeltaSpeed = 3
    Mantissa = 8
    Grains = {1, 2, 4}
    FireRate = 1
    Spawned = 0
    MaxEntities = 1
    Byte = 4
    Control <- MCControl
    MaxOnWay = 2
    MaxRepeats = 1
INVARIANTS
    TypeOK
    TurnsBalance
    ThrustBalances
    BrakeFollowsInOrder
PROPERTIES
    HeldBrakeStops
