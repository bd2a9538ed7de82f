SPECIFICATION Spec
CONSTANTS
    Circle = 3
    MaxSpeed = 1
    DeltaSpeed = 1
    Mantissa = 8
    Grains = {1, 2, 4}
    FireRate = 2
    Spawned = 1
    MaxEntities = 17
    Byte = 4
    Control = {}
    MaxOnWay = 2
    MaxRepeats = 1
INVARIANTS
    ShotsAreSpaced
    UniverseIsReadable
    UniverseIdsAreDistinct
