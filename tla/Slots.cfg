SPECIFICATION Spec
CONSTANTS
    s1 = s1
    s2 = s2
    b1 = b1
    b2 = b2
    unknown = unknown
    z1 = z1
    z2 = z2
    NoBook = NoBook
    Outside = Outside
    Slots <- MCSlots
    Books <- MCBooks
    Registered <- MCRegistered
    Zones <- MCZones
    Home <- MCHome
    RequiredSamples = 2
    MaxEvents = 2
    MaxCommands = 1
    MaxMoves = 5
    MaxFaults = 1
INVARIANTS BoardIsTrue BookInSlotHasTask TaskForEachBook BlinkIsTarget
PROPERTY ShelvedWasTaken
SYMMETRY MCSymmetry
