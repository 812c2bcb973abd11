SPECIFICATION Spec
CONSTANTS
    k1 = k1
    k2 = k2
    p1 = p1
    s1 = s1
    Nobody = Nobody
    NoTrack = NoTrack
    Tracks = {k1, k2}
    Listeners = {s1}
    Partitions = {p1}
    Events <- AllEvents
    MaxEvents = 2
    MaxTotal = 5
    MaxRestarts = 2
    Window = 1
    Day = 2
    TopLimit = 1
    Faults <- AllFaults
SYMMETRY Symmetry
INVARIANT TypeOK
PROPERTY PlaysAreConserved
