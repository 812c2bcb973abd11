SPECIFICATION Spec
CONSTANTS
    k1 = k1
    k2 = k2
    s1 = s1
    p1 = p1
    p2 = p2
    Nobody = Nobody
    NoTrack = NoTrack
    Tracks = {k1, k2}
    Listeners = {s1}
    Partitions = {p1, p2}
    Events <- StartsAndPresence
    MaxEvents = 3
    MaxTotal = 3
    MaxRestarts = 1
    Window = 1
    Day = 2
    TopLimit = 1
    Faults = {"consumer", "count", "database"}
SYMMETRY Symmetry
INVARIANT PlaysNotOvercounted
INVARIANT PlaysCountedOnce
INVARIANT OnlineIsWithinDay
INVARIANT OnlineHasPlayed
