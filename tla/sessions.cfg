SPECIFICATION FairSpec
CONSTANTS
    s1 = s1
    s2 = s2
    NoSession = NoSession
    Sessions = {s1, s2}
    Ttl = 1
    MaxCrashes = 1
    Faults = {"send", "write", "range", "crash"}
INVARIANT TypeOK
PROPERTY LeaverIsForgotten LeaverIsReported UnreportedIsKept
