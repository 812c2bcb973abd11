SPECIFICATION FairSpec
CONSTANTS
    s1 = s1
    s2 = s2
    NoSession = NoSession
    Sessions = {s1}
    Ttl = 1
    MaxCrashes = 0
    Faults = {"range"}
PROPERTY ExpiredIsProcessed
