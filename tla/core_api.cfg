SPECIFICATION FairSpec
CONSTANTS
    NoTrack = NoTrack
    Tracks = {t1, t2}
    HlsFiles = {f1}
    Partitions = {1}
    MaxCopies = 1
    Faults = {"invalid", "store", "publish"}
    ServerFaults = {"listen", "serve", "stop", "kill"}
INVARIANTS TypeOK HandlersHaveTheirClients DuplicateNeedsLostAnswer DeadLinkNeedsRollback ListedStaysPlayable
PROPERTY ServesAgain
