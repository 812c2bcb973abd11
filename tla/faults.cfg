SPECIFICATION Spec
CONSTANTS
    t1 = t1
    t2 = t2
    w1 = w1
    w2 = w2
    f1 = f1
    NoJob = NoJob
    Tracks = {t1, t2}
    Workers = {w1, w2}
    HlsFiles = {f1}
    Partitions = {1}
    MaxCopies = 1
    Faults <- AllFaults
SYMMETRY Symmetry
INVARIANTS TypeOK OneHolderPerTrack ReadyIsPlayable AcknowledgedUploadIsDurable ReportFindsItsClaim
PROPERTIES ReadyIsFinal CommitsNeverRewind ImplementsLifecycle
