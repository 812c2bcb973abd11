SPECIFICATION FairSpec
CONSTANTS
    t1 = t1
    t2 = t2
    w1 = w1
    w2 = w2
    f1 = f1
    f2 = f2
    NoJob = NoJob
    Tracks = {t1, t2}
    Workers = {w1, w2}
    HlsFiles = {f1}
    Partitions = {1, 2}
    MaxCopies = 1
    Faults = {"invalid", "store", "insert", "publish", "apicrash", "s3", "ffmpeg"}
INVARIANT LeftoversAreHarmless
PROPERTIES AcknowledgedUploadSettles
