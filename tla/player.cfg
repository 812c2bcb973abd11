SPECIFICATION Spec
CONSTANTS
    NoTrack = NoTrack
    Tracks = {t1, t2, t3}
INVARIANTS TypeOK NoIntervalIsLost PausedIsSilent PingsMatchSound LeftTrackIsStopped
