SPECIFICATION Spec
CONSTANTS
    NoTrack = NoTrack
    Tracks = {t1, t2}
PROPERTY StartedTrackIsPinged
