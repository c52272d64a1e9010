SPECIFICATION Spec
CONSTANTS
    t1 = t1
    t2 = t2
    t3 = t3
    NoTrack = NoTrack
    Tracks = {t1, t2, t3}
    ShortTracks = {}
    HasProbe = TRUE
    MaxGeneration = 3
    MaxStop = 1
INVARIANTS
    IndexLandsOnPreloadedRow
CHECK_DEADLOCK FALSE
