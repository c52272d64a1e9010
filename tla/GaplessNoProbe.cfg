SPECIFICATION Spec
CONSTANTS
    t1 = t1
    t2 = t2
    t3 = t3
    NoTrack = NoTrack
    Tracks = {t1, t2, t3}
    ShortTracks = {t3}
    HasProbe = FALSE
    MaxGeneration = 3
    MaxStop = 1
PROPERTIES
    DisplayCatchesUp
CHECK_DEADLOCK FALSE
