SPECIFICATION Spec
CONSTANTS
    t1 = t1
    t2 = t2
    t3 = t3
    NoTrack = NoTrack
    Tracks = {t1, t2, t3}
    ShortTracks = {}
    HasProbe = TRUE
    MaxGeneration = 3
    MaxStop = 2
INVARIANTS
    CommitLandsOnArmedRow
    StopForbidsHandoff
    FinishedIsHeard
PROPERTIES
    DisplayFollowsSound
    StartedIsSettled
CHECK_DEADLOCK FALSE
