SPECIFICATION Spec
CONSTANTS
    a = a
    b = b
    c = c
    d = d
    NoTrack = NoTrack
    Tracks = {a, b, d}
    Unresolvable = {b}
    DsdTracks = {d}
    Lists <- ListsSkip
    RepeatModes = {"Off", "All"}
    ShuffleModes = {"Off"}
    MayRadio = TRUE
    MaxStop = 1
    MaxQueue = 3
    MaxTrail = 0
PROPERTIES
    LinearSkipFindsRow
