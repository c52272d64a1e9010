SPECIFICATION Spec
CONSTANTS
    a = a
    b = b
    c = c
    d = d
    NoTrack = NoTrack
    Tracks = {a, b, c}
    Unresolvable = {}
    DsdTracks = {}
    Lists <- ListsShuffle
    RepeatModes = {"Off"}
    ShuffleModes = {"Off", "Library"}
    MayRadio = FALSE
    MaxStop = 0
    MaxQueue = 3
    MaxTrail = 1
INVARIANTS
    TypeOK
PROPERTIES
    TrailIsRetraced
    PickIsUnheard
