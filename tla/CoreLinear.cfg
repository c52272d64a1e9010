SPECIFICATION Spec
CONSTANTS
    a = a
    b = b
    c = c
    d = d
    NoTrack = NoTrack
    Tracks = {a, b, c}
    Unresolvable = {}
    DsdTracks = {}
    Lists <- ListsLinear
    RepeatModes = {"Off", "All", "One"}
    ShuffleModes = {"Off"}
    MayRadio = FALSE
    MaxStop = 2
    MaxQueue = 3
    MaxTrail = 0
INVARIANTS
    PreparedIsNextRow
    CurrentIsSource
    NoSpuriousBadge
    LastCountedNeverHandsOver
    HeardIsAnnounced
