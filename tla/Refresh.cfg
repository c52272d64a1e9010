SPECIFICATION Spec
CONSTANTS
    left = left
    middle = middle
    right = right
    NoAudio = NoAudio
    FileCount = 3
    Audio <- ThreeAudio
    Alike <- Chain
    FirstAudio <- LeftMiddleRight
    Bounds <- ChangesOrUpgrade
INVARIANTS AnalysisIsOfFile GroupsAreComponents
PROPERTIES RowFollowsFiles RefreshCompletes
CHECK_DEADLOCK FALSE
