SPECIFICATION FairSpec
CONSTANTS
    a = a
    low = low
    high = high
    Unset = Unset
    Files <- OneFile
    Ratings <- TwoRatings
    Present <- OneFile
    Tagged = {low}
    BatchSize = 1
    MayCrash = TRUE
    MaxStamp = 3
    MaxChanges = 1
    MaxScans = 1
    MaxEdits = 2
    MaxTogether = 2
    MaxFaults = 1
INVARIANTS UnwrittenIsPending PendingIsUsers FreshRowIsTrue
PROPERTIES EditStaysShown MissingWasGone EditIsAttempted PlaceholderIsRead
CHECK_DEADLOCK FALSE
