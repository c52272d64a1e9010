SPECIFICATION FairSpec
CONSTANTS
    lb = lb
    lf = lf
    t = t
    u = u
    NoToken = NoToken
    Destinations = {lb}
    LastFm = {}
    Tokens = {t, u}
    GoodTokens = {t}
    Unacceptable = {1}
    Failures = {"later", "lost", "limited"}
    MayQueue = FALSE
    MayEdit = TRUE
    MayCrash = TRUE
    MaxBatch = 1
    MaxConsecutive = 1
    MaxListens = 3
    MaxFaults = 1
    MaxMail = 2
INVARIANTS
    OnlyUnansweredRepeated
    ConfigurationSettles
PROPERTIES
    DeliveredInOrder
    EventuallyDelivered
