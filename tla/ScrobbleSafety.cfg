SPECIFICATION Spec
CONSTANTS
    lb = lb
    lf = lf
    t = t
    u = u
    NoToken = NoToken
    Destinations = {lb, lf}
    LastFm = {lf}
    Tokens = {t}
    GoodTokens = {t}
    Unacceptable = {1}
    Failures = {"later", "lost", "invalid"}
    MayQueue = TRUE
    MayEdit = FALSE
    MayCrash = TRUE
    MaxBatch = 1
    MaxConsecutive = 1
    MaxListens = 2
    MaxFaults = 2
    MaxMail = 1
INVARIANTS
    SentMeansDelivered
