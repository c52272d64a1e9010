SPECIFICATION FairSpec
CONSTANTS
    r1 = r1
    r2 = r2
    flac = flac
    mp3 = mp3
    MaxCount = 4
    Jobs = 2
    Readers <- TwoReaders
    Size <- Sizes
    Format <- Extensions
    Budget = 2
    WindowSize = 1
    Calls <- StagedAndBounded
INVARIANTS StagedWithinBudget NotStarved
PROPERTIES DeliversOnce PoolReturns
CHECK_DEADLOCK FALSE
