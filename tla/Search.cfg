SPECIFICATION FairSpec
CONSTANTS
    text = text
    longer = longer
    Queries <- TwoQueries
    Batches = 1
    Matching <- SomeMatch
    Narrowing <- ByTyping
    MaxRevision = 1
    MaxTyped = 1
    MaxEvents = 1
    MaxTogether = 1
INVARIANTS NarrowingIsExact ShownIsCurrent CacheIsTruthful IndexIsOneSnapshot
PROPERTIES BuildIsFresh
CHECK_DEADLOCK FALSE
