\* One feed, poll cycles overlapping: fetches of up to three cycles race.
SPECIFICATION Spec
CONSTANTS
    Feeds = {f1}
    Slots = {c1, c2, c3, c4}
    OpenAfter = 2
    ResetTime = 4
    PollInterval = 2
    FetchTimeout = 1
    MaxAttempts = 3
    MaxBackoff = 1
    MaxTime = 8
SYMMETRY SlotSymmetry
INVARIANTS
    TypeOK
    CycleLifetimeBounded
    CacheLagsOnlyInFlight
    FeedAgeHonest
    CircuitReopensInTime
PROPERTIES
    RefinesFeedStore
