\* One client and a bucket of three tokens; it fills in six milliseconds.
SPECIFICATION LimiterSpec
CONSTANTS
    Clients = {c1}
    MaxTokens = 3
    RefillInterval = 2
    PruneInterval = 30
    LastMillisecond = 12
INVARIANT RateAsDocumented
CHECK_DEADLOCK FALSE
