\* A timed-out or 5xx fetch settles at its first attempt.
SPECIFICATION Spec
CONSTANTS
    Feeds = {f1}
    Slots = {c1, c2, c3, c4}
    OpenAfter = 3
    ResetTime = 4
    PollInterval = 2
    FetchTimeout = 1
    MaxAttempts = 3
    MaxBackoff = 1
    MaxTime = 8
PROPERTIES
    TransientFailuresRetried
