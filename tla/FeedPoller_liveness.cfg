\* Two feeds, two polls: every cycle ends and publishes what was fetched, one feed
\* failing, skipped or silent while the other one is fetched.
SPECIFICATION FairSpec
CONSTANTS
    Feeds = {f1, f2}
    Slots = {c1, c2}
    OpenAfter = 1
    ResetTime = 2
    PollInterval = 3
    FetchTimeout = 1
    MaxAttempts = 2
    MaxBackoff = 1
    MaxTime = 3
PROPERTIES
    EveryCycleEnds
    DataIsPublished
