\* The listeners' view of two alerts over polls that succeed, fail and are skipped.
SPECIFICATION Spec
CONSTANTS
    Alerts = {a1, a2}
    MaxVersion = 2
    OpenAfter = 3
    ResetTime = 4
    PollInterval = 4
    FetchTimeout = 1
    MaxTime = 16
SYMMETRY AlertSymmetry
INVARIANTS
    TypeOK
    NoGhostAlerts
    KnownAfterTwoPolls
    TimerFindsNoPoll
