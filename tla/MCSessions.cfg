\* Identifiers are used up: the sessions of a run stop at that bound.
SPECIFICATION Spec
CONSTANTS
    Ids = {s1, s2, s3, s4}
    Clients = {u1, u2}
    MaxCreating = 2
    NoId = NoId
    MaxSessions = 1
    MaxOfType = 1
    Sessions = {s1, s2, s3}
    Users = {u1, u2}
    Devices = {d1}
    NoDevice = NoDevice
    MaxConcurrent = 2
    PerDevice = 1
    Strategies = {"deny_new", "terminate_oldest", "terminate_idle", "terminate_lowest_priority", "allow_all"}
    Priorities = {1, 2}
SYMMETRY Symmetry
INVARIANTS TypeOK FamiliesDoNotFork SessionsBounded DeviceCountsLive
PROPERTY PinnedStays
CHECK_DEADLOCK FALSE
