\* Every component of the sum, within its bounds; it stops at them.
SPECIFICATION Spec
CONSTANTS
    Trips = {t1, t2}
    LastStation = 5
    MaxTracked = 2
    TripMaxAge = 1
    AlertMaxAge = 4
    Bucket = 3
    MinObservation = 2
    Scheduled = 1
    Multiplier = 2
    MinTrains = 2
    MaxLag = 1
    LastPoll = 5
    Subs = {r1}
    HoursPerDay = 3
    MinutesPerHour = 2
    Offset = 1
    LastMinute = 8
    Stations <- MCStations
    Origin = "o"
    Destination = "d"
    Lines <- MCLines
    Stops <- MCStops
    Serves <- MCServes
    HopTime <- MCHopTime
    BDivision = {"B", "D"}
    Transfers <- MCTransfers
    Complexes = {{"m", "n"}}
    ComplexWalk = 1
    WalkTime = 16
    MaxTransfers = 2
    MaxWalk = 3
    MaxWait = 5
    MaxTotal = 20
    Buffer = 2
    Slack = 1
    DirectSlack = 4
    Saving = 2
    Timetables <- MCTimetables
    Preferences = {{}}
    LastFeed = 2
    FeedTrips = {"u"}
    RouteOf <- MCRouteOf
    TripStops = {"s"}
    ArrivalTimes = {1, 2, 4}
    Headers <- MCHeaders
    Cutoff = 1
    LastSecond = 4
    Clients = {c1}
    MaxTokens = 2
    RefillInterval = 2
    PruneInterval = 3
    LastMillisecond = 11
    Calls = {k1, k2, k3}
    OpenAfter = 2
    ResetTime = 3
    Timeout = 1
    MaxTime = 8
SYMMETRY Symmetry
INVARIANTS TypeOK ToldOnce NoRepeatedBriefing TransferTimesAddUp RateExact SlotHasProbe
PROPERTIES CancellationsExact ProbesSpaced
CHECK_DEADLOCK FALSE
