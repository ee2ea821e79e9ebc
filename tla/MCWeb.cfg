\* The five components of the web client, one per behaviour.
SPECIFICATION Spec
CONSTANTS
    Trips = {t1, t2}
    NoTrip = NoTrip
    Full = Full
    Edits = {e1}
    Items = {x}
    MaxCopies = 2
    NoSnapshot = NoSnapshot
    Endpoints = {t1, t2}
    NoEndpoint = NoEndpoint
    TrackedTrips = {t1, t2}
    NoTrack = NoTrack
    MaxFetch = 4
    MaxRides = 2
    LastRequest = 2
    QueuePasses = {p1, p2}
    MaxRetries = 2
    MaxCount = 3
SYMMETRY Symmetry
INVARIANTS TypeOK StrandedByDroppedRetryOnly RegistryHonest OnlyTwoWaysToStall LostInThreeWaysOnly PredictionOfShown LoggedAgainThreeWaysOnly RequestKept RepeatedTwoWaysOnly
PROPERTY EditsSurviveSync
