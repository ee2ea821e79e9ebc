\* Is a transfer found where no listed walk joins origin and transfer station?
SPECIFICATION EngineSpec
CONSTANTS
    Stations <- MCStations
    Origin = "o"
    Destination = "d"
    Lines <- MCLines
    Stops <- MCStops
    Serves <- MCServes
    HopTime <- MCHopTime
    BDivision = {"B", "D"}
    Transfers <- MCPlatforms
    Complexes = {}
    ComplexWalk = 1
    WalkTime = 16
    MaxTransfers = 2
    MaxWalk = 3
    MaxWait = 5
    MaxTotal = 20
    Buffer = 2
    Slack = 1
    DirectSlack = 4
    Saving = 2
    Timetables <- MCTimetables
    Preferences = {{}}
INVARIANT TransferFound
CHECK_DEADLOCK FALSE
