--------------------------- MODULE DelayDetector ---------------------------
(***************************************************************************)
(* The delay detector (packages/server/src/delay-detector.ts): every poll  *)
(* hands it the positions of the trains; it times each train from station  *)
(* to station and raises predicted alerts.                                 *)
(*                                                                         *)
(* One line and direction, whose stations are numbered along the route, so *)
(* that the number stands for the stop sequence too.  Time counts polls.   *)
(* getTravelTime knows adjacent stations only and gives the default for    *)
(* any other pair: one scheduled time serves all.                          *)
(***************************************************************************)
EXTENDS Integers, FiniteSets

CONSTANTS
    Trips,
    LastStation,     \* stations are 1 .. LastStation, both ends terminals
    MaxTracked,      \* MAX_TRACKED_TRIPS
    TripMaxAge,      \* TRIP_MAX_AGE_MS
    AlertMaxAge,     \* staleThreshold of pruneStaleAlerts
    Bucket,          \* the interval an alert id is made for
    MinObservation,  \* MIN_OBSERVATION_SECONDS
    Scheduled,       \* the scheduled time between two stations
    Multiplier,      \* thresholdMultiplier
    MinTrains,       \* minTrainsForLineAlert
    MaxLag,          \* how old the timestamp of a position may be
    LastPoll         \* polls in a run (bound)

ASSUME DetectorAssumption ==
    /\ IsFiniteSet(Trips) /\ LastStation \in Nat /\ MaxTracked \in Nat
    /\ TripMaxAge \in Nat /\ MinObservation \in Nat \ {0}
    /\ Scheduled \in Nat \ {0} /\ Multiplier \in Nat /\ MinTrains \in Nat
    /\ Bucket \in Nat \ {0} /\ AlertMaxAge \in Nat /\ Bucket <= AlertMaxAge
    /\ MaxLag \in Nat /\ LastPoll \in Nat

VARIABLES
    now,
    track,   \* trackedTrips: the last observation of every tracked trip
    alerts,  \* activePredictedAlerts
    told,    \* history: the ids of the alerts listeners were told of before
    news     \* the ids listeners were told of by the last poll

detectorVars == <<now, track, alerts, told, news>>

StopNumbers == 1 .. LastStation
Untracked == [station |-> 0, at |-> 0, flagged |-> FALSE, firstSeen |-> 0]
Track == [station : StopNumbers, at : Int, flagged : BOOLEAN, firstSeen : Nat]

(* An alert is of a train, or of the line and names no train.              *)
AlertIds == [of : {{}} \cup {{t} : t \in Trips}, bucket : Nat]

Tracked == {t \in Trips : track[t] # Untracked}

DetectorTypeOK ==
    /\ now \in Nat
    /\ track \in [Trips -> Track \cup {Untracked}]
    /\ Cardinality(Tracked) <= MaxTracked
    /\ \A a \in alerts : a.id \in AlertIds /\ a.start \in 0 .. now
    /\ told \subseteq AlertIds /\ news \subseteq AlertIds

DetectorInit ==
    /\ now = 0
    /\ track = [t \in Trips |-> Untracked]
    /\ alerts = {} /\ told = {} /\ news = {}

-----------------------------------------------------------------------------
(* processVehicleUpdates *)

isTerminalStop(s) == s \in {1, LastStation}

(* pruneOldTrips: by the time since the trip was first seen.               *)
Old(t) == t \in Tracked /\ now - track[t].firstSeen > TripMaxAge

Retained == {t \in Tracked : ~Old(t)}

Moved(t, pos) == pos.station > track[t].station

Slow(t, pos) ==
    LET traversal == pos.at - track[t].at IN
    /\ Moved(t, pos)
    /\ traversal >= MinObservation
    /\ traversal >= Multiplier * Scheduled

Delayed(t, pos) ==
    Slow(t, pos) /\ ~isTerminalStop(pos.station) /\ ~isTerminalStop(track[t].station)

(* A delay is reported unless the trip's flag still stands from an earlier *)
(* one.                                                                    *)
Reported(batch) ==
    {t \in Retained \cap DOMAIN batch : Delayed(t, batch[t]) /\ ~track[t].flagged}

FlagAfter(t, pos) ==
    \/ Delayed(t, pos)
    \/ track[t].flagged /\ ~ (/\ Moved(t, pos) /\ ~Slow(t, pos)
                              /\ pos.at - track[t].at >= MinObservation)

Observed(t, pos) ==
    [station |-> IF Moved(t, pos) THEN pos.station ELSE track[t].station,
     at |-> pos.at, flagged |-> FlagAfter(t, pos), firstSeen |-> track[t].firstSeen]

FirstObserved(pos) ==
    [station |-> pos.station, at |-> pos.at, flagged |-> FALSE, firstSeen |-> now]

(* Trips not tracked are taken up while there is room, in the order of the *)
(* feed.                                                                   *)
TakenUp(batch) ==
    LET new == DOMAIN batch \ Retained
        room == MaxTracked - Cardinality(Retained) IN
    {S \in SUBSET new :
       Cardinality(S) = IF Cardinality(new) <= room THEN Cardinality(new) ELSE room}

-----------------------------------------------------------------------------
(* generateAlerts *)

(* Several delayed trains, or two delayed segments, make the alert one of  *)
(* the line; otherwise it is of the train that the feed has first.         *)
AlertIdsFor(trips, batch) ==
    IF \/ Cardinality(trips) >= MinTrains
       \/ \E t, u \in trips : \/ track[t].station # track[u].station
                              \/ batch[t].station # batch[u].station
    THEN {[of |-> {}, bucket |-> now \div Bucket]}
    ELSE {[of |-> {t}, bucket |-> now \div Bucket] : t \in trips}

(* An alert of the line that exists is refreshed, one of a train is not.   *)
Raised(id) ==
    LET old == {a \in alerts : a.id = id} IN
    IF old # {} /\ id.of # {} THEN alerts
    ELSE (alerts \ old) \cup {[id |-> id, start |-> now]}

(* Mutant of pruneStaleAlerts: minutes and polls are confused.             *)
MutPruneStaleAlerts(as) == {a \in as : now - a.start <= 0}

pruneStaleAlerts(as) == {a \in as : now - a.start <= AlertMaxAge}

generateAlerts(id) ==
    /\ alerts' = pruneStaleAlerts(Raised(id))
    /\ news' = {id} \ {a.id : a \in alerts}

(* One poll: of the feed's trains some are on the line, each at or beyond  *)
(* its last station.                                                       *)
Positions == [station : StopNumbers, at : {now - d : d \in 0 .. MaxLag}]

processVehicleUpdates(batch) ==
    /\ DOMAIN batch # {}
    /\ \A t \in DOMAIN batch : t \in Tracked => batch[t].station >= track[t].station
    /\ \E fresh \in TakenUp(batch) :
         track' = [t \in Trips |->
                     IF t \in fresh THEN FirstObserved(batch[t])
                     ELSE IF t \notin Retained THEN Untracked
                     ELSE IF t \in DOMAIN batch THEN Observed(t, batch[t])
                     ELSE track[t]]
    /\ LET trips == Reported(batch) IN
         IF trips = {} THEN alerts' = alerts /\ news' = {}
         ELSE \E id \in AlertIdsFor(trips, batch) : generateAlerts(id)
    /\ told' = told \cup news
    /\ UNCHANGED now

Poll == \E S \in SUBSET Trips : \E batch \in [S -> Positions] : processVehicleUpdates(batch)

Tick ==
    /\ now < LastPoll /\ now' = now + 1
    /\ UNCHANGED <<track, alerts, told, news>>

DetectorNext == Poll \/ Tick
DetectorSpec == DetectorInit /\ [][DetectorNext]_detectorVars

-----------------------------------------------------------------------------
(* Properties *)

(* Listeners are told of an alert once: an id that was pruned while its    *)
(* interval lasts would be raised, and announced, again.                   *)
ToldOnce == news \cap told = {}
=============================================================================
