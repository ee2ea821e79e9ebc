----------------------------- MODULE TripTracker -----------------------------
(***************************************************************************)
(* The screen that tracks a trip and logs the ride when it ends            *)
(* (packages/web/src/hooks/useTripTracker.ts and useTripJournal.ts).       *)
(*                                                                         *)
(* Every fetch has a number, and an answer is taken only if its fetch is   *)
(* the last one; the prediction is asked for when a trip is answered, and  *)
(* carries the number of that fetch.  The server answers from its cache of *)
(* the moment, where a trip may be missing and be found again.  Every trip *)
(* of the model belongs to a saved commute and has a duration the journal  *)
(* takes.                                                                  *)
(***************************************************************************)
EXTENDS Naturals

CONSTANTS
    TrackedTrips,
    NoTrack,
    MaxFetch,     \* fetches of one visit of the screen (bound)
    MaxRides      \* rides logged for one trip (bound)

ASSUME TrackerAssumption ==
    NoTrack \notin TrackedTrips /\ MaxFetch \in Nat \ {0} /\ MaxRides \in Nat

VARIABLES
    tripId,      \* the trip of the screen's address, if the screen is open
    fetchGen,
    fetches,     \* trip requests without an answer
    predictions, \* prediction requests without an answer
    shown,       \* the state of the tracker
    loggedRef,
    rides,       \* history: the rides logged for each trip
    missed,      \* history: the trips a lookup of the server did not find
    confused     \* history: the trips whose end the screen, or a lookup, was wrong about

trackerVars == <<tripId, fetchGen, fetches, predictions, shown, loggedRef, rides, missed,
                 confused>>

Numbers == 0 .. MaxFetch
TripRequest == [trip : TrackedTrips, gen : Numbers]

(* A trip request, and what the server found, once it has looked it up.    *)
Fetch == [trip : TrackedTrips, gen : Numbers, answer : {"none", "trip", "gone"}]

(* of and gen name the fetch whose answer is shown, prediction the fetch   *)
(* whose trip the prediction was asked for; 0 is none.                     *)
Shown == [of : TrackedTrips \cup {NoTrack}, gen : Numbers, prediction : Numbers,
          isActive : BOOLEAN, isExpired : BOOLEAN]
Closed == [of |-> NoTrack, gen |-> 0, prediction |-> 0, isActive |-> FALSE, isExpired |-> FALSE]

TrackerTypeOK ==
    /\ tripId \in TrackedTrips \cup {NoTrack}
    /\ fetchGen \in Numbers
    /\ fetches \subseteq Fetch /\ predictions \subseteq TripRequest
    /\ shown \in Shown /\ loggedRef \in BOOLEAN
    /\ rides \in [TrackedTrips -> 0 .. MaxRides]
    /\ missed \subseteq TrackedTrips /\ confused \subseteq TrackedTrips

TrackerInit ==
    /\ tripId = NoTrack
    /\ fetchGen = 0 /\ fetches = {} /\ predictions = {}
    /\ shown = Closed /\ loggedRef = FALSE
    /\ rides = [t \in TrackedTrips |-> 0] /\ missed = {} /\ confused = {}

-----------------------------------------------------------------------------
(* Effects of useTripJournal *)

Tracking(state) == state.isActive /\ ~state.isExpired

(* The flag is cleared when the trip is tracked again ...                  *)
Rearmed(state) == Tracking(state) /\ ~Tracking(shown)

(* Mutant of LogsRide: whether the ride was logged is not asked.           *)
MutLogsRide(state, logged) == state.isExpired /\ state.of # NoTrack

(* ... and the ride is logged when the trip has expired with stops to show.*)
LogsRide(state, logged) == state.isExpired /\ ~logged /\ state.of # NoTrack

(* React commits the state and runs the effects.                           *)
Commit(state) ==
    LET logged == loggedRef /\ ~Rearmed(state) IN
    /\ shown' = state
    /\ loggedRef' = (logged \/ LogsRide(state, logged))
    /\ IF LogsRide(state, logged)
       THEN rides[state.of] < MaxRides /\ rides' = [rides EXCEPT ![state.of] = @ + 1]
       ELSE UNCHANGED rides

-----------------------------------------------------------------------------
(* useTripTracker *)

(* The interval goes on when the trip has expired.                         *)
fetchTrip(t) ==
    /\ fetchGen < MaxFetch /\ fetchGen' = fetchGen + 1
    /\ fetches' = fetches \cup {[trip |-> t, gen |-> fetchGen + 1, answer |-> "none"]}

(* The screen is opened for a trip, or its address changes to another: the *)
(* state of the trip before it stays until an answer comes.                *)
OpenTrip(t) ==
    /\ t # tripId /\ tripId' = t
    /\ IF tripId = NoTrack
       THEN Commit([Closed EXCEPT !.isActive = TRUE])
       ELSE UNCHANGED <<shown, loggedRef, rides>>
    /\ fetchTrip(t)
    /\ UNCHANGED <<predictions, missed, confused>>

PollTrip ==
    /\ tripId # NoTrack
    /\ fetchTrip(tripId)
    /\ UNCHANGED <<tripId, predictions, shown, loggedRef, rides, missed, confused>>

(* handleStopTracking, or another way to leave the screen: nothing is left *)
(* to take an answer.                                                      *)
LeaveScreen ==
    /\ tripId # NoTrack /\ tripId' = NoTrack
    /\ fetchGen' = 0 /\ fetches' = {} /\ predictions' = {}
    /\ shown' = Closed /\ loggedRef' = FALSE
    /\ UNCHANGED <<rides, missed, confused>>

(* The server: every feed in its cache is searched.  A trip that is not    *)
(* there, as after a restart or a poll without it, or is too old, is       *)
(* answered by a 404, and may be found the next time.                      *)
lookupTrip(r) ==
    /\ r \in fetches /\ r.answer = "none"
    /\ \E answer \in {"trip", "gone"} :
         /\ fetches' = (fetches \ {r}) \cup {[r EXCEPT !.answer = answer]}
         /\ missed' = IF answer = "gone" THEN missed \cup {r.trip} ELSE missed
         /\ confused' = IF answer = "trip" THEN confused \cup ({r.trip} \cap missed)
                                           ELSE confused
    /\ UNCHANGED <<tripId, fetchGen, predictions, shown, loggedRef, rides>>

Latest(r) == r.gen = fetchGen

TripAnswered(r) ==
    /\ r \in fetches /\ r.answer = "trip" /\ fetches' = fetches \ {r}
    /\ IF Latest(r)
       THEN /\ Commit([of |-> r.trip, gen |-> r.gen, prediction |-> 0,
                       isActive |-> TRUE, isExpired |-> FALSE])
            /\ predictions' = predictions \cup {[trip |-> r.trip, gen |-> r.gen]}
       ELSE UNCHANGED <<predictions, shown, loggedRef, rides>>
    /\ UNCHANGED <<tripId, fetchGen, missed, confused>>

(* 404: what is shown counts as ended, also if it is another trip.         *)
TripGone(r) ==
    /\ r \in fetches /\ r.answer = "gone" /\ fetches' = fetches \ {r}
    /\ IF Latest(r)
       THEN /\ Commit([shown EXCEPT !.isExpired = TRUE, !.isActive = FALSE])
            /\ confused' = confused \cup ({shown.of} \ {NoTrack, tripId})
       ELSE UNCHANGED <<shown, loggedRef, rides, confused>>
    /\ UNCHANGED <<tripId, fetchGen, predictions, missed>>

(* Any other failure, or no answer: the trip counts as tracked again.      *)
TripFails(r) ==
    /\ r \in fetches /\ fetches' = fetches \ {r}
    /\ IF Latest(r)
       THEN /\ Commit([shown EXCEPT !.isExpired = FALSE, !.isActive = TRUE])
            /\ confused' = IF shown.isExpired THEN confused \cup ({shown.of} \ {NoTrack})
                              ELSE confused
       ELSE UNCHANGED <<shown, loggedRef, rides, confused>>
    /\ UNCHANGED <<tripId, fetchGen, predictions, missed>>

(* Mutant of Wanted: any answer is good.                                   *)
MutWanted(r) == TRUE

Wanted(r) == Latest(r)

(* The prediction, or nothing to predict from, or a failure.               *)
PredictionAnswered(r) ==
    /\ r \in predictions /\ predictions' = predictions \ {r}
    /\ \E p \in {0, r.gen} :
         shown' = IF Wanted(r) THEN [shown EXCEPT !.prediction = p] ELSE shown
    /\ UNCHANGED <<tripId, fetchGen, fetches, loggedRef, rides, missed, confused>>

TrackerNext ==
    \/ PollTrip \/ LeaveScreen
    \/ \E t \in TrackedTrips : OpenTrip(t)
    \/ \E r \in fetches :
         lookupTrip(r) \/ TripAnswered(r) \/ TripGone(r) \/ TripFails(r)
    \/ \E r \in predictions : PredictionAnswered(r)
TrackerSpec == TrackerInit /\ [][TrackerNext]_trackerVars

-----------------------------------------------------------------------------
(* Properties *)

(* The prediction on the screen was made for the trip, and the answer, it  *)
(* is shown beside, in whichever order answers come and trips are changed. *)
PredictionOfShown == shown.prediction \in {0, shown.gen}

(* useTripJournal.ts:112 "Track if we've logged this trip to prevent       *)
(* duplicates": a ride is logged again only if the server found the trip   *)
(* again after a lookup had missed it, if a poll failed, other than by a   *)
(* 404, after the trip had ended on the screen, or if the screen was       *)
(* opened for another trip, not found either, while this one was shown.    *)
(* Late answers and a screen that is left and opened again log nothing     *)
(* twice.                                                                  *)
LoggedAgainThreeWaysOnly == \A t \in TrackedTrips \ confused : rides[t] <= 1
=============================================================================
