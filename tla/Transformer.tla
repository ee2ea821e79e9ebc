---------------------------- MODULE Transformer ----------------------------
(***************************************************************************)
(* The arrivals shown for the stations, and the trips among them that were *)
(* cancelled (packages/server/src/transformer.ts).  A feed declares        *)
(* windows in which it is authoritative: a trip that it no longer has, and *)
(* that would have come within the window, is cancelled.                   *)
(*                                                                         *)
(* A feed is its place in the order of SUBWAY_FEEDS, a stop a platform of  *)
(* a station.  Time counts half minutes: minutesAway is negative exactly   *)
(* when an arrival is older than the cutoff.                               *)
(***************************************************************************)
EXTENDS Integers, Sequences

CONSTANTS
    LastFeed,
    FeedTrips, RouteOf, \* trips, and the route each is of
    TripStops,
    ArrivalTimes,       \* times a feed may predict (bound)
    Headers,            \* tripReplacementPeriods a feed may declare (bound)
    Cutoff,             \* how long an arrival is shown after its time
    LastSecond          \* length of a run (bound)

ASSUME TransformerAssumption ==
    /\ LastFeed \in Nat /\ Cutoff \in Nat /\ LastSecond \in Nat
    /\ ArrivalTimes \subseteq Nat
    /\ \A t \in FeedTrips : RouteOf[t] \notin {"*", "null"}

VARIABLES
    nowSeconds,
    parsedFeeds,   \* the last good message of every feed
    prevTripStops, \* the stops of every trip at the last poll
    shown          \* the arrivals served

transformerVars == <<nowSeconds, parsedFeeds, prevTripStops, shown>>

SubwayFeeds == 1 .. LastFeed
NoTime == -1
NoMessage == [trips |-> <<>>, windows |-> <<>>, parsed |-> FALSE]
NoStops == [feed |-> 0, stops |-> [s \in TripStops |-> NoTime]]

(* What a message says of a trip: when it stops where.                     *)
StopTimes == [TripStops -> ArrivalTimes \cup {NoTime}]
Messages == {[trips |-> trips, windows |-> header, parsed |-> TRUE] :
               trips \in UNION {[S -> StopTimes] : S \in SUBSET FeedTrips}, header \in Headers}

Arrivals == [trip : FeedTrips, stop : TripStops, at : ArrivalTimes, feed : SubwayFeeds,
             isCancelled : BOOLEAN]

TransformerTypeOK ==
    /\ nowSeconds \in 0 .. LastSecond
    /\ \A f \in SubwayFeeds :
         parsedFeeds[f].parsed => DOMAIN parsedFeeds[f].trips \subseteq FeedTrips
    /\ \A t \in FeedTrips : prevTripStops[t] \in [feed : 0 .. LastFeed, stops : StopTimes]
    /\ shown \subseteq Arrivals

TransformerInit ==
    /\ nowSeconds = 0
    /\ parsedFeeds = [f \in SubwayFeeds |-> NoMessage]
    /\ prevTripStops = [t \in FeedTrips |-> NoStops]
    /\ shown = {}

-----------------------------------------------------------------------------
(* transformFeeds *)

Ahead(at) == at # NoTime /\ at >= nowSeconds - Cutoff

(* A trip that a message lists without a stop is listed still.             *)
Lists(f, t) == t \in DOMAIN parsedFeeds[f].trips

currentTripIds == {t \in FeedTrips : \E f \in SubwayFeeds : Lists(f, t)}

(* The first window of the route, of all routes, or else of any route.     *)
findWindow(windows, route) ==
    LET of(r) == SelectSeq(windows, LAMBDA w : w.route = r) IN
    Head(of(route) \o of("*") \o of("null") \o windows)

(* A feed that has no message declares no window either.                   *)
WithinWindow(f, t, at) ==
    LET windows == parsedFeeds[f].windows IN
    windows # <<>> /\ at <= findWindow(windows, RouteOf[t]).end

Arrival(t, s, at, f, cancelled) ==
    [trip |-> t, stop |-> s, at |-> at, feed |-> f, isCancelled |-> cancelled]

(* Mutant of Cancelled: the end of the window is not asked.                *)
MutCancelled ==
    {Arrival(p[1], p[2], prevTripStops[p[1]].stops[p[2]], prevTripStops[p[1]].feed, TRUE) :
       p \in {q \in (FeedTrips \ currentTripIds) \X TripStops :
                LET prev == prevTripStops[q[1]] IN
                /\ prev # NoStops /\ Ahead(prev.stops[q[2]])
                /\ parsedFeeds[prev.feed].windows # <<>>}}

Cancelled ==
    {Arrival(p[1], p[2], prevTripStops[p[1]].stops[p[2]], prevTripStops[p[1]].feed, TRUE) :
       p \in {q \in (FeedTrips \ currentTripIds) \X TripStops :
                LET prev == prevTripStops[q[1]] IN
                /\ prev # NoStops /\ Ahead(prev.stops[q[2]])
                /\ WithinWindow(prev.feed, q[1], prev.stops[q[2]])}}

Running ==
    {Arrival(p[2], p[3], parsedFeeds[p[1]].trips[p[2]][p[3]], p[1], FALSE) :
       p \in {q \in SubwayFeeds \X FeedTrips \X TripStops :
                q[2] \in DOMAIN parsedFeeds[q[1]].trips
                /\ Ahead(parsedFeeds[q[1]].trips[q[2]][q[3]])}}

(* The stops of a trip that lie ahead; of two feeds the later is kept.     *)
StopsOf(t) ==
    LET feeds == {f \in SubwayFeeds : \E a \in Running : a.trip = t /\ a.feed = f} IN
    IF feeds = {} THEN NoStops
    ELSE LET last == CHOOSE f \in feeds : \A g \in feeds : g <= f IN
         [feed |-> last,
          stops |-> [s \in TripStops |-> LET at == parsedFeeds[last].trips[t][s] IN
                                          IF Ahead(at) THEN at ELSE NoTime]]

(* Every trip remembered is of a feed that has a message, and such a feed  *)
(* keeps one: all are dropped, and remembered anew from the messages.      *)
transformFeeds ==
    /\ shown' = Cancelled \cup Running
    /\ prevTripStops' = [t \in FeedTrips |-> StopsOf(t)]
    /\ UNCHANGED <<nowSeconds, parsedFeeds>>

-----------------------------------------------------------------------------
(* recordFeedSuccess of the cache: a feed that fails keeps its message.    *)
FeedParsed(f) ==
    /\ \E m \in Messages : parsedFeeds' = [parsedFeeds EXCEPT ![f] = m]
    /\ UNCHANGED <<nowSeconds, prevTripStops, shown>>

SecondPasses ==
    /\ nowSeconds < LastSecond /\ nowSeconds' = nowSeconds + 1
    /\ UNCHANGED <<parsedFeeds, prevTripStops, shown>>

TransformerNext ==
    \/ transformFeeds \/ SecondPasses
    \/ \E f \in SubwayFeeds : FeedParsed(f)
TransformerSpec == TransformerInit /\ [][TransformerNext]_transformerVars

-----------------------------------------------------------------------------
(* Properties *)

InMessages(t) == \E f \in SubwayFeeds : t \in DOMAIN parsedFeeds[f].trips

(* A trip that two feeds show is remembered for the later one.             *)
ShownLater(a) == \E b \in shown : ~b.isCancelled /\ b.trip = a.trip /\ b.feed > a.feed

Vanished(a) ==
    /\ ~a.isCancelled /\ ~InMessages(a.trip) /\ ~ShownLater(a)
    /\ Ahead(a.at) /\ WithinWindow(a.feed, a.trip, a.at)

(* The arrivals a transform shows as cancelled are those that vanished.     *)
CancelsExactly ==
    transformFeeds =>
      {a \in shown' : a.isCancelled} =
        {[a EXCEPT !.isCancelled = TRUE] : a \in {b \in shown : Vanished(b)}}

(* The arrivals shown as cancelled are those that were shown as running by *)
(* the poll before, are still ahead and within a window of their feed, and *)
(* whose trip has gone from every feed; of a trip that two feeds showed,   *)
(* those of the later feed.  No trip in service is called cancelled,       *)
(* whichever feeds failed meanwhile and kept their message, none beyond    *)
(* the time its feed answers for, and none that was taken out of service   *)
(* vanishes without a word.                                                *)
CancellationsExact == [][CancelsExactly]_transformerVars
=============================================================================
