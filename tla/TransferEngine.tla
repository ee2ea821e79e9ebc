--------------------------- MODULE TransferEngine ---------------------------
(***************************************************************************)
(* The transfer engine (packages/server/src/transfer/engine.ts, graph.ts,  *)
(* travel-times.ts): the direct and the transfer routes of one commute,    *)
(* and which of them is recommended.                                       *)
(*                                                                         *)
(* Times are whole units from the moment of the analysis.  The trains of a *)
(* line at a station are read northbound first, each direction in the      *)
(* order of time, as getArrivals lists them.  A line takes the same time   *)
(* between any two of its stops; rounding to minutes is left out, and so   *)
(* are the texts, risks and confidences of a recommendation.               *)
(***************************************************************************)
EXTENDS Integers, Sequences, FiniteSets, SequencesExt, FiniteSetsExt

CONSTANTS
    Stations, Origin, Destination,
    Lines,
    Stops,        \* routes[line].stops
    Serves,       \* stations[id].lines
    HopTime,      \* the time of a line between adjacent stops
    BDivision,    \* the lines whose times are estimates
    Transfers,    \* transfers.json: [from, to, walk]
    Complexes,    \* sets of stations
    ComplexWalk,  \* complexWalkTime
    WalkTime,     \* the walk from Origin to Destination
    MaxTransfers,
    MaxWalk,      \* MAX_WALKING_TIME_SECONDS
    MaxWait,      \* MAX_WAIT_TIME_SECONDS
    MaxTotal,     \* MAX_TOTAL_TRAVEL_MINUTES
    Buffer,       \* B_DIVISION_BUFFER_SECONDS
    Slack,        \* CONNECTION_SLACK_SECONDS
    DirectSlack,  \* MAX_SLACK_VS_DIRECT_SECONDS
    Saving,       \* what a transfer has to save to be recommended
    Timetables,   \* the arrivals considered (bound)
    Preferences   \* the preferred lines considered (bound)

Directions == {"N", "S"}

ASSUME EngineAssumption ==
    /\ {Origin, Destination} \subseteq Stations
    /\ Stops \in [Lines -> Seq(Stations)] /\ Serves \in [Stations -> SUBSET Lines]
    /\ HopTime \in [Lines -> Nat] /\ BDivision \subseteq Lines
    /\ \A t \in Transfers : t.walk \in Nat
    /\ {MaxTransfers, MaxWalk, MaxWait, MaxTotal, Buffer, Slack, DirectSlack, Saving,
        ComplexWalk, WalkTime} \subseteq Nat
    /\ Timetables \subseteq [Stations -> [Lines -> [Directions -> SUBSET Nat]]]

VARIABLES
    arrivals,   \* arrivals[s][l][d]: the times of the trains of l at s towards d
    preferred,  \* preferredLines
    broken,     \* in accessible mode, the stations with broken elevators
    analysis    \* what analyzeCommute answered

engineVars == <<arrivals, preferred, broken, analysis>>

Never == MaxTotal + WalkTime + 1000   \* Infinity: beyond any route and any walk

-----------------------------------------------------------------------------
(* buildTransferGraph: listed transfers work both ways, the shortest walk  *)
(* counts; stations of a complex are joined where no transfer is listed.   *)
ListedWalks(a, b) == {t.walk : t \in {u \in Transfers : {u.from, u.to} = {a, b}}}
SameComplex(a, b) == a # b /\ \E C \in Complexes : {a, b} \subseteq C
Edge(a, b) == ListedWalks(a, b) # {} \/ SameComplex(a, b)
Walk(a, b) == IF ListedWalks(a, b) # {} THEN Min(ListedWalks(a, b)) ELSE ComplexWalk

-----------------------------------------------------------------------------
(* Trains and travel times *)

OnRoute(l, s) == s \in ToSet(Stops[l])
StopIndex(l, s) == CHOOSE i \in DOMAIN Stops[l] : Stops[l][i] = s

(* determineDirection: south is forward in the list of stops.              *)
Heading(l, a, b) == IF StopIndex(l, b) > StopIndex(l, a) THEN "S" ELSE "N"

(* calculateRouteTravelTime, estimateTravelTimeByStops: two minutes a stop.*)
TravelTime(l, a, b) ==
    IF OnRoute(l, a) /\ OnRoute(l, b)
    THEN HopTime[l] * LET d == StopIndex(l, b) - StopIndex(l, a) IN IF d < 0 THEN -d ELSE d
    ELSE 4 * Len(Stops[l])

(* applyBDivisionBuffer                                                    *)
buffer(l) == IF l \in BDivision THEN Buffer ELSE 0

Trains(s, l) ==
    UNION {{[direction |-> d, at |-> time + buffer(l)] : time \in arrivals[s][l][d]} : d \in Directions}

(* The first of some trains as they are listed.                            *)
First(trains) ==
    CHOOSE t \in trains : \A u \in trains :
        \/ t.direction = "N" /\ u.direction = "S"
        \/ t.direction = u.direction /\ t.at <= u.at

HasArrivals(s) == \E l \in Serves[s] : Trains(s, l) # {}

-----------------------------------------------------------------------------
(* findDirectRoutes *)

DirectLines ==
    {l \in Serves[Origin] \cap Serves[Destination] :
       OnRoute(l, Origin) /\ OnRoute(l, Destination) /\ Trains(Origin, l) # {}}

(* Trains the other way are taken if there are no others.                  *)
Candidates(l) ==
    LET right == {t \in Trains(Origin, l) : t.direction = Heading(l, Origin, Destination)} IN
    IF right # {} THEN right ELSE Trains(Origin, l)

(* createDirectRoute; the time of an estimated line is buffered once more. *)
DirectRoute(l) ==
    LET train == First(Candidates(l))
        ride == TravelTime(l, Origin, Destination) IN
    [line |-> l, train |-> train, ride |-> ride, arrival |-> train.at + ride + buffer(l)]

DirectRoutes == {DirectRoute(l) : l \in DirectLines}

(* The routes that may come first, by preference and then by arrival.      *)
FirstDirects ==
    LET mine == {r \in DirectRoutes : r.line \in preferred}
        pool == IF mine # {} THEN mine ELSE DirectRoutes IN
    {r \in pool : \A q \in pool : r.arrival <= q.arrival}

-----------------------------------------------------------------------------
(* findTransferRoutes: extend *)

Start == [stations |-> <<Origin>>, lines |-> <<>>, walks |-> <<0>>]

(* The lines that serve both stations, but for the one the chain came on.  *)
OnwardLines(c, to) ==
    {l \in Serves[Last(c.stations)] \cap Serves[to] : c.lines # <<>> => l # Last(c.lines)}

Extended(c, to, l, walk) ==
    [stations |-> Append(c.stations, to), lines |-> Append(c.lines, l),
     walks |-> Append(c.walks, walk)]

TransferStops(c) ==
    {s \in Stations \ (broken \cup ToSet(c.stations)) :
       /\ Edge(Last(c.stations), s) /\ Walk(Last(c.stations), s) <= MaxWalk
       /\ HasArrivals(s)}

Extensions(c) ==
    UNION {{Extended(c, s, l, Walk(Last(c.stations), s)) : l \in OnwardLines(c, s)} :
             s \in TransferStops(c)}

chains[n \in 0 .. MaxTransfers] == IF n = 0 THEN {Start} ELSE UNION {Extensions(c) : c \in chains[n - 1]}

Itineraries ==
    UNION {{Extended(c, Destination, l, 0) : l \in OnwardLines(c, Destination)} :
             c \in UNION {chains[n] : n \in 1 .. MaxTransfers}}

-----------------------------------------------------------------------------
(* buildTransferRoute *)

Missed == [line |-> "none"]

(* Mutant of EarliestBoarding: the walk to the platform is forgotten.      *)
MutEarliestBoarding(arrived, walk) == arrived

EarliestBoarding(arrived, walk) == arrived + walk

Waited(from, train) == IF train.at > from THEN train.at - from ELSE 0

(* One leg; spent are the travelling, walking and waiting so far.          *)
Boarded(c, i, from, spent) ==
    LET viable == {t \in Trains(c.stations[i], c.lines[i]) : t.at >= from - Slack}
        train == First(viable)
        wait == IF i = 1 THEN 0 ELSE Waited(from, train)
        ride == TravelTime(c.lines[i], c.stations[i], c.stations[i + 1]) IN
    IF viable = {} \/ wait > MaxWait THEN Missed
    ELSE [line |-> c.lines[i], board |-> c.stations[i], alight |-> c.stations[i + 1],
          train |-> train, arrival |-> train.at + ride,
          spent |-> spent + ride + c.walks[i] + wait]

Legs(c) ==
    LET leg[i \in 1 .. Len(c.lines)] ==
          IF i = 1 THEN Boarded(c, i, -Never, 0)
          ELSE IF leg[i - 1] = Missed THEN Missed
          ELSE Boarded(c, i, EarliestBoarding(leg[i - 1].arrival, c.walks[i]), leg[i - 1].spent)
    IN  leg

TransferRoute(legs) ==
    [legs |-> legs, arrival |-> legs[Len(legs)].arrival,
     total |-> legs[1].train.at + legs[Len(legs)].spent]

(* What can be ridden, is not too long, and not much worse than direct.    *)
TransferRoutes(bestDirectArrival) ==
    LET rides == {Legs(c) : c \in Itineraries} IN
    {r \in {TransferRoute(legs) : legs \in {g \in rides : Missed \notin ToSet(g)}} :
       r.total <= MaxTotal /\ r.arrival < bestDirectArrival + DirectSlack}

-----------------------------------------------------------------------------
(* analyzeCommute *)

NoRoute == [line |-> "none", arrival |-> Never, total |-> Never]

Transit(direct, transfer) ==
    Min({transfer.total} \cup (IF direct = NoRoute THEN {} ELSE {direct.train.at + direct.ride}))

(* determineRecommendation                                                 *)
Recommendation(direct, transfer) ==
    CASE WalkTime < Transit(direct, transfer) -> "walk"
      [] direct = NoRoute /\ transfer # NoRoute -> "transfer"
      [] transfer # NoRoute /\ direct.arrival - transfer.arrival >= Saving -> "transfer"
      [] OTHER -> "direct"

Firsts(routes) == IF routes = {} THEN {NoRoute} ELSE routes

NoAnalysis == [recommended |-> "none"]

analyzeCommute ==
    /\ analysis = NoAnalysis
    /\ \E direct \in Firsts(FirstDirects) :
         LET transfers == TransferRoutes(direct.arrival) IN
         \E transfer \in Firsts({r \in transfers : \A q \in transfers : r.arrival <= q.arrival}) :
            analysis' = [directs |-> DirectRoutes, transfers |-> transfers,
                         direct |-> direct, transfer |-> transfer,
                         recommended |-> Recommendation(direct, transfer)]
    /\ UNCHANGED <<arrivals, preferred, broken>>

EngineInit ==
    /\ arrivals \in Timetables /\ preferred \in Preferences
    /\ broken \in SUBSET (Stations \ {Origin, Destination})
    /\ analysis = NoAnalysis

EngineNext == analyzeCommute
EngineSpec == EngineInit /\ [][EngineNext]_engineVars

-----------------------------------------------------------------------------
(* Properties *)

Analyzed == analysis # NoAnalysis

(* The two times of a transfer route agree: its parts, summed up, are the  *)
(* time until its last train arrives, but for the slack of a connection    *)
(* that is a little too short.                                             *)
TransferTimesAddUp ==
    Analyzed => \A r \in analysis.transfers :
      r.arrival \in r.total - Slack * (Len(r.legs) - 1) .. r.total

(* engine.ts:4 "Finds all direct routes and transfer routes": if one line  *)
(* takes the rider from the origin to a station that another leaves from,  *)
(* both by trains that run the right way, a transfer is offered.           *)
TransferFound ==
    Analyzed /\ analysis.direct = NoRoute =>
      \A l, m \in Lines, s \in Stations \ broken :
        /\ l # m /\ OnRoute(l, Origin) /\ OnRoute(l, s) /\ OnRoute(m, s) /\ OnRoute(m, Destination)
        /\ s \notin {Origin, Destination}
        /\ \E t \in Trains(Origin, l), u \in Trains(s, m) :
             /\ t.direction = Heading(l, Origin, s) /\ u.direction = Heading(m, s, Destination)
             /\ u.at - (t.at + TravelTime(l, Origin, s)) \in 0 .. MaxWait
             /\ u.at + TravelTime(m, s, Destination) <= MaxTotal
        => analysis.transfers # {}
=============================================================================
