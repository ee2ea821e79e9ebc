------------------------------ MODULE MCServer ------------------------------
(* Components of the server that share no state.  A behaviour explores one *)
(* of them, and the others stay as they began.                             *)
EXTENDS DelayDetector, Briefing, MCTransferEngine, Transformer, RateLimiter, StatefulClient, TLC

VARIABLE component

MCRouteOf == [u |-> "F"]
Period(route, end) == [route |-> route, end |-> end]
MCHeaders == {<<>>, <<Period("F", 2)>>, <<Period("M", 1), Period("*", 3)>>}

(* A component that is not explored begins in one state only.              *)
Init ==
    /\ component \in {"detector", "briefing", "engine", "transformer", "limiter", "client"}
    /\ DetectorInit
    /\ BriefingInit /\ (component # "briefing" => briefingHour = [s \in Subs |-> 0])
    /\ TransformerInit /\ LimiterInit /\ ClientInit
    /\ IF component = "engine" THEN EngineInit
       ELSE /\ arrivals = [s \in MCStations |-> [l \in MCLines |-> NoTrains]]
            /\ preferred = {} /\ broken = {} /\ analysis = NoAnalysis

Next ==
    /\ UNCHANGED component
    /\ \/ /\ component = "detector" /\ DetectorNext
          /\ UNCHANGED <<briefingVars, engineVars, transformerVars, limiterVars, clientVars>>
       \/ /\ component = "briefing" /\ BriefingNext
          /\ UNCHANGED <<detectorVars, engineVars, transformerVars, limiterVars, clientVars>>
       \/ /\ component = "engine" /\ EngineNext
          /\ UNCHANGED <<detectorVars, briefingVars, transformerVars, limiterVars, clientVars>>
       \/ /\ component = "transformer" /\ TransformerNext
          /\ UNCHANGED <<detectorVars, briefingVars, engineVars, limiterVars, clientVars>>
       \/ /\ component = "limiter" /\ LimiterNext
          /\ UNCHANGED <<detectorVars, briefingVars, engineVars, transformerVars, clientVars>>
       \/ /\ component = "client" /\ ClientNext
          /\ UNCHANGED <<detectorVars, briefingVars, engineVars, transformerVars, limiterVars>>

serverVars ==
    <<component, detectorVars, briefingVars, engineVars, transformerVars, limiterVars, clientVars>>

Spec == Init /\ [][Next]_serverVars

(* The variables keep their types: no more trips are tracked than the cap  *)
(* allows, no alert starts in the future, and what is being sent was       *)
(* handed to the push service, a bucket holds at most its maximum.         *)
TypeOK ==
    /\ DetectorTypeOK /\ BriefingTypeOK /\ TransformerTypeOK /\ LimiterTypeOK
    /\ ClientTypeOK

Symmetry == Permutations(Trips)
=============================================================================
