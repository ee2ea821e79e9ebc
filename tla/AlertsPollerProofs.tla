------------------------- MODULE AlertsPollerProofs -------------------------
(***************************************************************************)
(* Proofs about AlertsPoller for every set of alerts and all timings that  *)
(* satisfy AlertsTimingAssumption.                                         *)
(*                                                                         *)
(* The argument: a fetch ends before the timer fires again, so polls are   *)
(* strictly one after the other and each parse has a later timestamp than  *)
(* the one before.  That is what makes the comparison of detectChanges     *)
(* complete for the alerts both the cache and the remembered ids contain.  *)
(***************************************************************************)
EXTENDS AlertsPoller, TLAPS

(* A poll in flight ends at its deadline, before the timer fires.          *)
PollEndsBeforeTimer ==
    poll.phase # "idle" =>
        /\ now <= poll.deadline
        /\ nextPoll # Never => poll.deadline < nextPoll

(* What the cache holds was parsed before the poll in flight, and before   *)
(* the next one.                                                           *)
CacheIsOlder ==
    Ids(cache.alerts) # {} =>
        /\ nextPoll # Never => cache.modifiedAt < nextPoll
        /\ poll.phase # "idle" => cache.modifiedAt < now

IInv ==
    /\ TypeOK
    /\ PollEndsBeforeTimer
    /\ CacheIsOlder
    /\ NoGhostAlerts
    /\ KnownAfterTwoPolls
    /\ AlertsCircuitSound

-----------------------------------------------------------------------------
(* The lists of alerts and the view stay functions from ids to contents.   *)
LEMMA ToldType ==
    ASSUME TypeOK, NEW alerts \in Contents
    PROVE  Told(alerts) \in Contents
<1>1. ASSUME NEW a \in Alerts PROVE Told(alerts)[a] \in Versions
  <2>1. alerts[a] \in Versions /\ view[a] \in Versions
    BY DEF TypeOK, Contents
  <2>2. None \in Versions
    BY AlertsTimingAssumption DEF None, Versions, AlertsTimingAssumption
  <2> QED BY <2>1, <2>2 DEF Told
<1> QED BY <1>1 DEF Told, Contents

LEMMA NoAlertsType == NoAlerts \in Contents
  BY AlertsTimingAssumption
  DEF NoAlerts, None, Contents, Versions, AlertsTimingAssumption

(* The types of a failure's effect on the circuit, and its soundness.      *)
LEMMA AfterFailureSound ==
    ASSUME NEW c \in [failures : Nat, openAt : Stamp], now \in Nat,
           c.openAt # Never <=> c.failures >= OpenAfter
    PROVE  /\ AfterFailure(c) \in [failures : Nat, openAt : Stamp]
           /\ AfterFailure(c).openAt # Never
                <=> AfterFailure(c).failures >= OpenAfter
  BY AlertsTimingAssumption
  DEF AfterFailure, Stamp, Never, AlertsTimingAssumption

LEMMA ClosedCircuit ==
    /\ [failures |-> 0, openAt |-> Never] \in [failures : Nat, openAt : Stamp]
    /\ Never # Never <=> 0 >= OpenAfter
  BY AlertsTimingAssumption DEF Stamp, Never, AlertsTimingAssumption

-----------------------------------------------------------------------------
LEMMA InitIInv == Init => IInv
<1> SUFFICES ASSUME Init PROVE IInv
  OBVIOUS
<1>1. TypeOK
  BY NoAlertsType, ClosedCircuit DEF Init, TypeOK, IdlePoll, Stamp
<1>2. Ids(cache.alerts) = {}
  BY DEF Init, Ids, NoAlerts
<1>3. PollEndsBeforeTimer /\ CacheIsOlder
  BY <1>2 DEF Init, PollEndsBeforeTimer, CacheIsOlder, IdlePoll
<1>4. NoGhostAlerts /\ KnownAfterTwoPolls
  BY <1>2 DEF Init, NoGhostAlerts, KnownAfterTwoPolls, NoAlerts
<1>5. AlertsCircuitSound
  BY ClosedCircuit DEF Init, AlertsCircuitSound
<1> QED BY <1>1, <1>3, <1>4, <1>5 DEF IInv

(* The clock. *)
LEMMA TickIInv == IInv /\ Tick => IInv'
<1> SUFFICES ASSUME IInv, Tick PROVE IInv'
  OBVIOUS
<1>1. TypeOK'
  BY DEF IInv, Tick, TypeOK, pollerVars, Contents
<1>2. now \in Nat /\ poll.deadline \in Nat /\ nextPoll \in Int
      /\ cache.modifiedAt \in Nat
  BY DEF IInv, TypeOK, Stamp, Never
<1>3. PollEndsBeforeTimer'
  BY <1>2 DEF IInv, Tick, Urgent, PollEndsBeforeTimer, pollerVars
<1>4. CacheIsOlder'
  BY <1>2 DEF IInv, Tick, CacheIsOlder, pollerVars, Ids
<1>5. (NoGhostAlerts /\ KnownAfterTwoPolls /\ AlertsCircuitSound)'
  BY DEF IInv, Tick, NoGhostAlerts, KnownAfterTwoPolls, AlertsCircuitSound,
         pollerVars, Ids
<1> QED BY <1>1, <1>3, <1>4, <1>5 DEF IInv

(* The service and stopAlertsPoller. *)
LEMMA PublishIInv == ASSUME NEW a \in Alerts, IInv, Publish(a) PROVE IInv'
<1>1. feed' \in Contents
  BY DEF IInv, TypeOK, Publish, Contents
<1>2. TypeOK'
  BY <1>1 DEF IInv, TypeOK, Publish, pollerVars, Contents
<1> QED BY <1>2 DEF IInv, Publish, pollerVars, PollEndsBeforeTimer,
                   CacheIsOlder, NoGhostAlerts, KnownAfterTwoPolls,
                   AlertsCircuitSound, Ids

LEMMA StopIInv == IInv /\ StopPoller => IInv'
<1> SUFFICES ASSUME IInv, StopPoller PROVE IInv'
  OBVIOUS
<1>1. TypeOK'
  BY DEF IInv, TypeOK, StopPoller, Stamp, Contents
<1> QED BY <1>1 DEF IInv, StopPoller, PollEndsBeforeTimer, CacheIsOlder,
                   NoGhostAlerts, KnownAfterTwoPolls, AlertsCircuitSound, Ids

-----------------------------------------------------------------------------
(* A poll starts: what the cache holds was parsed before now, and the      *)
(* abort signal fires before the next poll.                                *)
LEMMA StartIInv == IInv /\ StartPoll => IInv'
<1> SUFFICES ASSUME IInv, StartPoll PROVE IInv'
  OBVIOUS
<1>1. /\ now \in Nat /\ nextPoll = now /\ cache.modifiedAt \in Nat
      /\ nextPoll' = now + PollInterval
  BY DEF IInv, TypeOK, StartPoll, PollDue
<1>2. /\ poll' = [phase |-> "request", deadline |-> now + FetchTimeout,
                  alerts |-> NoAlerts]
      /\ now + FetchTimeout \in Nat /\ now + PollInterval \in Nat
      /\ now + FetchTimeout < now + PollInterval
  BY <1>1, AlertsTimingAssumption
  DEF StartPoll, AbortAt, AlertsTimingAssumption
<1>3. /\ circuit' \in [failures : Nat, openAt : Stamp]
      /\ circuit'.openAt # Never <=> circuit'.failures >= OpenAfter
  <2>1. CASE CircuitResetDue
    BY <2>1, ClosedCircuit DEF StartPoll
  <2>2. CASE ~CircuitResetDue
    BY <2>2 DEF StartPoll, IInv, TypeOK, AlertsCircuitSound
  <2> QED BY <2>1, <2>2
<1>4. TypeOK'
  BY <1>1, <1>2, <1>3, NoAlertsType
  DEF IInv, TypeOK, StartPoll, Stamp, Contents
<1>5. PollEndsBeforeTimer'
  BY <1>1, <1>2, AlertsTimingAssumption
  DEF PollEndsBeforeTimer, StartPoll, AlertsTimingAssumption
<1>6. CacheIsOlder'
  <2>1. nextPoll # Never
    BY <1>1 DEF Never
  <2>2. cache' = cache /\ now' = now
    BY DEF StartPoll
  <2>3. ASSUME Ids(cache.alerts) # {} PROVE cache.modifiedAt < now
    BY <2>1, <2>3, <1>1 DEF IInv, CacheIsOlder
  <2>4. ASSUME Ids(cache.alerts) # {} PROVE cache.modifiedAt < nextPoll'
    <3>1. PollInterval \in Nat
      BY AlertsTimingAssumption DEF AlertsTimingAssumption
    <3> QED BY <2>4, <2>3, <1>1, <3>1
  <2> QED BY <2>2, <2>3, <2>4 DEF CacheIsOlder, Ids
<1>7. (NoGhostAlerts /\ KnownAfterTwoPolls)'
  BY DEF IInv, StartPoll, NoGhostAlerts, KnownAfterTwoPolls, Ids
<1>8. AlertsCircuitSound'
  BY <1>3 DEF AlertsCircuitSound
<1> QED BY <1>4, <1>5, <1>6, <1>7, <1>8 DEF IInv

LEMMA SkipIInv == IInv /\ SkipPoll => IInv'
<1> SUFFICES ASSUME IInv, SkipPoll PROVE IInv'
  OBVIOUS
<1>1. /\ now \in Nat /\ nextPoll = now /\ cache.modifiedAt \in Nat
      /\ PollInterval \in Nat
      /\ nextPoll' = now + PollInterval
      /\ poll.phase = "idle" /\ poll' = poll /\ cache' = cache /\ now' = now
  BY AlertsTimingAssumption
  DEF IInv, TypeOK, SkipPoll, PollDue, AlertsTimingAssumption
<1>2. TypeOK'
  BY <1>1 DEF IInv, TypeOK, SkipPoll, Stamp, Contents
<1>3. PollEndsBeforeTimer'
  BY <1>1 DEF PollEndsBeforeTimer
<1>4. CacheIsOlder'
  <2>1. nextPoll # Never
    BY <1>1 DEF Never
  <2>2. ASSUME Ids(cache.alerts) # {} PROVE cache.modifiedAt < nextPoll'
    <3>1. cache.modifiedAt < now
      BY <2>1, <2>2, <1>1 DEF IInv, CacheIsOlder
    <3> QED BY <3>1, <1>1
  <2> QED BY <2>2, <1>1 DEF CacheIsOlder, Ids
<1>5. (NoGhostAlerts /\ KnownAfterTwoPolls /\ AlertsCircuitSound)'
  BY DEF IInv, SkipPoll, NoGhostAlerts, KnownAfterTwoPolls,
         AlertsCircuitSound, Ids
<1> QED BY <1>2, <1>3, <1>4, <1>5 DEF IInv

LEMMA RespondIInv == IInv /\ Respond => IInv'
<1> SUFFICES ASSUME IInv, Respond PROVE IInv'
  OBVIOUS
<1>1. /\ poll.phase = "request" /\ poll'.phase = "body"
      /\ poll'.deadline = poll.deadline
      /\ poll' \in [phase : {"idle", "request", "body"}, deadline : Nat,
                    alerts : Contents]
  BY DEF IInv, TypeOK, Respond
<1>2. TypeOK'
  BY <1>1 DEF IInv, TypeOK, Respond, Contents
<1>3. (PollEndsBeforeTimer /\ CacheIsOlder)'
  BY <1>1 DEF IInv, Respond, PollEndsBeforeTimer, CacheIsOlder, Ids
<1>4. (NoGhostAlerts /\ KnownAfterTwoPolls /\ AlertsCircuitSound)'
  BY DEF IInv, Respond, NoGhostAlerts, KnownAfterTwoPolls,
         AlertsCircuitSound, Ids
<1> QED BY <1>2, <1>3, <1>4 DEF IInv

LEMMA FailIInv == IInv /\ FailPoll => IInv'
<1> SUFFICES ASSUME IInv, FailPoll PROVE IInv'
  OBVIOUS
<1>1. /\ circuit' \in [failures : Nat, openAt : Stamp]
      /\ circuit'.openAt # Never <=> circuit'.failures >= OpenAfter
  BY AfterFailureSound DEF IInv, TypeOK, AlertsCircuitSound, FailPoll
<1>2. /\ poll'.phase = "idle"
      /\ poll' \in [phase : {"idle", "request", "body"}, deadline : Nat,
                    alerts : Contents]
  BY NoAlertsType DEF FailPoll, IdlePoll
<1>3. TypeOK'
  BY <1>1, <1>2 DEF IInv, TypeOK, FailPoll, Contents
<1>4. (PollEndsBeforeTimer /\ CacheIsOlder)'
  BY <1>2 DEF IInv, FailPoll, PollEndsBeforeTimer, CacheIsOlder, Ids
<1>5. (NoGhostAlerts /\ KnownAfterTwoPolls)'
  BY DEF IInv, FailPoll, NoGhostAlerts, KnownAfterTwoPolls, Ids
<1>6. AlertsCircuitSound'
  BY <1>1 DEF AlertsCircuitSound
<1> QED BY <1>3, <1>4, <1>5, <1>6 DEF IInv

-----------------------------------------------------------------------------
(* A poll is merged.  The two conjuncts about the view are the heart of    *)
(* it: an alert that leaves the cache is reported as resolved, and one     *)
(* that stays is reported as new or, its timestamp being later, as updated. *)
LEMMA FinishIInv == IInv /\ FinishPoll => IInv'
<1> SUFFICES ASSUME IInv, FinishPoll PROVE IInv'
  OBVIOUS
<1> DEFINE A == poll.alerts
<1>1. /\ poll.phase # "idle" /\ now \in Nat /\ poll.deadline \in Nat
      /\ nextPoll \in Int /\ A \in Contents /\ cache.alerts \in Contents
      /\ cache.modifiedAt \in Nat
  BY DEF IInv, TypeOK, FinishPoll, Stamp, Never
<1>2. /\ cache' = [alerts |-> A, modifiedAt |-> now]
      /\ previousAlertIds' = Ids(cache.alerts)
      /\ view' = Told(A) /\ now' = now /\ nextPoll' = nextPoll
      /\ poll' = IdlePoll
  BY DEF FinishPoll, ParsedAt
<1>3. TypeOK'
  <2>1. Told(A) \in Contents
    BY <1>1, ToldType DEF IInv
  <2>2. cache' \in [alerts : Contents, modifiedAt : Nat]
    BY <1>1, <1>2
  <2>3. previousAlertIds' \in SUBSET Alerts
    BY <1>2 DEF Ids
  <2>4. poll' \in [phase : {"idle", "request", "body"}, deadline : Nat,
                   alerts : Contents]
    BY <1>2, NoAlertsType DEF IdlePoll
  <2>5. /\ circuit' \in [failures : Nat, openAt : Stamp]
        /\ lastSuccessAt' \in Stamp
    BY <1>1, ClosedCircuit DEF FinishPoll, Stamp
  <2>6. feed' \in Contents /\ now' \in Nat /\ nextPoll' \in Stamp
    BY DEF FinishPoll, IInv, TypeOK
  <2>7. view' \in Contents
    BY <1>2, <2>1
  <2> QED BY <2>2, <2>3, <2>4, <2>5, <2>6, <2>7 DEF TypeOK
<1>4. PollEndsBeforeTimer'
  BY <1>2 DEF PollEndsBeforeTimer, IdlePoll
<1>5. CacheIsOlder'
  <2>1. nextPoll # Never => now < nextPoll
    BY <1>1 DEF IInv, PollEndsBeforeTimer
  <2> QED BY <1>2, <2>1 DEF CacheIsOlder, IdlePoll
<1>6. NoGhostAlerts'
  <2> SUFFICES ASSUME NEW a \in Alerts, A[a] = None PROVE Told(A)[a] = None
    BY <1>2 DEF NoGhostAlerts
  <2>1. a \notin NewAlerts(A) \cup UpdatedAlerts(A)
    BY DEF NewAlerts, UpdatedAlerts, Ids
  <2>2. CASE cache.alerts[a] # None
    <3>1. a \in ResolvedAlerts(A)
      BY <2>2 DEF ResolvedAlerts, Ids
    <3> QED BY <2>1, <3>1 DEF Told
  <2>3. CASE cache.alerts[a] = None
    <3>1. view[a] = None
      BY <2>3 DEF IInv, NoGhostAlerts
    <3> QED BY <2>1, <3>1 DEF Told
  <2> QED BY <2>2, <2>3
<1>7. KnownAfterTwoPolls'
  <2> SUFFICES ASSUME NEW a \in Ids(A) \cap Ids(cache.alerts)
               PROVE  Told(A)[a] = A[a]
    BY <1>2 DEF KnownAfterTwoPolls, Ids
  <2>1. cache.modifiedAt < now
    BY <1>1 DEF IInv, CacheIsOlder
  <2>2. a \in NewAlerts(A) \cup UpdatedAlerts(A)
    BY <2>1, <1>1 DEF NewAlerts, UpdatedAlerts, ParsedAt
  <2>3. a \in Alerts
    BY DEF Ids
  <2> QED BY <2>2, <2>3 DEF Told
<1>8. AlertsCircuitSound'
  BY ClosedCircuit DEF FinishPoll, AlertsCircuitSound
<1> QED BY <1>3, <1>4, <1>5, <1>6, <1>7, <1>8 DEF IInv

LEMMA StutterIInv == IInv /\ UNCHANGED vars => IInv'
  BY DEF IInv, vars, pollerVars, TypeOK, PollEndsBeforeTimer, CacheIsOlder,
         NoGhostAlerts, KnownAfterTwoPolls, AlertsCircuitSound, Ids, Contents

LEMMA StepIInv == IInv /\ [Next]_vars => IInv'
<1> SUFFICES ASSUME IInv, [Next]_vars PROVE IInv'
  OBVIOUS
<1>1. CASE Tick           BY <1>1, TickIInv
<1>2. CASE Horizon        BY <1>2, StutterIInv DEF Horizon
<1>3. ASSUME NEW a \in Alerts, Publish(a) PROVE IInv'
  BY <1>3, PublishIInv
<1>4. CASE StartPoll      BY <1>4, StartIInv
<1>5. CASE SkipPoll       BY <1>5, SkipIInv
<1>6. CASE StopPoller     BY <1>6, StopIInv
<1>7. CASE Respond        BY <1>7, RespondIInv
<1>8. CASE FinishPoll     BY <1>8, FinishIInv
<1>9. CASE FailPoll       BY <1>9, FailIInv
<1>10. CASE UNCHANGED vars BY <1>10, StutterIInv
<1> QED BY <1>1, <1>2, <1>3, <1>4, <1>5, <1>6, <1>7, <1>8, <1>9, <1>10
        DEF Next

-----------------------------------------------------------------------------
(* The inductive invariant holds in every reachable state.                 *)
THEOREM Invariance == Spec => []IInv
  BY InitIInv, StepIInv, PTL DEF Spec

(* Every variable keeps its type. *)
THEOREM TypeCorrect == Spec => []TypeOK
<1>1. IInv => TypeOK
  BY DEF IInv
<1> QED BY <1>1, Invariance, PTL

(* Whatever leaves the alerts cache is reported as resolved: a listener    *)
(* never keeps an alert the cache has dropped.                             *)
THEOREM EveryResolutionTold == Spec => []NoGhostAlerts
<1>1. IInv => NoGhostAlerts
  BY DEF IInv
<1> QED BY <1>1, Invariance, PTL

(* An alert two successful polls in a row have seen is known to listeners  *)
(* with its present content.                                               *)
THEOREM ViewCatchesUp == Spec => []KnownAfterTwoPolls
<1>1. IInv => KnownAfterTwoPolls
  BY DEF IInv
<1> QED BY <1>1, Invariance, PTL

(* The timer never finds a poll in flight: polls are one after the other.  *)
THEOREM PollsDoNotOverlap == Spec => []TimerFindsNoPoll
<1>1. IInv => TimerFindsNoPoll
  <2> SUFFICES ASSUME IInv, PollDue, poll.phase # "idle" PROVE FALSE
    BY DEF TimerFindsNoPoll
  <2>1. now \in Nat /\ poll.deadline \in Nat /\ nextPoll = now
    BY DEF IInv, TypeOK, PollDue
  <2>2. now <= poll.deadline /\ poll.deadline < nextPoll
    BY <2>1 DEF IInv, PollEndsBeforeTimer, Never
  <2> QED BY <2>1, <2>2
<1> QED BY <1>1, Invariance, PTL

(* The breaker of the alerts feed is open exactly while its run of         *)
(* failures has reached the threshold.                                     *)
THEOREM AlertsBreakerSound == Spec => []AlertsCircuitSound
<1>1. IInv => AlertsCircuitSound
  BY DEF IInv
<1> QED BY <1>1, Invariance, PTL

=============================================================================
