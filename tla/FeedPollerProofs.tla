-------------------------- MODULE FeedPollerProofs --------------------------
(***************************************************************************)
(* Theorems about FeedPoller for every set of feeds, number of slots and   *)
(* timing.  The inductive invariant IInv is a conjunction of named parts;  *)
(* each safety property follows from the parts its theorem cites.          *)
(***************************************************************************)
EXTENDS FeedPoller, TLAPS

(* The latest moment, counted from the start of its cycle, at which the    *)
(* n-th attempt of a fetch can still be running.                           *)
Budget(n) == n * FetchTimeout + (n - 1) * MaxBackoff

(* A cycle in flight has begun all its fetches, an idle slot none.         *)
SlotsInv ==
    \A c \in Slots :
        /\ cycleStart[c] <= now
        /\ \A f \in Feeds :
              (fetch[c][f].phase = "idle") <=> (cycleStart[c] = Never)

(* The deadline of each waiting fetch lies within the budget of its        *)
(* attempts, and the clock has not passed it.                              *)
DeadlineInv ==
    \A c \in Slots, f \in Feeds :
        LET x == fetch[c][f] IN
        /\ x.phase \in {"request", "body"}
              => /\ x.attempt >= 1
                 /\ now <= x.deadline
                 /\ x.deadline <= cycleStart[c] + Budget(x.attempt)
        /\ x.phase = "backoff"
              => /\ x.attempt >= 1 /\ x.attempt < MaxAttempts
                 /\ now <= x.deadline
                 /\ x.deadline <= cycleStart[c] + Budget(x.attempt) + MaxBackoff

(* A request was made less than a timeout ago, and a body being read was   *)
(* sent by the service during its attempt.                                 *)
ContentInv ==
    \A c \in Slots, f \in Feeds :
        /\ fetch[c][f].phase = "request"
              => fetch[c][f].deadline <= now + FetchTimeout
        /\ fetch[c][f].phase = "body"
              => /\ fetch[c][f].content # Never
                 /\ fetch[c][f].content <= now
                 /\ fetch[c][f].deadline <= fetch[c][f].content + FetchTimeout

(* Parsed feeds are of the past, and only settled fetches have an outcome. *)
RecordInv ==
    /\ \A f \in Feeds : feedState[f].parsedFeed <= now
    /\ \A c \in Slots, f \in Feeds :
          fetch[c][f].outcome = "ok" => fetch[c][f].phase = "done"

IInv ==
    /\ TypeOK
    /\ SlotsInv
    /\ DeadlineInv
    /\ ContentInv
    /\ RecordInv
    /\ CircuitMatchesFailures
    /\ CycleLifetimeBounded
    /\ CacheLagsOnlyInFlight
    /\ FeedAgeHonest

-----------------------------------------------------------------------------
(* The records the cache operations and the fetch steps build are typed.   *)
LEMMA CacheTypes ==
    ASSUME now \in Nat, NEW s \in FeedState, NEW content \in Stamp
    PROVE  /\ AfterCircuitCheck(s) \in FeedState
           /\ recordFeedSuccess(s, content) \in FeedState
           /\ recordFeedFailure(s) \in FeedState
<1> USE DEF FeedState, Stamp
<1>1. AfterCircuitCheck(s) \in FeedState
    BY DEF AfterCircuitCheck, Never
<1>2. recordFeedSuccess(s, content) \in FeedState
    BY DEF recordFeedSuccess, Never
<1>3. recordFeedFailure(s) \in FeedState
  <2>1. s.consecutiveFailures + 1 \in Nat
      OBVIOUS
  <2>2. QED
      BY <2>1 DEF recordFeedFailure
<1>4. QED
    BY <1>1, <1>2, <1>3

LEMMA DeadlineTypes ==
    ASSUME now \in Nat
    PROVE  /\ now + FetchTimeout \in Nat
           /\ now + MaxBackoff \in Nat
           /\ 1 \in 0 .. MaxAttempts
  BY TimingAssumption DEF TimingAssumption

LEMMA FetchTypes ==
    /\ \A phase \in {"request", "body", "backoff"}, attempt \in 0 .. MaxAttempts,
          deadline \in Nat, content \in Nat \cup {Never} :
             Fetch(phase, attempt, deadline, content) \in FetchState
    /\ \A outcome \in {"ok", "skipped", "transient", "terminal"} :
          Settled(outcome) \in FetchState
    /\ Idle \in FetchState
  BY TimingAssumption
     DEF TimingAssumption, Fetch, Settled, Idle, FetchState, Phases, Stamp, Never

(* Type correctness.  A fetch that backs off must have an attempt left,    *)
(* which is part of DeadlineInv, or the next attempt would leave its type. *)
LEMMA StepTypeOK ==
    ASSUME TypeOK, DeadlineInv, [Next]_vars
    PROVE  TypeOK'
<1> USE TimingAssumption DEF TimingAssumption, TypeOK
<1>1. CASE Tick
    BY <1>1 DEF Tick
<1>2. CASE StopPoller
    BY <1>2 DEF StopPoller, Stamp
<1>3. CASE Horizon
    BY <1>3 DEF Horizon, vars
<1>4. ASSUME NEW c \in Slots, StartCycle(c) PROVE TypeOK'
  <2>1. feedState' \in [Feeds -> FeedState]
      BY <1>4, CacheTypes DEF StartCycle
  <2>2. \A f \in Feeds :
           /\ Settled("skipped") \in FetchState
           /\ Fetch("request", 1, now + FetchTimeout, Never) \in FetchState
      BY FetchTypes, DeadlineTypes, Zenon
  <2>3. QED
      BY <1>4, <2>1, <2>2 DEF StartCycle, Stamp
<1>5. ASSUME NEW c \in Slots, FinishCycle(c) PROVE TypeOK'
    BY <1>5, FetchTypes DEF FinishCycle, getAllParsedFeeds, Stamp, FeedState
<1>6. ASSUME NEW c \in Slots, NEW f \in Feeds, Respond(c, f) PROVE TypeOK'
  <2>1. fetch[c][f].attempt \in 0 .. MaxAttempts /\ fetch[c][f].deadline \in Nat
      BY DEF FetchState
  <2>2. Fetch("body", fetch[c][f].attempt, fetch[c][f].deadline, now) \in FetchState
      BY <2>1, FetchTypes
  <2>3. QED
      BY <1>6, <2>2 DEF Respond
<1>7. ASSUME NEW c \in Slots, NEW f \in Feeds, FetchOk(c, f) PROVE TypeOK'
  <2>1. fetch[c][f].content \in Stamp
      BY DEF FetchState
  <2>2. QED
      BY <1>7, <2>1, CacheTypes, FetchTypes DEF FetchOk
<1>8. ASSUME NEW c \in Slots, NEW f \in Feeds, Retry(c, f) PROVE TypeOK'
  <2>1. fetch[c][f].attempt + 1 \in 0 .. MaxAttempts
      BY <1>8 DEF Retry, DeadlineInv, FetchState
  <2>2. Fetch("request", fetch[c][f].attempt + 1, now + FetchTimeout, Never)
           \in FetchState
      BY <2>1, FetchTypes, DeadlineTypes, Zenon
  <2>3. QED
      BY <1>8, <2>2 DEF Retry
<1>9. ASSUME NEW c \in Slots, NEW f \in Feeds, NEW failure \in Failures,
             FetchFailed(c, f, failure)
      PROVE  TypeOK'
  <2>1. /\ recordFeedFailure(feedState[f]) \in FeedState
        /\ Settled(IF failure \in Transient THEN "transient" ELSE "terminal")
              \in FetchState
      BY CacheTypes, FetchTypes DEF Stamp
  <2>2. QED
      BY <1>9, <2>1 DEF FetchFailed
<1>10. ASSUME NEW c \in Slots, NEW f \in Feeds, NEW failure \in Failures,
              BackOff(c, f, failure)
       PROVE  TypeOK'
  <2>1. fetch[c][f].attempt \in 0 .. MaxAttempts
      BY DEF FetchState
  <2>2. Fetch("backoff", fetch[c][f].attempt, now + MaxBackoff, Never)
           \in FetchState
      BY <2>1, FetchTypes, DeadlineTypes, Zenon
  <2>3. QED
      BY <1>10, <2>2 DEF BackOff
<1>11. CASE UNCHANGED vars
    BY <1>11 DEF vars
<1>12. QED
    BY <1>1, <1>2, <1>3, <1>4, <1>5, <1>6, <1>7, <1>8, <1>9, <1>10, <1>11
       DEF Next, FetchStep

-----------------------------------------------------------------------------
(* What a fetch step leaves alone: every other fetch, the clock and the    *)
(* cycles; and the fetch it moves is neither idle nor settled before.      *)
LEMMA FetchStepFrame ==
    ASSUME TypeOK, NEW c \in Slots, NEW f \in Feeds, FetchStep(c, f)
    PROVE  /\ fetch[c][f].phase \in {"request", "body", "backoff"}
           /\ fetch'[c][f].phase # "idle"
           /\ \A d \in Slots, g \in Feeds :
                 d # c \/ g # f => fetch'[d][g] = fetch[d][g]
           /\ \A g \in Feeds : g # f => feedState'[g] = feedState[g]
           /\ UNCHANGED <<now, cycleStart, arrivals>>
<1> USE DEF TypeOK
<1>1. CASE Respond(c, f)
    BY <1>1 DEF Respond, Fetch
<1>2. CASE FetchOk(c, f)
    BY <1>2 DEF FetchOk, Settled
<1>3. CASE Retry(c, f)
    BY <1>3 DEF Retry, Fetch
<1>4. ASSUME NEW failure \in Failures, FetchFailed(c, f, failure)
      PROVE  /\ fetch[c][f].phase \in {"request", "body", "backoff"}
             /\ fetch'[c][f].phase # "idle"
             /\ \A d \in Slots, g \in Feeds :
                   d # c \/ g # f => fetch'[d][g] = fetch[d][g]
             /\ \A g \in Feeds : g # f => feedState'[g] = feedState[g]
             /\ UNCHANGED <<now, cycleStart, arrivals>>
    BY <1>4 DEF FetchFailed, CanFail, Settled
<1>5. ASSUME NEW failure \in Failures, BackOff(c, f, failure)
      PROVE  /\ fetch[c][f].phase \in {"request", "body", "backoff"}
             /\ fetch'[c][f].phase # "idle"
             /\ \A d \in Slots, g \in Feeds :
                   d # c \/ g # f => fetch'[d][g] = fetch[d][g]
             /\ \A g \in Feeds : g # f => feedState'[g] = feedState[g]
             /\ UNCHANGED <<now, cycleStart, arrivals>>
    BY <1>5 DEF BackOff, CanFail, Fetch
<1>6. QED
    BY <1>1, <1>2, <1>3, <1>4, <1>5 DEF FetchStep

LEMMA StepSlotsInv ==
    ASSUME TypeOK, SlotsInv, [Next]_vars
    PROVE  SlotsInv'
<1> USE DEF TypeOK, SlotsInv
<1>1. CASE Tick
  <2>1. \A c \in Slots : cycleStart[c] \in Int
      BY DEF Stamp, Never
  <2>2. QED
      BY <1>1, <2>1 DEF Tick
<1>2. CASE StopPoller
    BY <1>2 DEF StopPoller
<1>3. CASE Horizon \/ UNCHANGED vars
    BY <1>3 DEF Horizon, vars
<1>4. ASSUME NEW c \in Slots, StartCycle(c) PROVE SlotsInv'
    BY <1>4 DEF StartCycle, Settled, Fetch, Never
<1>5. ASSUME NEW c \in Slots, FinishCycle(c) PROVE SlotsInv'
  <2>1. /\ cycleStart'[c] = Never /\ now' = now
        /\ \A f \in Feeds : fetch'[c][f].phase = "idle"
        /\ \A d \in Slots : d # c => /\ fetch'[d] = fetch[d]
                                     /\ cycleStart'[d] = cycleStart[d]
      BY <1>5 DEF FinishCycle, Idle, Fetch
  <2>2. Never <= now
      BY DEF Never
  <2>3. QED
      BY <2>1, <2>2
<1>6. ASSUME NEW c \in Slots, NEW f \in Feeds, FetchStep(c, f) PROVE SlotsInv'
    BY <1>6, FetchStepFrame
<1>7. QED
    BY <1>1, <1>2, <1>3, <1>4, <1>5, <1>6 DEF Next

-----------------------------------------------------------------------------
(* Timing.                                                                 *)
LEMMA BudgetFacts ==
    /\ \A n \in Nat : Budget(n) \in Int
    /\ Budget(1) = FetchTimeout
    /\ \A n \in Nat : Budget(n + 1) = Budget(n) + MaxBackoff + FetchTimeout
    /\ \A n \in 1 .. MaxAttempts : Budget(n) <= LongestCycle
<1> USE TimingAssumption DEF TimingAssumption, Budget, LongestCycle
<1>1. \A n \in Nat : Budget(n) \in Int
    OBVIOUS
<1>2. Budget(1) = FetchTimeout
    OBVIOUS
<1>3. \A n \in Nat : Budget(n + 1) = Budget(n) + MaxBackoff + FetchTimeout
    OBVIOUS
<1>4. ASSUME NEW n \in 1 .. MaxAttempts PROVE Budget(n) <= LongestCycle
  <2>1. /\ n \in Nat /\ MaxAttempts - n \in Nat
        /\ FetchTimeout \in Nat /\ MaxBackoff \in Nat
      OBVIOUS
  <2>2. (MaxAttempts - n) * FetchTimeout >= 0 /\ (MaxAttempts - n) * MaxBackoff >= 0
      BY <2>1
  <2>3. /\ MaxAttempts * FetchTimeout - n * FetchTimeout
              = (MaxAttempts - n) * FetchTimeout
        /\ (MaxAttempts - 1) * MaxBackoff - (n - 1) * MaxBackoff
              = (MaxAttempts - n) * MaxBackoff
      BY <2>1
  <2>4. QED
      BY <2>1, <2>2, <2>3
<1>5. QED
    BY <1>1, <1>2, <1>3, <1>4

LEMMA LongestCycleType == LongestCycle \in Nat
<1>1. MaxAttempts * FetchTimeout \in Nat
    BY TimingAssumption DEF TimingAssumption
<1>2. MaxAttempts - 1 \in Nat /\ MaxBackoff \in Nat
    BY TimingAssumption DEF TimingAssumption
<1>3. (MaxAttempts - 1) * MaxBackoff \in Nat
    BY <1>2
<1>4. QED
    BY <1>1, <1>3 DEF LongestCycle

(* DeadlineInv for one fetch; its quantifier is then moved action by action. *)
WithinBudget(x, start) ==
    /\ x.phase \in {"request", "body"}
          => /\ x.attempt >= 1
             /\ now <= x.deadline
             /\ x.deadline <= start + Budget(x.attempt)
    /\ x.phase = "backoff"
          => /\ x.attempt >= 1 /\ x.attempt < MaxAttempts
             /\ now <= x.deadline
             /\ x.deadline <= start + Budget(x.attempt) + MaxBackoff

LEMMA StepDeadlineInv ==
    ASSUME TypeOK, SlotsInv, DeadlineInv, [Next]_vars
    PROVE  DeadlineInv'
<1> USE TimingAssumption DEF TimingAssumption, TypeOK
<1>0. /\ \A c \in Slots : cycleStart[c] \in Int
      /\ \A c \in Slots, f \in Feeds : /\ fetch[c][f].attempt \in 0 .. MaxAttempts
                                       /\ fetch[c][f].deadline \in Nat
                                       /\ Budget(fetch[c][f].attempt) \in Int
    BY BudgetFacts DEF Stamp, Never, FetchState
<1>1. CASE Tick
  <2>1. ASSUME NEW c \in Slots, NEW f \in Feeds, Waiting(c, f)
        PROVE  now + 1 <= fetch[c][f].deadline
    <3>1. c \in InFlight
        BY <2>1 DEF SlotsInv, InFlight, Waiting
    <3>2. QED
        BY <1>0, <1>1, <2>1, <3>1 DEF Tick, Urgent
  <2>2. QED
      BY <1>1, <2>1 DEF Tick, DeadlineInv, Waiting
<1>2. CASE StopPoller \/ Horizon \/ UNCHANGED vars
    BY <1>2 DEF StopPoller, Horizon, vars, DeadlineInv
<1>3. ASSUME NEW c \in Slots, StartCycle(c) PROVE DeadlineInv'
  <2>1. /\ cycleStart'[c] = now /\ now' = now
        /\ \A d \in Slots : d # c => /\ fetch'[d] = fetch[d]
                                     /\ cycleStart'[d] = cycleStart[d]
      BY <1>3 DEF StartCycle
  <2>2. ASSUME NEW f \in Feeds PROVE WithinBudget(fetch[c][f], cycleStart[c])'
    <3>1. \/ fetch'[c][f] = Settled("skipped")
          \/ fetch'[c][f] = Fetch("request", 1, now + FetchTimeout, Never)
        BY <1>3 DEF StartCycle
    <3>2. QED
        BY <2>1, <3>1, BudgetFacts DEF WithinBudget, Settled, Fetch
  <2>3. QED
      BY <2>1, <2>2 DEF DeadlineInv, WithinBudget
<1>4. ASSUME NEW c \in Slots, FinishCycle(c) PROVE DeadlineInv'
    BY <1>4 DEF FinishCycle, DeadlineInv, Idle, Fetch
<1>5. ASSUME NEW c \in Slots, NEW f \in Feeds, FetchStep(c, f) PROVE DeadlineInv'
  <2>1. WithinBudget(fetch[c][f], cycleStart[c])
      BY DEF DeadlineInv, WithinBudget
  <2>2. now' = now /\ cycleStart' = cycleStart
      BY <1>5, FetchStepFrame
  <2>3. WithinBudget(fetch[c][f], cycleStart[c])'
    <3>1. CASE Respond(c, f)
        BY <2>1, <2>2, <3>1 DEF Respond, Fetch, WithinBudget
    <3>2. CASE FetchOk(c, f)
        BY <2>2, <3>2 DEF FetchOk, Settled, WithinBudget
    <3>3. CASE Retry(c, f)
      <4>1. fetch'[c][f] = Fetch("request", fetch[c][f].attempt + 1,
                                 now + FetchTimeout, Never)
          BY <3>3 DEF Retry
      <4>2. Budget(fetch[c][f].attempt + 1)
               = Budget(fetch[c][f].attempt) + MaxBackoff + FetchTimeout
          BY <1>0, BudgetFacts
      <4>3. now <= cycleStart[c] + Budget(fetch[c][f].attempt) + MaxBackoff
          BY <1>0, <2>1, <3>3 DEF Retry, WithinBudget
      <4>4. QED
          BY <1>0, <2>2, <4>1, <4>2, <4>3 DEF Fetch, WithinBudget
    <3>4. ASSUME NEW failure \in Failures, FetchFailed(c, f, failure)
          PROVE  WithinBudget(fetch[c][f], cycleStart[c])'
        BY <2>2, <3>4 DEF FetchFailed, Settled, WithinBudget
    <3>5. ASSUME NEW failure \in Failures, BackOff(c, f, failure)
          PROVE  WithinBudget(fetch[c][f], cycleStart[c])'
      <4>1. fetch'[c][f] = Fetch("backoff", fetch[c][f].attempt,
                                 now + MaxBackoff, Never)
          BY <3>5 DEF BackOff
      <4>2. /\ fetch[c][f].phase = "request"
            /\ fetch[c][f].attempt < MaxAttempts
          BY <3>5 DEF BackOff, WillRetry
      <4>3. QED
          BY <1>0, <2>1, <2>2, <4>1, <4>2 DEF Fetch, WithinBudget
    <3>6. QED
        BY <1>5, <3>1, <3>2, <3>3, <3>4, <3>5 DEF FetchStep
  <2>4. QED
      BY <1>5, <2>2, <2>3, FetchStepFrame DEF DeadlineInv, WithinBudget
<1>6. QED
    BY <1>1, <1>2, <1>3, <1>4, <1>5 DEF Next

(* The clock passes no deadline, and stands while a settled cycle has not  *)
(* ended; so the cycle's age stays within the budget of its last attempt.  *)
LEMMA StepCycleLifetime ==
    ASSUME TypeOK, SlotsInv, DeadlineInv, CycleLifetimeBounded, [Next]_vars
    PROVE  CycleLifetimeBounded'
<1> USE TimingAssumption DEF TimingAssumption, TypeOK
<1>0. /\ \A c \in Slots : cycleStart[c] \in Int
      /\ LongestCycle \in Int /\ LongestCycle >= 0
    BY LongestCycleType DEF Stamp, Never
<1>1. CASE Tick
  <2>1. ASSUME NEW c \in InFlight PROVE now + 1 - cycleStart[c] <= LongestCycle
    <3>1. c \in Slots /\ cycleStart[c] # Never
        BY DEF InFlight
    <3>2. PICK f \in Feeds : Waiting(c, f) /\ ~(fetch[c][f].deadline <= now)
      <4>1. PICK f \in Feeds : fetch[c][f].phase # "done"
          BY <1>1, <2>1 DEF Tick, Urgent, AllSettled
      <4>2. fetch[c][f].phase \in Phases /\ fetch[c][f].phase # "idle"
          BY <3>1 DEF SlotsInv, FetchState
      <4>3. Waiting(c, f)
          BY <4>1, <4>2 DEF Waiting, Phases
      <4>4. QED
          BY <1>1, <2>1, <4>3 DEF Tick, Urgent
    <3>3. fetch[c][f].attempt \in 0 .. MaxAttempts /\ fetch[c][f].deadline \in Nat
        BY <3>1 DEF FetchState
    <3>4. now + 1 <= fetch[c][f].deadline
        BY <3>2, <3>3
    <3>5. fetch[c][f].deadline - cycleStart[c] <= LongestCycle
      <4>1. CASE fetch[c][f].phase \in {"request", "body"}
        <5>1. fetch[c][f].attempt \in 1 .. MaxAttempts
            BY <3>1, <3>3, <4>1 DEF DeadlineInv
        <5>2. /\ Budget(fetch[c][f].attempt) \in Int
              /\ Budget(fetch[c][f].attempt) <= LongestCycle
            BY <5>1, BudgetFacts
        <5>3. fetch[c][f].deadline <= cycleStart[c] + Budget(fetch[c][f].attempt)
            BY <3>1, <4>1 DEF DeadlineInv
        <5>4. QED
            BY <1>0, <3>1, <3>3, <5>2, <5>3
      <4>2. CASE fetch[c][f].phase = "backoff"
        <5>1. fetch[c][f].attempt \in Nat /\ fetch[c][f].attempt + 1 \in 1 .. MaxAttempts
            BY <3>1, <3>3, <4>2 DEF DeadlineInv
        <5>2. /\ Budget(fetch[c][f].attempt) \in Int
              /\ Budget(fetch[c][f].attempt) + MaxBackoff + FetchTimeout <= LongestCycle
            BY <5>1, BudgetFacts
        <5>3. fetch[c][f].deadline
                 <= cycleStart[c] + Budget(fetch[c][f].attempt) + MaxBackoff
            BY <3>1, <4>2 DEF DeadlineInv
        <5>4. QED
            BY <1>0, <3>1, <3>3, <5>2, <5>3
      <4>3. QED
          BY <3>2, <4>1, <4>2 DEF Waiting
    <3>6. QED
        BY <1>0, <3>1, <3>3, <3>4, <3>5
  <2>2. /\ InFlight' = InFlight
        /\ now' = now + 1 /\ cycleStart' = cycleStart
      BY <1>1 DEF Tick, InFlight
  <2>3. ASSUME NEW c \in InFlight' PROVE now' - cycleStart'[c] <= LongestCycle
    <3>1. c \in InFlight /\ c \in Slots
        BY <2>2 DEF InFlight
    <3>2. now + 1 - cycleStart[c] <= LongestCycle
        BY <2>1, <3>1
    <3>3. QED
        BY <1>0, <2>2, <3>1, <3>2
  <2>4. QED
      BY <2>3 DEF CycleLifetimeBounded
<1>2. CASE StopPoller \/ Horizon \/ UNCHANGED vars
    BY <1>2 DEF StopPoller, Horizon, vars, CycleLifetimeBounded, InFlight
<1>3. ASSUME NEW c \in Slots, StartCycle(c) PROVE CycleLifetimeBounded'
    BY <1>0, <1>3 DEF StartCycle, CycleLifetimeBounded, InFlight
<1>4. ASSUME NEW c \in Slots, FinishCycle(c) PROVE CycleLifetimeBounded'
    BY <1>4 DEF FinishCycle, CycleLifetimeBounded, InFlight
<1>5. ASSUME NEW c \in Slots, NEW f \in Feeds, FetchStep(c, f)
      PROVE  CycleLifetimeBounded'
    BY <1>5, FetchStepFrame DEF CycleLifetimeBounded, InFlight
<1>6. QED
    BY <1>1, <1>2, <1>3, <1>4, <1>5 DEF Next

-----------------------------------------------------------------------------
(* The circuit breaker and the contents.                                   *)

(* The breaker's invariant, for the state of one feed.                     *)
Sound(s) == s.circuitOpenAt # Never <=> s.consecutiveFailures >= OpenAfter

(* Each operation of cache.ts keeps it.                                    *)
LEMMA CacheSound ==
    ASSUME now \in Nat, NEW s \in FeedState, NEW content \in Stamp, Sound(s)
    PROVE  /\ Sound(AfterCircuitCheck(s))
           /\ Sound(recordFeedSuccess(s, content))
           /\ Sound(recordFeedFailure(s))
<1> USE TimingAssumption DEF TimingAssumption, Sound, FeedState, Stamp, Never
<1>1. Sound(AfterCircuitCheck(s))
    BY DEF AfterCircuitCheck
<1>2. Sound(recordFeedSuccess(s, content))
    BY DEF recordFeedSuccess
<1>3. Sound(recordFeedFailure(s))
    BY DEF recordFeedFailure
<1>4. QED
    BY <1>1, <1>2, <1>3

LEMMA StepCircuit ==
    ASSUME TypeOK, CircuitMatchesFailures, [Next]_vars
    PROVE  CircuitMatchesFailures'
<1> USE DEF TypeOK
<1>0. \A f \in Feeds : Sound(feedState[f])
    BY DEF CircuitMatchesFailures, Sound
<1>1. CASE UNCHANGED feedState
    BY <1>1 DEF CircuitMatchesFailures
<1>2. ASSUME NEW c \in Slots, StartCycle(c) PROVE CircuitMatchesFailures'
  <2>1. ASSUME NEW f \in Feeds PROVE Sound(feedState'[f])
    <3>1. feedState'[f] = AfterCircuitCheck(feedState[f])
        BY <1>2 DEF StartCycle
    <3>2. QED
        BY <1>0, <3>1, CacheSound DEF Stamp
  <2>2. QED
      BY <2>1 DEF CircuitMatchesFailures, Sound
<1>3. ASSUME NEW c \in Slots, NEW f \in Feeds, FetchOk(c, f)
      PROVE  CircuitMatchesFailures'
  <2>1. fetch[c][f].content \in Stamp
      BY DEF FetchState
  <2>2. Sound(recordFeedSuccess(feedState[f], fetch[c][f].content))
      BY <1>0, <2>1, CacheSound
  <2>3. QED
      BY <1>0, <1>3, <2>2 DEF FetchOk, CircuitMatchesFailures, Sound
<1>4. ASSUME NEW c \in Slots, NEW f \in Feeds, NEW failure \in Failures,
             FetchFailed(c, f, failure)
      PROVE  CircuitMatchesFailures'
  <2>1. Sound(recordFeedFailure(feedState[f]))
      BY <1>0, CacheSound DEF Stamp
  <2>2. QED
      BY <1>0, <1>4, <2>1 DEF FetchFailed, CircuitMatchesFailures, Sound
<1>5. QED
    BY <1>1, <1>2, <1>3, <1>4
       DEF Next, FetchStep, vars, Tick, StopPoller, Horizon, FinishCycle,
           Respond, Retry, BackOff

LEMMA StepContentInv ==
    ASSUME TypeOK, DeadlineInv, ContentInv, RecordInv, [Next]_vars
    PROVE  ContentInv' /\ RecordInv'
<1> USE TimingAssumption DEF TimingAssumption, TypeOK, ContentInv, RecordInv
<1>0. /\ \A f \in Feeds : feedState[f].parsedFeed \in Int
      /\ \A c \in Slots, f \in Feeds : fetch[c][f].content \in Int
                                       /\ fetch[c][f].deadline \in Nat
    BY DEF Stamp, Never, FeedState, FetchState
<1>1. CASE Tick
    BY <1>0, <1>1 DEF Tick
<1>2. CASE StopPoller \/ Horizon \/ UNCHANGED vars
    BY <1>2 DEF StopPoller, Horizon, vars
<1>3. ASSUME NEW c \in Slots, StartCycle(c) PROVE ContentInv' /\ RecordInv'
  <2>1. \A f \in Feeds : feedState'[f].parsedFeed = feedState[f].parsedFeed
      BY <1>3 DEF StartCycle, AfterCircuitCheck, FeedState
  <2>2. QED
      BY <1>3, <2>1 DEF StartCycle, Settled, Fetch
<1>4. ASSUME NEW c \in Slots, FinishCycle(c) PROVE ContentInv' /\ RecordInv'
    BY <1>4 DEF FinishCycle, Idle, Fetch
<1>5. ASSUME NEW c \in Slots, NEW f \in Feeds, Respond(c, f)
      PROVE  ContentInv' /\ RecordInv'
  <2>1. /\ fetch'[c][f] = Fetch("body", fetch[c][f].attempt, fetch[c][f].deadline, now)
        /\ UNCHANGED <<now, feedState>>
        /\ \A d \in Slots, g \in Feeds : d # c \/ g # f => fetch'[d][g] = fetch[d][g]
      BY <1>5 DEF Respond
  <2>2. fetch[c][f].deadline <= now + FetchTimeout
      BY <1>5 DEF Respond
  <2>3. ContentInv'
    <3>1. SUFFICES ASSUME NEW d \in Slots, NEW g \in Feeds
                   PROVE  /\ fetch'[d][g].phase = "request"
                                => fetch'[d][g].deadline <= now + FetchTimeout
                          /\ fetch'[d][g].phase = "body"
                                => /\ fetch'[d][g].content # Never
                                   /\ fetch'[d][g].content <= now
                                   /\ fetch'[d][g].deadline
                                         <= fetch'[d][g].content + FetchTimeout
        BY <2>1
    <3>2. CASE d = c /\ g = f
        BY <2>1, <2>2, <3>2 DEF Fetch, Never
    <3>3. CASE d # c \/ g # f
        BY <2>1, <3>3
    <3>4. QED
        BY <3>2, <3>3
  <2>4. RecordInv'
      BY <2>1 DEF Fetch
  <2>5. QED
      BY <2>3, <2>4
<1>6. ASSUME NEW c \in Slots, NEW f \in Feeds, FetchOk(c, f)
      PROVE  ContentInv' /\ RecordInv'
    BY <1>0, <1>6 DEF FetchOk, recordFeedSuccess, Settled
<1>7. ASSUME NEW c \in Slots, NEW f \in Feeds, Retry(c, f)
      PROVE  ContentInv' /\ RecordInv'
    BY <1>7 DEF Retry, Fetch
<1>8. ASSUME NEW c \in Slots, NEW f \in Feeds, NEW failure \in Failures,
             FetchFailed(c, f, failure)
      PROVE  ContentInv' /\ RecordInv'
  <2>1. \A g \in Feeds : feedState'[g].parsedFeed = feedState[g].parsedFeed
      BY <1>8 DEF FetchFailed, recordFeedFailure, FeedState
  <2>2. QED
      BY <1>8, <2>1 DEF FetchFailed, Settled
<1>9. ASSUME NEW c \in Slots, NEW f \in Feeds, NEW failure \in Failures,
             BackOff(c, f, failure)
      PROVE  ContentInv' /\ RecordInv'
    BY <1>9 DEF BackOff, Fetch
<1>10. QED
    BY <1>1, <1>2, <1>3, <1>4, <1>5, <1>6, <1>7, <1>8, <1>9 DEF Next, FetchStep

(* Circuit checks and failures leave the content of the feed alone.        *)
LEMMA KeepsContent ==
    ASSUME NEW s \in FeedState
    PROVE  /\ AfterCircuitCheck(s).parsedFeed = s.parsedFeed
           /\ AfterCircuitCheck(s).lastSuccessAt = s.lastSuccessAt
           /\ recordFeedFailure(s).parsedFeed = s.parsedFeed
           /\ recordFeedFailure(s).lastSuccessAt = s.lastSuccessAt
  BY DEF AfterCircuitCheck, recordFeedFailure, FeedState

(* Only a successful fetch of the feed changes what its state holds.       *)
LEMMA ContentChange ==
    ASSUME TypeOK, [Next]_vars, NEW f \in Feeds
    PROVE  \/ /\ feedState'[f].parsedFeed = feedState[f].parsedFeed
              /\ feedState'[f].lastSuccessAt = feedState[f].lastSuccessAt
           \/ \E c \in Slots : FetchOk(c, f)
<1> DEFINE Same == /\ feedState'[f].parsedFeed = feedState[f].parsedFeed
                   /\ feedState'[f].lastSuccessAt = feedState[f].lastSuccessAt
<1>0. feedState[f] \in FeedState
    BY DEF TypeOK
<1>1. CASE UNCHANGED feedState
    BY <1>1
<1>2. ASSUME NEW c \in Slots, StartCycle(c) PROVE Same
  <2>1. feedState'[f] = AfterCircuitCheck(feedState[f])
      BY <1>2 DEF StartCycle
  <2>2. QED
      BY <1>0, <2>1, KeepsContent
<1>3. ASSUME NEW c \in Slots, NEW g \in Feeds, FetchOk(c, g), g # f PROVE Same
    BY <1>3 DEF FetchOk, TypeOK
<1>4. ASSUME NEW c \in Slots, NEW g \in Feeds, NEW failure \in Failures,
             FetchFailed(c, g, failure)
      PROVE  Same
  <2>1. feedState'[f] = feedState[f] \/ feedState'[f] = recordFeedFailure(feedState[f])
      BY <1>4 DEF FetchFailed, TypeOK
  <2>2. QED
      BY <1>0, <2>1, KeepsContent
<1>5. QED
    BY <1>1, <1>2, <1>3, <1>4
       DEF Next, FetchStep, vars, Tick, StopPoller, Horizon, FinishCycle,
           Respond, Retry, BackOff

(* What a successful fetch stores was produced within one timeout of now.  *)
LEMMA FreshContent ==
    ASSUME TypeOK, DeadlineInv, ContentInv,
           NEW c \in Slots, NEW f \in Feeds, fetch[c][f].phase = "body"
    PROVE  /\ fetch[c][f].content \in Nat
           /\ fetch[c][f].content <= now
           /\ now - fetch[c][f].content <= FetchTimeout
<1> USE TimingAssumption DEF TimingAssumption, TypeOK
<1>1. /\ fetch[c][f].content \in Stamp
      /\ fetch[c][f].deadline \in Nat
    BY DEF FetchState
<1>2. /\ fetch[c][f].content # Never
      /\ fetch[c][f].content <= now
      /\ fetch[c][f].deadline <= fetch[c][f].content + FetchTimeout
    BY DEF ContentInv
<1>3. now <= fetch[c][f].deadline
    BY DEF DeadlineInv
<1>4. QED
    BY <1>1, <1>2, <1>3 DEF Stamp

LEMMA StepFeedAge ==
    ASSUME TypeOK, DeadlineInv, ContentInv, FeedAgeHonest, [Next]_vars
    PROVE  FeedAgeHonest'
<1> USE DEF TypeOK
<1>1. CASE \A f \in Feeds : /\ feedState'[f].parsedFeed = feedState[f].parsedFeed
                            /\ feedState'[f].lastSuccessAt = feedState[f].lastSuccessAt
    BY <1>1 DEF FeedAgeHonest
<1>2. ASSUME NEW c \in Slots, NEW f \in Feeds, FetchOk(c, f) PROVE FeedAgeHonest'
  <2>1. /\ feedState'[f].lastSuccessAt = now
        /\ feedState'[f].parsedFeed = fetch[c][f].content
        /\ \A g \in Feeds : g # f => feedState'[g] = feedState[g]
      BY <1>2 DEF FetchOk, recordFeedSuccess
  <2>2. /\ fetch[c][f].content \in Nat
        /\ now - fetch[c][f].content <= FetchTimeout
      BY <1>2, FreshContent DEF FetchOk
  <2>3. QED
      BY <2>1, <2>2 DEF FeedAgeHonest, Never
<1>3. QED
    BY <1>1, <1>2, ContentChange

LEMMA StepCacheLags ==
    ASSUME TypeOK, SlotsInv, RecordInv, CacheLagsOnlyInFlight, [Next]_vars
    PROVE  CacheLagsOnlyInFlight'
<1> USE DEF TypeOK, InFlight
<1>1. CASE Tick \/ StopPoller \/ Horizon \/ UNCHANGED vars
    BY <1>1 DEF Tick, StopPoller, Horizon, vars, CacheLagsOnlyInFlight
<1>2. ASSUME NEW c \in Slots, StartCycle(c) PROVE CacheLagsOnlyInFlight'
  <2>1. \A f \in Feeds : feedState'[f].parsedFeed = feedState[f].parsedFeed
      BY <1>2 DEF StartCycle, AfterCircuitCheck, FeedState
  <2>2. \A d \in InFlight : d \in InFlight' /\ fetch'[d] = fetch[d]
      BY <1>2 DEF StartCycle
  <2>3. UNCHANGED arrivals
      BY <1>2 DEF StartCycle
  <2>4. QED
      BY <2>1, <2>2, <2>3 DEF CacheLagsOnlyInFlight
<1>3. ASSUME NEW c \in Slots, FinishCycle(c) PROVE CacheLagsOnlyInFlight'
    BY <1>3 DEF FinishCycle, getAllParsedFeeds, CacheLagsOnlyInFlight
<1>4. ASSUME NEW c \in Slots, NEW f \in Feeds, FetchStep(c, f)
      PROVE  CacheLagsOnlyInFlight'
  <2>1. /\ UNCHANGED <<now, cycleStart, arrivals>>
        /\ \A d \in Slots, g \in Feeds :
              d # c \/ g # f => fetch'[d][g] = fetch[d][g]
        /\ \A g \in Feeds : g # f => feedState'[g] = feedState[g]
        /\ fetch[c][f].phase # "done"
      BY <1>4, FetchStepFrame
  <2>2. fetch[c][f].outcome # "ok"
      BY <2>1 DEF RecordInv
  <2>3. \A g \in Feeds, d \in InFlight :
           fetch[d][g].outcome = "ok" => d \in InFlight' /\ fetch'[d][g].outcome = "ok"
      BY <2>1, <2>2
  <2>4. \/ feedState'[f].parsedFeed = feedState[f].parsedFeed
        \/ FetchOk(c, f)
    <3>1. \A d \in Slots : FetchOk(d, f) => d = c
        BY <1>4, <2>1 DEF FetchOk, Settled
    <3>2. QED
        BY <3>1, ContentChange
  <2>5. CASE FetchOk(c, f)
    <3>1. fetch'[c][f].outcome = "ok"
        BY <2>5 DEF FetchOk, Settled
    <3>2. c \in InFlight'
        BY <2>1, <2>5 DEF FetchOk, SlotsInv
    <3>3. ASSUME NEW g \in Feeds, arrivals'[g] # feedState'[g].parsedFeed
          PROVE  \E d \in InFlight' : fetch'[d][g].outcome = "ok"
      <4>1. CASE g = f
          BY <3>1, <3>2, <4>1
      <4>2. CASE g # f
        <5>1. arrivals[g] # feedState[g].parsedFeed
            BY <2>1, <3>3, <4>2
        <5>2. PICK d \in InFlight : fetch[d][g].outcome = "ok"
            BY <5>1 DEF CacheLagsOnlyInFlight
        <5>3. QED
            BY <2>3, <5>2
      <4>3. QED
          BY <4>1, <4>2
    <3>4. QED
        BY <3>3 DEF CacheLagsOnlyInFlight
  <2>6. CASE feedState'[f].parsedFeed = feedState[f].parsedFeed
      BY <2>1, <2>3, <2>6 DEF CacheLagsOnlyInFlight
  <2>7. QED
      BY <2>4, <2>5, <2>6
<1>5. QED
    BY <1>1, <1>2, <1>3, <1>4 DEF Next

-----------------------------------------------------------------------------
(* The inductive invariant, and the theorems.                              *)
LEMMA InitIInv == Init => IInv
<1> SUFFICES ASSUME Init PROVE IInv
    OBVIOUS
<1> USE TimingAssumption DEF TimingAssumption, Init
<1>1. TypeOK
    BY FetchTypes DEF TypeOK, FeedState, Stamp
<1>2. \A c \in Slots, f \in Feeds : fetch[c][f].phase = "idle"
                                    /\ fetch[c][f].outcome = "none"
    BY DEF Idle, Fetch
<1>3. SlotsInv /\ RecordInv
    BY <1>2 DEF SlotsInv, RecordInv, Never
<1>4. DeadlineInv /\ ContentInv
    BY <1>2 DEF DeadlineInv, ContentInv
<1>5. CircuitMatchesFailures /\ FeedAgeHonest
    BY DEF CircuitMatchesFailures, FeedAgeHonest, Never
<1>6. CycleLifetimeBounded /\ CacheLagsOnlyInFlight
    BY DEF CycleLifetimeBounded, CacheLagsOnlyInFlight, InFlight
<1>7. QED
    BY <1>1, <1>3, <1>4, <1>5, <1>6 DEF IInv

LEMMA StepIInv == IInv /\ [Next]_vars => IInv'
  BY StepTypeOK, StepSlotsInv, StepDeadlineInv, StepContentInv, StepCircuit,
     StepCycleLifetime, StepCacheLags, StepFeedAge DEF IInv

THEOREM Invariance == Spec => []IInv
  BY InitIInv, StepIInv, PTL DEF Spec

(* Every state of the poller is typed; in particular no fetch makes more   *)
(* than MaxAttempts attempts.                                              *)
THEOREM TypeCorrect == Spec => []TypeOK
<1>1. IInv => TypeOK
    BY DEF IInv
<1>2. QED
    BY <1>1, Invariance, PTL

(* A feed's circuit is open exactly while its run of failures has reached  *)
(* the threshold, in whatever order overlapping cycles record results.     *)
THEOREM BreakerSound == Spec => []CircuitMatchesFailures
<1>1. IInv => CircuitMatchesFailures
    BY DEF IInv
<1>2. QED
    BY <1>1, Invariance, PTL

(* No poll cycle outlives the retry budget of its slowest fetch.           *)
THEOREM CyclesEndInTime == Spec => []CycleLifetimeBounded
<1>1. IInv => CycleLifetimeBounded
    BY DEF IInv
<1>2. QED
    BY <1>1, Invariance, PTL

(* No successful fetch is lost to the rebuild of an overlapping cycle.     *)
THEOREM NoFetchLost == Spec => []CacheLagsOnlyInFlight
<1>1. IInv => CacheLagsOnlyInFlight
    BY DEF IInv
<1>2. QED
    BY <1>1, Invariance, PTL

(* The reported age of a feed is its data's age up to one fetch timeout.   *)
THEOREM AgeHonest == Spec => []FeedAgeHonest
<1>1. IInv => FeedAgeHonest
    BY DEF IInv
<1>2. QED
    BY <1>1, Invariance, PTL

-----------------------------------------------------------------------------
(* The circuit reopens in time.                                            *)

(* While the timer is set, it fires within a poll interval, and before the *)
(* window of an open circuit is past by as much.                           *)
TimerInv ==
    nextPoll # Never =>
        /\ nextPoll <= now + PollInterval
        /\ now <= MaxTime => now <= nextPoll
        /\ \A f \in Feeds : feedState[f].circuitOpenAt # Never =>
              nextPoll < feedState[f].circuitOpenAt + ResetTime + PollInterval

(* A step that is no poll closes a circuit, leaves it open, or opens it at *)
(* this moment.                                                            *)
LEMMA OpenedNow ==
    ASSUME TypeOK, [Next]_vars, NEW f \in Feeds, \A c \in Slots : ~StartCycle(c)
    PROVE  feedState'[f].circuitOpenAt \in {Never, feedState[f].circuitOpenAt, now}
<1> USE DEF TypeOK
<1>1. CASE feedState' = feedState
    BY <1>1
<1>2. ASSUME NEW c \in Slots, NEW g \in Feeds, FetchStep(c, g)
      PROVE  feedState'[f].circuitOpenAt \in {Never, feedState[f].circuitOpenAt, now}
  <2>1. CASE g # f
      BY <1>2, <2>1, FetchStepFrame
  <2>2. CASE g = f /\ FetchOk(c, f)
      BY <2>2 DEF FetchOk, recordFeedSuccess
  <2>3. ASSUME g = f, NEW failure \in Failures, FetchFailed(c, f, failure)
        PROVE  feedState'[f].circuitOpenAt \in {feedState[f].circuitOpenAt, now}
    <3>1. feedState[f] \in FeedState /\ feedState'[f] = recordFeedFailure(feedState[f])
        BY <2>3 DEF FetchFailed
    <3>2. QED
        BY <3>1 DEF recordFeedFailure, FeedState
  <2>4. QED
      BY <1>1, <1>2, <2>1, <2>2, <2>3 DEF FetchStep, Respond, Retry, BackOff
<1>3. QED
    BY <1>1, <1>2 DEF Next, Tick, StopPoller, Horizon, FinishCycle, vars

LEMMA StepTimer ==
    ASSUME TypeOK, TimerInv, [Next]_vars
    PROVE  TimerInv'
<1> USE TimingAssumption DEF TimingAssumption
<1>1. /\ now \in Nat /\ nextPoll \in Nat \cup {Never}
      /\ \A f \in Feeds : /\ feedState[f] \in FeedState
                          /\ feedState[f].circuitOpenAt \in Nat \cup {Never}
    BY DEF TypeOK, FeedState, Stamp
<1>2. ASSUME NEW c \in Slots, StartCycle(c) PROVE TimerInv'
  <2>1. /\ now' = now /\ nextPoll' = now + PollInterval
        /\ \A f \in Feeds : feedState'[f] = AfterCircuitCheck(feedState[f])
      BY <1>2 DEF StartCycle
  <2>2. ASSUME NEW f \in Feeds, feedState'[f].circuitOpenAt # Never
        PROVE  nextPoll' < feedState'[f].circuitOpenAt + ResetTime + PollInterval
    <3>1. ~ResetDue(feedState[f]) /\ feedState'[f] = feedState[f]
        BY <1>1, <2>1, <2>2 DEF AfterCircuitCheck, FeedState
    <3>2. feedState[f].circuitOpenAt \in Nat /\ now - feedState[f].circuitOpenAt < ResetTime
        BY <1>1, <2>2, <3>1 DEF ResetDue
    <3>3. QED
        BY <1>1, <2>1, <3>1, <3>2
  <2>3. QED
      BY <1>1, <2>1, <2>2 DEF TimerInv
<1>3. CASE Tick
  <2>1. /\ now' = now + 1 /\ UNCHANGED <<nextPoll, feedState>>
        /\ now <= MaxTime => nextPoll # now
      BY <1>3 DEF Tick, Urgent, PollDue
  <2>2. QED
      BY <1>1, <2>1 DEF TimerInv
<1>4. CASE StopPoller
    BY <1>4 DEF StopPoller, TimerInv
<1>5. CASE (\A c \in Slots : ~StartCycle(c)) /\ ~Tick /\ ~StopPoller
  <2>1. UNCHANGED <<now, nextPoll>>
      BY <1>5 DEF Next, Horizon, vars, FinishCycle, FetchStep, Respond, FetchOk, Retry,
                  FetchFailed, BackOff
  <2>2. ASSUME NEW f \in Feeds, nextPoll # Never, feedState'[f].circuitOpenAt # Never
        PROVE  nextPoll' < feedState'[f].circuitOpenAt + ResetTime + PollInterval
    <3>1. feedState'[f].circuitOpenAt \in {feedState[f].circuitOpenAt, now}
        BY <1>5, <2>2, OpenedNow
    <3>2. nextPoll < now + ResetTime + PollInterval
        BY <1>1, <2>2 DEF TimerInv
    <3>3. QED
        BY <2>1, <2>2, <3>1, <3>2 DEF TimerInv
  <2>3. QED
      BY <2>1, <2>2 DEF TimerInv
<1>6. QED
    BY <1>2, <1>3, <1>4, <1>5

(* While the poller runs, no circuit stays open for a whole poll interval  *)
(* past its window: the poll that reopens it always comes in time.         *)
THEOREM ReopensInTime == Spec => []CircuitReopensInTime
<1>1. Init => TimerInv
    BY TimingAssumption DEF TimingAssumption, Init, TimerInv, Never
<1>2. TypeOK /\ TimerInv /\ [Next]_vars => TimerInv'
    BY StepTimer
<1>3. TypeOK /\ TimerInv => CircuitReopensInTime
  <2>1. ASSUME TypeOK, TimerInv, NEW f \in Feeds,
               now <= MaxTime, nextPoll # Never, feedState[f].circuitOpenAt # Never
        PROVE  now - feedState[f].circuitOpenAt < ResetTime + PollInterval
    <3>1. /\ now \in Nat /\ nextPoll \in Nat /\ feedState[f].circuitOpenAt \in Nat
          /\ now <= nextPoll
          /\ nextPoll < feedState[f].circuitOpenAt + ResetTime + PollInterval
        BY <2>1 DEF TypeOK, FeedState, Stamp, TimerInv
    <3>2. QED
        BY <3>1, TimingAssumption DEF TimingAssumption
  <2>2. QED
      BY <2>1 DEF CircuitReopensInTime
<1>4. QED
    BY <1>1, <1>2, <1>3, TypeCorrect, PTL DEF Spec

-----------------------------------------------------------------------------
(* The refinement of FeedStore.                                            *)

(* A successful fetch of one feed refreshes that feed of the store.        *)
LEMMA FetchRefreshes ==
    ASSUME IInv, NEW c \in Slots, NEW f \in Feeds, FetchOk(c, f)
    PROVE  Store!Refresh(f)
<1> USE TimingAssumption DEF TimingAssumption
<1> DEFINE stored == [g \in Feeds |-> feedState[g].parsedFeed]
<1>1. TypeOK /\ DeadlineInv /\ ContentInv /\ RecordInv
    BY DEF IInv
<1>2. /\ feedState'[f].parsedFeed = fetch[c][f].content
      /\ \A g \in Feeds : g # f => feedState'[g] = feedState[g]
      /\ UNCHANGED arrivals
    BY <1>1 DEF FetchOk, recordFeedSuccess, TypeOK
<1>3. /\ fetch[c][f].content \in Nat
      /\ now - fetch[c][f].content <= FetchTimeout
    BY <1>1, FreshContent DEF FetchOk
<1>4. /\ feedState[f].parsedFeed \in Int
      /\ feedState[f].parsedFeed <= now
      /\ now \in Nat
    BY <1>1 DEF TypeOK, FeedState, Stamp, Never, RecordInv
<1>5. /\ stored'[f] # Store!Missing
      /\ stored'[f] >= stored[f] - FetchTimeout
    BY <1>2, <1>3, <1>4 DEF Store!Missing
<1>6. stored' = [stored EXCEPT ![f] = stored'[f]]
    BY <1>2
<1>7. QED
    BY <1>2, <1>5, <1>6 DEF Store!Refresh

(* Every step of the poller is a refresh, a publication or invisible.      *)
LEMMA StoreStep ==
    ASSUME IInv, [Next]_vars
    PROVE  [Store!Next]_(Store!vars)
<1> DEFINE stored == [g \in Feeds |-> feedState[g].parsedFeed]
<1>1. ASSUME NEW c \in Slots, NEW f \in Feeds, FetchOk(c, f) PROVE Store!Next
    BY <1>1, FetchRefreshes DEF Store!Next
<1>2. CASE ~ \E c \in Slots, f \in Feeds : FetchOk(c, f)
  <2>1. stored' = stored
      BY <1>2, ContentChange DEF IInv
  <2>2. ASSUME NEW c \in Slots, FinishCycle(c) PROVE Store!Next
    <3>1. arrivals' = stored
        BY <2>2 DEF FinishCycle, getAllParsedFeeds
    <3>2. QED
        BY <2>1, <3>1 DEF Store!Next, Store!Publish
  <2>3. (\E c \in Slots : FinishCycle(c)) \/ UNCHANGED arrivals
      BY <1>2 DEF Next, FetchStep, vars, Tick, StopPoller, Horizon, StartCycle,
                  Respond, Retry, FetchFailed, BackOff
  <2>4. QED
      BY <2>1, <2>2, <2>3 DEF Store!vars
<1>3. QED
    BY <1>1, <1>2

(* The poller implements the store: no step loses data, sets a feed back   *)
(* by more than a fetch timeout, or serves a mixture of two moments.       *)
THEOREM StoreRefined == Spec => RefinesFeedStore
<1>1. Init => Store!Init
    BY DEF Init, Store!Init, Store!Missing, Never
<1>2. IInv /\ [Next]_vars => [Store!Next]_(Store!vars)
    BY StoreStep
<1>3. QED
    BY <1>1, <1>2, Invariance, PTL DEF Spec, Store!Spec, RefinesFeedStore

=============================================================================
