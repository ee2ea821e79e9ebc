----------------------------- MODULE FeedPoller -----------------------------
(***************************************************************************)
(* The GTFS-RT feed poller (packages/server/src/poller.ts), the per-feed   *)
(* state and circuit breaker it drives (packages/server/src/cache.ts) and  *)
(* the retry loop it fetches through (packages/shared/src/utils/retry.ts). *)
(*                                                                         *)
(* A poll cycle (runPoll) starts one fetch per feed and, when all of them  *)
(* have settled, rebuilds the arrivals and positions caches from whatever  *)
(* parsed feeds the shared state holds by then.  setInterval starts the    *)
(* next cycle whether or not the previous ones have ended, so cycles       *)
(* overlap; a cycle in flight occupies a slot of Slots.                    *)
(*                                                                         *)
(* Time is a discrete clock.  A feed's content is represented by the time  *)
(* at which the transit service produced it.                               *)
(***************************************************************************)
EXTENDS Integers, FiniteSets

CONSTANTS
    Feeds,        \* SUBWAY_FEEDS
    Slots,        \* places for poll cycles in flight (bound of the model)
    OpenAfter,    \* CIRCUIT_OPEN_AFTER
    ResetTime,    \* CIRCUIT_RESET_MS, in ticks
    PollInterval, \* POLL_INTERVAL_MS, in ticks
    FetchTimeout, \* FETCH_TIMEOUT_MS, in ticks
    MaxAttempts,  \* RETRY_OPTIONS.maxAttempts
    MaxBackoff,   \* the longest jittered delay between attempts, in ticks
    MaxTime       \* no poll starts after this (bound of the model)

ASSUME TimingAssumption ==
    /\ OpenAfter \in Nat \ {0} /\ ResetTime \in Nat \ {0}
    /\ PollInterval \in Nat \ {0} /\ FetchTimeout \in Nat \ {0}
    /\ MaxAttempts \in Nat \ {0} /\ MaxBackoff \in Nat
    /\ MaxTime \in Nat

VARIABLES
    now,          \* Date.now()
    nextPoll,     \* when pollTimer fires next; Never once stopped
    feedState,    \* feedStates of cache.ts
    cycleStart,   \* the local cycleStart of each runPoll in flight
    fetch,        \* the fetchFeed call of each cycle and feed
    arrivals,     \* arrivalsCache: the feed contents it was built from
    positions     \* positionsCache (likewise) and positionsFetchedAt

vars == <<now, nextPoll, feedState, cycleStart, fetch, arrivals, positions>>

Never == -1       \* null

Stamp == Nat \cup {Never}

(* How a fetch attempt can fail.  "serverError" is a completed 5xx or 429  *)
(* response, "refused" any other completed response that is not ok or a    *)
(* body that does not parse.                                               *)
Failures == {"network", "timeout", "serverError", "refused"}
Transient == {"network", "timeout", "serverError"}

Phases == {"idle", "request", "body", "backoff", "done"}

Fetch(phase, attempt, deadline, content) ==
    [phase |-> phase, attempt |-> attempt, deadline |-> deadline,
     content |-> content, outcome |-> "none"]
Settled(outcome) ==
    [phase |-> "done", attempt |-> 0, deadline |-> 0,
     content |-> Never, outcome |-> outcome]

Idle == Fetch("idle", 0, 0, Never)

InFlight == {c \in Slots : cycleStart[c] # Never}
Waiting(c, f) == fetch[c][f].phase \in {"request", "body", "backoff"}
AllSettled(c) == \A f \in Feeds : fetch[c][f].phase = "done"

(* The part of cache.ts's FeedState that steers the poller.                *)
FeedState == [lastSuccessAt : Stamp, consecutiveFailures : Nat,
              circuitOpenAt : Stamp, parsedFeed : Stamp]

FetchState == [phase : Phases, attempt : 0 .. MaxAttempts, deadline : Nat,
               content : Stamp,
               outcome : {"none", "ok", "skipped", "transient", "terminal"}]

TypeOK ==
    /\ now \in Nat
    /\ nextPoll \in Stamp
    /\ feedState \in [Feeds -> FeedState]
    /\ cycleStart \in [Slots -> Stamp]
    /\ fetch \in [Slots -> [Feeds -> FetchState]]
    /\ arrivals \in [Feeds -> Stamp]
    /\ positions \in [content : [Feeds -> Stamp], fetchedAt : Stamp]

Init ==
    /\ now = 0
    /\ nextPoll = 0                       \* the first poll fires immediately
    /\ feedState = [f \in Feeds |-> [lastSuccessAt |-> Never,
                                     consecutiveFailures |-> 0,
                                     circuitOpenAt |-> Never,
                                     parsedFeed |-> Never]]
    /\ cycleStart = [c \in Slots |-> Never]
    /\ fetch = [c \in Slots |-> [f \in Feeds |-> Idle]]
    /\ arrivals = [f \in Feeds |-> Never]
    /\ positions = [content |-> [f \in Feeds |-> Never], fetchedAt |-> 0]

-----------------------------------------------------------------------------
(* cache.ts *)

(* Mutant of ResetDue: the window must be exceeded, not reached.           *)
MutResetDue(s) == s.circuitOpenAt # Never /\ now - s.circuitOpenAt > ResetTime

(* The window of an open circuit has elapsed: isCircuitOpen resets it. *)
ResetDue(s) == s.circuitOpenAt # Never /\ now - s.circuitOpenAt >= ResetTime

isCircuitOpen(s) == s.circuitOpenAt # Never /\ ~ResetDue(s)

(* The state isCircuitOpen leaves behind. *)
AfterCircuitCheck(s) ==
    IF ResetDue(s)
    THEN [s EXCEPT !.circuitOpenAt = Never, !.consecutiveFailures = 0]
    ELSE s

recordFeedSuccess(s, content) ==
    [lastSuccessAt |-> now, consecutiveFailures |-> 0,
     circuitOpenAt |-> Never, parsedFeed |-> content]

recordFeedFailure(s) ==
    LET failures == s.consecutiveFailures + 1 IN
    [s EXCEPT !.consecutiveFailures = failures,
              !.circuitOpenAt = IF failures >= OpenAfter /\ @ = Never
                                THEN now ELSE @]

(* Mutant of getAllParsedFeeds: a failing feed's last good parse is left out. *)
MutGetAllParsedFeeds ==
    [f \in Feeds |-> IF feedState[f].consecutiveFailures = 0
                     THEN feedState[f].parsedFeed ELSE Never]

(* The last good parse of every feed, however old (Never: no entry).       *)
getAllParsedFeeds == [f \in Feeds |-> feedState[f].parsedFeed]

-----------------------------------------------------------------------------
(* poller.ts *)

(* RETRY_OPTIONS.isRetryable as applied by retry(): the operation retried  *)
(* is the fetch alone.  A completed response of any status is no error to  *)
(* it, and AbortSignal.timeout rejects with a TimeoutError, which is none  *)
(* of the names the predicate knows.                                       *)
Retryable(failure) == failure = "network"

PollDue == nextPoll = now /\ now <= MaxTime

(* runPoll up to its first await: the timer fires, and every feed whose    *)
(* circuit is closed, or due for a reset, is requested.                    *)
StartCycle(c) ==
    /\ PollDue
    /\ cycleStart[c] = Never
    /\ nextPoll' = now + PollInterval
    /\ cycleStart' = [cycleStart EXCEPT ![c] = now]
    /\ fetch' = [fetch EXCEPT ![c] = [f \in Feeds |->
                    IF isCircuitOpen(feedState[f])
                    THEN Settled("skipped")
                    ELSE Fetch("request", 1, now + FetchTimeout, Never)]]
    /\ feedState' = [f \in Feeds |-> AfterCircuitCheck(feedState[f])]
    /\ UNCHANGED <<now, arrivals, positions>>

(* stopPoller: the cycles in flight run on. *)
StopPoller ==
    /\ nextPoll # Never
    /\ nextPoll' = Never
    /\ UNCHANGED <<now, feedState, cycleStart, fetch, arrivals, positions>>

(* Mutant of Respond: the abort signal is disarmed once the headers are in. *)
MutRespond(c, f) ==
    /\ fetch[c][f].phase = "request"
    /\ fetch' = [fetch EXCEPT ![c][f] =
                    Fetch("body", @.attempt, @.deadline + ResetTime, now)]
    /\ UNCHANGED <<now, nextPoll, feedState, cycleStart, arrivals, positions>>

(* The service answers 200: retry() returns, the body is still to be read  *)
(* under the same abort signal.                                            *)
Respond(c, f) ==
    /\ fetch[c][f].phase = "request"
    /\ fetch' = [fetch EXCEPT ![c][f] =
                    Fetch("body", @.attempt, @.deadline, now)]
    /\ UNCHANGED <<now, nextPoll, feedState, cycleStart, arrivals, positions>>

(* The body is complete and parses. *)
FetchOk(c, f) ==
    /\ fetch[c][f].phase = "body"
    /\ feedState' = [feedState EXCEPT
                        ![f] = recordFeedSuccess(@, fetch[c][f].content)]
    /\ fetch' = [fetch EXCEPT ![c][f] = Settled("ok")]
    /\ UNCHANGED <<now, nextPoll, cycleStart, arrivals, positions>>

(* Mutant of CanFail: the timeout does not cover the body.                 *)
MutCanFail(c, f, failure) ==
    \/ /\ failure \in {"network", "serverError", "refused"}
       /\ fetch[c][f].phase = "request"
    \/ /\ failure \in {"network", "refused"}
       /\ fetch[c][f].phase = "body"
    \/ /\ failure = "timeout"
       /\ fetch[c][f].phase = "request"
       /\ now >= fetch[c][f].deadline

(* The fetch can fail this way in its present phase. *)
CanFail(c, f, failure) ==
    \/ /\ failure \in {"network", "serverError", "refused"}
       /\ fetch[c][f].phase = "request"
    \/ /\ failure \in {"network", "refused"}
       /\ fetch[c][f].phase = "body"
    \/ /\ failure = "timeout"
       /\ fetch[c][f].phase \in {"request", "body"}
       /\ now >= fetch[c][f].deadline

(* Mutant of WillRetry: one attempt too many.                              *)
MutWillRetry(c, f, failure) ==
    /\ fetch[c][f].phase = "request"
    /\ Retryable(failure)
    /\ fetch[c][f].attempt <= MaxAttempts

(* retryWithBackoff goes on: the operation threw a retryable error and     *)
(* attempts are left.                                                      *)
WillRetry(c, f, failure) ==
    /\ fetch[c][f].phase = "request"
    /\ Retryable(failure)
    /\ fetch[c][f].attempt < MaxAttempts

(* fetchFeed's catch block: the failure is recorded and the fetch settles. *)
FetchFailed(c, f, failure) ==
    /\ CanFail(c, f, failure)
    /\ ~WillRetry(c, f, failure)
    /\ feedState' = [feedState EXCEPT ![f] = recordFeedFailure(@)]
    /\ fetch' = [fetch EXCEPT ![c][f] =
                    Settled(IF failure \in Transient THEN "transient"
                                                    ELSE "terminal")]
    /\ UNCHANGED <<now, nextPoll, cycleStart, arrivals, positions>>

(* retryWithBackoff sleeps before the next attempt. *)
BackOff(c, f, failure) ==
    /\ CanFail(c, f, failure)
    /\ WillRetry(c, f, failure)
    /\ fetch' = [fetch EXCEPT ![c][f] =
                    Fetch("backoff", @.attempt, now + MaxBackoff, Never)]
    /\ UNCHANGED <<now, nextPoll, feedState, cycleStart, arrivals, positions>>

(* The sleep ends and the operation is called again; the circuit breaker   *)
(* is not consulted.                                                       *)
Retry(c, f) ==
    /\ fetch[c][f].phase = "backoff"
    /\ fetch' = [fetch EXCEPT ![c][f] =
                    Fetch("request", @.attempt + 1, now + FetchTimeout, Never)]
    /\ UNCHANGED <<now, nextPoll, feedState, cycleStart, arrivals, positions>>

(* The rest of runPoll, once every fetch has settled: both caches are      *)
(* rebuilt from all the parsed feeds of the moment.                        *)
FinishCycle(c) ==
    /\ cycleStart[c] # Never
    /\ AllSettled(c)
    /\ positions' = [content |-> getAllParsedFeeds, fetchedAt |-> cycleStart[c]]
    /\ arrivals' = getAllParsedFeeds
    /\ cycleStart' = [cycleStart EXCEPT ![c] = Never]
    /\ fetch' = [fetch EXCEPT ![c] = [f \in Feeds |-> Idle]]
    /\ UNCHANGED <<now, nextPoll, feedState>>

-----------------------------------------------------------------------------
(* The clock does not pass a timer that is due or a continuation that is   *)
(* ready: the handlers are short and the event loop runs them at once.     *)
Urgent ==
    \/ PollDue
    \/ \E c \in InFlight :
          \/ AllSettled(c)
          \/ \E f \in Feeds : Waiting(c, f) /\ fetch[c][f].deadline <= now

Tick ==
    /\ now < MaxTime \/ InFlight # {}
    /\ ~Urgent
    /\ now' = now + 1
    /\ UNCHANGED <<nextPoll, feedState, cycleStart, fetch, arrivals, positions>>

(* The horizon of the model: no poll is to start and none is in flight.    *)
Horizon ==
    /\ now >= MaxTime
    /\ InFlight = {}
    /\ ~PollDue
    /\ UNCHANGED vars

FetchStep(c, f) ==
    \/ Respond(c, f)
    \/ FetchOk(c, f)
    \/ Retry(c, f)
    \/ \E failure \in Failures :
          FetchFailed(c, f, failure) \/ BackOff(c, f, failure)

Next ==
    \/ Tick
    \/ StopPoller
    \/ Horizon
    \/ \E c \in Slots : StartCycle(c) \/ FinishCycle(c)
    \/ \E c \in Slots, f \in Feeds : FetchStep(c, f)

Spec == Init /\ [][Next]_vars

(* Timers fire and continuations run; nothing is assumed of the network    *)
(* beyond the abort signal that ends a silent request.                     *)
Fairness ==
    /\ WF_vars(Tick)
    /\ \A c \in Slots :
          /\ WF_vars(StartCycle(c))
          /\ WF_vars(FinishCycle(c))
          /\ \A f \in Feeds : /\ WF_vars(Retry(c, f))
                              /\ WF_vars(FetchFailed(c, f, "timeout"))

FairSpec == Spec /\ Fairness

-----------------------------------------------------------------------------
(* The promise of the poller, see FeedStore. *)

Store == INSTANCE FeedStore WITH
            store <- [f \in Feeds |-> feedState[f].parsedFeed],
            snapshot <- arrivals,
            Slack <- FetchTimeout

-----------------------------------------------------------------------------
(* Properties *)

(* The breaker is open exactly while the feed's run of failures has        *)
(* reached the threshold, although successes, failures and resets of       *)
(* overlapping cycles land on the same counter in any order.               *)
CircuitMatchesFailures ==
    \A f \in Feeds :
        feedState[f].circuitOpenAt # Never
            <=> feedState[f].consecutiveFailures >= OpenAfter

(* What the longest fetch takes: every attempt runs into its timeout's     *)
(* last moment and every delay is the longest one.                         *)
LongestCycle == MaxAttempts * FetchTimeout + (MaxAttempts - 1) * MaxBackoff

(* A poll cycle ends in bounded time whatever the service does: no fetch   *)
(* outlives its attempts, each bounded by the abort signal.                *)
CycleLifetimeBounded ==
    \A c \in InFlight : now - cycleStart[c] <= LongestCycle

(* Whatever the arrivals cache is missing, a cycle still in flight has     *)
(* fetched and will bring: no successful fetch is lost to the rebuild of   *)
(* another cycle.                                                          *)
CacheLagsOnlyInFlight ==
    \A f \in Feeds :
        arrivals[f] # feedState[f].parsedFeed
            => \E c \in InFlight : fetch[c][f].outcome = "ok"

(* The age reported for a feed (getFeedAgeSeconds) understates the real    *)
(* age of its data by one fetch timeout at most.                           *)
FeedAgeHonest ==
    \A f \in Feeds :
        /\ feedState[f].parsedFeed # Never <=> feedState[f].lastSuccessAt # Never
        /\ feedState[f].lastSuccessAt - feedState[f].parsedFeed <= FetchTimeout

(* The poller implements the store of FeedStore: a reader sees nothing of   *)
(* cycles, retries and breakers.  Data is replaced and never lost, a slow  *)
(* fetch of an earlier cycle sets a feed back by one fetch timeout at most, *)
(* and the arrivals are always built from all feeds as they once were      *)
(* together.                                                               *)
RefinesFeedStore == Store!Spec

(* While the poller runs, a feed whose circuit has opened is polled again: *)
(* the circuit never stays open for a whole poll interval past its window. *)
CircuitReopensInTime ==
    \A f \in Feeds :
        now <= MaxTime /\ nextPoll # Never /\ feedState[f].circuitOpenAt # Never
            => now - feedState[f].circuitOpenAt < ResetTime + PollInterval

(* Every poll cycle ends, and the caches are rebuilt.                      *)
EveryCycleEnds ==
    \A c \in Slots : cycleStart[c] # Never ~> cycleStart[c] = Never

(* With fair scheduling, whatever was fetched reaches the readers.         *)
DataIsPublished == Store!FairSpec

(* gtfs-feed-403.test.ts:328 and the comment of RETRY_OPTIONS: a fetch     *)
(* that times out or is answered with a 5xx or 429 is retried while        *)
(* attempts are left.                                                      *)
TransientFailuresRetried ==
    [][\A c \in Slots, f \in Feeds :
          /\ fetch[c][f].phase = "request"
          /\ fetch'[c][f].outcome = "transient"
          => fetch[c][f].attempt = MaxAttempts]_vars
=============================================================================
