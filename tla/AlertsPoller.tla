---------------------------- MODULE AlertsPoller ----------------------------
(***************************************************************************)
(* The service-alerts poller (packages/server/src/alerts-poller.ts) with   *)
(* the timestamps parseAlerts gives its results (alerts-parser.ts).        *)
(*                                                                         *)
(* Every poll fetches the alerts feed, compares the parsed alerts with the *)
(* cache and with the set of ids remembered from the poll before, and      *)
(* tells the listeners which alerts are new, updated or resolved.  The     *)
(* variable view is what a listener believes that applies every change it  *)
(* is told of; the properties compare it with the cache and the feed.      *)
(*                                                                         *)
(* The content of an alert is a version number; 0 stands for no alert.     *)
(***************************************************************************)
EXTENDS Integers, FiniteSets

CONSTANTS
    Alerts,       \* ids of the alerts the feed may carry
    MaxVersion,   \* versions of an alert's content (bound of the model)
    OpenAfter,    \* CIRCUIT_OPEN_AFTER
    ResetTime,    \* CIRCUIT_RESET_MS, in ticks
    PollInterval, \* POLL_INTERVAL_MS, in ticks
    FetchTimeout, \* FETCH_TIMEOUT_MS, in ticks
    MaxTime       \* no poll starts after this (bound of the model)

(* The fetch times out well within the poll interval (15 s of 60 s), so    *)
(* that the timer never finds a poll in flight.                            *)
ASSUME AlertsTimingAssumption ==
    /\ MaxVersion \in Nat /\ OpenAfter \in Nat \ {0} /\ ResetTime \in Nat \ {0}
    /\ FetchTimeout \in Nat \ {0} /\ PollInterval \in Nat
    /\ FetchTimeout < PollInterval
    /\ MaxTime \in Nat

VARIABLES
    now,              \* Date.now()
    feed,             \* the alerts the transit service publishes
    nextPoll,         \* when pollTimer fires next; Never once stopped
    poll,             \* the runPoll in flight
    cache,            \* cache.alerts: content and modifiedAt by id
    previousAlertIds, \* ids known to detectChanges
    circuit,          \* consecutiveFailures and circuitOpenAt of the cache
    lastSuccessAt,    \* cache.lastSuccessAt
    view              \* what a listener has been told of each alert

pollerVars == <<nextPoll, poll, cache, previousAlertIds, circuit,
                lastSuccessAt, view>>
vars == <<now, feed, pollerVars>>

Never == -1
None == 0             \* the content of an alert that is not there

Versions == 0 .. MaxVersion
Contents == [Alerts -> Versions]
NoAlerts == [a \in Alerts |-> None]

(* The ids of the alerts in a list of alerts given by their contents. *)
Ids(contents) == {a \in Alerts : contents[a] # None}

Stamp == Nat \cup {Never}

TypeOK ==
    /\ now \in Nat
    /\ feed \in Contents
    /\ nextPoll \in Stamp
    /\ poll \in [phase : {"idle", "request", "body"}, deadline : Nat,
                 alerts : Contents]
    /\ cache \in [alerts : Contents, modifiedAt : Nat]
    /\ previousAlertIds \in SUBSET Alerts
    /\ circuit \in [failures : Nat, openAt : Stamp]
    /\ lastSuccessAt \in Stamp
    /\ view \in Contents

IdlePoll == [phase |-> "idle", deadline |-> 0, alerts |-> NoAlerts]

Init ==
    /\ now = 0
    /\ feed \in Contents
    /\ nextPoll = 0
    /\ poll = IdlePoll
    /\ cache = [alerts |-> NoAlerts, modifiedAt |-> 0]
    /\ previousAlertIds = {}
    /\ circuit = [failures |-> 0, openAt |-> Never]
    /\ lastSuccessAt = Never
    /\ view = NoAlerts

-----------------------------------------------------------------------------
(* The transit service (external): an alert appears, changes or vanishes.  *)
Publish(a) ==
    /\ \E v \in Versions \ {feed[a]} : feed' = [feed EXCEPT ![a] = v]
    /\ UNCHANGED <<now, pollerVars>>

-----------------------------------------------------------------------------
(* alerts-parser.ts: every alert parsed is stamped with the time of the    *)
(* parse, whatever the feed says of its age.                               *)
ParsedAt == now

(* detectChanges: the three kinds of change between the parsed alerts, the *)
(* cache and the remembered ids, as the sets of alerts concerned.          *)
NewAlerts(alerts) == Ids(alerts) \ previousAlertIds

(* Mutant of UpdatedAlerts: an update within one interval is ignored.      *)
MutUpdatedAlerts(alerts) ==
    {a \in Ids(alerts) \cap previousAlertIds \cap Ids(cache.alerts) :
        ParsedAt > cache.modifiedAt + PollInterval}

UpdatedAlerts(alerts) ==
    {a \in Ids(alerts) \cap previousAlertIds \cap Ids(cache.alerts) :
        ParsedAt > cache.modifiedAt}

(* Mutant of ResolvedAlerts: only remembered alerts can be resolved.       *)
MutResolvedAlerts(alerts) ==
    (Ids(cache.alerts) \cap previousAlertIds) \ Ids(alerts)

ResolvedAlerts(alerts) == Ids(cache.alerts) \ Ids(alerts)

(* Mutant of Told: a resolution deletes the listener's entry.              *)
MutTold(alerts) ==
    [a \in Alerts \ ResolvedAlerts(alerts) |->
        IF a \in NewAlerts(alerts) \cup UpdatedAlerts(alerts) THEN alerts[a]
        ELSE view[a]]

(* What the listener believes after the changes. *)
Told(alerts) ==
    [a \in Alerts |->
        IF a \in NewAlerts(alerts) \cup UpdatedAlerts(alerts) THEN alerts[a]
        ELSE IF a \in ResolvedAlerts(alerts) THEN None
        ELSE view[a]]

PollDue == nextPoll = now /\ now <= MaxTime

CircuitResetDue == circuit.openAt # Never /\ now - circuit.openAt >= ResetTime
CircuitBlocks == circuit.openAt # Never /\ ~CircuitResetDue

(* Mutant of AbortAt: the timeout is that of the whole interval.           *)
MutAbortAt == now + FetchTimeout + PollInterval

(* When AbortSignal.timeout ends a fetch made now.                         *)
AbortAt == now + FetchTimeout

(* runPoll up to its await: the circuit lets the fetch through, after a    *)
(* reset if its window is over.                                            *)
StartPoll ==
    /\ PollDue
    /\ poll.phase = "idle"
    /\ ~CircuitBlocks
    /\ circuit' = IF CircuitResetDue THEN [failures |-> 0, openAt |-> Never]
                                     ELSE circuit
    /\ poll' = [phase |-> "request", deadline |-> AbortAt, alerts |-> NoAlerts]
    /\ nextPoll' = now + PollInterval
    /\ UNCHANGED <<now, feed, cache, previousAlertIds, lastSuccessAt, view>>

(* The circuit is open: the poll ends at once, the cache is kept.          *)
SkipPoll ==
    /\ PollDue
    /\ poll.phase = "idle"
    /\ CircuitBlocks
    /\ nextPoll' = now + PollInterval
    /\ UNCHANGED <<now, feed, poll, cache, previousAlertIds, circuit,
                   lastSuccessAt, view>>

(* stopAlertsPoller. *)
StopPoller ==
    /\ nextPoll # Never
    /\ nextPoll' = Never
    /\ UNCHANGED <<now, feed, poll, cache, previousAlertIds, circuit,
                   lastSuccessAt, view>>

(* The service answers with the alerts of the moment.                      *)
Respond ==
    /\ poll.phase = "request"
    /\ poll' = [poll EXCEPT !.phase = "body", !.alerts = feed]
    /\ UNCHANGED <<now, feed, nextPoll, cache, previousAlertIds, circuit,
                   lastSuccessAt, view>>

(* The body is parsed: fetchAlerts closes the circuit, runPoll compares,   *)
(* updates the cache and the remembered ids, and notifies the listeners.   *)
(* The ids remembered are those of the cache before the update.            *)
FinishPoll ==
    /\ poll.phase = "body"
    /\ circuit' = [failures |-> 0, openAt |-> Never]
    /\ lastSuccessAt' = now
    /\ view' = Told(poll.alerts)
    /\ previousAlertIds' = Ids(cache.alerts)
    /\ cache' = [alerts |-> poll.alerts, modifiedAt |-> ParsedAt]
    /\ poll' = IdlePoll
    /\ UNCHANGED <<now, feed, nextPoll>>

(* What a failure makes of the circuit. *)
AfterFailure(c) ==
    [failures |-> c.failures + 1,
     openAt |-> IF c.failures + 1 >= OpenAfter /\ c.openAt = Never
                THEN now ELSE c.openAt]

(* A network error, a response that is not ok, an unreadable body or the   *)
(* abort signal: the failure is counted and the cache is kept.             *)
FailPoll ==
    /\ poll.phase \in {"request", "body"}
    /\ circuit' = AfterFailure(circuit)
    /\ poll' = IdlePoll
    /\ UNCHANGED <<now, feed, nextPoll, cache, previousAlertIds,
                   lastSuccessAt, view>>

-----------------------------------------------------------------------------
Urgent ==
    \/ PollDue
    \/ poll.phase # "idle" /\ poll.deadline <= now

Tick ==
    /\ now < MaxTime \/ poll.phase # "idle"
    /\ ~Urgent
    /\ now' = now + 1
    /\ UNCHANGED <<feed, pollerVars>>

(* The horizon of the model. *)
Horizon ==
    /\ now >= MaxTime
    /\ poll.phase = "idle"
    /\ ~PollDue
    /\ UNCHANGED vars

Next ==
    \/ Tick
    \/ Horizon
    \/ \E a \in Alerts : Publish(a)
    \/ StartPoll
    \/ SkipPoll
    \/ StopPoller
    \/ Respond
    \/ FinishPoll
    \/ FailPoll

Spec == Init /\ [][Next]_vars

-----------------------------------------------------------------------------
(* Properties *)

(* A listener never goes on believing in an alert that has left the cache: *)
(* every resolution is reported by the poll that sees it.                  *)
NoGhostAlerts ==
    \A a \in Alerts : cache.alerts[a] = None => view[a] = None

(* An alert that two successful polls in a row have seen is known to the   *)
(* listeners with its present content, although the remembered ids are one *)
(* poll behind the cache.                                                  *)
KnownAfterTwoPolls ==
    \A a \in Ids(cache.alerts) \cap previousAlertIds :
        view[a] = cache.alerts[a]

(* The timer never fires while a poll is in flight: the state read before  *)
(* the fetch (cache and remembered ids) is the state compared after it.    *)
TimerFindsNoPoll == PollDue => poll.phase = "idle"

(* The breaker is open exactly while the run of failures has reached the   *)
(* threshold.                                                              *)
AlertsCircuitSound == circuit.openAt # Never <=> circuit.failures >= OpenAfter
=============================================================================
