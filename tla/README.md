# A TLA+ model of mta-my-way

mta-my-way shows New York subway arrivals, alerts and elevator outages and
notifies its users. A Node.js server polls the transit authority's realtime
feeds, keeps the results in memory and serves them; a second deployment of the
same server holds the durable state (push subscriptions, preferences, trips,
sessions) in SQLite; a progressive web app displays the data, works offline and
synchronizes its local stores with an account.

This directory holds TLA+ modules of the server and of the web client's
synchronization, the TLC configurations that check them on small instances, and
proofs of their main properties that TLAPS checks for all values of the
constants. `PROJECT.json` maps every definition to the source lines it stands
for, and lists the hazards of the code with the properties that cover them.

## Inventory

Paths are below `packages/server/src` unless they begin with `web/` or
`shared/`, which are packages of their own.

| component | state | operations | talks to | module |
|---|---|---|---|---|
| Feed poller (`poller.ts`), feed cache (`cache.ts`), retry loop (`shared/src/utils/retry.ts`) | per feed: last good parse, failure count, circuit; arrivals and positions caches | timer-driven poll cycle, one fetch with retries per feed, cache rebuild | transit feeds; read by the HTTP routes | `FeedPoller` |
| Alerts poller (`alerts-poller.ts`, `alerts-parser.ts`) | alerts cache, remembered ids, circuit, listeners | timer-driven poll, diff, notification | transit feed; push pipeline | `AlertsPoller` |
| Push database (`push/subscriptions.ts`) | connection, readiness, promise and generation of the initialization; subscription rows | configure, lazy open with retry, close, row operations | push pipeline, preferences, trips, startup | `PushDatabase`, rows in `PushSubscription` |
| Stateful client (`services/stateful-client.ts`) | circuit, half-open probe slot | call with timeout and breaker | stateful deployment | `StatefulClient` |
| Web push subscription (`web/src/hooks/usePushNotifications.ts`), push pipeline (`push/index.ts`, `sender.ts`) | the browser's endpoint, its row, a queued operation; batches in flight | subscribe, unsubscribe, retry; send in parallel, drop expired endpoints | alerts poller, push database, push services | `PushSubscription` |
| Briefing scheduler (`push/briefing.ts`) | who was sent a briefing today | a tick every minute | push database, push services | `Briefing` |
| Delay detector (`delay-detector.ts`) | last observation of every train, predicted alerts | update after each poll cycle | feed poller, alerts | `DelayDetector` |
| Transfer engine (`transfer/`) | the transfer graph, nothing between two analyses | analyse a commute | feed cache, equipment poller | `TransferEngine` |
| Preferences (`preferences.ts`, `web/src/hooks/usePreferencesSync.ts`) | account copy, local stores, queued snapshot, timers | merge on load, debounced upload, retry | HTTP between web and server | `PreferencesSync` |
| Journal sync (`web/src/hooks/useJournalSync.ts`) | local journal, registry of server ids, timers | full sync, debounced upload, retry | HTTP between web and server | `JournalSync` |
| Trip tracker (`web/src/hooks/useTripTracker.ts`, `useTripJournal.ts`) | number of the last fetch, the trip shown, the ride's flag | poll trip and prediction, log the ride | HTTP; journal | `TripTracker` |
| Sessions and refresh tokens (`middleware/authentication.ts`) | sessions, tokens | sign in, refresh, revoke, clean up | every authenticated route | `AuthSessions` |
| Concurrent session registry (`middleware/concurrent-session-management.ts`) | sessions of each user, sessions of each device | register with conflict resolution, terminate, pin, clean up | authentication | `SessionRegistry` |
| Offline queue (`web/src/lib/backgroundSync.ts`) | requests in IndexedDB, passes over them | queue, replay, clear | HTTP; shared by the pages of a client | `OfflineQueue` |
| Transformer (`transformer.ts`) | stops of every trip at the last poll | build the arrivals of a poll cycle | feed cache | `Transformer` |
| Rate limiter (`middleware/rate-limiter.ts`) | token buckets by client | admit or refuse, prune | every route | `RateLimiter` |
| Equipment poller, delay predictor, trip tracking, request guards, startup, parsing, schema migration, web data hooks, user interface | | | | not modelled, see below |

The behaviours that are hard:

- **Overlap.** Node and the browser run one handler at a time, but every `await`
  lets another one run. `setInterval` starts a poll cycle whether or not the last
  one has ended; initializations, sign-ins, refreshes, uploads and sends overlap
  in the same way.
- **State across an await.** Caches, snapshots, promises, tokens and flags are
  read before an await and used, or written, after it.
- **Lost and late answers.** A request may be carried out and its answer lost; a
  page may be loaded again while its request is on the way; answers of two polls
  change places.
- **Failure and recovery.** Circuit breakers with a reset window; retry timers
  that serve several purposes; a database that may be locked or missing; push
  endpoints that expire; restarts that forget what was in memory.
- **Ages.** What the rider sees is old data with an age attached; the age has to
  be that of the data.
- **Limits.** Sessions per key, user and device, tracked trains, concurrent
  passes: checked at one moment, used at another.

What makes the components correct: a cycle ends and no fetch it made is lost to
the caches; a breaker is open exactly when its failures say so and lets the
service be tried again in time; the age reported for data is not younger than
the data; listeners are told of every change; concurrent operations share one
database initialization and each is answered; what a device has and its account
has not is on its way or scheduled; nothing the user made is taken away; a ride
is logged once; a refresh token is spent once; a registry's counts are of what
is there; a route's times add up.

## The modules

| module | what it is |
|---|---|
| `FeedPoller` | poll cycles, fetches with retries, the feed circuit, both caches |
| `FeedStore` | abstract: a store of each feed's last good data and a published snapshot, which `FeedPoller` implements |
| `AlertsPoller` | alerts polls, the diff with the cache, a listener's view |
| `PushDatabase` | the life cycle of the SQLite database and the operations waiting for it |
| `StatefulClient` | concurrent calls through the breaker with a half-open probe |
| `JournalSync` | the journal of a device and its mirror in the account |
| `PreferencesSync` | the favorites of a device and the copy its account keeps |
| `PushSubscription` | a browser's subscription, its row on the server, and the sends to it |
| `TripTracker` | the screen that tracks a trip, and the ride it logs |
| `OfflineQueue` | requests made offline, and the passes that repeat them |
| `Transformer` | the arrivals shown, and the cancelled trips among them |
| `RateLimiter` | the token buckets of the clients |
| `AuthSessions` | sessions and refresh tokens of one API key |
| `SessionRegistry` | the registry of concurrent sessions by user and device |
| `DelayDetector` | trains timed from station to station, predicted alerts |
| `Briefing` | the morning briefing's timer and its memory |
| `TransferEngine` | direct and transfer routes of a commute, and the recommendation |
| `MCWeb`, `MCSessions`, `MCServer` | components checked side by side in one run |
| other `MC...` | symmetry sets and the network of `TransferEngine`; other constants are in the `.cfg` files |
| `...Proofs` | theorems and their TLAPS proofs |

The components of `MCWeb`, `MCSessions` and `MCServer` share no state. A
behaviour of such a module explores one component and leaves the others as they
began, so that the run checks the sum of their state spaces and not the product.
Events that several of them see, such as a session that begins or a page that is
loaded again, may come to each of them at any time, so nothing is lost by keeping
them apart.

### FeedPoller

`StartCycle(c)` is `runPoll` up to its first await: the timer fires, and each
feed is requested unless its circuit is open, resetting the circuit if its
window is over. A cycle in flight occupies a slot `c`; its local `cycleStart`
and its `fetchFeed` calls are `cycleStart[c]` and `fetch[c][f]`. A fetch is a
`request` until the headers arrive (`Respond`), then reads the `body`, and may
sit in a `backoff`. `FetchOk` is the success path with `recordFeedSuccess`;
`FetchFailed` is the catch block with `recordFeedFailure`; `BackOff` and `Retry`
are the retry loop. Which failures are retried (`Retryable`) is taken from what
the code does: the predicate is asked only for exceptions of the fetch itself,
and knows `TypeError` (network) and `AbortError`, while `AbortSignal.timeout`
rejects with a `TimeoutError`. `FinishCycle` is the rest of `runPoll`: both
caches are rebuilt from the last good parse of every feed.

Time is discrete. The clock does not pass a timer that is due or a continuation
that is ready (`Urgent`), which says that handlers are short compared with the
intervals; an answer may arrive at any time up to the deadline of the abort
signal, also at the deadline. A feed's content is the time the service produced
it, so that age and order of data can be compared. The jittered delay before a
retry is any time up to `MaxBackoff`.

`FeedStore` is what the poller promises the routes that read the caches: one
feed at a time gets new data (`Refresh`), which replaces the old, is never lost
again and is never more than `Slack` older; the snapshot that is served is
replaced as a whole (`Publish`). The mapping takes `feedState[f].parsedFeed` for
the store, `arrivals` for the snapshot and `FetchTimeout` for the slack:
`FetchOk` is a refresh, `FinishCycle` a publication, and every other step is
invisible. `DataIsPublished` adds that new data reaches the snapshot.

### AlertsPoller

`StartPoll` or `SkipPoll` is `runPoll` up to the fetch, depending on the
circuit; `Respond`, `FinishPoll` and `FailPoll` are the answer, the success path
(with `detectChanges`, the cache update and the notification) and the catch
block of `fetchAlerts`. `cache.modifiedAt` is the one timestamp `parseAlerts`
gives to all the alerts of a poll. `view` is not a variable of the code: it is
what a listener believes that applies each change it is told of, as the service
worker does that shows notifications. The transit service is the action
`Publish`.

### PushDatabase

A call of `ensureDbInitialized` either finds the database ready, which is no
step, joins the published promise (`JoinInit`) or starts an initialization
(`StartInit`) that runs to its end or to its backoff before it is published.
`Wake` is the end of the backoff with the `finally` block. A promise is
`settled`, `asleep` or `stuck`, the last being what becomes of a promise that is
resolved with itself. `disk` stands for what opening the file meets: nothing
wrong, an error that `isRetryableError` recognizes, or another one. Only the
first attempt of an initialization can open the file: `SleeperInProgress`
says that the initialization which wakes finds itself in progress, so the
nested call never gets to a second attempt.

### StatefulClient

`Call(c)` admits a call; a rejected call changes nothing and is no step.
`Respond` clears the timeout, `Succeed` and `Fail` record the outcome, and
`Settle` is the `finally` block. `calls[c].probe` is the local `isHalfOpen` and
`startedAt` the time of the call, which the timeout refers to.

### JournalSync

A trip is its identity key. A pass is `pushLocalTrips`, alone after an edit
(`Edits`) or at the end of the full sync (`Full`), which lists the account first.
What a pass uploads is settled before its first request (`todo`). A request is
`post` until the server has stored its trip (`PostStored`) and `posted` until its
answer arrives; `PostFails` may happen in either phase. `serverIds` and
`rejected` are the persisted registry, `debounce` and `retryTimer` the two timers.
`stored` is the account's set of trips; `insertTrip` does not recognize a trip it
has, so overlapping passes may store it twice, and the model does not count
copies. `JournalReload` ends every pass, and a request on its way becomes an
orphan that may be stored later. `swallowed` is a history variable: the last
retry found a full sync in flight, and was dropped.

### PreferencesSync

A list of favorites is the number of copies it holds of each item, because
`mergeById` keeps both copies of an item that both sides have under one id.
`load` and `put` are the two kinds of request, each with the moment the server
served or stored it; `upload` is the debounce, `retry` the one retry timer with
what it will do, `queued` the snapshot under `PENDING_SYNC_KEY`, `synced` the
reference that `serialize` is compared with. A snapshot just loaded never equals
the local one, because the server's order of members differs from the stores'.
`OtherDevice` writes the account at any time. `skipped` is a history variable
that remembers which of two sequences has left something unscheduled.

### PushSubscription

`browser` is the endpoint of the live subscription, `rows` the server's table.
The switch (`userCall`) is disabled while an operation is under way, and the
retries of a queued operation (`retries`) run beside it. Offline and online
decide what a failed subscribe does (`SubscribeFails`), at the moment it fails.
`StartBatch`, `SendSettled`, `SendExpired` and `RemoveExpired` are the sends of
the push pipeline and of the briefing with the 410 that deletes a row after a
wait for the database. `mislaid` is a history variable.

### TripTracker

`fetchGen` numbers the fetches; `fetches` and `predictions` are the requests
without an answer, and `Latest` is the comparison that drops the late ones.
`lookupTrip` is the server's part (`trip-lookup.ts`): it finds the trip in the
messages of the moment or answers 404, and may find it again later, since a poll
may miss a trip and a restart begins with an empty cache.
`Commit` is React's commit of a state with the effects of `useTripJournal`: the
flag that is cleared when the trip is tracked again, and the ride that is logged
when it has expired. `OpenTrip` changes the trip of an open screen too, which
keeps the other trip's state until an answer comes. `missed` and `confused` are
history variables: trips a lookup did not find, and trips that were taken for
ended, or for running, wrongly.

### OfflineQueue

The queue is in IndexedDB, which the pages of a client share; `processQueue` is a
pass that takes its list when it begins (`StartPass`) and waits for every answer
and every transaction after that (`replay[p].step`). The server carries a request
out (`CarryOut`) before it is answered, and `ReplayFails` may come before that,
after it (an answer that is lost or bad), or after a good answer, when the
deletion is refused: the deletion is in the `try`. The deletion that gives a
request up is not, and its refusal ends the pass (`EndPass`), as a closed page
does. `storeRequest` adds and does not replace: while the request is in the queue
it is refused, and the error ends the pass. Nothing in the application calls the queue yet; the module takes its
operations as they are exported. `shared` and `cut` are history variables.

### Transformer, RateLimiter

`transformFeeds` is one call, at the end of a poll cycle, on the last good
messages of all feeds (`FeedParsed`), of which any number may have changed since
the last call. A message is what it says of each trip's stops and the windows it
declares. Two feeds may list the same trip; the later in the order of
`SUBWAY_FEEDS` is remembered, and is the one whose arrivals can be shown as
cancelled. `CancelsExactly` says which arrivals a call shows as cancelled, no more
and no fewer: the window of their feed is part of it.

`rateLimiter(c)` is one request with the prune, the refill and the decision;
`OtherClient` is the prune that a request of somebody else brings about.
`admitted` is a history variable: for every moment, how many requests of a client
were admitted since, so that the property can speak of every span of time.

### AuthSessions

A session and its refresh token are made together and carry one identifier.
`createSession` waits twice (`CreateStart`, `CreateStored`, `CreateDone`),
`refreshSession` waits while it looks its token up (`RefreshStart`) and once more
for the new token (`RefreshRotate`, `RefreshDone`). A token that is deleted from
the map while a refresh holds it is `detached`: that refresh can still spend it,
and puts it back into the map as used. A session that is deleted while it is
being made is stored once more when its token is ready. Expiry and idleness may
come to any session or token at any time.

### SessionRegistry

`registry[u]` is the set of the sessions in a user's list, and `older` the order
of the lists (the order of registration, which is that of `createdAt`);
`onDevice` the sessions counted against their device. `registerSession` is one
step: device limit, conflict resolution under any strategy, refusal, and the list
it stores, which is the one read before `terminateSessionAndContinue` replaced
it. Times are reduced to what the code asks of them.

### DelayDetector, Briefing, TransferEngine

`processVehicleUpdates(batch)` is one call with the positions of one line and
direction: pruning, the cap on tracked trips, the traversal of every train and
the alert of its delays (`generateAlerts`). `news` is what listeners are told.

`BriefingTick` is the timer's callback up to its wait for the rows, `RowsRead`
the sending, `BriefingSettled` the end of one send. Time is minutes of UTC with a
local clock `Offset` hours behind it. The timer may skip a minute.

`analyzeCommute` is one step of `TransferEngine`. The chains of transfers are a
recursive function of the number of changes, the legs of a chain one of the place
in the chain; each leg carries the time spent so far (`spent`), which the code sums
up while it builds a route. The order of routes that tie is left open. `Never`
stands for `Infinity`, the time without a route: it is beyond every walk and every
total, so that walking is recommended when there is none.

## What TLC checks

A *passing* run finds no error. A run listed as *violation* checks one statement
of a document, comment or test of the repository and ends with a counterexample
that the code follows too; `PROJECT.json` quotes the statement.

| run | bounds | shows |
|---|---|---|
| feed_safety | 1 feed, 4 slots, threshold 2, clock to 8 | all safety properties and the refinement of `FeedStore`, with overlapping cycles, openings and resets |
| feed_liveness | 2 feeds, 2 slots, threshold 1, two polls, fairness | every cycle ends and publishes what it has, of one feed while the other fails, is skipped or is silent |
| alerts_safety | 2 alerts, 2 versions, 5 polls | the listener's view |
| pushdb_safety | 3 operations, 2 paths, 3 generations, 3 promises | sharing, no stale connection, stuck promises forgotten |
| web | journal: 2 trips, one debounced pass beside the full one; preferences: 1 item in up to 2 copies; push: 2 endpoints; tracker: 2 trips, 4 fetches of a visit; queue: 2 requests, 2 passes, 2 retries | nothing is stranded, lost, mixed up, logged or carried out twice except by the sequences named |
| sessions | 4 sessions, 2 refreshes and 2 sign-ins at once, limits of 1; registry: 3 sessions, 2 users, 1 device, every strategy | families, limits, device counts, pinned sessions |
| server | detector: 2 trains, 5 stations, 5 polls; briefing: 1 subscription, days of 3 hours of 2 minutes, 8 minutes; engine: 4 stations, 4 lines, all timetables of up to two trains a platform; transformer: 2 feeds, 1 trip, 3 window lists, 5 times; limiter: bucket of 2, 12 times; stateful client: 3 calls, threshold 2, window 3, clock to 8 | alerts announced once, briefings not repeated, route times that add up, cancellations exact, the requests let through in every span of time, the probe slot and the distance of probes |
| feed_retry, pushdb_answered, rate_documented, transfer_found, journal_deleted | as the runs above, smaller | violations, see below |

Why the bounds are enough: feeds meet only in the wait for all fetches of a cycle
and in the cache rebuild, so one feed carries the breaker's and the retry's
behaviour, two feeds (feed_liveness) the rebuild with one of them missing; four
slots are more than can be in flight at once with the intervals chosen, since a
cycle ends in time (`CycleLifetimeBounded`), so the bound never blocks a timer; the clocks reach past an
opening of the circuit, its reset and the poll that follows. Five polls of the
alerts are enough for an alert to become known, vanish, return and be compared
again. Two life cycles after the first let an initialization survive a close and
meet a newer one. Three calls are one probe, one late call and one candidate for
a second probe.

In the journal two trips let one be added, deleted or answered while the other
is being sent; trips do not meet otherwise. Items of the preferences never meet,
and the second copy tells an edit from what it edits. Two endpoints are one that
was given up and one that follows it, which is where a late retry or 410 can hit
the wrong one. Two trips are the one on the screen and the one before it, and
four fetches leave room for an answer and its prediction, a 404, a failure or a
trip found again, and a late one; a visit may follow another. Four sessions with limits of one are a chain of two refreshes beside a
sign-in that exceeds the limit; two refreshes compete for one token. In the
registry the limit of two users' lists (2) and of the device (1) are both met
with three sessions. An interval of three polls in the detector begins twice
within a run, and stations 2 to 4 are the inner ones that give two delayed
segments. Eight minutes of the briefing hold two changes of the UTC date and one
of the local date. Trips do not meet in the transformer, so one that moves
between two feeds is enough; its windows are none, one of its route, and one of
another route before one of all. Twelve moments let a bucket be emptied, grow
idle, be pruned, and be emptied again.

`MCSessions` and `MCServer` stop at their bounds (all identifiers used, the last
minute reached, the analysis done), so these runs and `transfer_found` do not
check for deadlock; `MCWeb` does.

Properties of the form "only by these sequences" name, in a history variable, the
ways the code has of missing a promise of its documents, and state that it is
kept otherwise. `StrandedByDroppedRetryOnly`: a trip the account lacks is under
way or scheduled, unless the retry found a full sync in flight that had settled
its uploads before. `OnlyTwoWaysToStall`: an edit that returns to the last
synchronized snapshot while another upload is in flight, and a failed load whose
timer an upload's failure has taken. `LostInThreeWaysOnly`: a subscribe refused
while online (the browser keeps its subscription and the next page load shows it
as active), a retry put back over a newer operation, a page closed on a request.
`LoggedAgainThreeWaysOnly`: a network failure after the 404 of an ended trip, a
screen changed to a trip that is not found either, and a trip that a lookup missed
and a later one found. `RepeatedTwoWaysOnly`: a request two passes had at once, and
one that its pass had carried out and did not come to delete, because the answer
was lost or bad, the deletion was refused or the page was closed.

What the violations say:

- *feed_retry*: a 5xx or 429 answer and a timeout end a fetch at the first
  attempt. Only refused connections and the like are retried.
- *pushdb_answered*: an initialization that is retried waits for itself; those
  that await it, the server's startup among them, are never answered.
- *transfer_found*: a chain of transfers follows the edges of the transfer graph,
  and needs a line that serves both ends of an edge. A station one rides to, to
  change there to another line, is not found unless a listed transfer joins it to
  the station where the ride began. The run takes away that transfer, which the
  passing run of `TransferEngine` has; with no route left, the code tells the
  rider to walk.
- *rate_documented*: a client with a full bucket gets 120 requests through within
  a minute, a full bucket and the refills of that time, where `rate-limiter.ts:4`
  and `docs/security.md:26` say 60 per minute. `RateExact` is what the code keeps.
- *journal_deleted*: a deletion never reaches the account, and the next full sync
  brings the trip back.

Disagreements seen while modelling that no run is spent on:

- The feed age of the positions restarts with every cycle (`cache.ts:282`),
  although the feed may have failed for minutes.
- Every alert known for two polls is reported as updated by each following one,
  since its timestamp is that of the parse (`alerts-parser.ts:433`), and a new
  alert is new to two polls in a row (`alerts-poller.ts:281`).
- A call of the stateful client that is no probe frees the probe's slot
  (`stateful-client.ts:175`), and the timeout ends with the headers (`:210`).
- Every page load of a signed-in device merges its favorites with the account's
  copy of them and so doubles them (`usePreferencesSync.ts:123`);
  `docs/preferences-sync.md` speaks of the first sign-in.
- A registration that terminates a session to make room stores a list that still
  holds it (`concurrent-session-management.ts:385`), so the list grows beyond the
  maximum.
- The B Division buffer is added twice to the arrival of a direct route
  (`transfer/engine.ts:395` and `:401`).
- A cancelled trip is shown as cancelled until the next cycle ends, which may be
  at once when cycles overlap: the snapshot it is found in is replaced by each
  call. A feed that declares windows for other routes only lends the first of
  them (`transformer.ts:104`); the comment above names three steps and not this.
- A ride is logged twice if the server misses its trip once, in a poll or after a
  restart, and finds it again (`useTripTracker.ts:181-193` shows it as active,
  `useTripJournal.ts:115-120` clears the flag), although `useTripJournal.ts:112`
  says "prevent duplicates"; the other ways are in `LoggedAgainThreeWaysOnly`.
- A request that was carried out is repeated when its answer is lost or its
  deletion is refused (`backgroundSync.ts:209-221`); nothing tells the server that
  it is the same one.
- The offline queue never counts a failure: `storeRequest` adds a request that is
  there, the transaction is refused, and the pass ends (`backgroundSync.ts:219`).
  `maxRetries` above one is never reached, and a request that keeps failing keeps
  those behind it waiting.
- The briefing's memory is reset by the UTC date while the hour is local, a
  subscription that changes its hour gets a second briefing on that day, and a
  timer that drifts past the first minute of the hour sends none
  (`push/briefing.ts:182-191`).

### Fairness

`FairSpec` of `FeedPoller` assumes that the clock advances, that due timers and
ready continuations run (`StartCycle`, `FinishCycle`, `Retry`) and that the
abort signal ends a silent request (`FetchFailed(c, f, "timeout")`). Node's
event loop and `AbortSignal.timeout` provide that. Nothing is assumed of the
service: `Respond` and `FetchOk` need never happen. `DataIsPublished` rests on
the same fairness: data that is stored belongs to a cycle still in flight, which
ends because each of its fetches runs into a timeout at the latest. `FairSpec` of `PushDatabase`
assumes that timers fire and that settled promises resume those that await
them. The safety runs assume nothing. For the sync modules liveness would need a
network that answers infinitely often; they state instead that a timer or a
request is there, which is what the code can be held to.

## What is proved

TLAPS checks the theorems for every set of feeds, alerts, operations, calls,
trips, sessions, items, endpoints, clients or stations, every threshold and
interval, and runs of any length. Every invariant of the passing runs is stated
by a theorem, and every action property but the liveness.

### Assumptions

The named assumptions on the constants say that they are numbers of the right
sign and that null values are no members. Beyond that:

- `AlertsTimingAssumption`: the fetch times out before the next poll (15 s of
  60 s in the code). The alerts timer has no other protection from overlap.
- `DetectorAssumption`: trips are finite in number, which the cap needs to be
  counted against, and an alert lives as long as an interval of its id at least.
- `SessionsAssumption`: the identifiers of sessions are finite in number.
- `RegistryAssumption`: there is a priority, and the maximum is one session at
  least.
- `QueueAssumption`: a request may be tried more than once (3 in the code). With a
  maximum of one a pass that fails deletes the request at once.
- `TransformerAssumption`: no route is called `*` or `null`, the names that a
  message gives to windows without a route.
- `EngineAssumption`: walks and travel times are not negative, and stations are
  served by, and listed on, the lines that exist.

### The invariants

Each component has one inductive invariant (`IInv`, or the component's name with
`Inv`), one lemma per action that the action preserves it, and the theorems that
follow from it. It is the type invariant, the property itself, and what the
property needs about the states before:

- `FeedPollerProofs`: `BreakerSound`, `CyclesEndInTime`, `NoFetchLost`,
  `AgeHonest`, `ReopensInTime`, and `StoreRefined`, the refinement of `FeedStore`
  for any number of feeds: only `FetchOk` changes what a feed holds
  (`ContentChange`), and what it stores is fresh (`FreshContent`). The bound on a
  cycle's life is not inductive by itself; the invariant bounds each fetch's
  deadline by the attempts it has used. The data's age is bounded through the
  deadline as well: content stored at its deadline was produced a timeout earlier
  at most. A circuit reopens in time because the timer is always set for a moment
  less than an interval past the window of every open circuit (`TimerInv`): the
  poll at that moment resets it, and a circuit that opens in between opens after
  the timer was set.
- `AlertsPollerProofs`: `EveryResolutionTold`, `ViewCatchesUp`,
  `PollsDoNotOverlap`, `AlertsBreakerSound`. A poll ends before the timer fires
  again, so that the cache's timestamp is always older than the poll in flight,
  and the comparison of timestamps finds every alert that both sides have.
- `PushDatabaseProofs`: `ConnectionFollowsPath`, `OneSleeper`,
  `StuckNotContagious`. No initialization is of a future generation, and only the
  published one of the present generation can sleep.
- `StatefulClientProofs`: `ClientBreakerSound`, `SlotNeverLeaks`,
  `ProbesKeepDistance`. Whatever frees the slot under a probe in flight also
  re-arms or closes the window, so that an open window with a free slot is younger
  than every probe.
- `TripProofs`, the journal: `RegistryStaysHonest`, `OnlyDroppedRetryStrands`.
  Whatever an answer or a listing names is stored already, and nothing takes a
  stored trip away. The stranding property is inductive once the types are known:
  a pass that ends with a trip unsent sets the retry timer, and one that begins
  takes up everything that is missing. The tracker: `PredictionsBelong`,
  `RidesLoggedOnce`. Fetches are numbered without repetition, and the last of them
  is for the trip of the address; a prediction that is still wanted was therefore
  asked for the answer that is shown. A trip that was logged has been missed by a
  lookup, and the last fetch carries no answer with it that was not found again
  (`LoggedIsOver`).
- `WebProofs`, the preferences: `StallsInTwoWaysOnly`, `SyncTakesNothingAway`. An
  edit of a loaded page has its upload or retry timer set, or stands behind the
  upload in flight; apart from the user only the answer of a load changes the
  favorites, and it adds copies. The subscription: `LostInThreeWays`. That the
  page's claim is registered or in hand is not inductive; the invariant says it of
  the live endpoint whether it is shown or not (`LiveIsRegistered`), that a call
  whose row was written still has it (`StoredIsKept`), and that an endpoint that was
  given up, or that the push service has declared gone, never comes back
  (`GivenUpIsGone`, `GoneIsGone`). The queue: `NoRequestLost`,
  `RepeatedInTwoWays`. What two passes both have is `shared`, and a request that
  was carried out is in no queue and in no pass, but for the pass that has it in
  hand, unless a pass that had it carried out did not delete it (`cut`).
- `SessionsProofs`, the tokens: `NoFamilyForks`, `LimitExceededByOverlapOnly`. A
  member of a family is live while its token can be spent, its session is being
  made or active; a family has one live member at most, which a refresh hands on.
  The sessions present or being made grow in number only when a sign-in starts,
  below the maximum. The registry: `CountsLive`, `PinnedSessionStays`. Every list
  that is stored is the one that was read, less sessions that are taken off their
  devices in the same step, in the order it had; the list that grows gets a session
  that no list has.
- `ServerProofs`: `RateIsExact`. For a client with a bucket, and for every moment,
  two bounds hold between the requests admitted since and the tokens left: one
  from a full bucket and the refills, one from what the bucket had gained. Neither
  follows from the property; a bucket is dropped only when it is so old that the
  first bound holds without it. `AnnouncedOnce`: what listeners were told in this
  interval is still among the alerts, since an alert lives longer than its
  interval. `OneBriefing`: what was sent belongs to an hour that a tick has put
  down, no two minutes that start an hour put down the same one, and the hour is
  not waiting for its rows any more; `CancelledExactly`: what is remembered of a
  trip was shown as running, by no later feed than the one remembered, and what was
  shown as running by no later feed as well is remembered. `TimesAddUp`: along the legs of a chain the time spent
  since the first train runs ahead of the arrival by one slack a change at most.

The sums of components that the runs explore implement the specification of each
of them (`WebComponents`, `SessionComponents`, `ServerComponents`; of the engine
the sum's other branches keep one state), so that what holds of a component holds
in the run, and the types of the sums are correct (`WebTypeCorrect`,
`SessionsTypeCorrect`, `ServerTypeCorrect`).

Induction over numbers is replaced by least counterexamples (`LeastOf`): a set of
numbers that is not empty has a least member. In the same way a function that is
defined by its first value and the step to the next is shown to exist
(`Recursion`), which is needed before its equation can be used.

Model-checked only: liveness (`EveryCycleEnds`, `DataIsPublished`), which is out
of the prover's reach, and the statements that the violation runs refute.

## What is not modelled

The components marked `not_modelled` in `PROJECT.json`, each with its reason. In
short:

- per-request checks over strings and addresses (authorization, lockouts,
  password rules, session security, OAuth), and the routing around them;
- parsing, the marks and destinations of arrivals, matching, rendering, logging and metrics;
- the delay predictor, whose statistics are floating point in SQL;
- the equipment poller, whose breaker resets (60 s) before the next poll (300 s)
  and so never skips one;
- files and child processes at startup (VAPID keys, GTFS refresh, migrations).

Within the modelled components: the latency and error histories of a feed, the
reset functions meant for tests, `refreshAlerts`, which nothing calls in
production, the PATCH of an existing push subscription, the statistics of the
journal, and the texts, risks and confidences of the transfer engine.

## Plan

1. An abstract specification of what a breaker promises, with closed, open and
   half-open states, that the pollers and the stateful client refine, proved as
   `StoreRefined` is.
2. Stronger statements where the present ones leave something open: the order of
   the briefing's days, the tokens of a family after every refresh has ended, the
   first part of `RateExact` with the exact number of refills.
3. The arrivals hook of the web client (`web/src/hooks/useArrivals.ts`) with the
   retries of `apiEnhanced.ts`: a refresh supersedes the request before it, whose
   retries may take longer than the interval.
4. Bounded checks of pure algorithms against reference definitions: fare cap,
   position interpolation, shuttle matching.
