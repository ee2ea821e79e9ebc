---------------------------- MODULE PushDatabase ----------------------------
(***************************************************************************)
(* The lazily opened SQLite database behind push subscriptions and account *)
(* preferences (packages/server/src/push/subscriptions.ts).                *)
(*                                                                         *)
(* Every operation awaits ensureDbInitialized first.  The first one opens  *)
(* the database and publishes the promise of that initialization in the    *)
(* module variable initPromise; the others await the same promise.  An     *)
(* opening that fails with a retryable error sleeps inside the promise and *)
(* calls initPushDatabaseWithRetry again.                                  *)
(*                                                                         *)
(* A promise is settled, asleep in a backoff, or "stuck": resolved with a  *)
(* promise that itself waits for it, which never settles.                  *)
(***************************************************************************)
EXTENDS Naturals

CONSTANTS
    Paths,          \* database paths the process may be configured with
    Callers,        \* operations that use the database concurrently
    Promises,       \* promises of initializations alive (bound of the model)
    None,           \* null
    MaxGeneration   \* life cycles of the database (bound of the model)

ASSUME NoneAssumption ==
    None \notin Paths \cup Callers \cup Promises \cup Nat
ASSUME GenerationAssumption == MaxGeneration \in Nat

VARIABLES
    disk,                     \* what opening the file meets
    pushDbPath,
    db,                       \* the path of the open connection
    pushDbReady,
    initPromise,
    initPromiseGeneration,
    initializationGeneration,
    inits,                    \* the promise of each initialization
    waitsFor                  \* the promise an operation awaits

vars == <<disk, pushDbPath, db, pushDbReady, initPromise,
          initPromiseGeneration, initializationGeneration, inits, waitsFor>>

Settled == [phase |-> "settled", generation |-> 0]

TypeOK ==
    /\ disk \in {"fine", "locked", "broken"}
    /\ pushDbPath \in Paths \cup {None}
    /\ db \in Paths \cup {None}
    /\ pushDbReady \in BOOLEAN
    /\ initPromise \in Promises \cup {None}
    /\ initPromiseGeneration \in Nat \cup {None}
    /\ initializationGeneration \in Nat
    /\ inits \in [Promises -> [phase : {"settled", "asleep", "stuck"},
                               generation : Nat]]
    /\ waitsFor \in [Callers -> Promises \cup {None}]

Init ==
    /\ disk \in {"fine", "locked", "broken"}
    /\ pushDbPath = None
    /\ db = None
    /\ pushDbReady = FALSE
    /\ initPromise = None
    /\ initPromiseGeneration = None
    /\ initializationGeneration = 0
    /\ inits = [p \in Promises |-> Settled]
    /\ waitsFor = [c \in Callers |-> None]

(* The file system (external): the file can be opened; is locked, which    *)
(* isRetryableError recognizes; or fails in a way it does not.             *)
DiskChanges ==
    /\ \E d \in {"fine", "locked", "broken"} \ {disk} : disk' = d
    /\ UNCHANGED <<pushDbPath, db, pushDbReady, initPromise,
                   initPromiseGeneration, initializationGeneration, inits,
                   waitsFor>>

-----------------------------------------------------------------------------
(* Mutant of CloseDatabase: the generation is reset with the other fields. *)
MutCloseDatabase ==
    /\ initializationGeneration # MaxGeneration
    /\ initializationGeneration' = None
    /\ initPromise' = None
    /\ initPromiseGeneration' = None

(* The effect of closePushDatabase: a new generation begins. *)
CloseDatabase ==
    /\ initializationGeneration < MaxGeneration
    /\ initializationGeneration' = initializationGeneration + 1
    /\ initPromise' = None
    /\ initPromiseGeneration' = None

closePushDatabase ==
    /\ CloseDatabase
    /\ db' = None
    /\ pushDbReady' = FALSE
    /\ pushDbPath' = None
    /\ UNCHANGED <<disk, inits, waitsFor>>

(* Mutant of configurePushDatabase: an open database is kept.              *)
MutConfigurePushDatabase(path) ==
    /\ pushDbPath' = path
    /\ UNCHANGED <<disk, db, pushDbReady, initPromise, initPromiseGeneration,
                   initializationGeneration, inits, waitsFor>>

(* Switching from one path to another closes the old database first.       *)
configurePushDatabase(path) ==
    \/ /\ pushDbPath \notin {None, path}
       /\ CloseDatabase
       /\ db' = None
       /\ pushDbReady' = FALSE
       /\ pushDbPath' = path
       /\ UNCHANGED <<disk, inits, waitsFor>>
    \/ /\ pushDbPath \in {None, path}
       /\ pushDbPath' = path
       /\ UNCHANGED <<disk, db, pushDbReady, initPromise,
                      initPromiseGeneration, initializationGeneration, inits,
                      waitsFor>>

(* The synchronous initialization kept for tests. *)
initPushDatabase(path) ==
    /\ CloseDatabase
    /\ pushDbPath' = path
    /\ pushDbReady' = (disk = "fine")
    /\ db' = IF disk = "fine" THEN path ELSE None
    /\ UNCHANGED <<disk, inits, waitsFor>>

-----------------------------------------------------------------------------
InProgress ==
    initPromise # None /\ initPromiseGeneration = initializationGeneration

(* An identity for a new promise: one nobody can refer to any more.        *)
Unused(p) ==
    /\ inits[p].phase = "settled"
    /\ initPromise # p
    /\ \A c \in Callers : waitsFor[c] # p

(* The operation finds an initialization in progress, or settled without   *)
(* success, and awaits its promise.                                        *)
JoinInit(c) ==
    /\ waitsFor[c] = None
    /\ ~pushDbReady
    /\ InProgress
    /\ waitsFor' = [waitsFor EXCEPT ![c] = initPromise]
    /\ UNCHANGED <<disk, pushDbPath, db, pushDbReady, initPromise,
                   initPromiseGeneration, initializationGeneration, inits>>

(* The body of an initialization up to its end or its sleep: the file      *)
(* opens; it is locked and the retry sleeps; or it cannot be opened, or no *)
(* path is configured, and the promise settles without a database.         *)
Attempt(p) ==
    \/ /\ pushDbPath # None /\ disk = "fine"
       /\ db' = pushDbPath /\ pushDbReady' = TRUE
       /\ UNCHANGED inits
    \/ /\ pushDbPath # None /\ disk = "locked"
       /\ inits' = [inits EXCEPT ![p] =
             [phase |-> "asleep", generation |-> initializationGeneration]]
       /\ UNCHANGED <<db, pushDbReady>>
    \/ /\ pushDbPath = None \/ disk = "broken"
       /\ UNCHANGED <<db, pushDbReady, inits>>

(* Mutant of StartInit: the promise in progress is not looked at.          *)
MutStartInit(c, p) ==
    /\ waitsFor[c] = None /\ ~pushDbReady /\ Unused(p)
    /\ Attempt(p)
    /\ waitsFor' = [waitsFor EXCEPT ![c] = p]
    /\ initPromise' = p
    /\ initPromiseGeneration' = initializationGeneration
    /\ UNCHANGED <<disk, pushDbPath, initializationGeneration>>

(* The operation starts an initialization.  initPromise and its generation *)
(* are assigned after the synchronous part of the attempt, so that the     *)
(* finally block of an attempt that does not sleep runs too early to clear *)
(* them: the settled promise stays in place.                               *)
StartInit(c, p) ==
    /\ waitsFor[c] = None /\ ~pushDbReady /\ Unused(p)
    /\ ~InProgress
    /\ Attempt(p)
    /\ waitsFor' = [waitsFor EXCEPT ![c] = p]
    /\ initPromise' = p
    /\ initPromiseGeneration' = initializationGeneration
    /\ UNCHANGED <<disk, pushDbPath, initializationGeneration>>

(* What becomes of a sleeping initialization.  One of an older generation  *)
(* returns.  One of the present generation calls initPushDatabaseWithRetry, *)
(* which finds an initialization in progress, this very one                *)
(* (SleeperInProgress), and returns its promise: the promise now waits for *)
(* itself.                                                                 *)
Woken(init) ==
    IF init.generation # initializationGeneration \/ pushDbReady
    THEN Settled
    ELSE [init EXCEPT !.phase = "stuck"]

(* Mutant of Wake: the finally block is missing.                           *)
MutWake(p) ==
    /\ inits[p].phase = "asleep"
    /\ inits' = [inits EXCEPT ![p] = Woken(@)]
    /\ UNCHANGED <<disk, pushDbPath, db, pushDbReady, initPromise,
                   initPromiseGeneration, initializationGeneration, waitsFor>>

(* The backoff ends, and the finally block forgets the published promise   *)
(* if it is of this initialization's generation.                           *)
Wake(p) ==
    /\ inits[p].phase = "asleep"
    /\ inits' = [inits EXCEPT ![p] = Woken(@)]
    /\ IF initPromiseGeneration = inits[p].generation
       THEN initPromise' = None /\ initPromiseGeneration' = None
       ELSE UNCHANGED <<initPromise, initPromiseGeneration>>
    /\ UNCHANGED <<disk, pushDbPath, db, pushDbReady,
                   initializationGeneration, waitsFor>>

(* The promise has settled: the operation runs if the database is ready    *)
(* and throws if not.                                                      *)
Resume(c) ==
    /\ waitsFor[c] # None
    /\ inits[waitsFor[c]].phase = "settled"
    /\ waitsFor' = [waitsFor EXCEPT ![c] = None]
    /\ UNCHANGED <<disk, pushDbPath, db, pushDbReady, initPromise,
                   initPromiseGeneration, initializationGeneration, inits>>

-----------------------------------------------------------------------------
Next ==
    \/ DiskChanges
    \/ closePushDatabase
    \/ \E path \in Paths : configurePushDatabase(path) \/ initPushDatabase(path)
    \/ \E c \in Callers : JoinInit(c) \/ Resume(c)
    \/ \E c \in Callers, p \in Promises : StartInit(c, p)
    \/ \E p \in Promises : Wake(p)

Spec == Init /\ [][Next]_vars

(* Timers fire and settled promises resume those that await them.          *)
FairSpec ==
    /\ Spec
    /\ \A p \in Promises : WF_vars(Wake(p))
    /\ \A c \in Callers : WF_vars(Resume(c))

-----------------------------------------------------------------------------
(* Properties *)

(* An open connection is one to the configured path, in spite of           *)
(* reconfigurations and of initializations that outlive them.              *)
ConnectionIsCurrent ==
    /\ pushDbReady <=> db # None
    /\ db # None => db = pushDbPath

(* Of the present generation at most one initialization sleeps, and it is  *)
(* the one published: concurrent operations share it.                      *)
SleeperInProgress ==
    \A p \in Promises :
        inits[p].phase = "asleep"
            /\ inits[p].generation = initializationGeneration
          => InProgress /\ initPromise = p

(* A stuck promise is never handed to another operation.                   *)
StuckIsForgotten ==
    \A p \in Promises : inits[p].phase = "stuck" => initPromise # p

(* subscriptions.ts:64 "DB-dependent endpoints will return 503 Service     *)
(* Unavailable in degraded mode" and index.ts:199 "A failure degrades [...] *)
(* rather than blocking startup": an operation that awaits the database is *)
(* answered, with success or with an error.                                *)
EveryCallerAnswered ==
    \A c \in Callers : waitsFor[c] # None ~> waitsFor[c] = None

=============================================================================
