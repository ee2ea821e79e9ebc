---------------------------- MODULE JournalSync ----------------------------
(***************************************************************************)
(* The commute journal of one device and its mirror on the server          *)
(* (packages/web/src/hooks/useJournalSync.ts).                             *)
(*                                                                         *)
(* A trip is its identity key.  A pass uploads what the registry of server *)
(* ids lacks: the full sync (syncNow) lists the account first, the         *)
(* debounced passes that follow an edit do not.  The guard syncInFlightRef *)
(* is the full sync's alone, so passes overlap.  A request is stored by    *)
(* the server before its answer arrives, and may lose the answer; one that *)
(* is on its way when the page is reloaded may be stored after it.         *)
(*                                                                         *)
(* notifyJournalTripDeleted and notifyJournalTripNotesSaved have no        *)
(* caller: the queues of replayPendingMutations are empty, and a deletion  *)
(* is what JournalScreen.tsx does, the removal from the local store.       *)
(***************************************************************************)

CONSTANTS
    Trips,      \* identity keys
    NoTrip,
    Full,       \* the pass of syncNow
    Edits       \* debounced passes that may be under way at once (bound)

ASSUME JournalAssumption == Full \notin Edits /\ NoTrip \notin Trips

VARIABLES
    authenticated,
    local,        \* the trips of the journal store (persisted)
    serverIds,    \* the trips the registry has an id for (persisted)
    rejected,     \* the trips the server refused for good (persisted)
    pass,         \* the passes under way
    debounce,     \* the 750 ms timer of an edit is armed
    retryTimer,   \* the 15 s timer is armed
    stored,       \* the trips of the account, duplicates aside
    orphans,      \* trips of requests whose page is gone
    swallowed     \* history: the last retry found a full sync in flight

device == <<local, serverIds, rejected>>
journalVars == <<authenticated, device, pass, debounce, retryTimer, stored, orphans,
          swallowed>>

Passes == Edits \cup {Full}
NoPass == [phase |-> "idle", todo |-> {}, trip |-> NoTrip, blocked |-> FALSE]
Phases == {"idle", "list", "listed", "post", "posted"}
Pass == [phase : Phases, todo : SUBSET Trips, trip : Trips \cup {NoTrip},
         blocked : BOOLEAN]

JournalTypeOK ==
    /\ authenticated \in BOOLEAN
    /\ local \in SUBSET Trips /\ serverIds \in SUBSET Trips
    /\ rejected \in SUBSET Trips /\ orphans \in SUBSET Trips
    /\ pass \in [Passes -> Pass]
    /\ debounce \in BOOLEAN /\ retryTimer \in BOOLEAN /\ swallowed \in BOOLEAN
    /\ stored \in SUBSET Trips

JournalInit ==
    /\ authenticated = FALSE
    /\ local = {} /\ serverIds = {} /\ rejected = {}
    /\ pass = [p \in Passes |-> NoPass]
    /\ debounce = FALSE /\ retryTimer = FALSE /\ swallowed = FALSE
    /\ stored = {} /\ orphans = {}

-----------------------------------------------------------------------------
(* Passes                                                                  *)

InFlight == pass[Full].phase # "idle"

(* What pushLocalTrips uploads, settled before its first request.          *)
Uploads(trips, ids) == (trips \ ids) \ rejected

(* Mutant of Push: the end of the uploads is not noticed.                  *)
MutPushPastEnd(p, todo, blocked) ==
    /\ \E t \in todo \cup {NoTrip} :
          pass' = [pass EXCEPT ![p] = [phase |-> "post", todo |-> todo,
                                       trip |-> t, blocked |-> blocked]]
    /\ UNCHANGED retryTimer

(* Mutant of Push: a pass that was blocked schedules no retry.             *)
MutPushForgets(p, todo, blocked) ==
    /\ \/ todo = {} /\ pass' = [pass EXCEPT ![p] = NoPass]
       \/ \E t \in todo :
             pass' = [pass EXCEPT ![p] = [phase |-> "post", todo |-> todo,
                                          trip |-> t, blocked |-> blocked]]
    /\ UNCHANGED retryTimer

(* pushLocalTrips sends the next of its uploads, or is done; scheduleRetry *)
(* when the pass was blocked.                                              *)
Push(p, todo, blocked) ==
    \/ /\ todo = {}
       /\ pass' = [pass EXCEPT ![p] = NoPass]
       /\ retryTimer' = (retryTimer \/ blocked)
    \/ /\ \E t \in todo :
             pass' = [pass EXCEPT ![p] = [phase |-> "post", todo |-> todo,
                                          trip |-> t, blocked |-> blocked]]
       /\ UNCHANGED retryTimer

(* syncNow; replayPendingMutations finds its queues empty.                 *)
SyncNow ==
    IF InFlight THEN UNCHANGED pass
    ELSE pass' = [pass EXCEPT ![Full].phase = "list"]

(* The server reads the account for listServerTrips.                       *)
ListServed ==
    /\ pass[Full].phase = "list"
    /\ pass' = [pass EXCEPT ![Full].phase = "listed",
                            ![Full].todo = stored]
    /\ UNCHANGED <<authenticated, device, debounce, retryTimer, stored,
                   orphans, swallowed>>

(* pullServerTrips merges what was listed, and pushLocalTrips follows.     *)
(* A trip new to the device changes the signature and arms the debounce.   *)
ListAnswered ==
    /\ pass[Full].phase = "listed"
    /\ LET listing == pass[Full].todo IN
         /\ serverIds' = serverIds \cup listing
         /\ local' = local \cup listing
         /\ debounce' = (debounce \/ (authenticated /\ ~(listing \subseteq local)))
         /\ Push(Full, Uploads(local', serverIds'), FALSE)
    /\ UNCHANGED <<authenticated, rejected, stored, orphans, swallowed>>

ListFails ==
    /\ pass[Full].phase \in {"list", "listed"}
    /\ Push(Full, Uploads(local, serverIds), TRUE)
    /\ UNCHANGED <<authenticated, device, debounce, stored, orphans, swallowed>>

(* insertTrip draws a fresh id and looks for no trip of the same identity; *)
(* the second copy of a trip is not told from the first here.              *)
PostStored(p) ==
    /\ pass[p].phase = "post"
    /\ pass' = [pass EXCEPT ![p].phase = "posted"]
    /\ stored' = stored \cup {pass[p].trip}
    /\ UNCHANGED <<authenticated, device, debounce, retryTimer, orphans, swallowed>>

Rest(p) == pass[p].todo \ {pass[p].trip}

(* Mutant of PostAnswered: the registry is written before the request.     *)
MutPostAnswered(p) ==
    /\ pass[p].phase \in {"post", "posted"}
    /\ serverIds' = serverIds \cup {pass[p].trip}
    /\ Push(p, Rest(p), pass[p].blocked)
    /\ UNCHANGED <<authenticated, local, rejected, debounce, stored, orphans,
                   swallowed>>

PostAnswered(p) ==
    /\ pass[p].phase = "posted"
    /\ serverIds' = serverIds \cup {pass[p].trip}
    /\ Push(p, Rest(p), pass[p].blocked)
    /\ UNCHANGED <<authenticated, local, rejected, debounce, stored, orphans,
                   swallowed>>

(* A permanent failure, 4xx: the trip is remembered and the pass goes on.  *)
PostRefused(p) ==
    /\ pass[p].phase = "post"
    /\ rejected' = rejected \cup {pass[p].trip}
    /\ Push(p, Rest(p), pass[p].blocked)
    /\ UNCHANGED <<authenticated, local, serverIds, debounce, stored, orphans,
                   swallowed>>

(* Any other failure, before or after the server stored the trip, ends the *)
(* pass.                                                                   *)
PostFails(p) ==
    /\ pass[p].phase \in {"post", "posted"}
    /\ Push(p, {}, TRUE)
    /\ UNCHANGED <<authenticated, device, debounce, stored, orphans, swallowed>>

-----------------------------------------------------------------------------
(* Timers, events and the user                                             *)

DebounceFires ==
    /\ debounce /\ debounce' = FALSE
    /\ LET todo == Uploads(local, serverIds) IN
         IF todo = {} THEN UNCHANGED <<pass, retryTimer>>
         ELSE \E p \in Edits : pass[p] = NoPass /\ Push(p, todo, FALSE)
    /\ swallowed' = FALSE
    /\ UNCHANGED <<authenticated, device, stored, orphans>>

JournalRetryFires ==
    /\ retryTimer /\ retryTimer' = FALSE
    /\ IF authenticated
       THEN SyncNow /\ swallowed' = InFlight
       ELSE UNCHANGED <<pass, swallowed>>
    /\ UNCHANGED <<authenticated, device, debounce, stored, orphans>>

(* The browser's online event.                                             *)
JournalOnline ==
    /\ authenticated /\ ~InFlight
    /\ SyncNow
    /\ swallowed' = FALSE
    /\ UNCHANGED <<authenticated, device, debounce, retryTimer, stored, orphans>>

(* refreshAuth finds a session, or the user signs in: a full sync, and the *)
(* debounce of the effect that depends on authenticated.                   *)
JournalSignIn ==
    /\ ~authenticated /\ authenticated' = TRUE
    /\ SyncNow
    /\ debounce' = TRUE
    /\ UNCHANGED <<device, retryTimer, stored, orphans, swallowed>>

JournalSignOut ==
    /\ authenticated /\ authenticated' = FALSE
    /\ debounce' = FALSE
    /\ UNCHANGED <<device, pass, retryTimer, stored, orphans, swallowed>>

(* addTripRecord and removeTripRecord change the signature.                *)
AddTrip(t) ==
    /\ t \notin local
    /\ local' = local \cup {t}
    /\ debounce' = authenticated
    /\ UNCHANGED <<authenticated, serverIds, rejected, pass, retryTimer, stored,
                   orphans, swallowed>>

DeleteTrip(t) ==
    /\ t \in local
    /\ local' = local \ {t}
    /\ debounce' = authenticated
    /\ UNCHANGED <<authenticated, serverIds, rejected, pass, retryTimer, stored,
                   orphans, swallowed>>

(* The page goes: passes and timers with it, requests that are on their    *)
(* way may still arrive.                                                   *)
JournalReload ==
    /\ authenticated' = FALSE
    /\ pass' = [p \in Passes |-> NoPass]
    /\ debounce' = FALSE /\ retryTimer' = FALSE /\ swallowed' = FALSE
    /\ orphans' = orphans \cup {pass[p].trip : p \in {q \in Passes : pass[q].phase = "post"}}
    /\ UNCHANGED <<device, stored>>

OrphanArrives(t) ==
    /\ t \in orphans
    /\ orphans' = orphans \ {t}
    /\ stored' \in {stored, stored \cup {t}}
    /\ UNCHANGED <<authenticated, device, pass, debounce, retryTimer, swallowed>>

PassStep(p) == PostStored(p) \/ PostAnswered(p) \/ PostRefused(p) \/ PostFails(p)
Timers == DebounceFires \/ JournalRetryFires
List == ListServed \/ ListAnswered \/ ListFails

JournalNext ==
    \/ List \/ Timers \/ JournalOnline \/ JournalSignIn \/ JournalSignOut \/ JournalReload
    \/ \E p \in Passes : PassStep(p)
    \/ \E t \in Trips : AddTrip(t) \/ DeleteTrip(t) \/ OrphanArrives(t)

JournalSpec == JournalInit /\ [][JournalNext]_journalVars

-----------------------------------------------------------------------------
(* Properties                                                              *)

Waiting == Uploads(local, serverIds)
Scheduled(t) ==
    \/ debounce \/ retryTimer
    \/ pass[Full].phase \in {"list", "listed"}
    \/ \E p \in Passes : t \in pass[p].todo \/ pass[p].blocked

(* useJournalSync.ts:5 "The server copy is best-effort and is retried on a *)
(* timer": a trip the server lacks is under way or has a timer, except     *)
(* after a retry that found a full sync in flight and was dropped.  No     *)
(* other order of edits, answers, sign-ins and reloads strands a trip.     *)
StrandedByDroppedRetryOnly ==
    authenticated /\ ~swallowed => \A t \in Waiting : Scheduled(t)

(* The registry never claims a trip the account does not hold, whichever   *)
(* answers were lost: a trip it claims is not uploaded again.              *)
RegistryHonest == serverIds \subseteq stored

(* useJournalSync.ts:160 "so the server copy can be removed instead of     *)
(* coming back on the next pull": the sync brings back no deleted trip.    *)
DeletedStaysDeleted ==
    [][\A t \in serverIds : t \in local' \ local => pass' = pass]_journalVars

=============================================================================
