-------------------------- MODULE PreferencesSync --------------------------
(***************************************************************************)
(* The favorites and commutes of one device and the copy its account keeps *)
(* (packages/web/src/hooks/usePreferencesSync.ts).                         *)
(*                                                                         *)
(* A list of favorites is the number of copies it holds of each item:      *)
(* mergeById keeps both copies of an item with the same id and gives the   *)
(* local one a new id.  The rest of a snapshot follows the favorites.  The *)
(* other devices of the account write to it at any time.                   *)
(*                                                                         *)
(* What the server answers is serialized in another order than what the    *)
(* stores give, so that a snapshot just loaded never equals the local one  *)
(* (persistSnapshot follows every load).                                   *)
(***************************************************************************)
EXTENDS Integers

CONSTANTS
    Items,
    MaxCopies,    \* copies of an item in one list (bound)
    NoSnapshot

Snapshots == [Items -> 0 .. MaxCopies]

ASSUME PrefsAssumption == MaxCopies \in Nat /\ NoSnapshot \notin Snapshots

VARIABLES
    account,    \* what the server stores
    prefsAuth,  \* whether the page knows of a session
    loaded,     \* loadedUserRef names the user
    favorites,  \* the local stores (persisted)
    synced,     \* lastSyncedSnapshotRef
    load,       \* the request for the account's snapshot
    put,        \* the upload in flight
    upload,     \* the 750 ms timer of an edit is armed
    queued,     \* the snapshot under PENDING_SYNC_KEY (persisted)
    pending,    \* hasPendingChanges
    retry,      \* the 15 s timer: what it will do
    late,       \* uploads of pages that are gone
    skipped     \* history: what nothing is scheduled for, and why

prefsVars == <<account, prefsAuth, loaded, favorites, synced, load, put, upload,
               queued, pending, retry, late, skipped>>
prefsTimers == <<upload, retry>>

Queued == Snapshots \cup {NoSnapshot}
Request(phases) == [phase : phases, snapshot : Queued]
NoRequest == [phase |-> "idle", snapshot |-> NoSnapshot]

PrefsTypeOK ==
    /\ account \in Snapshots /\ favorites \in Snapshots
    /\ prefsAuth \in {"loading", "no", "yes"}
    /\ loaded \in BOOLEAN /\ upload \in BOOLEAN /\ pending \in BOOLEAN
    /\ synced \in Queued /\ queued \in Queued
    /\ load \in Request({"idle", "sent", "served"})
    /\ put \in Request({"idle", "sent", "stored"})
    /\ retry \in {"none", "sync", "load"}
    /\ late \subseteq Snapshots
    /\ skipped \subseteq {"undo", "read"}

PrefsInit ==
    /\ account = [x \in Items |-> 0] /\ favorites = [x \in Items |-> 0]
    /\ prefsAuth = "loading" /\ loaded = FALSE
    /\ synced = NoSnapshot /\ queued = NoSnapshot
    /\ load = NoRequest /\ put = NoRequest
    /\ upload = FALSE /\ pending = FALSE /\ retry = "none"
    /\ late = {} /\ skipped = {}

-----------------------------------------------------------------------------
(* Loading the account                                                     *)

(* The effect cancels a load in flight, and the page is not loaded until   *)
(* its own is answered.                                                    *)
StartLoad ==
    /\ load' = [phase |-> "sent", snapshot |-> NoSnapshot]
    /\ loaded' = FALSE
    /\ skipped' = skipped \ {"read"}

(* refreshAuth finds a session, or none.                                   *)
SessionFound ==
    /\ prefsAuth = "loading" /\ prefsAuth' = "yes"
    /\ StartLoad
    /\ UNCHANGED <<account, favorites, synced, put, prefsTimers, queued, pending, late>>

SessionMissing ==
    /\ prefsAuth = "loading" /\ prefsAuth' = "no"
    /\ UNCHANGED <<account, loaded, favorites, synced, load, put, prefsTimers, queued, pending, late, skipped>>

LoadServed ==
    /\ load.phase = "sent"
    /\ load' = [phase |-> "served", snapshot |-> account]
    /\ UNCHANGED <<account, prefsAuth, loaded, favorites, synced, put, prefsTimers, queued, pending, late, skipped>>

(* Mutant of mergeServerPreferences: the account replaces the device.      *)
MutMerge(server, device) == server

(* mergeById: the copies of both sides.                                    *)
mergeServerPreferences(server, device) == [x \in Items |-> server[x] + device[x]]

(* The stores are read when the answer is there, and written at once.      *)
LoadAnswered ==
    /\ load.phase = "served"
    /\ favorites' = mergeServerPreferences(load.snapshot, favorites)
    /\ favorites' \in Snapshots
    /\ loaded' = TRUE /\ upload' = TRUE
    /\ synced' = NoSnapshot /\ queued' = NoSnapshot /\ pending' = FALSE
    /\ load' = NoRequest /\ skipped' = {}
    /\ UNCHANGED <<account, prefsAuth, put, retry, late>>

LoadFails ==
    /\ load.phase # "idle"
    /\ load' = NoRequest
    /\ pending' = FALSE /\ retry' = "load"
    /\ UNCHANGED <<account, prefsAuth, loaded, favorites, synced, put, upload, queued, late, skipped>>

-----------------------------------------------------------------------------
(* Uploading                                                               *)

(* Mutant of persistSnapshot: what comes while an upload is in flight is   *)
(* forgotten.                                                              *)
MutPersistSnapshot ==
    /\ put' = IF put.phase # "idle" THEN put
              ELSE [phase |-> "sent", snapshot |-> favorites]
    /\ skipped' = skipped \ {"undo"}
    /\ UNCHANGED <<queued, pending>>

(* One upload at a time; what comes meanwhile is queued.                   *)
persistSnapshot ==
    /\ IF put.phase # "idle"
       THEN queued' = favorites /\ pending' = TRUE /\ UNCHANGED put
       ELSE put' = [phase |-> "sent", snapshot |-> favorites] /\ UNCHANGED <<queued, pending>>
    /\ skipped' = skipped \ {"undo"}

(* The one retry timer is taken from a load that failed.                   *)
Displaced ==
    skipped' = IF retry = "load" /\ ~loaded THEN skipped \cup {"read"} ELSE skipped

(* The effect on hasPendingChanges schedules a retry when it is set on a   *)
(* page that has loaded.                                                   *)
Schedule(timer) ==
    retry' = IF pending' /\ ~pending /\ prefsAuth = "yes" /\ loaded THEN "sync" ELSE timer

UploadFires ==
    /\ upload /\ upload' = FALSE
    /\ persistSnapshot /\ Schedule(retry)
    /\ UNCHANGED <<account, prefsAuth, loaded, favorites, synced, load, late>>

PutStored ==
    /\ put.phase = "sent"
    /\ put' = [put EXCEPT !.phase = "stored"]
    /\ account' = put.snapshot
    /\ UNCHANGED <<prefsAuth, loaded, favorites, synced, load, prefsTimers, queued, pending, late, skipped>>

PutAnswered ==
    /\ put.phase = "stored"
    /\ put' = NoRequest
    /\ synced' = put.snapshot
    /\ IF queued \in {NoSnapshot, put.snapshot}
       THEN queued' = NoSnapshot /\ pending' = FALSE /\ UNCHANGED <<retry, skipped>>
       ELSE pending' = TRUE /\ retry' = "sync" /\ Displaced /\ UNCHANGED queued
    /\ UNCHANGED <<account, prefsAuth, loaded, favorites, load, upload, late>>

(* The request or its answer is lost, or the server refuses it.            *)
PutFails ==
    /\ put.phase # "idle"
    /\ put' = NoRequest
    /\ queued' = put.snapshot /\ pending' = TRUE /\ retry' = "sync" /\ Displaced
    /\ UNCHANGED <<account, prefsAuth, loaded, favorites, synced, load, upload, late>>

(* requestSync reaches persistSnapshot on a page that has loaded.          *)
requestSync ==
    IF prefsAuth = "yes" /\ loaded THEN persistSnapshot ELSE UNCHANGED <<put, queued, pending, skipped>>

PrefsRetryFires ==
    /\ retry # "none"
    /\ IF retry = "sync"
       THEN requestSync /\ UNCHANGED <<load, loaded>>
       ELSE /\ IF prefsAuth = "yes" THEN StartLoad ELSE UNCHANGED <<load, loaded, skipped>>
            /\ UNCHANGED <<put, queued, pending>>
    /\ Schedule("none")
    /\ UNCHANGED <<account, prefsAuth, favorites, synced, upload, late>>

(* The browser's online event, or the button of the settings.              *)
PrefsOnline ==
    /\ prefsAuth = "yes"
    /\ IF loaded THEN requestSync /\ UNCHANGED <<load, loaded>>
       ELSE StartLoad /\ UNCHANGED <<put, queued, pending>>
    /\ Schedule(retry)
    /\ UNCHANGED <<account, prefsAuth, favorites, synced, upload, late>>

-----------------------------------------------------------------------------
(* The user, the page and the other devices                                *)

Edited(new) ==
    /\ favorites' = new
    /\ upload' = (prefsAuth = "yes" /\ loaded /\ new # synced)
    /\ skipped' = IF new = synced /\ put.phase # "idle"
                  THEN skipped \cup {"undo"} ELSE skipped \ {"undo"}
    /\ UNCHANGED <<account, prefsAuth, loaded, synced, load, put, retry, queued, pending, late>>

AddItem(x) ==
    /\ favorites[x] < MaxCopies
    /\ Edited([favorites EXCEPT ![x] = @ + 1])

RemoveItem(x) ==
    /\ favorites[x] > 0
    /\ Edited([favorites EXCEPT ![x] = @ - 1])

(* signOut, alone or with clearLocalPreferences.                           *)
PrefsSignOut ==
    /\ prefsAuth = "yes" /\ prefsAuth' = "no"
    /\ loaded' = FALSE /\ synced' = NoSnapshot
    /\ load' = NoRequest /\ upload' = FALSE /\ pending' = FALSE /\ skipped' = {}
    /\ \/ UNCHANGED <<favorites, queued>>
       \/ favorites' = [x \in Items |-> 0] /\ queued' = NoSnapshot
    /\ UNCHANGED <<account, put, retry, late>>

(* The page is loaded again: an upload may reach the server after it.      *)
PrefsReload ==
    /\ prefsAuth' = "loading"
    /\ loaded' = FALSE /\ synced' = NoSnapshot
    /\ load' = NoRequest /\ put' = NoRequest
    /\ upload' = FALSE /\ pending' = FALSE /\ retry' = "none" /\ skipped' = {}
    /\ late' = late \cup (IF put.phase = "sent" THEN {put.snapshot} ELSE {})
    /\ UNCHANGED <<account, favorites, queued>>

LateStored ==
    /\ \E s \in late :
         /\ late' = late \ {s}
         /\ account' \in {account, s}
    /\ UNCHANGED <<prefsAuth, loaded, favorites, synced, load, put, prefsTimers, queued, pending, skipped>>

OtherDevice ==
    /\ account' \in Snapshots
    /\ UNCHANGED <<prefsAuth, loaded, favorites, synced, load, put, prefsTimers, queued, pending, late, skipped>>

Loading == SessionFound \/ SessionMissing \/ LoadServed \/ LoadAnswered \/ LoadFails
Uploading == UploadFires \/ PutStored \/ PutAnswered \/ PutFails \/ PrefsRetryFires \/ PrefsOnline
User == PrefsSignOut \/ \E x \in Items : AddItem(x) \/ RemoveItem(x)
PrefsNext == Loading \/ Uploading \/ User \/ PrefsReload \/ LateStored \/ OtherDevice
PrefsSpec == PrefsInit /\ [][PrefsNext]_prefsVars

-----------------------------------------------------------------------------
(* Properties                                                              *)

(* What the user has is taken away by the user alone: an edit made while   *)
(* the account is being loaded or an upload is answered stays.             *)
EditsSurviveSync ==
    [][favorites' # favorites /\ ~User => \A x \in Items : favorites'[x] >= favorites[x]]_prefsVars

(* docs/preferences-sync.md:27 "Later changes use replacement `PUT`        *)
(* semantics; a deleted item remains deleted on the account": what a       *)
(* loaded page holds and has not uploaded is being uploaded, or will be.   *)
EditIsScheduled ==
    prefsAuth = "yes" /\ loaded /\ favorites # synced =>
      upload \/ put.phase # "idle" \/ retry = "sync"

(* docs/preferences-sync.md:6 "A failed read or write [...] queues the     *)
(* latest snapshot for a later retry": a page that has not loaded the      *)
(* account is loading it, or will.                                         *)
FailedReadIsRetried ==
    prefsAuth = "yes" /\ ~loaded => load.phase # "idle" \/ retry = "load"

(* Two sequences only leave something unsynchronized that nothing is       *)
(* scheduled for: an edit undone while its upload was in flight, and a     *)
(* failed load whose timer went to an upload that failed after it.         *)
OnlyTwoWaysToStall ==
    /\ "undo" \notin skipped => EditIsScheduled
    /\ "read" \notin skipped => FailedReadIsRetried
=============================================================================
