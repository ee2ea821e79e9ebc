----------------------------- MODULE WebProofs ------------------------------
(***************************************************************************)
(* Proofs about the rest of what the web client keeps of its user, the     *)
(* preferences (PreferencesSync), the push subscription (PushSubscription) *)
(* and the queue of requests (OfflineQueue), for any sets of items,        *)
(* endpoints, requests and passes; and about the client as a whole         *)
(* (MCWeb).                                                                *)
(***************************************************************************)
EXTENDS TripProofs, MCWeb, WellFoundedInduction

-----------------------------------------------------------------------------
(***************************************************************************)
(* The preferences: what their synchronization keeps.                      *)
(***************************************************************************)

(* A request that was served or sent carries a snapshot.                   *)
Carried ==
    /\ load.phase = "served" => load.snapshot \in Snapshots
    /\ put.phase # "idle" => put.snapshot \in Snapshots

(* A page that is loading the account has not loaded it.                   *)
LoadsFirst == load.phase # "idle" => ~loaded

(* The favorites of a loaded page are uploaded, or on their way, or behind *)
(* the upload in flight.                                                   *)
EditKept ==
    prefsAuth = "yes" /\ loaded /\ "undo" \notin skipped =>
      \/ upload \/ retry = "sync"
      \/ put.phase = "idle" /\ favorites = synced
      \/ put.phase # "idle" /\ favorites \in {put.snapshot, queued}

ReadKept == "read" \notin skipped => FailedReadIsRetried

PrefsInv == PrefsTypeOK /\ Carried /\ LoadsFirst /\ EditKept /\ ReadKept

LEMMA SnapshotTypes ==
    /\ [x \in Items |-> 0] \in Snapshots
    /\ \A s \in Snapshots : s \in [Items -> Nat]
    /\ \A s \in Snapshots, x \in Items :
         /\ s[x] < MaxCopies => [s EXCEPT ![x] = @ + 1] \in Snapshots
         /\ s[x] > 0 => [s EXCEPT ![x] = @ - 1] \in Snapshots
<1>1. [x \in Items |-> 0] \in Snapshots
  BY PrefsAssumption DEF PrefsAssumption, Snapshots
<1>2. \A s \in Snapshots : s \in [Items -> Nat]
  BY PrefsAssumption DEF PrefsAssumption, Snapshots
<1>3. ASSUME NEW s \in Snapshots, NEW x \in Items
      PROVE  /\ s[x] < MaxCopies => [s EXCEPT ![x] = @ + 1] \in Snapshots
             /\ s[x] > 0 => [s EXCEPT ![x] = @ - 1] \in Snapshots
  BY <1>3, PrefsAssumption DEF PrefsAssumption, Snapshots
<1> QED BY <1>1, <1>2, <1>3

LEMMA PrefsInitInv == PrefsInit => PrefsInv
<1>1. [x \in Items |-> 0] \in Snapshots
  BY SnapshotTypes
<1>2. ASSUME PrefsInit PROVE PrefsTypeOK
  <2>1. account \in Snapshots /\ favorites \in Snapshots
    BY <1>1, <1>2, Zenon DEF PrefsInit
  <2>2. load \in Request({"idle", "sent", "served"}) /\ put \in Request({"idle", "sent", "stored"})
    BY <1>2 DEF PrefsInit, Request, NoRequest, Queued
  <2> QED BY <1>2, <2>1, <2>2 DEF PrefsInit, PrefsTypeOK, Queued
<1>3. PrefsInit => Carried /\ LoadsFirst /\ EditKept /\ ReadKept
  BY DEF PrefsInit, Carried, LoadsFirst, EditKept, ReadKept, FailedReadIsRetried, NoRequest
<1> QED BY <1>2, <1>3 DEF PrefsInv

(* What an attempt to upload does, in flight or queued behind another.     *)
LEMMA PersistKeeps ==
    ASSUME PrefsInv, persistSnapshot
    PROVE  /\ put' \in Request({"idle", "sent", "stored"}) /\ put'.phase # "idle"
           /\ put'.snapshot \in Snapshots /\ favorites \in {put'.snapshot, queued'}
           /\ queued' \in Queued /\ pending' \in BOOLEAN
           /\ skipped' = skipped \ {"undo"}
<1>1. CASE put.phase # "idle"
  BY <1>1 DEF persistSnapshot, PrefsInv, PrefsTypeOK, Carried, Request, Queued
<1>2. CASE put.phase = "idle"
  BY <1>2 DEF persistSnapshot, PrefsInv, PrefsTypeOK, Request, Queued
<1> QED BY <1>1, <1>2

(* Nothing that PrefsInv names but the account and what other pages sent.   *)
LEMMA ElsewhereKeeps ==
    ASSUME PrefsInv, account' \in Snapshots, late' \subseteq Snapshots,
           UNCHANGED <<prefsAuth, loaded, favorites, synced, load, put, prefsTimers, queued,
                       pending, skipped>>
    PROVE  PrefsInv'
  BY DEF PrefsInv, PrefsTypeOK, Carried, LoadsFirst, EditKept, ReadKept, FailedReadIsRetried, prefsTimers

(* A load that starts makes up for whatever else the step forgets.         *)
LEMMA LoadStarts ==
    ASSUME PrefsInv, StartLoad, retry' \in {"none", "sync", "load"},
           UNCHANGED <<account, prefsAuth, favorites, synced, put, upload, queued, pending, late>>
    PROVE  PrefsInv'
  BY DEF StartLoad, PrefsInv, PrefsTypeOK, Carried, LoadsFirst, EditKept, ReadKept,
     FailedReadIsRetried, Request, Queued

LEMMA LoadingKeeps == ASSUME PrefsInv, Loading PROVE PrefsInv'
<1>1. CASE SessionFound
  BY <1>1 DEF SessionFound, StartLoad, prefsTimers, PrefsInv, PrefsTypeOK, Carried, LoadsFirst, EditKept,
     ReadKept, FailedReadIsRetried, Request, NoRequest, Queued
<1>2. CASE SessionMissing
  BY <1>2 DEF SessionMissing, prefsTimers, PrefsInv, PrefsTypeOK, Carried, LoadsFirst, EditKept,
     ReadKept, FailedReadIsRetried
<1>3. CASE LoadServed
  BY <1>3 DEF LoadServed, prefsTimers, PrefsInv, PrefsTypeOK, Carried, LoadsFirst, EditKept,
     ReadKept, FailedReadIsRetried, Request, Queued
<1>4. CASE LoadAnswered
  BY <1>4 DEF LoadAnswered, prefsTimers, PrefsInv, PrefsTypeOK, Carried, LoadsFirst, EditKept,
     ReadKept, FailedReadIsRetried, Request, NoRequest, Queued
<1>5. CASE LoadFails
  BY <1>5 DEF LoadFails, PrefsInv, PrefsTypeOK, Carried, LoadsFirst, EditKept,
     ReadKept, FailedReadIsRetried, Request, NoRequest, Queued
<1> QED BY <1>1, <1>2, <1>3, <1>4, <1>5 DEF Loading

LEMMA UploadingKeeps == ASSUME PrefsInv, Uploading PROVE PrefsInv'
<1>1. CASE UploadFires
  <2>1. persistSnapshot /\ Schedule(retry)
        /\ upload' = FALSE /\ UNCHANGED <<account, prefsAuth, loaded, favorites, synced, load, late>>
    BY <1>1 DEF UploadFires
  <2>2. PrefsTypeOK' /\ Carried'
    BY <2>1, PersistKeeps DEF Schedule, PrefsInv, PrefsTypeOK, Carried
  <2>3. LoadsFirst' /\ EditKept' /\ ReadKept'
    BY <2>1, PersistKeeps DEF Schedule, PrefsInv, LoadsFirst, EditKept, ReadKept, FailedReadIsRetried
  <2> QED BY <2>2, <2>3 DEF PrefsInv
<1>2. CASE PutStored
  BY <1>2 DEF PutStored, prefsTimers, PrefsInv, PrefsTypeOK, Carried, LoadsFirst,
     EditKept, ReadKept, FailedReadIsRetried, Request, Queued
<1>3. CASE PutAnswered
  <2>1. PrefsTypeOK' /\ Carried'
    BY <1>3 DEF PutAnswered, Displaced, PrefsInv, PrefsTypeOK, Carried, Request, NoRequest, Queued
  <2>2. LoadsFirst' /\ ReadKept'
    BY <1>3 DEF PutAnswered, Displaced, PrefsInv, LoadsFirst, ReadKept, FailedReadIsRetried
  <2>3. EditKept'
    <3>1. favorites # NoSnapshot
      BY PrefsAssumption DEF PrefsAssumption, PrefsInv, PrefsTypeOK
    <3>2. CASE queued \in {NoSnapshot, put.snapshot}
      BY <1>3, <3>1, <3>2 DEF PutAnswered, PrefsInv, EditKept, NoRequest
    <3>3. CASE queued \notin {NoSnapshot, put.snapshot}
      BY <1>3, <3>3 DEF PutAnswered, EditKept
    <3> QED BY <3>2, <3>3
  <2> QED BY <2>1, <2>2, <2>3 DEF PrefsInv
<1>4. CASE PutFails
  BY <1>4 DEF PutFails, Displaced, PrefsInv, PrefsTypeOK, Carried, LoadsFirst,
     EditKept, ReadKept, FailedReadIsRetried, Request, NoRequest, Queued
<1>5. CASE PrefsRetryFires
  <2>1. CASE retry = "sync" /\ prefsAuth = "yes" /\ loaded
    <3>1. /\ persistSnapshot /\ Schedule("none")
          /\ UNCHANGED <<account, prefsAuth, loaded, favorites, synced, load, upload, late>>
      BY <1>5, <2>1 DEF PrefsRetryFires, requestSync
    <3>2. PrefsTypeOK' /\ Carried'
      BY <3>1, PersistKeeps DEF Schedule, PrefsInv, PrefsTypeOK, Carried
    <3>3. LoadsFirst' /\ EditKept' /\ ReadKept'
      BY <2>1, <3>1, PersistKeeps DEF Schedule, PrefsInv, LoadsFirst, EditKept, ReadKept, FailedReadIsRetried
    <3> QED BY <3>2, <3>3 DEF PrefsInv
  <2>2. CASE retry = "sync" /\ ~(prefsAuth = "yes" /\ loaded)
    BY <1>5, <2>2 DEF PrefsRetryFires, requestSync, Schedule, PrefsInv, PrefsTypeOK, Carried, LoadsFirst,
       EditKept, ReadKept, FailedReadIsRetried
  <2>3. CASE retry # "sync" /\ prefsAuth = "yes"
    BY <1>5, <2>3, LoadStarts DEF PrefsRetryFires, Schedule
  <2>4. CASE retry # "sync" /\ prefsAuth # "yes"
    BY <1>5, <2>4 DEF PrefsRetryFires, Schedule, PrefsInv, PrefsTypeOK, Carried, LoadsFirst,
       EditKept, ReadKept, FailedReadIsRetried
  <2> QED BY <2>1, <2>2, <2>3, <2>4
<1>6. CASE PrefsOnline
  <2>1. CASE loaded
    <3>1. /\ persistSnapshot /\ Schedule(retry)
          /\ UNCHANGED <<account, prefsAuth, loaded, favorites, synced, load, upload, late>>
      BY <1>6, <2>1 DEF PrefsOnline, requestSync
    <3>2. PrefsTypeOK' /\ Carried'
      BY <3>1, PersistKeeps DEF Schedule, PrefsInv, PrefsTypeOK, Carried
    <3>3. LoadsFirst' /\ EditKept' /\ ReadKept'
      BY <2>1, <3>1, PersistKeeps DEF Schedule, PrefsInv, LoadsFirst, EditKept, ReadKept, FailedReadIsRetried
    <3> QED BY <3>2, <3>3 DEF PrefsInv
  <2>2. CASE ~loaded
    BY <1>6, <2>2, LoadStarts DEF PrefsOnline, Schedule, PrefsInv, PrefsTypeOK
  <2> QED BY <2>1, <2>2
<1> QED BY <1>1, <1>2, <1>3, <1>4, <1>5, <1>6 DEF Uploading

LEMMA UserKeeps == ASSUME PrefsInv, User PROVE PrefsInv'
<1>1. ASSUME NEW new \in Snapshots, Edited(new) PROVE PrefsInv'
  BY <1>1 DEF Edited, PrefsInv, PrefsTypeOK, Carried, LoadsFirst, EditKept, ReadKept, FailedReadIsRetried
<1>2. ASSUME NEW x \in Items, AddItem(x) \/ RemoveItem(x)
      PROVE  \E new \in Snapshots : Edited(new)
  BY <1>2, SnapshotTypes DEF AddItem, RemoveItem, PrefsInv, PrefsTypeOK
<1>3. CASE PrefsSignOut
  BY <1>3, SnapshotTypes DEF PrefsSignOut, PrefsInv, PrefsTypeOK, Carried, LoadsFirst, EditKept, ReadKept,
     FailedReadIsRetried, Request, NoRequest, Queued
<1> QED BY <1>1, <1>2, <1>3 DEF User

LEMMA PrefsStep == PrefsInv /\ [PrefsNext]_prefsVars => PrefsInv'
<1>1. ASSUME PrefsInv, PrefsReload PROVE PrefsInv'
  BY <1>1 DEF PrefsReload, PrefsInv, PrefsTypeOK, Carried, LoadsFirst, EditKept, ReadKept,
     FailedReadIsRetried, Request, NoRequest, Queued
<1>2. ASSUME PrefsInv, LateStored PROVE PrefsInv'
  <2>1. account' \in Snapshots /\ late' \subseteq Snapshots
    BY <1>2 DEF LateStored, PrefsInv, PrefsTypeOK
  <2> QED BY <1>2, <2>1, ElsewhereKeeps DEF LateStored
<1>3. ASSUME PrefsInv, OtherDevice PROVE PrefsInv'
  <2>1. account' \in Snapshots /\ late' \subseteq Snapshots
    BY <1>3 DEF OtherDevice, PrefsInv, PrefsTypeOK
  <2> QED BY <1>3, <2>1, ElsewhereKeeps DEF OtherDevice
<1>4. ASSUME PrefsInv, UNCHANGED prefsVars PROVE PrefsInv'
  <2>1. account' \in Snapshots /\ late' \subseteq Snapshots
    BY <1>4 DEF prefsVars, PrefsInv, PrefsTypeOK
  <2> QED BY <1>4, <2>1, ElsewhereKeeps DEF prefsVars, prefsTimers
<1> QED BY <1>1, <1>2, <1>3, <1>4, LoadingKeeps, UploadingKeeps, UserKeeps DEF PrefsNext

LEMMA PrefsInvariance == PrefsSpec => []PrefsInv
  BY PrefsInitInv, PrefsStep, PTL DEF PrefsSpec

(* The variables keep their types.                                         *)
THEOREM PrefsTypeCorrect == PrefsSpec => []PrefsTypeOK
<1>1. PrefsInv => PrefsTypeOK
  BY DEF PrefsInv
<1> QED BY <1>1, PrefsInvariance, PTL

(* An edit that nothing is scheduled for was undone while its upload was   *)
(* in flight; a failed load that is not retried lost its timer to an       *)
(* upload that failed after it.                                            *)
THEOREM StallsInTwoWaysOnly == PrefsSpec => []OnlyTwoWaysToStall
<1>1. PrefsInv => OnlyTwoWaysToStall
  BY DEF PrefsInv, EditKept, ReadKept, OnlyTwoWaysToStall, EditIsScheduled
<1> QED BY <1>1, PrefsInvariance, PTL

(* What the user has is taken away by the user alone.                      *)
THEOREM SyncTakesNothingAway == PrefsSpec => EditsSurviveSync
<1> DEFINE Kept == favorites' # favorites /\ ~User => \A x \in Items : favorites'[x] >= favorites[x]
<1>1. PrefsInv /\ [PrefsNext]_prefsVars => [Kept]_prefsVars
  <2>1. ASSUME PrefsInv, LoadAnswered, NEW x \in Items PROVE favorites'[x] >= favorites[x]
    <3>1. load.snapshot \in [Items -> Nat] /\ favorites \in [Items -> Nat]
      BY <2>1, SnapshotTypes DEF LoadAnswered, PrefsInv, Carried, PrefsTypeOK
    <3>2. favorites'[x] = load.snapshot[x] + favorites[x]
      BY <2>1 DEF LoadAnswered, mergeServerPreferences
    <3> QED BY <3>1, <3>2
  <2>2. ASSUME Loading, ~LoadAnswered PROVE favorites' = favorites
    BY <2>2 DEF Loading, SessionFound, SessionMissing, LoadServed, LoadFails
  <2>3. ASSUME Uploading PROVE favorites' = favorites
    BY <2>3 DEF Uploading, UploadFires, PutStored, PutAnswered, PutFails, PrefsRetryFires, PrefsOnline
  <2>4. ASSUME PrefsReload \/ LateStored \/ OtherDevice PROVE favorites' = favorites
    BY <2>4 DEF PrefsReload, LateStored, OtherDevice
  <2> QED BY <2>1, <2>2, <2>3, <2>4 DEF PrefsNext
<1> QED BY <1>1, PrefsInvariance, PTL DEF PrefsSpec, EditsSurviveSync

-----------------------------------------------------------------------------
(***************************************************************************)
(* The push subscription.                                                  *)
(*                                                                         *)
(* The argument: an endpoint that the client or the server is about to     *)
(* give up is never the one the browser has, nor one it will be given, so  *)
(* that no late call can take away what a later one brought. The endpoint  *)
(* of the browser is known to the server, or a call that will tell it is   *)
(* in hand, until the user says otherwise or one of the three sequences is *)
(* recorded.                                                               *)
(***************************************************************************)

Ops == {pendingOp} \cup {r.op : r \in retries}

(* A call of the switch is about the browser's endpoint.                   *)
CallIsLive == userCall # NoCall => userCall.op # NoOp /\ userCall.op.endpoint = browser

(* What is to be given up is not the browser's, nor will ever be.          *)
GivenUpIsGone ==
    \A op \in Ops : op # NoOp =>
      /\ op.endpoint \notin unused
      /\ op.type = "unsubscribe" => op.endpoint # browser

GoneIsGone ==
    /\ rows \cap unused = {} /\ sends \cap unused = {}
    /\ expired \cap (unused \cup {browser}) = {}

(* What the server has carried out is not undone but by the user.          *)
StoredIsKept ==
    userCall.op.type # "unsubscribe" =>
      \A c \in retries \cup {userCall} :
        c.stored /\ c.op = [type |-> "subscribe", endpoint |-> browser] => browser \in rows

(* Whether shown or not, the browser's endpoint is known or to be sent.    *)
LiveIsRegistered ==
    mislaid = {} /\ browser # NoEndpoint /\ userCall.op.type # "unsubscribe" =>
      browser \in rows \/ InHand([type |-> "subscribe", endpoint |-> browser])

PushInv ==
    /\ PushTypeOK /\ CallIsLive /\ GivenUpIsGone /\ GoneIsGone
    /\ StoredIsKept /\ LiveIsRegistered

(* The invariant: what the client holds is sent, or known, or given up.    *)
LEMMA PushInitInv == PushInit => PushInv
<1> SUFFICES ASSUME PushInit PROVE PushInv
  OBVIOUS
<1>1. PushTypeOK
  BY EndpointAssumption DEF PushInit, PushTypeOK, Call, NoCall
<1>2. StoredIsKept
  BY DEF PushInit, StoredIsKept, NoCall
<1> QED BY <1>1, <1>2
            DEF PushInit, PushInv, CallIsLive, GivenUpIsGone, Ops, GoneIsGone, LiveIsRegistered

LEMMA NoOpTypes ==
    /\ NoOp \notin Op /\ NoOp.type = "none" /\ NoCall.op = NoOp /\ NoCall.stored = FALSE
    /\ NoCall \in Call
    /\ \A op \in Op : op.type \in {"subscribe", "unsubscribe"} /\ op.endpoint \in Endpoints
BY DEF NoOp, Op, NoCall, Call

LEMMA SubscribeInv == ASSUME PushInv, Subscribe PROVE PushInv'
<1> DEFINE op == [type |-> "subscribe", endpoint |-> browser']
<1>1. /\ userCall = NoCall /\ userCall' = [op |-> op, stored |-> FALSE]
      /\ UNCHANGED <<isSubscribed, online, retries, pendingOp, rows, sends, expired, mislaid>>
      /\ \/ browser # NoEndpoint /\ browser' = browser /\ unused' = unused
         \/ browser = NoEndpoint /\ browser' \in unused /\ unused' = unused \ {browser'}
  BY DEF Subscribe, Ask, serverVars
<1>2. browser' \in Endpoints /\ browser' \notin unused' /\ unused' \subseteq unused /\ op \in Op
      /\ (browser' = browser \/ browser' \in unused)
  BY <1>1 DEF PushInv, PushTypeOK, Op
<1>3. userCall'.op = op /\ userCall'.stored = FALSE /\ userCall' \in Call /\ op.type = "subscribe"
      /\ op.endpoint = browser'
  BY <1>1, <1>2 DEF Call
<1> HIDE DEF op
<1>4. PushTypeOK'
  BY <1>1, <1>2, <1>3 DEF PushInv, PushTypeOK
<1>5. CallIsLive'
  BY <1>2, <1>3, NoOpTypes DEF CallIsLive
<1>6. GivenUpIsGone'
  <2>1. Ops' = Ops
    BY <1>1 DEF Ops
  <2> QED BY <1>2, <2>1 DEF PushInv, GivenUpIsGone
<1>7. GoneIsGone'
  BY <1>1, <1>2 DEF PushInv, GoneIsGone
<1>8. StoredIsKept'
  <2> SUFFICES ASSUME NEW c \in retries, c.stored, c.op = [type |-> "subscribe", endpoint |-> browser']
               PROVE  browser' \in rows
    BY <1>1, <1>3 DEF StoredIsKept
  <2>1. c.op \in Ops /\ c.op.endpoint = browser' /\ c.op # NoOp
    BY NoOpTypes DEF Ops
  <2>2. browser' = browser
    BY <1>2, <2>1 DEF PushInv, GivenUpIsGone
  <2>3. userCall.op.type # "unsubscribe"
    BY <1>1, NoOpTypes
  <2> QED BY <2>2, <2>3 DEF PushInv, StoredIsKept
<1>9. LiveIsRegistered'
  BY <1>3 DEF LiveIsRegistered, InHand, op
<1> QED BY <1>4, <1>5, <1>6, <1>7, <1>8, <1>9 DEF PushInv

LEMMA UnsubscribeInv == ASSUME PushInv, Unsubscribe PROVE PushInv'
<1> DEFINE op == [type |-> "unsubscribe", endpoint |-> browser]
<1>1. /\ userCall = NoCall /\ browser' = browser
      /\ UNCHANGED <<unused, online, retries, pendingOp, rows, sends, expired, mislaid>>
      /\ isSubscribed' \in BOOLEAN
      /\ \/ browser = NoEndpoint /\ userCall' = userCall
         \/ browser # NoEndpoint /\ userCall' = [op |-> op, stored |-> FALSE]
  BY DEF Unsubscribe, Ask, serverVars, PushInv, PushTypeOK
<1>2. CASE browser = NoEndpoint /\ userCall' = userCall
  <2>1. Ops' = Ops
    BY <1>1 DEF Ops
  <2> QED BY <1>1, <1>2, <2>1 DEF PushInv, PushTypeOK, CallIsLive, GivenUpIsGone, GoneIsGone,
                                   StoredIsKept, LiveIsRegistered
<1>3. CASE browser # NoEndpoint /\ userCall' = [op |-> op, stored |-> FALSE]
  <2>1. op \in Op
    BY <1>3 DEF PushInv, PushTypeOK, Op
  <2>2. userCall'.op = op /\ userCall' \in Call /\ op.type = "unsubscribe" /\ op.endpoint = browser
    BY <1>3, <2>1 DEF Call
  <2> HIDE DEF op
  <2>3. Ops' = Ops
    BY <1>1 DEF Ops
  <2>4. PushTypeOK'
    BY <1>1, <2>2 DEF PushInv, PushTypeOK
  <2>5. CallIsLive'
    BY <1>1, <2>1, <2>2, NoOpTypes DEF CallIsLive
  <2> QED BY <1>1, <2>2, <2>3, <2>4, <2>5
              DEF PushInv, GivenUpIsGone, GoneIsGone, StoredIsKept, LiveIsRegistered
<1> QED BY <1>1, <1>2, <1>3

(* Of the server's doing an operation, by what it touches.                 *)
LEMMA AppliedIs ==
    ASSUME NEW op
    PROVE  /\ op.type = "subscribe" => Applied(op) = rows \cup {op.endpoint}
           /\ op.type # "subscribe" => Applied(op) = rows \ {op.endpoint}
BY DEF Applied

LEMMA UserStoredInv == ASSUME PushInv, UserStored PROVE PushInv'
<1>1. /\ userCall # NoCall /\ userCall' = [userCall EXCEPT !.stored = TRUE]
      /\ rows' = Applied(userCall.op)
      /\ UNCHANGED <<browser, unused, isSubscribed, online, retries, pendingOp, sends, expired, mislaid>>
  BY DEF UserStored
<1>2. /\ userCall.op \in Op /\ userCall.op.endpoint = browser /\ userCall \in Call
      /\ userCall.op.type \in {"subscribe", "unsubscribe"} /\ browser \in Endpoints
  BY <1>1, NoOpTypes DEF PushInv, PushTypeOK, CallIsLive, Call
<1>3. userCall'.op = userCall.op /\ userCall' \in Call
  BY <1>1, <1>2 DEF Call
<1>4. rows' \subseteq rows \cup {browser}
      /\ (userCall.op.type # "unsubscribe" => rows' = rows \cup {browser})
  BY <1>1, <1>2, AppliedIs
<1>5. Ops' = Ops
  BY <1>1 DEF Ops
<1>6. PushTypeOK'
  BY <1>1, <1>2, <1>3, <1>4 DEF PushInv, PushTypeOK
<1>7. CallIsLive'
  BY <1>1, <1>2, <1>3, NoOpTypes DEF CallIsLive
<1>8. GoneIsGone'
  BY <1>1, <1>4 DEF PushInv, PushTypeOK, GoneIsGone
<1> QED BY <1>1, <1>3, <1>4, <1>5, <1>6, <1>7, <1>8
            DEF PushInv, GivenUpIsGone, StoredIsKept, LiveIsRegistered

LEMMA SubscribeAnsweredInv == ASSUME PushInv, SubscribeAnswered PROVE PushInv'
<1>1. /\ userCall.op.type = "subscribe" /\ userCall.stored /\ userCall' = NoCall
      /\ isSubscribed' = TRUE /\ mislaid' = mislaid \ {"refused"}
      /\ UNCHANGED <<browser, unused, online, retries, pendingOp, rows, sends, expired>>
  BY DEF SubscribeAnswered, serverVars
<1>2. userCall.op \in Op /\ userCall.op.endpoint = browser
  BY <1>1, NoOpTypes DEF PushInv, PushTypeOK, CallIsLive, Call
<1>3. userCall.op = [type |-> "subscribe", endpoint |-> browser]
  BY <1>1, <1>2 DEF Op
<1>4. browser \in rows
  BY <1>1, <1>3 DEF PushInv, StoredIsKept
<1>5. Ops' = Ops
  BY <1>1 DEF Ops
<1> QED BY <1>1, <1>4, <1>5, NoOpTypes
            DEF PushInv, PushTypeOK, CallIsLive, GivenUpIsGone, GoneIsGone, StoredIsKept,
                LiveIsRegistered

LEMMA SubscribeFailsInv == ASSUME PushInv, SubscribeFails PROVE PushInv'
<1>1. /\ userCall.op.type = "subscribe" /\ userCall' = NoCall
      /\ UNCHANGED <<browser, unused, online, retries, rows, sends, expired>>
      /\ \/ mislaid' = mislaid \cup {"refused"} /\ UNCHANGED <<isSubscribed, pendingOp>>
         \/ isSubscribed' = TRUE /\ pendingOp' = userCall.op /\ mislaid' = mislaid
  BY DEF SubscribeFails, serverVars
<1>2. userCall.op \in Op /\ userCall.op.endpoint = browser /\ userCall \in Call
  BY <1>1, NoOpTypes DEF PushInv, PushTypeOK, CallIsLive, Call
<1>3. userCall.op = [type |-> "subscribe", endpoint |-> browser]
  BY <1>1, <1>2 DEF Op
<1>4. PushTypeOK'
  BY <1>1, <1>2, NoOpTypes DEF PushInv, PushTypeOK
<1>5. \A op \in Ops' : op \in Ops \/ op = userCall.op
  BY <1>1 DEF Ops
<1>6. GivenUpIsGone'
  BY <1>1, <1>2, <1>5 DEF PushInv, PushTypeOK, GivenUpIsGone
<1>7. LiveIsRegistered'
  BY <1>1, <1>3 DEF LiveIsRegistered, InHand
<1>8. StoredIsKept'
  BY <1>1, NoOpTypes DEF PushInv, StoredIsKept
<1> QED BY <1>1, <1>4, <1>6, <1>7, <1>8 DEF PushInv, CallIsLive, GoneIsGone

LEMMA UnsubscribeSettledInv == ASSUME PushInv, UnsubscribeSettled PROVE PushInv'
<1>1. /\ userCall.op.type = "unsubscribe" /\ userCall' = NoCall
      /\ isSubscribed' = FALSE /\ browser' = NoEndpoint
      /\ pendingOp' \in {pendingOp, userCall.op}
      /\ UNCHANGED <<unused, online, retries, rows, sends, expired, mislaid>>
  BY DEF UnsubscribeSettled, serverVars
<1>2. userCall.op \in Op /\ userCall.op.endpoint = browser /\ userCall \in Call /\ browser \in Endpoints
  BY <1>1, NoOpTypes DEF PushInv, PushTypeOK, CallIsLive, Call
<1>3. \A op \in Ops' : op \in Ops \/ op = userCall.op
  BY <1>1 DEF Ops
<1>4. PushTypeOK'
  BY <1>1, <1>2, NoOpTypes, EndpointAssumption DEF PushInv, PushTypeOK
<1>5. \A op \in Ops' : op # NoOp => op.endpoint \in Endpoints /\ op.endpoint \notin unused
  <2>1. \A r \in retries : r.op \in Op \cup {NoOp}
    BY DEF PushInv, PushTypeOK, Call
  <2>2. \A op \in Ops : op \in Op \cup {NoOp}
    BY <2>1 DEF PushInv, PushTypeOK, Ops
  <2> QED BY <1>2, <1>3, <2>2, NoOpTypes DEF PushInv, PushTypeOK, GivenUpIsGone
<1>6. GivenUpIsGone'
  BY <1>1, <1>5, EndpointAssumption DEF GivenUpIsGone
<1>7. GoneIsGone'
  BY <1>1, EndpointAssumption DEF PushInv, PushTypeOK, GoneIsGone
<1>8. StoredIsKept'
  <2> SUFFICES ASSUME NEW c \in retries, c.op = [type |-> "subscribe", endpoint |-> NoEndpoint]
               PROVE  FALSE
    BY <1>1, NoOpTypes DEF StoredIsKept
  <2>1. c.op \in Ops' /\ c.op.endpoint = NoEndpoint /\ c.op # NoOp
    BY <1>1, NoOpTypes DEF Ops
  <2> QED BY <1>5, <2>1, EndpointAssumption
<1> QED BY <1>1, <1>4, <1>6, <1>7, <1>8 DEF PushInv, CallIsLive, LiveIsRegistered

-----------------------------------------------------------------------------
LEMMA RetryStartsInv == ASSUME PushInv, RetryStarts PROVE PushInv'
<1> DEFINE new == [op |-> pendingOp, stored |-> FALSE]
<1>1. /\ pendingOp # NoOp /\ pendingOp' = NoOp /\ retries' = retries \cup {new}
      /\ UNCHANGED <<browser, unused, isSubscribed, online, userCall, rows, sends, expired, mislaid>>
  BY DEF RetryStarts, serverVars
<1>2. new \in Call /\ new.op = pendingOp /\ new.stored = FALSE
  BY DEF PushInv, PushTypeOK, Call
<1> HIDE DEF new
<1>3. \A op \in Ops' : op \in Ops \/ op = NoOp
  BY <1>1, <1>2 DEF Ops
<1>4. PushTypeOK'
  BY <1>1, <1>2 DEF PushInv, PushTypeOK
<1>5. LiveIsRegistered'
  <2> DEFINE sub == [type |-> "subscribe", endpoint |-> browser]
  <2>1. InHand(sub) => InHand(sub)'
    <3>1. sub' = sub
      BY <1>1
    <3> HIDE DEF sub
    <3> QED BY <1>1, <1>2, <3>1 DEF InHand
  <2> QED BY <1>1, <2>1 DEF PushInv, LiveIsRegistered
<1> QED BY <1>1, <1>2, <1>3, <1>4, <1>5 DEF PushInv, CallIsLive, GivenUpIsGone, GoneIsGone, StoredIsKept

(* The operation of a retry.                                               *)
LEMMA RetryIs ==
    ASSUME PushInv, NEW r \in retries
    PROVE  /\ r \in Call /\ r.op \in Ops /\ r.op \in Op \cup {NoOp}
           /\ r.op # NoOp => r.op.endpoint \notin unused
           /\ r.op.type = "unsubscribe" => r.op.endpoint # browser
<1>1. r \in Call /\ r.op \in Ops /\ r.op \in Op \cup {NoOp}
  BY DEF PushInv, PushTypeOK, Call, Ops
<1> QED BY <1>1, NoOpTypes DEF PushInv, GivenUpIsGone

LEMMA RetryStoredInv == ASSUME PushInv, NEW r \in retries, RetryStored(r) PROVE PushInv'
<1> DEFINE new == [r EXCEPT !.stored = TRUE]
           sub == [type |-> "subscribe", endpoint |-> browser]
<1>1. /\ retries' = (retries \ {r}) \cup {new} /\ rows' = Applied(r.op)
      /\ UNCHANGED <<browser, unused, isSubscribed, online, userCall, pendingOp, sends, expired, mislaid>>
  BY DEF RetryStored
<1>2. new \in Call /\ new.op = r.op
  BY RetryIs DEF Call
<1> HIDE DEF new
<1>3. Ops' = Ops
  BY <1>1, <1>2 DEF Ops
<1>4. r.op # NoOp => rows' \subseteq (rows \cup {r.op.endpoint}) /\ r.op.endpoint \in Endpoints
  BY <1>1, AppliedIs, RetryIs, NoOpTypes
<1>5. r.op = NoOp => rows' = rows \ {NoEndpoint}
  BY <1>1, AppliedIs DEF NoOp
<1>6. r.op = NoOp => rows' \subseteq rows
  BY <1>5
<1>7. PushTypeOK'
  BY <1>1, <1>2, <1>4, <1>6 DEF PushInv, PushTypeOK
<1>8. GoneIsGone'
  BY <1>1, <1>4, <1>6, RetryIs DEF PushInv, GoneIsGone
<1>9. browser \in rows => browser \in rows' \/ browser = NoEndpoint
  <2>1. r.op.type = "unsubscribe" => rows' = rows \ {r.op.endpoint} /\ r.op.endpoint # browser
    BY <1>1, AppliedIs, RetryIs
  <2>2. r.op.type = "subscribe" => rows' = rows \cup {r.op.endpoint}
    BY <1>1, AppliedIs
  <2>3. r.op = NoOp \/ r.op.type \in {"subscribe", "unsubscribe"}
    BY RetryIs, NoOpTypes
  <2> QED BY <1>5, <2>1, <2>2, <2>3
<1>10. browser \in rows => browser \in rows'
  BY <1>9, EndpointAssumption DEF PushInv, PushTypeOK
<1>11. r.op = sub => browser \in rows'
  BY <1>1 DEF Applied
<1>12. StoredIsKept'
  <2> SUFFICES ASSUME userCall.op.type # "unsubscribe",
                      NEW c \in retries' \cup {userCall}, c.stored, c.op = sub
               PROVE  browser \in rows'
    BY <1>1 DEF StoredIsKept
  <2>1. CASE c \in retries \cup {userCall}
    <3>1. browser \in rows
      BY <2>1 DEF PushInv, StoredIsKept
    <3> QED BY <1>10, <3>1
  <2>2. CASE c = new
    BY <1>2, <1>11, <2>2
  <2> QED BY <1>1, <2>1, <2>2
<1>13. LiveIsRegistered'
  <2>1. sub' = sub
    BY <1>1
  <2> HIDE DEF sub
  <2>2. InHand(sub) => InHand(sub)'
    BY <1>1, <1>2, <2>1 DEF InHand
  <2>3. mislaid = {} /\ browser # NoEndpoint /\ userCall.op.type # "unsubscribe" =>
           browser \in rows \/ InHand(sub)
    BY DEF PushInv, LiveIsRegistered, sub
  <2> QED BY <1>1, <1>10, <2>2, <2>3 DEF LiveIsRegistered, sub
<1> QED BY <1>1, <1>3, <1>7, <1>8, <1>12, <1>13 DEF PushInv, CallIsLive, GivenUpIsGone

LEMMA RetryAnsweredInv == ASSUME PushInv, NEW r \in retries, RetryAnswered(r) PROVE PushInv'
<1> DEFINE sub == [type |-> "subscribe", endpoint |-> browser]
<1>1. /\ r.stored /\ retries' = retries \ {r}
      /\ UNCHANGED <<browser, unused, isSubscribed, online, userCall, pendingOp, rows, sends, expired, mislaid>>
  BY DEF RetryAnswered, serverVars
<1>2. Ops' \subseteq Ops
  BY <1>1 DEF Ops
<1>3. LiveIsRegistered'
  <2>1. sub' = sub
    BY <1>1
  <2>2. r.op = sub /\ userCall.op.type # "unsubscribe" => browser \in rows
    BY <1>1 DEF PushInv, StoredIsKept
  <2>3. mislaid = {} /\ browser # NoEndpoint /\ userCall.op.type # "unsubscribe" =>
           browser \in rows \/ InHand(sub)
    BY DEF PushInv, LiveIsRegistered
  <2> HIDE DEF sub
  <2>4. InHand(sub) => InHand(sub)' \/ r.op = sub
    BY <1>1, <2>1 DEF InHand
  <2> QED BY <1>1, <2>2, <2>3, <2>4 DEF LiveIsRegistered, sub
<1>4. StoredIsKept'
  BY <1>1 DEF PushInv, StoredIsKept
<1>5. GivenUpIsGone'
  BY <1>1, <1>2 DEF PushInv, GivenUpIsGone
<1>6. PushTypeOK'
  BY <1>1 DEF PushInv, PushTypeOK
<1> QED BY <1>1, <1>3, <1>4, <1>5, <1>6 DEF PushInv, CallIsLive, GoneIsGone

LEMMA RetryFailsInv == ASSUME PushInv, NEW r \in retries, RetryFails(r) PROVE PushInv'
<1> DEFINE sub == [type |-> "subscribe", endpoint |-> browser]
<1>1. /\ retries' = retries \ {r} /\ pendingOp' = r.op
      /\ mislaid' = IF pendingOp \in {NoOp, r.op} THEN mislaid ELSE mislaid \cup {"requeued"}
      /\ UNCHANGED <<browser, unused, isSubscribed, online, userCall, rows, sends, expired>>
  BY DEF RetryFails, serverVars
<1>2. Ops' \subseteq Ops
  BY <1>1 DEF Ops
<1>3. LiveIsRegistered'
  <2>1. sub' = sub /\ sub # NoOp
    BY <1>1 DEF NoOp
  <2>2. mislaid' = {} => mislaid = {} /\ pendingOp \in {NoOp, r.op}
    BY <1>1
  <2>3. mislaid = {} /\ browser # NoEndpoint /\ userCall.op.type # "unsubscribe" =>
           browser \in rows \/ InHand(sub)
    BY DEF PushInv, LiveIsRegistered
  <2> HIDE DEF sub
  <2>4. pendingOp \in {NoOp, r.op} /\ InHand(sub) => InHand(sub)'
    BY <1>1, <2>1 DEF InHand
  <2> QED BY <1>1, <2>2, <2>3, <2>4 DEF LiveIsRegistered, sub
<1>4. StoredIsKept'
  BY <1>1 DEF PushInv, StoredIsKept
<1>5. GivenUpIsGone'
  BY <1>1, <1>2 DEF PushInv, GivenUpIsGone
<1>6. PushTypeOK'
  BY <1>1, RetryIs DEF PushInv, PushTypeOK
<1> QED BY <1>1, <1>3, <1>4, <1>5, <1>6 DEF PushInv, CallIsLive, GoneIsGone

-----------------------------------------------------------------------------
LEMMA ReloadInv == ASSUME PushInv, PushReload PROVE PushInv'
<1>1. /\ userCall' = NoCall /\ retries' = {} /\ isSubscribed' \in BOOLEAN
      /\ mislaid' = IF retries = {} /\ userCall = NoCall THEN mislaid ELSE mislaid \cup {"closed"}
      /\ UNCHANGED <<browser, unused, online, pendingOp, rows, sends, expired>>
  BY DEF PushReload, serverVars
<1>2. Ops' \subseteq Ops
  BY <1>1 DEF Ops
<1>3. mislaid' = {} => retries = {} /\ userCall = NoCall /\ mislaid = {}
  BY <1>1
<1>4. LiveIsRegistered'
  BY <1>1, <1>3 DEF PushInv, LiveIsRegistered, InHand
<1>5. StoredIsKept'
  BY <1>1, NoOpTypes DEF StoredIsKept
<1>6. GivenUpIsGone'
  BY <1>1, <1>2 DEF PushInv, GivenUpIsGone
<1>7. PushTypeOK'
  BY <1>1, NoOpTypes DEF PushInv, PushTypeOK
<1> QED BY <1>1, <1>4, <1>5, <1>6, <1>7 DEF PushInv, CallIsLive, GoneIsGone

LEMMA ServerInv ==
    ASSUME PushInv, UNCHANGED <<browser, unused, pageVars>>, online' \in BOOLEAN,
           rows' \subseteq rows, rows \ rows' \subseteq expired,
           sends' \subseteq sends \cup rows, expired' \subseteq expired \cup (sends \ {browser})
    PROVE  PushInv'
<1>1. UNCHANGED <<browser, unused, isSubscribed, userCall, retries, pendingOp, mislaid>>
  BY DEF pageVars
<1>2. browser \in rows => browser \in rows'
  BY DEF PushInv, GoneIsGone
<1>3. Ops' = Ops
  BY <1>1 DEF Ops
<1>4. PushTypeOK' /\ GoneIsGone'
  BY <1>1 DEF PushInv, PushTypeOK, GoneIsGone
<1>5. StoredIsKept' /\ LiveIsRegistered'
  BY <1>1, <1>2 DEF PushInv, StoredIsKept, LiveIsRegistered, InHand
<1> QED BY <1>1, <1>3, <1>4, <1>5 DEF PushInv, CallIsLive, GivenUpIsGone

LEMMA PushStep == PushInv /\ [PushNext]_pushVars => PushInv'
<1> SUFFICES ASSUME PushInv, [PushNext]_pushVars PROVE PushInv'
  OBVIOUS
<1>0. online \in BOOLEAN
  BY DEF PushInv, PushTypeOK
<1>1. CASE UNCHANGED pushVars
  BY <1>0, <1>1, ServerInv DEF pushVars, pageVars
<1>2. CASE Connectivity
  BY <1>2, ServerInv DEF Connectivity, serverVars
<1>3. CASE StartBatch
  BY <1>0, <1>3, ServerInv DEF StartBatch
<1>4. ASSUME NEW e \in Endpoints, SendSettled(e) PROVE PushInv'
  BY <1>0, <1>4, ServerInv DEF SendSettled
<1>5. ASSUME NEW e \in Endpoints, SendExpired(e) PROVE PushInv'
  BY <1>0, <1>5, ServerInv DEF SendExpired, Gone
<1>6. ASSUME NEW e \in Endpoints, RemoveExpired(e) PROVE PushInv'
  BY <1>0, <1>6, ServerInv DEF RemoveExpired
<1>7. CASE Switch
  BY <1>7, SubscribeInv, UnsubscribeInv, UserStoredInv, SubscribeAnsweredInv, SubscribeFailsInv,
     UnsubscribeSettledInv DEF Switch
<1>8. CASE Retrying
  BY <1>8, RetryStartsInv, RetryStoredInv, RetryAnsweredInv, RetryFailsInv DEF Retrying
<1> QED BY <1>1, <1>2, <1>3, <1>4, <1>5, <1>6, <1>7, <1>8, ReloadInv DEF PushNext, Notifying

(* The inductive invariant holds in every state.                           *)
LEMMA PushInvariance == PushSpec => []PushInv
<1> QED BY PushInitInv, PushStep, PTL DEF PushSpec

(* Every variable of the push subscription keeps its type.                 *)
THEOREM PushTypeCorrect == PushSpec => []PushTypeOK
<1>1. PushInv => PushTypeOK
  BY DEF PushInv
<1> QED BY <1>1, PushInvariance, PTL

(* What the page shows is what the server has, or will have, except after  *)
(* the three sequences that are recorded in mislaid, for any number of     *)
(* endpoints and of retries under way at once.                             *)
THEOREM LostInThreeWays == PushSpec => []LostInThreeWaysOnly
<1>1. PushInv => LostInThreeWaysOnly
  BY DEF PushInv, LiveIsRegistered, LostInThreeWaysOnly, ShownIsRegistered
<1> QED BY <1>1, PushInvariance, PTL

-----------------------------------------------------------------------------
(***************************************************************************)
(* The queue.                                                              *)
(*                                                                         *)
(* The argument: a pass holds requests that were made, and whatever is not *)
(* in the queue any more was carried out or cleared. A request that was    *)
(* carried out is in the queue only as the one some pass has in hand: it   *)
(* waits for its answer or is about to delete it, unless two passes had    *)
(* the request or a pass did not come to delete it.                        *)
(***************************************************************************)

(* A set of numbers that is not empty has a least one.                     *)
LEMMA LeastOf ==
    ASSUME NEW T \in SUBSET Nat, T # {}
    PROVE  \E n \in T : \A m \in T : n <= m
<1> DEFINE R == OpToRel(<, Nat)
<1>1. PICK n \in T : \A m \in T : ~(<<m, n>> \in R)
  BY WFMin, NatLessThanWellFounded
<1>2. ASSUME NEW m \in T PROVE n <= m
  <2> DEFINE p == <<m, n>>
  <2>1. p \in Nat \X Nat /\ p[1] = m /\ p[2] = n /\ p \notin R
    BY <1>1
  <2> HIDE DEF p
  <2>2. ~(p[1] < p[2])
    BY <2>1 DEF OpToRel
  <2>3. ~(m < n) /\ m \in Nat /\ n \in Nat
    BY <2>1, <2>2
  <2> QED BY <2>3
<1> QED BY <1>2

Dealt == carriedOut \cup cleared
Faulty == shared \cup cut
FirstOf(T) == CHOOSE r \in T : \A q \in T : r <= q

Counts == [QueuedRequests -> 0 .. MaxCount \cup {Absent}]
Replays == [step : Steps \cup {"none"}, todo : SUBSET QueuedRequests, retryCount : Counts]

(* The pass has had its first request carried out and not yet deleted it.  *)
DoneSteps == {"carried", "delete"}

(* The requests of a pass, of those made, carried out, dealt with, and     *)
(* those that two passes had or a pass left behind.                        *)
PassOK(run, made, done, dealt, faulty) ==
    LET first == FirstOf(run.todo) IN
    /\ run.todo = {} => run = NoReplay
    /\ run.todo # {} => run.step \in Steps
    /\ \A r \in run.todo :
         /\ r \in made /\ run.retryCount[r] \in 0 .. MaxCount
         /\ run.step = "fetch" \/ r # first => run.retryCount[r] = 0 \/ r \in dealt
         /\ run.step \in DoneSteps /\ r = first => r \in done
         /\ run.step \in DoneSteps \cup {"giveUp"} /\ r = first => r \in dealt
         /\ r \in done => r \in faulty \/ (run.step \in DoneSteps /\ r = first)

PassesOK == \A p \in QueuePasses : PassOK(replay[p], 1 .. issued, carriedOut, Dealt, Faulty)

(* A pass has the request in hand.                                         *)
Holding(run, r) == run.todo # {} /\ run.step \in DoneSteps /\ r = FirstOf(run.todo)

StoredOK(r) ==
    /\ queue[r] # Absent => r \in 1 .. issued
    /\ r \in 1 .. issued => queue[r] # Absent \/ r \in Dealt
    /\ queue[r] \notin {0, Absent} => r \in Dealt
    /\ queue[r] # Absent /\ r \in carriedOut =>
         r \in Faulty \/ \E p \in QueuePasses : Holding(replay[p], r)

QueueShape ==
    /\ issued \in 0 .. LastRequest /\ queue \in Counts
    /\ replay \in [QueuePasses -> Replays]
    /\ carriedOut \subseteq 1 .. issued /\ cleared \subseteq 1 .. issued
    /\ shared \subseteq 1 .. issued /\ cut \subseteq carriedOut

QueueInv ==
    /\ QueueShape /\ RepeatedTwoWaysOnly /\ repeated \subseteq carriedOut
    /\ \A r \in QueuedRequests : StoredOK(r)
    /\ PassesOK
    /\ \A p, q \in QueuePasses : p # q => replay[p].todo \cap replay[q].todo \subseteq shared

LEMMA FirstIs ==
    /\ \A p : First(p) = FirstOf(replay[p].todo)
    /\ \A T \in SUBSET QueuedRequests : T # {} => FirstOf(T) \in T
<1>1. \A p : First(p) = FirstOf(replay[p].todo)
  BY DEF First, FirstOf
<1>2. ASSUME NEW T \in SUBSET QueuedRequests, T # {} PROVE FirstOf(T) \in T
  <2>1. T \in SUBSET Nat
    BY QueueAssumption DEF QueuedRequests
  <2>2. \E n \in T : \A m \in T : n <= m
    BY <1>2, <2>1, LeastOf
  <2> QED BY <2>2 DEF FirstOf
<1> QED BY <1>1, <1>2

LEMMA NoReplayIs ==
    /\ NoReplay \in Replays /\ NoReplay.todo = {} /\ NoReplay.step = "none"
    /\ \A made, done, dealt, faulty : PassOK(NoReplay, made, done, dealt, faulty)
<1>1. NoReplay \in Replays /\ NoReplay.todo = {} /\ NoReplay.step = "none"
  BY DEF NoReplay, Replays, Counts
<1> QED BY <1>1 DEF PassOK

LEMMA QueueInitInv == QueueInit => QueueInv
<1> SUFFICES ASSUME QueueInit PROVE QueueInv
  OBVIOUS
<1>1. QueueShape
  BY QueueAssumption, NoReplayIs DEF QueueInit, QueueShape, Counts
<1>2. \A r \in QueuedRequests : StoredOK(r)
  BY QueueAssumption DEF QueueInit, StoredOK, QueuedRequests
<1>3. \A p \in QueuePasses : replay[p] = NoReplay
  BY DEF QueueInit
<1>4. \A p \in QueuePasses : replay[p].todo = {}
  BY <1>3, NoReplayIs
<1>5. PassesOK
  BY <1>3, NoReplayIs DEF PassesOK
<1> QED BY <1>1, <1>2, <1>4, <1>5 DEF QueueInit, QueueInv, RepeatedTwoWaysOnly

LEMMA PassLater ==
    ASSUME NEW run, NEW made, NEW made2, NEW done, NEW dealt, NEW dealt2, NEW faulty, NEW faulty2,
           made \subseteq made2, dealt \subseteq dealt2, faulty \subseteq faulty2,
           PassOK(run, made, done, dealt, faulty)
    PROVE  PassOK(run, made2, done, dealt2, faulty2)
BY DEF PassOK

LEMMA QueueInvTypes == QueueInv => QueueTypeOK /\ RequestKept /\ RepeatedTwoWaysOnly
<1> SUFFICES ASSUME QueueInv PROVE QueueTypeOK /\ RequestKept
  BY DEF QueueInv
<1>1. ASSUME NEW p \in QueuePasses, replay[p] # NoReplay
      PROVE  /\ replay[p].step \in Steps
             /\ replay[p].todo # {} /\ replay[p].todo \subseteq 1 .. issued
             /\ \A r \in replay[p].todo : replay[p].retryCount[r] \in 0 .. MaxCount
  <2>1. PassOK(replay[p], 1 .. issued, carriedOut, Dealt, Faulty)
    BY DEF QueueInv, PassesOK
  <2> QED BY <1>1, <2>1 DEF PassOK
<1>2. \A r \in 1 .. issued : r \in QueuedRequests
  BY QueueAssumption DEF QueueInv, QueueShape, QueuedRequests
<1>3. RequestKept
  BY <1>2 DEF QueueInv, StoredOK, RequestKept, Dealt
<1> QED BY <1>1, <1>3 DEF QueueInv, QueueShape, QueueTypeOK, Counts

-----------------------------------------------------------------------------
LEMMA QueueRequestInv == ASSUME QueueInv, queueRequest PROVE QueueInv'
<1>1. /\ issued < LastRequest /\ issued' = issued + 1
      /\ queue' = [queue EXCEPT ![issued + 1] = 0]
      /\ UNCHANGED <<replay, carriedOut, cleared, shared, cut, repeated>>
      /\ Dealt' = Dealt /\ Faulty' = Faulty
  BY DEF queueRequest, Dealt, Faulty
<1>2. /\ issued' \in 0 .. LastRequest /\ 1 .. issued \subseteq 1 .. issued'
      /\ 1 .. issued' = (1 .. issued) \cup {issued + 1}
      /\ issued + 1 \in QueuedRequests /\ issued + 1 \notin 1 .. issued
  BY <1>1, QueueAssumption DEF QueueInv, QueueShape, QueuedRequests
<1>3. QueueShape'
  BY <1>1, <1>2, QueueAssumption DEF QueueInv, QueueShape, Counts
<1>4. ASSUME NEW r \in QueuedRequests PROVE StoredOK(r)'
  <2>1. StoredOK(r)
    BY DEF QueueInv
  <2>2. CASE r = issued + 1
    <3>1. queue'[r] = 0 /\ r \in 1 .. issued' /\ r \notin carriedOut
      BY <1>1, <1>2, <2>2 DEF QueueInv, QueueShape, Counts
    <3> QED BY <1>1, <3>1 DEF StoredOK, Absent
  <2>3. CASE r # issued + 1
    <3>1. queue'[r] = queue[r]
      BY <1>1, <2>3 DEF QueueInv, QueueShape, Counts
    <3> QED BY <1>1, <1>2, <2>1, <2>3, <3>1 DEF StoredOK
  <2> QED BY <2>2, <2>3
<1>5. PassesOK'
  <2>1. \A p \in QueuePasses : PassOK(replay[p], 1 .. issued', carriedOut, Dealt, Faulty)
    BY <1>2, PassLater DEF QueueInv, PassesOK
  <2> QED BY <1>1, <2>1 DEF PassesOK
<1> QED BY <1>1, <1>3, <1>4, <1>5 DEF QueueInv, RepeatedTwoWaysOnly

LEMMA ClearQueueInv == ASSUME QueueInv, clearQueue PROVE QueueInv'
<1>1. /\ queue' = [r \in QueuedRequests |-> Absent] /\ cleared' = cleared \cup Stored
      /\ UNCHANGED <<issued, replay, carriedOut, shared, cut, repeated>>
      /\ Faulty' = Faulty /\ Dealt \subseteq Dealt' /\ Stored \subseteq Dealt'
  BY DEF clearQueue, Dealt, Faulty
<1>2. \A r \in QueuedRequests : StoredOK(r)
  BY DEF QueueInv
<1>3. Stored \subseteq 1 .. issued
  BY <1>2 DEF Stored, StoredOK
<1>4. QueueShape'
  BY <1>1, <1>3 DEF QueueInv, QueueShape, Counts
<1>5. \A r \in QueuedRequests : StoredOK(r)'
  BY <1>1, <1>2 DEF StoredOK, Stored
<1>6. PassesOK'
  <2>1. \A p \in QueuePasses : PassOK(replay[p], 1 .. issued, carriedOut, Dealt', Faulty)
    BY <1>1, PassLater DEF QueueInv, PassesOK
  <2> QED BY <1>1, <2>1 DEF PassesOK
<1> QED BY <1>1, <1>4, <1>5, <1>6 DEF QueueInv, RepeatedTwoWaysOnly

LEMMA StartPassInv == ASSUME QueueInv, NEW p \in QueuePasses, StartPass(p) PROVE QueueInv'
<1> DEFINE run == [step |-> "fetch", todo |-> Stored, retryCount |-> queue]
<1>1. /\ replay[p].todo = {} /\ Stored # {}
      /\ replay' = [replay EXCEPT ![p] = run]
      /\ shared' = shared \cup {r \in Stored : \E q \in QueuePasses : r \in replay[q].todo}
      /\ UNCHANGED <<issued, queue, carriedOut, cleared, cut, repeated>>
      /\ Dealt' = Dealt /\ Faulty' = shared' \cup cut /\ Faulty \subseteq Faulty'
  BY DEF StartPass, Running, Dealt, Faulty
<1>2. \A r \in QueuedRequests : StoredOK(r)
  BY DEF QueueInv
<1>3. Stored \subseteq 1 .. issued /\ Stored \subseteq QueuedRequests
  BY <1>2 DEF Stored, StoredOK
<1>4. run \in Replays /\ run.todo = Stored /\ run.step = "fetch" /\ run.retryCount = queue
  BY <1>3 DEF Replays, Steps, QueueInv, QueueShape
<1> HIDE DEF run
<1>5. /\ replay'[p] = run /\ \A q \in QueuePasses \ {p} : replay'[q] = replay[q]
      /\ replay' \in [QueuePasses -> Replays]
  BY <1>1, <1>4 DEF QueueInv, QueueShape
<1>6. QueueShape'
  BY <1>1, <1>3, <1>5 DEF QueueInv, QueueShape
<1>7. ASSUME NEW r \in Stored, r \in carriedOut PROVE r \in Faulty'
  <2>1. r \in Faulty \/ \E q \in QueuePasses : Holding(replay[q], r)
    BY <1>2, <1>3, <1>7 DEF StoredOK, Stored
  <2>2. \A q \in QueuePasses : replay[q].todo # {} => FirstOf(replay[q].todo) \in replay[q].todo
    BY FirstIs DEF QueueInv, QueueShape, Replays
  <2> QED BY <1>1, <2>1, <2>2 DEF Faulty, Holding
<1>8. PassOK(run, 1 .. issued, carriedOut, Dealt, Faulty')
  <2>1. \A r \in Stored : queue[r] \in 0 .. MaxCount /\ (queue[r] = 0 \/ r \in Dealt)
    BY <1>2, <1>3 DEF Stored, StoredOK, QueueInv, QueueShape, Counts
  <2> QED BY <1>1, <1>3, <1>4, <1>7, <2>1 DEF DoneSteps, PassOK, Steps
<1>9. PassesOK'
  <2>1. \A q \in QueuePasses : PassOK(replay[q], 1 .. issued, carriedOut, Dealt, Faulty')
    BY <1>1, PassLater DEF QueueInv, PassesOK
  <2> QED BY <1>1, <1>5, <1>8, <2>1 DEF PassesOK
<1>10. \A r \in QueuedRequests : StoredOK(r)'
  <2>1. \A r : (\E q \in QueuePasses : Holding(replay[q], r)) => \E q \in QueuePasses : Holding(replay'[q], r)
    BY <1>1, <1>5 DEF Holding
  <2> QED BY <1>1, <1>2, <2>1 DEF StoredOK
<1>11. \A q, s \in QueuePasses : q # s => replay'[q].todo \cap replay'[s].todo \subseteq shared'
  BY <1>1, <1>4, <1>5 DEF QueueInv
<1> QED BY <1>1, <1>6, <1>9, <1>10, <1>11 DEF QueueInv, RepeatedTwoWaysOnly

-----------------------------------------------------------------------------
(* What the steps of a pass have in common.                                *)
LEMMA PassRuns ==
    ASSUME QueueInv, NEW p \in QueuePasses, Running(p)
    PROVE  LET run == replay[p] IN
           LET r == First(p) IN
           /\ r = FirstOf(run.todo) /\ r \in run.todo /\ run.todo # {}
           /\ r \in 1 .. issued /\ r \in QueuedRequests
           /\ run \in Replays /\ run.step \in Steps
           /\ PassOK(run, 1 .. issued, carriedOut, Dealt, Faulty)
<1> DEFINE run == replay[p]
           r == First(p)
<1>1. run \in Replays /\ run.todo # {} /\ PassOK(run, 1 .. issued, carriedOut, Dealt, Faulty)
  BY DEF QueueInv, QueueShape, PassesOK, Running
<1>2. r = FirstOf(run.todo) /\ r \in run.todo
  BY <1>1, FirstIs DEF Replays
<1> HIDE DEF run, r
<1>3. r \in 1 .. issued /\ r \in QueuedRequests /\ run.step \in Steps
  BY <1>1, <1>2 DEF PassOK, Replays
<1> QED BY <1>1, <1>2, <1>3 DEF run, r

(* The pass goes on with the rest, or ends.                                *)
LEMMA OnwardOK ==
    ASSUME QueueInv, NEW p \in QueuePasses, Running(p)
    PROVE  /\ Onward(p) \in Replays /\ Onward(p).todo \subseteq replay[p].todo
           /\ PassOK(Onward(p), 1 .. issued, carriedOut, Dealt, Faulty)
           /\ \A r : ~Holding(Onward(p), r)
<1> DEFINE run == replay[p]
           rest == run.todo \ {First(p)}
           onward == [run EXCEPT !.todo = rest, !.step = "fetch"]
<1>1. /\ First(p) = FirstOf(run.todo) /\ run \in Replays
      /\ PassOK(run, 1 .. issued, carriedOut, Dealt, Faulty)
  BY PassRuns
<1>2. Onward(p) = IF rest = {} THEN NoReplay ELSE onward
  BY DEF Onward
<1> HIDE DEF run
<1>3. CASE rest = {}
  BY <1>2, <1>3, NoReplayIs DEF Holding
<1>4. CASE rest # {}
  <2>1. /\ onward \in Replays /\ onward.todo = rest /\ onward.step = "fetch"
        /\ onward.retryCount = run.retryCount
    BY <1>1 DEF Replays, Steps
  <2> HIDE DEF onward
  <2>2. \A r \in rest : r \in run.todo /\ r # FirstOf(run.todo)
    BY <1>1
  <2>3. PassOK(onward, 1 .. issued, carriedOut, Dealt, Faulty)
    BY <1>1, <1>4, <2>1, <2>2 DEF DoneSteps, PassOK, Steps
  <2> QED BY <1>2, <1>4, <2>1, <2>3 DEF DoneSteps, Holding, run
<1> QED BY <1>3, <1>4

(* Putting a new state of one pass in its place.                           *)
LEMMA PassReplaced ==
    ASSUME QueueInv, NEW p \in QueuePasses, NEW run \in Replays,
           replay' = [replay EXCEPT ![p] = run], run.todo \subseteq replay[p].todo
    PROVE  /\ replay' \in [QueuePasses -> Replays]
           /\ replay'[p] = run /\ \A q \in QueuePasses \ {p} : replay'[q] = replay[q]
           /\ \A q, s \in QueuePasses : q # s => replay'[q].todo \cap replay'[s].todo \subseteq shared
<1>1. /\ replay' \in [QueuePasses -> Replays]
      /\ replay'[p] = run /\ \A q \in QueuePasses \ {p} : replay'[q] = replay[q]
  BY DEF QueueInv, QueueShape
<1> QED BY <1>1 DEF QueueInv

LEMMA CarryOutInv == ASSUME QueueInv, NEW p \in QueuePasses, CarryOut(p) PROVE QueueInv'
<1> DEFINE old == replay[p]
           run == [old EXCEPT !.step = "carried"]
           r == First(p)
<1>1. /\ Running(p) /\ old.step = "fetch"
      /\ replay' = [replay EXCEPT ![p] = run]
      /\ repeated' = repeated \cup ({r} \cap carriedOut) /\ carriedOut' = carriedOut \cup {r}
      /\ UNCHANGED <<issued, queue, cleared, shared, cut>>
      /\ Faulty' = Faulty /\ Dealt' = Dealt \cup {r}
  BY DEF CarryOut, Dealt, Faulty
<1>2. /\ r = FirstOf(old.todo) /\ r \in old.todo /\ old \in Replays
      /\ r \in 1 .. issued /\ r \in QueuedRequests
      /\ PassOK(old, 1 .. issued, carriedOut, Dealt, Faulty)
  BY <1>1, PassRuns
<1>3. /\ run \in Replays /\ run.todo = old.todo /\ run.step = "carried"
      /\ run.retryCount = old.retryCount
  BY <1>2 DEF Replays, Steps
<1> HIDE DEF run
<1>4. /\ replay' \in [QueuePasses -> Replays]
      /\ replay'[p] = run /\ \A q \in QueuePasses \ {p} : replay'[q] = replay[q]
      /\ \A q, s \in QueuePasses : q # s => replay'[q].todo \cap replay'[s].todo \subseteq shared
  BY <1>1, <1>3, PassReplaced
<1> HIDE DEF old, r
<1>5. PassOK(run, 1 .. issued, carriedOut \cup {r}, Dealt \cup {r}, Faulty)
  BY <1>1, <1>2, <1>3 DEF PassOK, Steps, DoneSteps
<1>6. ASSUME NEW q \in QueuePasses, q # p
      PROVE  PassOK(replay[q], 1 .. issued, carriedOut \cup {r}, Dealt \cup {r}, Faulty)
  <2>1. PassOK(replay[q], 1 .. issued, carriedOut, Dealt, Faulty)
    BY DEF QueueInv, PassesOK
  <2>2. r \in replay[q].todo => r \in Faulty
    BY <1>2, <1>6 DEF QueueInv, Faulty, old
  <2> QED BY <2>1, <2>2 DEF PassOK
<1>7. PassesOK'
  BY <1>1, <1>4, <1>5, <1>6 DEF PassesOK
<1>8. \A s \in QueuedRequests : StoredOK(s)'
  <2> SUFFICES ASSUME NEW s \in QueuedRequests PROVE StoredOK(s)'
    OBVIOUS
  <2>1. StoredOK(s)
    BY DEF QueueInv
  <2>2. (\E q \in QueuePasses : Holding(replay[q], s)) => \E q \in QueuePasses : Holding(replay'[q], s)
    BY <1>1, <1>4 DEF Holding, DoneSteps, old
  <2>3. Holding(replay'[p], r)
    BY <1>2, <1>3, <1>4 DEF Holding, DoneSteps
  <2> QED BY <1>1, <2>1, <2>2, <2>3 DEF StoredOK
<1>9. RepeatedTwoWaysOnly'
  <2>1. r \in carriedOut => r \in Faulty
    BY <1>1, <1>2 DEF PassOK, DoneSteps
  <2> QED BY <1>1, <2>1 DEF QueueInv, RepeatedTwoWaysOnly, Faulty
<1> QED BY <1>1, <1>2, <1>4, <1>7, <1>8, <1>9 DEF QueueInv, QueueShape

LEMMA ReplayAnsweredInv == ASSUME QueueInv, NEW p \in QueuePasses, ReplayAnswered(p) PROVE QueueInv'
<1> DEFINE old == replay[p]
           run == [old EXCEPT !.step = "delete"]
<1>1. /\ Running(p) /\ old.step = "carried"
      /\ replay' = [replay EXCEPT ![p] = run]
      /\ UNCHANGED <<issued, queue, carriedOut, cleared, shared, cut, repeated>>
      /\ Faulty' = Faulty /\ Dealt' = Dealt
  BY DEF ReplayAnswered, Dealt, Faulty
<1>2. old \in Replays /\ old.todo # {} /\ PassOK(old, 1 .. issued, carriedOut, Dealt, Faulty)
  BY <1>1, PassRuns
<1>3. /\ run \in Replays /\ run.todo = old.todo /\ run.step = "delete"
      /\ run.retryCount = old.retryCount
  BY <1>2 DEF Replays, Steps
<1> HIDE DEF run
<1>4. /\ replay' \in [QueuePasses -> Replays]
      /\ replay'[p] = run /\ \A q \in QueuePasses \ {p} : replay'[q] = replay[q]
      /\ \A q, s \in QueuePasses : q # s => replay'[q].todo \cap replay'[s].todo \subseteq shared
  BY <1>1, <1>3, PassReplaced
<1>5. old.step = "carried"
  BY <1>1
<1> HIDE DEF old
<1>6. PassOK(run, 1 .. issued, carriedOut, Dealt, Faulty)
  BY <1>2, <1>3, <1>5 DEF PassOK, Steps, DoneSteps
<1>7. PassesOK'
  BY <1>1, <1>4, <1>6 DEF QueueInv, PassesOK
<1>8. \A s \in QueuedRequests : StoredOK(s)'
  <2> SUFFICES ASSUME NEW s \in QueuedRequests PROVE StoredOK(s)'
    OBVIOUS
  <2>1. StoredOK(s)
    BY DEF QueueInv
  <2>2. (\E q \in QueuePasses : Holding(replay[q], s)) => \E q \in QueuePasses : Holding(replay'[q], s)
    BY <1>3, <1>4 DEF Holding, DoneSteps, old
  <2> QED BY <1>1, <2>1, <2>2 DEF StoredOK
<1> QED BY <1>1, <1>4, <1>7, <1>8 DEF QueueInv, QueueShape, RepeatedTwoWaysOnly

LEMMA ReplayFailsInv == ASSUME QueueInv, NEW p \in QueuePasses, ReplayFails(p) PROVE QueueInv'
<1> DEFINE old == replay[p]
           r == First(p)
           count == old.retryCount[r] + 1
           run == [old EXCEPT !.step = AfterFailure(count), !.retryCount[r] = count]
<1>1. /\ Running(p) /\ old.step \in {"fetch", "carried", "delete"} /\ count <= MaxCount
      /\ replay' = [replay EXCEPT ![p].step = AfterFailure(count), ![p].retryCount[r] = count]
      /\ cut' = cut \cup (IF old.step \in DoneSteps THEN {r} ELSE {})
      /\ UNCHANGED <<issued, queue, carriedOut, cleared, shared, repeated>>
      /\ Dealt' = Dealt
  BY DEF ReplayFails, BrokenOff, DoneSteps, Dealt
<1>2. /\ r = FirstOf(old.todo) /\ r \in old.todo /\ old \in Replays
      /\ r \in 1 .. issued /\ r \in QueuedRequests
      /\ PassOK(old, 1 .. issued, carriedOut, Dealt, Faulty)
  BY <1>1, PassRuns
<1>3. replay' = [replay EXCEPT ![p] = run]
  BY <1>1 DEF QueueInv, QueueShape
<1>4. /\ old.retryCount[r] \in 0 .. MaxCount /\ count \in 0 .. MaxCount
      /\ AfterFailure(count) \in {"giveUp", "store"}
      /\ AfterFailure(count) = "giveUp" => old.retryCount[r] # 0
  <2>1. old.retryCount[r] \in 0 .. MaxCount
    BY <1>2 DEF PassOK
  <2> QED BY <1>1, <2>1, QueueAssumption DEF AfterFailure
<1>5. /\ run \in Replays /\ run.todo = old.todo /\ run.step = AfterFailure(count)
      /\ run.retryCount[r] = count
      /\ \A s \in old.todo \ {r} : run.retryCount[s] = old.retryCount[s]
  <2>1. old.retryCount \in Counts /\ old.todo \subseteq QueuedRequests
    BY <1>2 DEF Replays
  <2> DEFINE counts == [old.retryCount EXCEPT ![r] = count]
  <2>2. /\ counts \in Counts /\ counts[r] = count
        /\ \A s \in old.todo \ {r} : counts[s] = old.retryCount[s]
    BY <1>2, <1>4, <2>1 DEF Counts
  <2>3. run = [old EXCEPT !.step = AfterFailure(count), !.retryCount = counts]
    OBVIOUS
  <2> HIDE DEF run, counts, count
  <2> QED BY <1>2, <1>4, <2>1, <2>2, <2>3 DEF Replays, Steps
<1> HIDE DEF run
<1>6. /\ replay' \in [QueuePasses -> Replays]
      /\ replay'[p] = run /\ \A q \in QueuePasses \ {p} : replay'[q] = replay[q]
      /\ \A q, s \in QueuePasses : q # s => replay'[q].todo \cap replay'[s].todo \subseteq shared
  BY <1>3, <1>5, PassReplaced
<1>7. /\ old.step \in {"fetch", "carried", "delete"} /\ Faulty \subseteq Faulty'
      /\ cut \subseteq cut' /\ cut' \subseteq carriedOut
      /\ old.step \in DoneSteps => r \in carriedOut /\ r \in Faulty'
  BY <1>1, <1>2 DEF PassOK, Faulty, QueueInv, QueueShape
<1> HIDE DEF old, r, count
<1>8. PassOK(run, 1 .. issued, carriedOut, Dealt, Faulty')
  <2>1. carriedOut \subseteq Dealt
    BY DEF Dealt
  <2> QED BY <1>2, <1>4, <1>5, <1>7, <2>1 DEF PassOK, Steps, DoneSteps
<1>9. PassesOK'
  <2>1. \A q \in QueuePasses : PassOK(replay[q], 1 .. issued, carriedOut, Dealt, Faulty')
    BY <1>7, PassLater DEF QueueInv, PassesOK
  <2> QED BY <1>1, <1>6, <1>8, <2>1 DEF PassesOK
<1>10. \A s \in QueuedRequests : StoredOK(s)'
  <2> SUFFICES ASSUME NEW s \in QueuedRequests PROVE StoredOK(s)'
    OBVIOUS
  <2>1. StoredOK(s)
    BY DEF QueueInv
  <2>2. (\E q \in QueuePasses : Holding(replay[q], s)) =>
           (s \in Faulty' \/ \E q \in QueuePasses : Holding(replay'[q], s))
    BY <1>2, <1>6, <1>7 DEF Holding, old
  <2> QED BY <1>1, <1>7, <2>1, <2>2 DEF StoredOK
<1> QED BY <1>1, <1>6, <1>7, <1>9, <1>10 DEF QueueInv, QueueShape, RepeatedTwoWaysOnly

LEMMA DeleteRequestInv == ASSUME QueueInv, NEW p \in QueuePasses, deleteRequest(p) PROVE QueueInv'
<1> DEFINE old == replay[p]
           r == First(p)
<1>1. /\ Running(p) /\ old.step \in {"delete", "giveUp"}
      /\ queue' = [queue EXCEPT ![r] = Absent] /\ replay' = [replay EXCEPT ![p] = Onward(p)]
      /\ UNCHANGED <<issued, carriedOut, cleared, shared, cut, repeated>>
      /\ Faulty' = Faulty /\ Dealt' = Dealt
  BY DEF deleteRequest, Dealt, Faulty
<1>2. /\ r = FirstOf(old.todo) /\ r \in old.todo /\ r \in QueuedRequests
      /\ PassOK(old, 1 .. issued, carriedOut, Dealt, Faulty)
  BY <1>1, PassRuns
<1>3. /\ Onward(p) \in Replays /\ Onward(p).todo \subseteq old.todo
      /\ PassOK(Onward(p), 1 .. issued, carriedOut, Dealt, Faulty)
  BY <1>1, OnwardOK
<1>4. /\ replay' \in [QueuePasses -> Replays]
      /\ replay'[p] = Onward(p) /\ \A q \in QueuePasses \ {p} : replay'[q] = replay[q]
      /\ \A q, s \in QueuePasses : q # s => replay'[q].todo \cap replay'[s].todo \subseteq shared
  BY <1>1, <1>3, PassReplaced
<1>5. PassesOK'
  BY <1>1, <1>3, <1>4 DEF QueueInv, PassesOK
<1>6. /\ queue' \in Counts /\ queue'[r] = Absent
      /\ \A s \in QueuedRequests \ {r} : queue'[s] = queue[s]
  BY <1>1, <1>2 DEF QueueInv, QueueShape, Counts
<1>7. r \in Dealt
  BY <1>1, <1>2 DEF PassOK, DoneSteps
<1>8. \A s \in QueuedRequests : StoredOK(s)'
  <2> SUFFICES ASSUME NEW s \in QueuedRequests PROVE StoredOK(s)'
    OBVIOUS
  <2>1. StoredOK(s)
    BY DEF QueueInv
  <2>2. CASE s = r
    BY <1>1, <1>6, <1>7, <2>2 DEF StoredOK
  <2>3. CASE s # r
    <3>1. (\E q \in QueuePasses : Holding(replay[q], s)) => \E q \in QueuePasses : Holding(replay'[q], s)
      BY <1>2, <1>4, <2>3 DEF Holding
    <3> QED BY <1>1, <1>6, <2>1, <2>3, <3>1 DEF StoredOK
  <2> QED BY <2>2, <2>3
<1> QED BY <1>1, <1>4, <1>5, <1>6, <1>8 DEF QueueInv, QueueShape, RepeatedTwoWaysOnly

LEMMA StoreRequestInv == ASSUME QueueInv, NEW p \in QueuePasses, storeRequest(p) PROVE QueueInv'
<1> DEFINE old == replay[p]
           r == First(p)
           count == old.retryCount[r]
           run == IF queue[r] # Absent THEN NoReplay ELSE Onward(p)
<1>1. /\ Running(p) /\ old.step = "store"
      /\ replay' = [replay EXCEPT ![p] = run]
      /\ queue' = IF queue[r] # Absent THEN queue ELSE [queue EXCEPT ![r] = count]
      /\ UNCHANGED <<issued, carriedOut, cleared, shared, cut, repeated>>
      /\ Faulty' = Faulty /\ Dealt' = Dealt
  BY DEF storeRequest, Dealt, Faulty
<1>2. /\ r = FirstOf(old.todo) /\ r \in old.todo /\ r \in QueuedRequests /\ r \in 1 .. issued
      /\ PassOK(old, 1 .. issued, carriedOut, Dealt, Faulty)
  BY <1>1, PassRuns
<1>3. /\ run \in Replays /\ run.todo \subseteq old.todo
      /\ PassOK(run, 1 .. issued, carriedOut, Dealt, Faulty)
  BY <1>1, OnwardOK, NoReplayIs
<1> HIDE DEF run
<1>4. /\ replay' \in [QueuePasses -> Replays]
      /\ replay'[p] = run /\ \A q \in QueuePasses \ {p} : replay'[q] = replay[q]
      /\ \A q, s \in QueuePasses : q # s => replay'[q].todo \cap replay'[s].todo \subseteq shared
  BY <1>1, <1>3, PassReplaced
<1>5. PassesOK'
  BY <1>1, <1>3, <1>4 DEF QueueInv, PassesOK
<1>6. count \in 0 .. MaxCount /\ count # Absent /\ (r \in carriedOut => r \in Faulty)
  <2>1. count \in 0 .. MaxCount /\ (r \in carriedOut => r \in Faulty)
    BY <1>1, <1>2 DEF PassOK, DoneSteps
  <2> QED BY <2>1, QueueAssumption DEF Absent
<1>7. /\ queue' \in Counts /\ \A s \in QueuedRequests \ {r} : queue'[s] = queue[s]
      /\ queue'[r] = IF queue[r] # Absent THEN queue[r] ELSE count
  <2>1. queue \in Counts
    BY DEF QueueInv, QueueShape
  <2> HIDE DEF count, r
  <2> QED BY <1>1, <1>2, <1>6, <2>1 DEF Counts
<1>8. \A s \in QueuedRequests : StoredOK(s)'
  <2> SUFFICES ASSUME NEW s \in QueuedRequests PROVE StoredOK(s)'
    OBVIOUS
  <2>1. StoredOK(s)
    BY DEF QueueInv
  <2>2. (\E q \in QueuePasses : Holding(replay[q], s)) => \E q \in QueuePasses : Holding(replay'[q], s)
    BY <1>1, <1>4 DEF DoneSteps, Holding
  <2>3. CASE s = r /\ queue[r] = Absent
    <3>1. r \in Dealt
      BY <1>2, <2>1, <2>3 DEF StoredOK
    <3> QED BY <1>1, <1>2, <1>6, <1>7, <2>3, <3>1 DEF StoredOK
  <2>4. CASE ~(s = r /\ queue[r] = Absent)
    <3>1. queue'[s] = queue[s]
      BY <1>7, <2>4
    <3> QED BY <1>1, <2>1, <2>2, <3>1 DEF StoredOK
  <2> QED BY <2>3, <2>4
<1> QED BY <1>1, <1>4, <1>5, <1>7, <1>8 DEF QueueInv, QueueShape, RepeatedTwoWaysOnly

LEMMA EndPassInv == ASSUME QueueInv, NEW p \in QueuePasses, EndPass(p) PROVE QueueInv'
<1> DEFINE old == replay[p]
           r == First(p)
<1>1. /\ Running(p) /\ replay' = [replay EXCEPT ![p] = NoReplay]
      /\ cut' = cut \cup (IF old.step \in DoneSteps THEN {r} ELSE {})
      /\ UNCHANGED <<issued, queue, carriedOut, cleared, shared, repeated>>
      /\ Dealt' = Dealt
  BY DEF EndPass, BrokenOff, DoneSteps, Dealt
<1>2. /\ r = FirstOf(old.todo) /\ Faulty \subseteq Faulty' /\ cut \subseteq cut'
      /\ cut' \subseteq carriedOut /\ (old.step \in DoneSteps => r \in Faulty')
  <2>1. /\ r = FirstOf(old.todo) /\ r \in old.todo
        /\ PassOK(old, 1 .. issued, carriedOut, Dealt, Faulty)
    BY <1>1, PassRuns
  <2> QED BY <1>1, <2>1 DEF Faulty, PassOK, QueueInv, QueueShape
<1>3. /\ replay' \in [QueuePasses -> Replays]
      /\ replay'[p] = NoReplay /\ \A q \in QueuePasses \ {p} : replay'[q] = replay[q]
      /\ \A q, s \in QueuePasses : q # s => replay'[q].todo \cap replay'[s].todo \subseteq shared
  BY <1>1, NoReplayIs, PassReplaced
<1>4. PassesOK'
  <2>1. \A q \in QueuePasses : PassOK(replay[q], 1 .. issued, carriedOut, Dealt, Faulty')
    BY <1>2, PassLater DEF QueueInv, PassesOK
  <2> QED BY <1>1, <1>3, <2>1, NoReplayIs DEF PassesOK
<1>5. \A s \in QueuedRequests : StoredOK(s)'
  <2> SUFFICES ASSUME NEW s \in QueuedRequests PROVE StoredOK(s)'
    OBVIOUS
  <2>1. StoredOK(s)
    BY DEF QueueInv
  <2>2. (\E q \in QueuePasses : Holding(replay[q], s)) =>
           (Holding(old, s) \/ \E q \in QueuePasses : Holding(replay'[q], s))
    BY <1>3 DEF Holding
  <2>3. Holding(old, s) /\ s \in carriedOut => s \in Faulty'
    BY <1>2 DEF Holding
  <2> QED BY <1>1, <1>2, <2>1, <2>2, <2>3 DEF StoredOK
<1> QED BY <1>1, <1>2, <1>3, <1>4, <1>5 DEF QueueInv, QueueShape, RepeatedTwoWaysOnly

LEMMA QueueStep == QueueInv /\ [QueueNext]_queueVars => QueueInv'
<1>1. ASSUME QueueInv, UNCHANGED queueVars PROVE QueueInv'
  <2>1. Dealt' = Dealt /\ Faulty' = Faulty
    BY <1>1 DEF queueVars, Dealt, Faulty
  <2>2. PassesOK' /\ \A r \in QueuedRequests : StoredOK(r)'
    BY <1>1, <2>1 DEF queueVars, QueueInv, PassesOK, StoredOK
  <2> QED BY <1>1, <2>2 DEF queueVars, QueueInv, QueueShape, RepeatedTwoWaysOnly
<1> QED BY <1>1, QueueRequestInv, ClearQueueInv, StartPassInv, CarryOutInv, ReplayAnsweredInv,
            ReplayFailsInv, DeleteRequestInv, StoreRequestInv, EndPassInv DEF QueueNext

(* The inductive invariant holds in every state.                           *)
LEMMA QueueInvariance == QueueSpec => []QueueInv
<1> QED BY QueueInitInv, QueueStep, PTL DEF QueueSpec

(* Every variable of the queue keeps its type, and a pass holds requests   *)
(* that were made.                                                         *)
THEOREM QueueTypeCorrect == QueueSpec => []QueueTypeOK
<1> QED BY QueueInvTypes, QueueInvariance, PTL

(* A request that was queued stays until it was carried out or the user    *)
(* cleared the queue, however many passes replay it at once, fail, have a  *)
(* deletion refused or end with their page.                                *)
THEOREM NoRequestLost == QueueSpec => []RequestKept
<1> QED BY QueueInvTypes, QueueInvariance, PTL

(* A request is carried out twice only if two passes had it, or a pass     *)
(* that had it carried out lost the answer, had the deletion refused or    *)
(* ended with its page.                                                    *)
THEOREM RepeatedInTwoWays == QueueSpec => []RepeatedTwoWaysOnly
<1> QED BY QueueInvTypes, QueueInvariance, PTL

-----------------------------------------------------------------------------
(***************************************************************************)
(* The web client.                                                         *)
(***************************************************************************)

(* Whatever is explored, each component takes its own steps or none: the   *)
(* composition implements the specification of every component.            *)
THEOREM WebComponents ==
    Spec => JournalSpec /\ PrefsSpec /\ PushSpec /\ TrackerSpec /\ QueueSpec
<1>1. Init => JournalInit /\ PrefsInit /\ PushInit /\ TrackerInit /\ QueueInit
  BY DEF Init
<1>2. [Next]_<<component, journalVars, prefsVars, pushVars, trackerVars, queueVars>> =>
        /\ [JournalNext]_journalVars /\ [PrefsNext]_prefsVars /\ [PushNext]_pushVars
        /\ [TrackerNext]_trackerVars /\ [QueueNext]_queueVars
  BY DEF Next
<1> QED BY <1>1, <1>2, PTL DEF Spec, JournalSpec, PrefsSpec, PushSpec, TrackerSpec, QueueSpec

(* Every variable of the web client keeps its type, whichever component a  *)
(* behaviour explores.                                                     *)
THEOREM WebTypeCorrect == Spec => []TypeOK
<1>1. JournalTypeOK /\ PrefsTypeOK /\ PushTypeOK /\ TrackerTypeOK /\ QueueTypeOK => TypeOK
  BY DEF TypeOK
<1> QED BY <1>1, WebComponents, JournalTypeCorrect, PrefsTypeCorrect, PushTypeCorrect,
           TrackerTypeCorrect, QueueTypeCorrect, PTL
=============================================================================
