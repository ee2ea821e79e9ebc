-------------------------- MODULE PushSubscription -------------------------
(***************************************************************************)
(* The push subscription of one browser, its row on the server, and the    *)
(* notifications sent to it (packages/web/src/hooks/usePushNotifications.ts*)
(* and packages/server/src/push/).                                         *)
(*                                                                         *)
(* The browser has one push endpoint or none; a subscription that was      *)
(* given up never comes back, the next one has an endpoint of its own.     *)
(* The settings screen disables the switch while a subscribe or an         *)
(* unsubscribe is under way; retries of the queued operation run beside    *)
(* it.  Any request may be stored by the server and lose its answer.       *)
(***************************************************************************)
EXTENDS FiniteSets

CONSTANTS
    Endpoints,   \* the endpoints of a run, first to last (bound)
    NoEndpoint

ASSUME EndpointAssumption == NoEndpoint \notin Endpoints

VARIABLES
    browser,    \* the endpoint of the browser's live subscription
    unused,     \* endpoints the push service has not given out yet
    isSubscribed,
    online,     \* navigator.onLine
    userCall,   \* the switch: the operation under way
    retries,    \* queued operations taken up by retryPendingOp
    pendingOp,  \* PENDING_OP_KEY (persisted)
    rows,       \* push_subscriptions
    sends,      \* notifications on their way: the endpoints of the batches
    expired,    \* endpoints whose 410 has arrived and whose row is to go
    mislaid     \* history: how the registration of an endpoint was lost

pushVars == <<browser, unused, isSubscribed, online, userCall, retries, pendingOp,
              rows, sends, expired, mislaid>>
pageVars == <<isSubscribed, userCall, retries, pendingOp, mislaid>>
serverVars == <<rows, sends, expired>>

Op == [type : {"subscribe", "unsubscribe"}, endpoint : Endpoints]
NoOp == [type |-> "none", endpoint |-> NoEndpoint]
Call == [op : Op \cup {NoOp}, stored : BOOLEAN]
NoCall == [op |-> NoOp, stored |-> FALSE]

PushTypeOK ==
    /\ browser \in Endpoints \cup {NoEndpoint} /\ unused \subseteq Endpoints
    /\ browser \notin unused
    /\ isSubscribed \in BOOLEAN /\ online \in BOOLEAN
    /\ userCall \in Call /\ retries \subseteq Call
    /\ pendingOp \in Op \cup {NoOp}
    /\ rows \subseteq Endpoints /\ sends \subseteq Endpoints /\ expired \subseteq Endpoints
    /\ mislaid \subseteq {"refused", "requeued", "closed"}

PushInit ==
    /\ browser = NoEndpoint /\ unused = Endpoints
    /\ isSubscribed = FALSE /\ online = TRUE
    /\ userCall = NoCall /\ retries = {} /\ pendingOp = NoOp
    /\ rows = {} /\ sends = {} /\ expired = {}
    /\ mislaid = {}

-----------------------------------------------------------------------------
(* The switch                                                              *)

Ask(type) == userCall' = [op |-> [type |-> type, endpoint |-> browser'], stored |-> FALSE]

(* subscribe up to its request; pushManager.subscribe gives back the live  *)
(* subscription, if there is one.                                          *)
Subscribe ==
    /\ userCall = NoCall /\ ~isSubscribed
    /\ IF browser # NoEndpoint THEN UNCHANGED <<browser, unused>>
       ELSE \E e \in unused : browser' = e /\ unused' = unused \ {e}
    /\ Ask("subscribe")
    /\ UNCHANGED <<isSubscribed, online, retries, pendingOp, serverVars, mislaid>>

Unsubscribe ==
    /\ userCall = NoCall /\ isSubscribed
    /\ IF browser = NoEndpoint
       THEN isSubscribed' = FALSE /\ UNCHANGED <<browser, userCall>>
       ELSE UNCHANGED <<browser, isSubscribed>> /\ Ask("unsubscribe")
    /\ UNCHANGED <<unused, online, retries, pendingOp, serverVars, mislaid>>

(* The server carries out an operation.                                    *)
Applied(op) == IF op.type = "subscribe" THEN rows \cup {op.endpoint} ELSE rows \ {op.endpoint}

UserStored ==
    /\ userCall # NoCall /\ ~userCall.stored
    /\ userCall' = [userCall EXCEPT !.stored = TRUE]
    /\ rows' = Applied(userCall.op)
    /\ UNCHANGED <<browser, unused, isSubscribed, online, retries, pendingOp, sends, expired, mislaid>>

SubscribeAnswered ==
    /\ userCall.op.type = "subscribe" /\ userCall.stored
    /\ userCall' = NoCall /\ isSubscribed' = TRUE
    /\ mislaid' = mislaid \ {"refused"}
    /\ UNCHANGED <<browser, unused, online, retries, pendingOp, serverVars>>

(* Offline, the operation is queued and shown as done; online, the error   *)
(* is shown, and the browser's subscription stays.                         *)
SubscribeFails ==
    /\ userCall.op.type = "subscribe"
    /\ userCall' = NoCall
    /\ IF online
       THEN mislaid' = mislaid \cup {"refused"} /\ UNCHANGED <<isSubscribed, pendingOp>>
       ELSE isSubscribed' = TRUE /\ pendingOp' = userCall.op /\ UNCHANGED mislaid
    /\ UNCHANGED <<browser, unused, online, retries, serverVars>>

(* The browser's own subscription ends whatever the server said.           *)
UnsubscribeSettled ==
    /\ userCall.op.type = "unsubscribe"
    /\ userCall' = NoCall /\ isSubscribed' = FALSE /\ browser' = NoEndpoint
    /\ \/ userCall.stored /\ UNCHANGED pendingOp
       \/ pendingOp' = IF online THEN pendingOp ELSE userCall.op
    /\ UNCHANGED <<unused, online, retries, serverVars, mislaid>>

-----------------------------------------------------------------------------
(* retryPendingOp: on the online event, or on a message of the service     *)
(* worker                                                                  *)

RetryStarts ==
    /\ pendingOp # NoOp
    /\ pendingOp' = NoOp
    /\ retries' = retries \cup {[op |-> pendingOp, stored |-> FALSE]}
    /\ UNCHANGED <<browser, unused, isSubscribed, online, userCall, serverVars, mislaid>>

RetryStored(r) ==
    /\ r \in retries /\ ~r.stored
    /\ retries' = (retries \ {r}) \cup {[r EXCEPT !.stored = TRUE]}
    /\ rows' = Applied(r.op)
    /\ UNCHANGED <<browser, unused, isSubscribed, online, userCall, pendingOp, sends, expired, mislaid>>

RetryAnswered(r) ==
    /\ r \in retries /\ r.stored
    /\ retries' = retries \ {r}
    /\ UNCHANGED <<browser, unused, isSubscribed, online, userCall, pendingOp, serverVars, mislaid>>

(* Mutant of RetryFails: the operation is not put back.                    *)
MutRetryFails(r) ==
    /\ r \in retries
    /\ retries' = retries \ {r}
    /\ UNCHANGED <<browser, unused, isSubscribed, online, userCall, pendingOp, serverVars, mislaid>>

(* The operation is put back, over whatever was queued meanwhile.          *)
RetryFails(r) ==
    /\ r \in retries
    /\ retries' = retries \ {r}
    /\ pendingOp' = r.op
    /\ mislaid' = IF pendingOp \in {NoOp, r.op} THEN mislaid ELSE mislaid \cup {"requeued"}
    /\ UNCHANGED <<browser, unused, isSubscribed, online, userCall, serverVars>>

-----------------------------------------------------------------------------
(* The page and the network                                                *)

Connectivity ==
    /\ online' = ~online
    /\ UNCHANGED <<browser, unused, pageVars, serverVars>>

(* The page is loaded again: what it had in flight is forgotten, and what  *)
(* the browser says is shown.                                              *)
PushReload ==
    /\ userCall' = NoCall /\ retries' = {}
    /\ isSubscribed' = (browser # NoEndpoint)
    /\ mislaid' = IF retries = {} /\ userCall = NoCall THEN mislaid ELSE mislaid \cup {"closed"}
    /\ UNCHANGED <<browser, unused, online, pendingOp, serverVars>>

-----------------------------------------------------------------------------
(* The server's notifications                                              *)

(* startPushPipeline or the briefing scheduler: the rows are read, and a   *)
(* notification is sent to those that match.                               *)
StartBatch ==
    /\ \E S \in SUBSET rows : S # {} /\ sends' = sends \cup S
    /\ UNCHANGED <<browser, unused, online, pageVars, rows, expired>>

Gone(e) == e \in sends /\ e # browser

(* sendPushNotification is answered: sent, failed, or 410 (404).           *)
SendSettled(e) ==
    /\ e \in sends /\ sends' = sends \ {e}
    /\ UNCHANGED <<browser, unused, online, pageVars, rows, expired>>

SendExpired(e) ==
    /\ Gone(e)
    /\ sends' = sends \ {e} /\ expired' = expired \cup {e}
    /\ UNCHANGED <<browser, unused, online, pageVars, rows>>

(* removeSubscription, after its wait for the database.                    *)
RemoveExpired(e) ==
    /\ e \in expired /\ expired' = expired \ {e}
    /\ rows' = rows \ {e}
    /\ UNCHANGED <<browser, unused, online, pageVars, sends>>

Switch == Subscribe \/ Unsubscribe \/ UserStored \/ SubscribeAnswered \/ SubscribeFails \/ UnsubscribeSettled
Retrying == RetryStarts \/ \E r \in retries : RetryStored(r) \/ RetryAnswered(r) \/ RetryFails(r)
Notifying == StartBatch \/ \E e \in Endpoints : SendSettled(e) \/ SendExpired(e) \/ RemoveExpired(e)

PushNext == Switch \/ Retrying \/ Notifying \/ Connectivity \/ PushReload
PushSpec == PushInit /\ [][PushNext]_pushVars

-----------------------------------------------------------------------------
(* Properties                                                              *)

InHand(op) == pendingOp = op \/ op \in {c.op : c \in retries \cup {userCall}}

(* usePushNotifications.ts:335 "subscription queued and will sync when you *)
(* reconnect": a subscription the user is shown, and is not giving up, is  *)
(* known to the server or still to be sent.                                *)
ShownIsRegistered ==
    isSubscribed /\ browser # NoEndpoint /\ userCall.op.type # "unsubscribe" =>
      browser \in rows \/ InHand([type |-> "subscribe", endpoint |-> browser])

(* It is, unless the server had refused it while the browser was online,   *)
(* a retry that failed was put back over it, or the page was closed while  *)
(* the request was in flight: answers that are lost, 410s that come late   *)
(* and batches in flight lose no registration.                             *)
LostInThreeWaysOnly == mislaid = {} => ShownIsRegistered
=============================================================================
