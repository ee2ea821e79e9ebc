---------------------------- MODULE OfflineQueue ----------------------------
(***************************************************************************)
(* The queue of requests made offline (packages/web/src/lib/               *)
(* backgroundSync.ts).  It is kept in IndexedDB, which the pages of the    *)
(* client share; a pass over it (processQueue) repeats the requests it     *)
(* found when it began, one after the other.  Requests are numbered in the *)
(* order of their keys, which is that in which they are listed.            *)
(*                                                                         *)
(* The server carries a request out before it answers, and the answer may  *)
(* be lost or be bad.  A deletion may be refused like any use of the store:*)
(* the one after a good answer is in the try block, so that its refusal    *)
(* counts as a failure of the request; the one that gives a request up is  *)
(* not, and its refusal ends the pass.                                     *)
(*                                                                         *)
(* storeRequest adds and does not replace: it is refused while the request *)
(* is in the queue, and then ends the pass.                                *)
(***************************************************************************)
EXTENDS Integers

CONSTANTS
    LastRequest,  \* requests made in a run (bound)
    QueuePasses,  \* passes at once (bound)
    MaxRetries,
    MaxCount      \* failures counted for a request (bound)

ASSUME QueueAssumption ==
    LastRequest \in Nat /\ MaxRetries \in Nat \ {0, 1} /\ MaxCount \in Nat

VARIABLES
    issued,     \* requests are 1 .. issued
    queue,      \* the requests stored, each with its retryCount
    replay,     \* what each pass still has to do
    carriedOut, \* history: requests the server has carried out
    cleared,    \* history: requests the user has cleared
    shared,     \* history: requests two passes had at once
    cut,        \* history: requests a pass had carried out and did not delete
    repeated    \* history: requests carried out more than once

queueVars == <<issued, queue, replay, carriedOut, cleared, shared, cut, repeated>>

QueuedRequests == 1 .. LastRequest
Absent == -1

(* A pass waits for the answer to its first request, before and after the  *)
(* server has carried it out, or for the store.                            *)
Steps == {"fetch", "carried", "delete", "giveUp", "store"}
NoReplay == [step |-> "none", todo |-> {}, retryCount |-> [r \in QueuedRequests |-> Absent]]

First(p) == CHOOSE r \in replay[p].todo : \A q \in replay[p].todo : r <= q
Running(p) == replay[p].todo # {}

QueueTypeOK ==
    /\ issued \in 0 .. LastRequest
    /\ queue \in [QueuedRequests -> 0 .. MaxCount \cup {Absent}]
    /\ \A p \in QueuePasses :
         \/ replay[p] = NoReplay
         \/ /\ replay[p].step \in Steps
            /\ replay[p].todo # {} /\ replay[p].todo \subseteq 1 .. issued
            /\ \A r \in replay[p].todo : replay[p].retryCount[r] \in 0 .. MaxCount
    /\ carriedOut \subseteq 1 .. issued /\ cleared \subseteq 1 .. issued
    /\ shared \subseteq 1 .. issued /\ cut \subseteq carriedOut /\ repeated \subseteq carriedOut

QueueInit ==
    /\ issued = 0 /\ queue = [r \in QueuedRequests |-> Absent]
    /\ replay = [p \in QueuePasses |-> NoReplay]
    /\ carriedOut = {} /\ cleared = {} /\ shared = {} /\ cut = {}
    /\ repeated = {}

-----------------------------------------------------------------------------
Stored == {r \in QueuedRequests : queue[r] # Absent}

queueRequest ==
    /\ issued < LastRequest /\ issued' = issued + 1
    /\ queue' = [queue EXCEPT ![issued + 1] = 0]
    /\ UNCHANGED <<replay, carriedOut, cleared, shared, cut, repeated>>

clearQueue ==
    /\ queue' = [r \in QueuedRequests |-> Absent]
    /\ cleared' = cleared \cup Stored
    /\ UNCHANGED <<issued, replay, carriedOut, shared, cut, repeated>>

(* getQueuedRequests answers.                                              *)
StartPass(p) ==
    /\ ~Running(p) /\ Stored # {}
    /\ replay' = [replay EXCEPT ![p] = [step |-> "fetch", todo |-> Stored, retryCount |-> queue]]
    /\ shared' = shared \cup {r \in Stored : \E q \in QueuePasses : r \in replay[q].todo}
    /\ UNCHANGED <<issued, queue, carriedOut, cleared, cut, repeated>>

Onward(p) ==
    LET rest == replay[p].todo \ {First(p)} IN
    IF rest = {} THEN NoReplay ELSE [replay[p] EXCEPT !.todo = rest, !.step = "fetch"]

(* The server carries the request out, if it ever does: a request that is  *)
(* carried out only after its pass has failed counts as one before.        *)
CarryOut(p) ==
    LET r == First(p) IN
    /\ Running(p) /\ replay[p].step = "fetch"
    /\ replay' = [replay EXCEPT ![p].step = "carried"]
    /\ repeated' = repeated \cup ({r} \cap carriedOut)
    /\ carriedOut' = carriedOut \cup {r}
    /\ UNCHANGED <<issued, queue, cleared, shared, cut>>

(* Mutant of ReplayAnswered: a request is not deleted when it is answered. *)
MutReplayAnswered(p) ==
    /\ Running(p) /\ replay[p].step = "carried"
    /\ replay' = [replay EXCEPT ![p] = Onward(p)]
    /\ UNCHANGED <<issued, queue, carriedOut, cleared, shared, cut, repeated>>

(* retryRequest is answered with a good status.                            *)
ReplayAnswered(p) ==
    /\ Running(p) /\ replay[p].step = "carried"
    /\ replay' = [replay EXCEPT ![p].step = "delete"]
    /\ UNCHANGED <<issued, queue, carriedOut, cleared, shared, cut, repeated>>

(* The request of a pass that breaks off before its deletion.              *)
BrokenOff(p) == IF replay[p].step \in {"carried", "delete"} THEN {First(p)} ELSE {}

(* Mutant of AfterFailure: a request is given up as soon as it fails.      *)
MutAfterFailure(count) == "giveUp"

AfterFailure(count) == IF count >= MaxRetries THEN "giveUp" ELSE "store"

(* What the try block does is refused: retryRequest has no answer, or one  *)
(* of a bad status, with the request carried out or not, or the deletion   *)
(* after a good answer rejects.                                            *)
ReplayFails(p) ==
    LET r == First(p)
        count == replay[p].retryCount[r] + 1 IN
    /\ Running(p) /\ replay[p].step \in {"fetch", "carried", "delete"}
    /\ count <= MaxCount
    /\ replay' = [replay EXCEPT ![p].step = AfterFailure(count), ![p].retryCount[r] = count]
    /\ cut' = cut \cup BrokenOff(p)
    /\ UNCHANGED <<issued, queue, carriedOut, cleared, shared, repeated>>

(* After a good answer, or when the request is given up.                   *)
deleteRequest(p) ==
    /\ Running(p) /\ replay[p].step \in {"delete", "giveUp"}
    /\ queue' = [queue EXCEPT ![First(p)] = Absent]
    /\ replay' = [replay EXCEPT ![p] = Onward(p)]
    /\ UNCHANGED <<issued, carriedOut, cleared, shared, cut, repeated>>

(* storeRequest: the request is in the queue as a rule, and the pass ends. *)
storeRequest(p) ==
    LET r == First(p) IN
    /\ Running(p) /\ replay[p].step = "store"
    /\ IF queue[r] # Absent
       THEN replay' = [replay EXCEPT ![p] = NoReplay] /\ UNCHANGED queue
       ELSE /\ replay' = [replay EXCEPT ![p] = Onward(p)]
            /\ queue' = [queue EXCEPT ![r] = replay[p].retryCount[r]]
    /\ UNCHANGED <<issued, carriedOut, cleared, shared, cut, repeated>>

(* The page is closed, or the store refuses what the catch block does.     *)
EndPass(p) ==
    /\ Running(p) /\ replay' = [replay EXCEPT ![p] = NoReplay]
    /\ cut' = cut \cup BrokenOff(p)
    /\ UNCHANGED <<issued, queue, carriedOut, cleared, shared, repeated>>

QueueNext ==
    \/ queueRequest \/ clearQueue
    \/ \E p \in QueuePasses :
         \/ StartPass(p) \/ CarryOut(p) \/ ReplayAnswered(p) \/ ReplayFails(p)
         \/ deleteRequest(p) \/ storeRequest(p) \/ EndPass(p)
QueueSpec == QueueInit /\ [][QueueNext]_queueVars

-----------------------------------------------------------------------------
(* Properties *)

(* A request leaves the queue when it was carried out or the user cleared  *)
(* the queue, and is then nowhere but in a pass that has it to store: no   *)
(* number of failures, refused deletions and closed pages loses it.        *)
RequestKept ==
    \A r \in 1 .. issued : queue[r] # Absent \/ r \in carriedOut \/ r \in cleared

(* A request is carried out again only if two passes had it at once, or    *)
(* the pass that had it carried out did not come to delete it: its answer  *)
(* was lost or bad, the deletion was refused, or the page was closed in    *)
(* between.  A failure before, and what is stored again after one, repeat  *)
(* nothing.                                                                *)
RepeatedTwoWaysOnly == repeated \subseteq shared \cup cut
=============================================================================
