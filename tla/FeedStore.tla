----------------------------- MODULE FeedStore ------------------------------
(***************************************************************************)
(* What the feed poller promises its readers, without cycles, fetches and  *)
(* breakers: a store of the last good data of every feed, and a snapshot   *)
(* of the whole store that the routes serve from.                          *)
(*                                                                         *)
(* A feed's data is represented by the time at which it was produced.      *)
(***************************************************************************)
EXTENDS Integers

CONSTANTS
    Feeds,
    Slack       \* how much older than the present data new data may be

VARIABLES
    store,      \* the last good data of each feed
    snapshot    \* what is served

vars == <<store, snapshot>>

Missing == -1

Init ==
    /\ store = [f \in Feeds |-> Missing]
    /\ snapshot = store

(* New data of one feed arrives; the others keep theirs. *)
Refresh(f) ==
    /\ store' = [store EXCEPT ![f] = store'[f]]
    /\ store'[f] # Missing
    /\ store'[f] >= store[f] - Slack
    /\ UNCHANGED snapshot

(* The snapshot is replaced as a whole. *)
Publish ==
    /\ snapshot' = store
    /\ UNCHANGED store

Next == Publish \/ \E f \in Feeds : Refresh(f)

Spec == Init /\ [][Next]_vars

(* New data is published in the end. *)
FairSpec == Spec /\ []<>(snapshot = store)

=============================================================================
