------------------------------- MODULE MCWeb --------------------------------
(* What the web client keeps of its user.  The components meet only in     *)
(* events that any of them may see at any time: a session that begins or   *)
(* ends, the network that goes and comes, a page that is loaded again.  A  *)
(* behaviour explores one of them, and the others stay as they began.      *)
EXTENDS JournalSync, PreferencesSync, PushSubscription, TripTracker, OfflineQueue,
        TLC

VARIABLE component

Init ==
    /\ component \in {"journal", "preferences", "push", "tracker", "queue"}
    /\ JournalInit /\ PrefsInit /\ PushInit /\ TrackerInit /\ QueueInit

Next ==
    /\ UNCHANGED component
    /\ \/ /\ component = "journal" /\ JournalNext
          /\ UNCHANGED <<prefsVars, pushVars, trackerVars, queueVars>>
       \/ /\ component = "preferences" /\ PrefsNext
          /\ UNCHANGED <<journalVars, pushVars, trackerVars, queueVars>>
       \/ /\ component = "push" /\ PushNext
          /\ UNCHANGED <<journalVars, prefsVars, trackerVars, queueVars>>
       \/ /\ component = "tracker" /\ TrackerNext
          /\ UNCHANGED <<journalVars, prefsVars, pushVars, queueVars>>
       \/ /\ component = "queue" /\ QueueNext
          /\ UNCHANGED <<journalVars, prefsVars, pushVars, trackerVars>>

Spec == Init /\ [][Next]_<<component, journalVars, prefsVars, pushVars, trackerVars, queueVars>>

(* The variables keep their types: a pass is in one of its phases and      *)
(* sends a trip of the journal, the snapshot queued for later is one that  *)
(* was there, a retry is of an operation of the user, a pass repeats       *)
(* requests that were made.                                                *)
TypeOK == JournalTypeOK /\ PrefsTypeOK /\ PushTypeOK /\ TrackerTypeOK /\ QueueTypeOK

(* All components are given the same model values for trips and endpoints. *)
Symmetry == Permutations(Trips)
=============================================================================
