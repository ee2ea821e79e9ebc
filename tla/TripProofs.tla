---------------------------- MODULE TripProofs ------------------------------
(***************************************************************************)
(* Proofs about the two components of the web client that deal with trips, *)
(* the mirror of the journal (JournalSync) and the tracker of one trip     *)
(* (TripTracker), for any sets of trips and any number of passes, fetches  *)
(* and rides.                                                              *)
(***************************************************************************)
EXTENDS JournalSync, TripTracker, TLAPS

-----------------------------------------------------------------------------
(***************************************************************************)
(* The journal: type correctness, the honesty of its registry, and that    *)
(* only a dropped retry strands a trip.                                    *)
(***************************************************************************)

(* What is on its way to the registry is stored already: the trips of an   *)
(* answer that has not arrived, and those of a listing.                    *)
AnswersHonest ==
    /\ \A p \in Passes : pass[p].phase = "posted" => pass[p].trip \in stored
    /\ pass[Full].phase = "listed" => pass[Full].todo \subseteq stored

(* A pass that sends a request sends it for a trip.                        *)
TripNamed == \A p \in Passes : pass[p].phase \in {"post", "posted"} => pass[p].trip \in Trips

Typed == JournalTypeOK /\ TripNamed

-----------------------------------------------------------------------------
(* What Push leaves in the pass it advances.                               *)
LEMMA PushType ==
    ASSUME pass \in [Passes -> Pass], retryTimer \in BOOLEAN,
           NEW p \in Passes, NEW todo \in SUBSET Trips, NEW blocked \in BOOLEAN,
           Push(p, todo, blocked)
    PROVE  /\ pass' \in [Passes -> Pass] /\ retryTimer' \in BOOLEAN
           /\ \A q \in Passes \ {p} : pass'[q] = pass[q]
           /\ pass'[p].phase # "idle" => pass'[p].phase = "post" /\ pass'[p].trip \in todo
<1> USE DEF Pass, Phases, NoPass
<1>1. CASE todo = {} /\ pass' = [pass EXCEPT ![p] = NoPass] /\ retryTimer' = (retryTimer \/ blocked)
  BY <1>1
<1>2. ASSUME NEW t \in todo, UNCHANGED retryTimer,
             pass' = [pass EXCEPT ![p] = [phase |-> "post", todo |-> todo,
                                          trip |-> t, blocked |-> blocked]]
      PROVE  /\ pass' \in [Passes -> Pass] /\ retryTimer' \in BOOLEAN
             /\ \A q \in Passes \ {p} : pass'[q] = pass[q]
             /\ pass'[p].phase # "idle" => pass'[p].phase = "post" /\ pass'[p].trip \in todo
  BY <1>2
<1> QED BY <1>1, <1>2 DEF Push

(* After Push a trip that was to be uploaded still is, and a pass that was *)
(* blocked is remembered.                                                  *)
LEMMA PushKeeps ==
    ASSUME pass \in [Passes -> Pass],
           NEW p \in Passes, NEW todo \in SUBSET Trips, NEW blocked \in BOOLEAN,
           Push(p, todo, blocked)
    PROVE  /\ todo # {} => pass'[p].todo = todo /\ (blocked => pass'[p].blocked)
           /\ todo = {} /\ blocked => retryTimer'
           /\ retryTimer => retryTimer'
<1>1. CASE todo = {} /\ pass' = [pass EXCEPT ![p] = NoPass] /\ retryTimer' = (retryTimer \/ blocked)
  BY <1>1
<1>2. ASSUME NEW t \in todo, UNCHANGED retryTimer,
             pass' = [pass EXCEPT ![p] = [phase |-> "post", todo |-> todo,
                                          trip |-> t, blocked |-> blocked]]
      PROVE  /\ todo # {} => pass'[p].todo = todo /\ (blocked => pass'[p].blocked)
             /\ todo = {} /\ blocked => retryTimer'
             /\ retryTimer => retryTimer'
  <2>1. pass'[p] = [phase |-> "post", todo |-> todo, trip |-> t, blocked |-> blocked]
    BY <1>2
  <2> QED BY <1>2, <2>1
<1> QED BY <1>1, <1>2 DEF Push

-----------------------------------------------------------------------------
(* A step that pushes keeps the types of what Push changes.                *)
LEMMA PushTyped ==
    ASSUME Typed, NEW p \in Passes, NEW todo \in SUBSET Trips, NEW blocked \in BOOLEAN,
           Push(p, todo, blocked)
    PROVE  pass' \in [Passes -> Pass] /\ retryTimer' \in BOOLEAN /\ TripNamed'
<1>1. /\ pass' \in [Passes -> Pass] /\ retryTimer' \in BOOLEAN
      /\ \A q \in Passes \ {p} : pass'[q] = pass[q]
      /\ pass'[p].phase # "idle" => pass'[p].phase = "post" /\ pass'[p].trip \in todo
  BY PushType DEF Typed, JournalTypeOK
<1> QED BY <1>1 DEF Typed, TripNamed

(* The fields of a pass.                                                   *)
LEMMA PassFields ==
    ASSUME Typed, NEW p \in Passes
    PROVE  /\ pass[p].phase \in Phases /\ pass[p].blocked \in BOOLEAN
           /\ pass[p].todo \in SUBSET Trips /\ Rest(p) \in SUBSET Trips
  BY DEF Typed, JournalTypeOK, Pass, Rest

LEMMA SyncNowTyped ==
    ASSUME Typed, SyncNow
    PROVE  pass' \in [Passes -> Pass] /\ TripNamed'
<1>1. CASE InFlight
  BY <1>1 DEF SyncNow, Typed, JournalTypeOK, TripNamed
<1>2. CASE pass' = [pass EXCEPT ![Full].phase = "list"]
  BY <1>2 DEF Typed, JournalTypeOK, TripNamed, Pass, Phases, Passes
<1> QED BY <1>1, <1>2 DEF SyncNow

(* Every request keeps the types.                                          *)
LEMMA RequestTyped ==
    ASSUME Typed, List \/ \E p \in Passes : PassStep(p)
    PROVE  Typed'
<1>1. Full \in Passes
  BY DEF Passes
<1>2. CASE ListServed
  BY <1>2, <1>1 DEF ListServed, Typed, JournalTypeOK, TripNamed, Pass, Phases, device
<1>3. CASE ListAnswered
  <2>1. pass[Full].todo \in SUBSET Trips
    BY <1>1, PassFields
  <2>2. /\ Uploads(local', serverIds') \in SUBSET Trips
        /\ local' \in SUBSET Trips /\ serverIds' \in SUBSET Trips /\ debounce' \in BOOLEAN
        /\ Push(Full, Uploads(local', serverIds'), FALSE)
        /\ UNCHANGED <<authenticated, rejected, stored, orphans, swallowed>>
    BY <1>3, <2>1 DEF ListAnswered, Uploads, Typed, JournalTypeOK
  <2>3. pass' \in [Passes -> Pass] /\ retryTimer' \in BOOLEAN /\ TripNamed'
    BY <2>2, <1>1, PushTyped
  <2> QED BY <2>2, <2>3 DEF Typed, JournalTypeOK
<1>4. CASE ListFails
  <2>1. Uploads(local, serverIds) \in SUBSET Trips
    BY DEF Uploads, Typed, JournalTypeOK
  <2>2. pass' \in [Passes -> Pass] /\ retryTimer' \in BOOLEAN /\ TripNamed'
    BY <1>4, <2>1, <1>1, PushTyped DEF ListFails
  <2> QED BY <1>4, <2>2 DEF ListFails, device, Typed, JournalTypeOK
<1>5. ASSUME NEW p \in Passes, PassStep(p) PROVE Typed'
  <2>1. pass[p].phase \in {"post", "posted"} => pass[p].trip \in Trips
    BY DEF Typed, TripNamed
  <2>2. CASE PostStored(p)
    BY <2>2, <2>1 DEF PostStored, Typed, JournalTypeOK, TripNamed, Pass, Phases, device
  <2>3. CASE PostAnswered(p)
    <3>1. pass' \in [Passes -> Pass] /\ retryTimer' \in BOOLEAN /\ TripNamed'
      BY <2>3, PassFields, PushTyped DEF PostAnswered
    <3> QED BY <2>3, <2>1, <3>1 DEF PostAnswered, Typed, JournalTypeOK
  <2>4. CASE PostRefused(p)
    <3>1. pass' \in [Passes -> Pass] /\ retryTimer' \in BOOLEAN /\ TripNamed'
      BY <2>4, PassFields, PushTyped DEF PostRefused
    <3> QED BY <2>4, <2>1, <3>1 DEF PostRefused, Typed, JournalTypeOK
  <2>5. CASE PostFails(p)
    <3>1. pass' \in [Passes -> Pass] /\ retryTimer' \in BOOLEAN /\ TripNamed'
      BY <2>5, PushTyped DEF PostFails
    <3> QED BY <2>5, <3>1 DEF PostFails, device, Typed, JournalTypeOK
  <2> QED BY <1>5, <2>2, <2>3, <2>4, <2>5 DEF PassStep
<1> QED BY <1>2, <1>3, <1>4, <1>5 DEF List

(* So does every other step.                                               *)
LEMMA EventTyped ==
    ASSUME Typed,
           JournalNext, ~List, \A p \in Passes : ~PassStep(p)
    PROVE  Typed'
<1> USE DEF Typed, JournalTypeOK
<1>1. CASE DebounceFires
  <2>1. Uploads(local, serverIds) \in SUBSET Trips
    BY DEF Uploads
  <2>2. CASE UNCHANGED <<pass, retryTimer>>
    BY <1>1, <2>2 DEF DebounceFires, device, TripNamed
  <2>3. ASSUME NEW p \in Edits, Push(p, Uploads(local, serverIds), FALSE) PROVE Typed'
    <3>1. p \in Passes
      BY DEF Passes
    <3>2. pass' \in [Passes -> Pass] /\ retryTimer' \in BOOLEAN /\ TripNamed'
      BY <2>1, <2>3, <3>1, PushTyped
    <3> QED BY <1>1, <3>2 DEF DebounceFires, device
  <2> QED BY <1>1, <2>2, <2>3 DEF DebounceFires
<1>2. CASE JournalRetryFires
  <2>1. pass' \in [Passes -> Pass] /\ TripNamed'
    BY <1>2, SyncNowTyped DEF JournalRetryFires, TripNamed
  <2> QED BY <1>2, <2>1 DEF JournalRetryFires, device, InFlight
<1>3. CASE JournalOnline
  BY <1>3, SyncNowTyped DEF JournalOnline, device
<1>4. CASE JournalSignIn
  BY <1>4, SyncNowTyped DEF JournalSignIn, device
<1>5. CASE JournalSignOut
  BY <1>5 DEF JournalSignOut, device, TripNamed
<1>6. CASE JournalReload
  <2>1. [p \in Passes |-> NoPass] \in [Passes -> Pass]
    BY DEF NoPass, Pass, Phases
  <2>2. {pass[p].trip : p \in {q \in Passes : pass[q].phase = "post"}} \in SUBSET Trips
    BY DEF TripNamed
  <2> QED BY <1>6, <2>1, <2>2 DEF JournalReload, device, TripNamed, NoPass
<1>7. ASSUME NEW t \in Trips, AddTrip(t) \/ DeleteTrip(t) \/ OrphanArrives(t) PROVE Typed'
  BY <1>7 DEF AddTrip, DeleteTrip, OrphanArrives, device, TripNamed
<1> QED BY <1>1, <1>2, <1>3, <1>4, <1>5, <1>6, <1>7 DEF JournalNext, Timers

LEMMA StepTyped == Typed /\ [JournalNext]_journalVars => Typed'
<1>1. Typed /\ UNCHANGED journalVars => Typed'
  BY DEF journalVars, device, Typed, JournalTypeOK, TripNamed
<1>2. ASSUME Typed, JournalNext PROVE Typed'
  <2>1. CASE List \/ \E p \in Passes : PassStep(p)
    BY <1>2, <2>1, RequestTyped
  <2>2. CASE ~List /\ \A p \in Passes : ~PassStep(p)
    BY <1>2, <2>2, EventTyped
  <2> QED BY <2>1, <2>2
<1> QED BY <1>1, <1>2

LEMMA InitTyped == JournalInit => Typed
<1>1. NoPass \in Pass /\ NoPass.phase = "idle"
  BY DEF NoPass, Pass, Phases
<1> QED BY <1>1 DEF JournalInit, Typed, JournalTypeOK, TripNamed

LEMMA AlwaysTyped == JournalSpec => []Typed
  BY InitTyped, StepTyped, PTL DEF JournalSpec

(* Every variable of the journal's sync keeps its type, whichever passes   *)
(* overlap.                                                                *)
THEOREM JournalTypeCorrect == JournalSpec => []JournalTypeOK
<1>1. Typed => JournalTypeOK
  BY DEF Typed
<1> QED BY <1>1, AlwaysTyped, PTL

-----------------------------------------------------------------------------
(* A step that pushes only leaves answers and listings honest.             *)
LEMMA PushHonest ==
    ASSUME Typed, AnswersHonest, stored' = stored,
           NEW p \in Passes, NEW todo \in SUBSET Trips, NEW blocked \in BOOLEAN,
           Push(p, todo, blocked)
    PROVE  AnswersHonest'
<1>1. /\ \A q \in Passes \ {p} : pass'[q] = pass[q]
      /\ pass'[p].phase # "idle" => pass'[p].phase = "post"
  BY PushType DEF Typed, JournalTypeOK
<1> QED BY <1>1 DEF AnswersHonest, Passes

LEMMA SyncNowHonest ==
    ASSUME Typed, AnswersHonest, SyncNow, stored' = stored
    PROVE  AnswersHonest'
<1>1. CASE UNCHANGED pass
  BY <1>1 DEF AnswersHonest
<1>2. CASE pass' = [pass EXCEPT ![Full].phase = "list"]
  <2>1. /\ pass'[Full].phase = "list"
        /\ \A p \in Passes \ {Full} : pass'[p] = pass[p]
    BY <1>2 DEF Typed, JournalTypeOK, Passes, Pass
  <2> QED BY <2>1 DEF AnswersHonest
<1> QED BY <1>1, <1>2 DEF SyncNow

LEMMA StepHonest ==
    ASSUME Typed, AnswersHonest, RegistryHonest, JournalNext
    PROVE  AnswersHonest' /\ RegistryHonest'
<1>1. Full \in Passes /\ Edits \subseteq Passes
  BY DEF Passes
<1>2. CASE ListServed
  <2>1. /\ pass'[Full].phase = "listed" /\ pass'[Full].todo = stored
        /\ \A p \in Passes \ {Full} : pass'[p] = pass[p]
    BY <1>1, <1>2 DEF ListServed, Typed, JournalTypeOK, Pass
  <2> QED BY <1>2, <2>1 DEF ListServed, AnswersHonest, RegistryHonest, device
<1>3. CASE ListAnswered
  <2>1. /\ pass[Full].todo \subseteq stored /\ UNCHANGED stored
        /\ serverIds' = serverIds \cup pass[Full].todo
        /\ Uploads(local', serverIds') \in SUBSET Trips
    BY <1>1, <1>3, PassFields DEF ListAnswered, AnswersHonest, Uploads, Typed, JournalTypeOK
  <2>2. AnswersHonest'
    BY <1>1, <1>3, <2>1, PushHonest DEF ListAnswered
  <2> QED BY <2>1, <2>2 DEF RegistryHonest
<1>4. CASE ListFails
  <2>1. Uploads(local, serverIds) \in SUBSET Trips
    BY DEF Uploads, Typed, JournalTypeOK
  <2> QED BY <1>1, <1>4, <2>1, PushHonest DEF ListFails, RegistryHonest, device
<1>5. ASSUME NEW p \in Passes, PostStored(p) PROVE AnswersHonest' /\ RegistryHonest'
  <2>1. /\ pass'[p].phase = "posted" /\ pass'[p].trip = pass[p].trip
        /\ \A q \in Passes \ {p} : pass'[q] = pass[q]
        /\ stored' = stored \cup {pass[p].trip} /\ UNCHANGED serverIds
    BY <1>5 DEF PostStored, Typed, JournalTypeOK, Pass, device
  <2> QED BY <2>1, <1>1 DEF AnswersHonest, RegistryHonest
<1>6. ASSUME NEW p \in Passes, PostAnswered(p) PROVE AnswersHonest' /\ RegistryHonest'
  <2>1. serverIds' = serverIds \cup {pass[p].trip} /\ pass[p].trip \in stored /\ UNCHANGED stored
    BY <1>6 DEF PostAnswered, AnswersHonest
  <2> QED BY <1>6, <2>1, PassFields, PushHonest DEF PostAnswered, RegistryHonest
<1>7. ASSUME NEW p \in Passes, PostRefused(p) PROVE AnswersHonest' /\ RegistryHonest'
  BY <1>7, PassFields, PushHonest DEF PostRefused, RegistryHonest
<1>8. ASSUME NEW p \in Passes, PostFails(p) PROVE AnswersHonest' /\ RegistryHonest'
  BY <1>8, PushHonest DEF PostFails, RegistryHonest, device
<1>9. CASE DebounceFires
  <2>1. Uploads(local, serverIds) \in SUBSET Trips
    BY DEF Uploads, Typed, JournalTypeOK
  <2>2. UNCHANGED <<stored, serverIds>>
    BY <1>9 DEF DebounceFires, device
  <2>3. CASE UNCHANGED <<pass, retryTimer>>
    BY <2>2, <2>3 DEF AnswersHonest, RegistryHonest
  <2>4. ASSUME NEW p \in Edits, Push(p, Uploads(local, serverIds), FALSE)
        PROVE  AnswersHonest' /\ RegistryHonest'
    BY <1>1, <2>1, <2>2, <2>4, PushHonest DEF RegistryHonest
  <2> QED BY <1>9, <2>3, <2>4 DEF DebounceFires
<1>10. CASE JournalRetryFires \/ JournalOnline \/ JournalSignIn
  <2>1. UNCHANGED <<stored, serverIds>> /\ (SyncNow \/ UNCHANGED pass)
    BY <1>10 DEF JournalRetryFires, JournalOnline, JournalSignIn, device
  <2>2. CASE SyncNow
    BY <2>1, <2>2, SyncNowHonest DEF RegistryHonest
  <2>3. CASE UNCHANGED pass
    BY <2>1, <2>3 DEF AnswersHonest, RegistryHonest
  <2> QED BY <2>1, <2>2, <2>3
<1>11. CASE JournalSignOut
  BY <1>11 DEF JournalSignOut, device, AnswersHonest, RegistryHonest
<1>12. CASE JournalReload
  BY <1>1, <1>12 DEF JournalReload, device, AnswersHonest, RegistryHonest, NoPass
<1>13. ASSUME NEW t \in Trips, AddTrip(t) \/ DeleteTrip(t) \/ OrphanArrives(t)
       PROVE  AnswersHonest' /\ RegistryHonest'
  BY <1>1, <1>13 DEF AddTrip, DeleteTrip, OrphanArrives, device, AnswersHonest, RegistryHonest
<1> QED
  BY <1>2, <1>3, <1>4, <1>5, <1>6, <1>7, <1>8, <1>9, <1>10, <1>11, <1>12, <1>13
  DEF JournalNext, List, PassStep, Timers

(* The registry claims no trip the account lacks, for any number of trips  *)
(* and of passes under way, and whichever answers are lost.                *)
THEOREM RegistryStaysHonest == JournalSpec => []RegistryHonest
<1>1. JournalInit => AnswersHonest /\ RegistryHonest
  BY DEF JournalInit, AnswersHonest, RegistryHonest, NoPass, Passes
<1>2. Typed /\ AnswersHonest /\ RegistryHonest /\ [JournalNext]_journalVars
        => AnswersHonest' /\ RegistryHonest'
  <2>1. AnswersHonest /\ RegistryHonest /\ UNCHANGED journalVars => AnswersHonest' /\ RegistryHonest'
    BY DEF journalVars, device, AnswersHonest, RegistryHonest
  <2> QED BY <2>1, StepHonest
<1> QED BY <1>1, <1>2, AlwaysTyped, PTL DEF JournalSpec

-----------------------------------------------------------------------------
(* After a push of all that waits, everything that waits is scheduled.     *)
LEMMA PushAllSchedules ==
    ASSUME Typed, NEW p \in Passes, NEW todo \in SUBSET Trips, NEW blocked \in BOOLEAN,
           Push(p, todo, blocked), Waiting' \subseteq todo
    PROVE  \A t \in Waiting' : Scheduled(t)'
<1>1. todo # {} => pass'[p].todo = todo
  BY PushKeeps DEF Typed, JournalTypeOK
<1> QED BY <1>1 DEF Scheduled

(* A pass that goes on with the rest of its trips leaves none of those     *)
(* that still wait unscheduled.                                            *)
LEMMA RestSchedules ==
    ASSUME Typed, NEW p \in Passes, pass[p].phase \in {"post", "posted"},
           Push(p, Rest(p), pass[p].blocked), UNCHANGED debounce,
           Waiting' \subseteq Waiting \ {pass[p].trip},
           \A t \in Waiting : Scheduled(t)
    PROVE  \A t \in Waiting' : Scheduled(t)'
<1>0. Rest(p) \in SUBSET Trips /\ pass[p].blocked \in BOOLEAN
  BY PassFields
<1>1. /\ Rest(p) # {} => pass'[p].todo = Rest(p) /\ (pass[p].blocked => pass'[p].blocked)
      /\ Rest(p) = {} /\ pass[p].blocked => retryTimer'
      /\ retryTimer => retryTimer'
  BY PushKeeps, PassFields DEF Typed, JournalTypeOK
<1>2. \A q \in Passes \ {p} : pass'[q] = pass[q]
  <2>1. pass \in [Passes -> Pass] /\ retryTimer \in BOOLEAN
    BY DEF Typed, JournalTypeOK
  <2> QED BY <1>0, <2>1, PushType
<1> SUFFICES ASSUME NEW t \in Waiting' PROVE Scheduled(t)'
  OBVIOUS
<1>3. t \in Waiting /\ t # pass[p].trip /\ Scheduled(t)
  OBVIOUS
<1>4. CASE debounce \/ retryTimer
  BY <1>1, <1>4 DEF Scheduled
<1>5. CASE pass[Full].phase \in {"list", "listed"}
  BY <1>2, <1>5 DEF Scheduled, Passes
<1>6. ASSUME NEW q \in Passes, t \in pass[q].todo \/ pass[q].blocked PROVE Scheduled(t)'
  <2>1. CASE q # p
    BY <1>2, <1>6, <2>1 DEF Scheduled
  <2>2. CASE q = p /\ t \in pass[p].todo
    <3>1. t \in Rest(p)
      BY <1>3, <2>2 DEF Rest
    <3> QED BY <1>1, <3>1 DEF Scheduled
  <2>3. CASE q = p /\ pass[p].blocked
    BY <1>1, <2>3 DEF Scheduled
  <2> QED BY <1>6, <2>1, <2>2, <2>3
<1> QED BY <1>3, <1>4, <1>5, <1>6 DEF Scheduled

(* A full sync that begins covers whatever waits.                          *)
LEMMA SyncNowSchedules ==
    ASSUME Typed, SyncNow, ~InFlight
    PROVE  \A t \in Waiting' : Scheduled(t)'
<1>1. pass'[Full].phase = "list"
  BY DEF SyncNow, Typed, JournalTypeOK, Passes, Pass
<1> QED BY <1>1 DEF Scheduled

LEMMA StepSchedules ==
    ASSUME Typed, StrandedByDroppedRetryOnly, JournalNext, authenticated', ~swallowed'
    PROVE  \A t \in Waiting' : Scheduled(t)'
<1>1. Full \in Passes /\ Edits \subseteq Passes
  BY DEF Passes
<1>2. authenticated /\ ~swallowed => \A t \in Waiting : Scheduled(t)
  BY DEF StrandedByDroppedRetryOnly
<1>3. CASE ListServed
  <2>1. pass'[Full].phase = "listed"
    BY <1>1, <1>3 DEF ListServed, Typed, JournalTypeOK, Pass
  <2> QED BY <2>1 DEF Scheduled
<1>4. CASE ListAnswered
  <2>1. /\ Uploads(local', serverIds') \in SUBSET Trips
        /\ Waiting' \subseteq Uploads(local', serverIds')
    <3>1. pass[Full].todo \in SUBSET Trips
      BY <1>1, PassFields
    <3>2. local' \in SUBSET Trips
      BY <1>4, <3>1 DEF ListAnswered, Typed, JournalTypeOK
    <3> QED BY <1>4, <3>2 DEF ListAnswered, Uploads, Waiting
  <2> QED BY <1>1, <1>4, <2>1, PushAllSchedules DEF ListAnswered
<1>5. CASE ListFails
  <2>1. /\ Uploads(local, serverIds) \in SUBSET Trips
        /\ Waiting' \subseteq Uploads(local, serverIds)
    BY <1>5 DEF ListFails, Uploads, Waiting, Typed, JournalTypeOK, device
  <2> QED BY <1>1, <1>5, <2>1, PushAllSchedules DEF ListFails
<1>6. ASSUME NEW p \in Passes, PostStored(p) PROVE \A t \in Waiting' : Scheduled(t)'
  <2>1. /\ \A q \in Passes : pass'[q].todo = pass[q].todo /\ pass'[q].blocked = pass[q].blocked
        /\ pass[Full].phase \in {"list", "listed"} => pass'[Full].phase = pass[Full].phase
    BY <1>1, <1>6 DEF PostStored, Typed, JournalTypeOK, Pass
  <2>2. Waiting' = Waiting /\ UNCHANGED <<authenticated, swallowed, debounce, retryTimer>>
    BY <1>6 DEF PostStored, Waiting, Uploads, device
  <2> QED BY <1>2, <2>1, <2>2 DEF Scheduled
<1>7. ASSUME NEW p \in Passes, PostAnswered(p) \/ PostRefused(p)
      PROVE  \A t \in Waiting' : Scheduled(t)'
  <2>1. /\ Waiting' \subseteq Waiting \ {pass[p].trip}
        /\ Push(p, Rest(p), pass[p].blocked)
        /\ pass[p].phase \in {"post", "posted"}
        /\ UNCHANGED <<authenticated, swallowed, debounce>>
    BY <1>7 DEF PostAnswered, PostRefused, Waiting, Uploads
  <2> QED BY <1>2, <2>1, RestSchedules
<1>8. ASSUME NEW p \in Passes, PostFails(p) PROVE \A t \in Waiting' : Scheduled(t)'
  <2>1. retryTimer'
    BY <1>8, PushKeeps DEF PostFails, Typed, JournalTypeOK
  <2> QED BY <2>1 DEF Scheduled
<1>9. CASE DebounceFires
  <2>1. Uploads(local, serverIds) \in SUBSET Trips /\ Waiting' = Uploads(local, serverIds)
    BY <1>9 DEF DebounceFires, Uploads, Waiting, Typed, JournalTypeOK, device
  <2>2. CASE Uploads(local, serverIds) = {}
    BY <2>1, <2>2
  <2>3. ASSUME NEW p \in Edits, Push(p, Uploads(local, serverIds), FALSE)
        PROVE  \A t \in Waiting' : Scheduled(t)'
    BY <1>1, <2>1, <2>3, PushAllSchedules
  <2> QED BY <1>9, <2>2, <2>3 DEF DebounceFires
<1>10. CASE JournalRetryFires
  <2>1. authenticated /\ SyncNow /\ ~InFlight
    BY <1>10 DEF JournalRetryFires
  <2> QED BY <2>1, SyncNowSchedules
<1>11. CASE JournalOnline
  BY <1>11, SyncNowSchedules DEF JournalOnline
<1>12. CASE JournalSignIn
  BY <1>12 DEF JournalSignIn, Scheduled
<1>13. CASE JournalSignOut \/ JournalReload
  BY <1>13 DEF JournalSignOut, JournalReload
<1>14. ASSUME NEW t \in Trips, AddTrip(t) \/ DeleteTrip(t) PROVE \A u \in Waiting' : Scheduled(u)'
  <2>1. debounce'
    <3>1. debounce' = authenticated'
      BY <1>14 DEF AddTrip, DeleteTrip
    <3> QED BY <3>1, Zenon
  <2> QED BY <2>1 DEF Scheduled
<1>15. ASSUME NEW t \in Trips, OrphanArrives(t) PROVE \A u \in Waiting' : Scheduled(u)'
  <2>1. Waiting' = Waiting /\ UNCHANGED <<authenticated, swallowed, debounce, retryTimer, pass>>
    BY <1>15 DEF OrphanArrives, Waiting, Uploads, device
  <2> QED BY <1>2, <2>1 DEF Scheduled
<1> QED
  BY <1>3, <1>4, <1>5, <1>6, <1>7, <1>8, <1>9, <1>10, <1>11, <1>12, <1>13, <1>14, <1>15
  DEF JournalNext, List, PassStep, Timers

(* A trip the server lacks is under way or has a timer unless the last     *)
(* retry was dropped, for any number of trips and of overlapping passes.   *)
THEOREM OnlyDroppedRetryStrands == JournalSpec => []StrandedByDroppedRetryOnly
<1>1. JournalInit => StrandedByDroppedRetryOnly
  BY DEF JournalInit, StrandedByDroppedRetryOnly
<1>2. Typed /\ StrandedByDroppedRetryOnly /\ [JournalNext]_journalVars => StrandedByDroppedRetryOnly'
  <2>1. StrandedByDroppedRetryOnly /\ UNCHANGED journalVars => StrandedByDroppedRetryOnly'
    BY DEF journalVars, device, StrandedByDroppedRetryOnly, Waiting, Uploads, Scheduled
  <2>2. ASSUME Typed, StrandedByDroppedRetryOnly, JournalNext PROVE StrandedByDroppedRetryOnly'
    <3>1. authenticated' /\ ~swallowed' => \A t \in Waiting' : Scheduled(t)'
      BY <2>2, StepSchedules
    <3> QED BY <3>1 DEF StrandedByDroppedRetryOnly
  <2> QED BY <2>1, <2>2
<1> QED BY <1>1, <1>2, AlwaysTyped, PTL DEF JournalSpec

-----------------------------------------------------------------------------
(***************************************************************************)
(* The trip tracker.                                                       *)
(*                                                                         *)
(* Fetches are numbered, so that the last one is unique and is for the     *)
(* trip of the address. A prediction that is still wanted was therefore    *)
(* asked for the trip that is shown. And once a ride has been logged, a    *)
(* lookup has missed its trip, and every answer from before that is late:  *)
(* the trip stays as it was shown, with loggedRef set, until a later       *)
(* lookup finds it or a failed poll revives it.                            *)
(***************************************************************************)

(* Fetches are numbered without repetitions, and a 404 is of a trip that a *)
(* lookup has missed.                                                      *)
FetchesSound ==
    /\ \A r \in fetches : r.gen <= fetchGen /\ (r.gen = fetchGen => r.trip = tripId)
    /\ \A r, q \in fetches : r.gen = q.gen => r = q
    /\ \A r \in fetches : r.answer = "gone" => r.trip \in missed
    /\ \A r \in predictions : r.gen <= fetchGen

(* A prediction that is still wanted is one for what is shown.             *)
PredictionWanted == \A r \in predictions : r.gen = fetchGen => shown.gen = fetchGen

(* What is known of a trip whose ride was logged.                          *)
Over(t) ==
    /\ rides[t] = 1 /\ t \in missed
    /\ \A r \in fetches : r.trip = t /\ r.answer = "trip" => r.gen # fetchGen
    /\ shown.of = t => loggedRef /\ shown.isExpired
LoggedIsOver == \A t \in TrackedTrips \ confused : rides[t] = 0 \/ Over(t)

Fits == TrackerTypeOK /\ FetchesSound

-----------------------------------------------------------------------------
LEMMA ClosedType == Closed \in Shown
  BY TrackerAssumption DEF Closed, Shown, Numbers, TrackerAssumption

(* What a commit does to the state of the tracker.                         *)
LEMMA CommitType ==
    ASSUME TrackerTypeOK, NEW state \in Shown, Commit(state)
    PROVE  /\ shown' = state /\ shown' \in Shown
           /\ loggedRef' \in BOOLEAN
           /\ rides' \in [TrackedTrips -> 0 .. MaxRides]
<1>1. shown' = state
  BY DEF Commit
<1>2. loggedRef' \in BOOLEAN
  BY Zenon DEF Commit, LogsRide
<1>3. CASE LogsRide(state, loggedRef /\ ~Rearmed(state))
  <2>1. state.of \in TrackedTrips
    BY <1>3 DEF LogsRide, Shown
  <2>2. rides[state.of] \in 0 .. MaxRides /\ rides[state.of] < MaxRides
        /\ rides' = [rides EXCEPT ![state.of] = @ + 1]
    BY <1>3, <2>1 DEF Commit, TrackerTypeOK
  <2> QED BY <1>1, <1>2, <2>1, <2>2, TrackerAssumption DEF TrackerTypeOK, TrackerAssumption
<1>4. CASE ~LogsRide(state, loggedRef /\ ~Rearmed(state))
  BY <1>1, <1>2, <1>4 DEF Commit, TrackerTypeOK
<1> QED BY <1>3, <1>4

(* A commit of a state that has not expired logs nothing.                  *)
LEMMA CommitLogs ==
    ASSUME NEW state, Commit(state)
    PROVE  /\ ~state.isExpired => UNCHANGED rides
           /\ rides' # rides =>
                /\ state.isExpired /\ state.of # NoTrack /\ loggedRef'
                /\ ~(loggedRef /\ ~Rearmed(state))
                /\ rides' = [rides EXCEPT ![state.of] = @ + 1]
  BY DEF Commit, LogsRide

LEMMA FetchType ==
    ASSUME Fits, NEW t \in TrackedTrips, fetchTrip(t), tripId' = t,
           UNCHANGED <<predictions, missed>>
    PROVE  /\ fetchGen' \in Numbers /\ fetches' \subseteq Fetch
           /\ FetchesSound'
           /\ \A r \in predictions' : r.gen # fetchGen'
           /\ \A r \in fetches' : r.gen = fetchGen' => r.trip = t /\ r.answer = "none"
<1> DEFINE f == [trip |-> t, gen |-> fetchGen + 1, answer |-> "none"]
<1>1. fetchGen \in Nat /\ fetchGen' = fetchGen + 1 /\ fetchGen' \in Numbers /\ f \in Fetch
  BY TrackerAssumption DEF Fits, TrackerTypeOK, fetchTrip, Numbers, Fetch, TrackerAssumption
<1>2. fetches' = fetches \cup {f}
  BY <1>1 DEF fetchTrip
<1>3. \A r \in fetches \cup predictions : r.gen \in Nat /\ r.gen <= fetchGen
  BY DEF Fits, FetchesSound, TrackerTypeOK, Fetch, TripRequest, Numbers
<1>4. \A r \in fetches : r.gen # fetchGen'
  BY <1>1, <1>3
<1> HIDE DEF f
<1>5. f.gen = fetchGen' /\ f.trip = t /\ f.answer = "none"
  BY <1>1 DEF f
<1>6. FetchesSound'
  BY <1>1, <1>2, <1>3, <1>4, <1>5 DEF Fits, FetchesSound
<1> QED BY <1>1, <1>2, <1>3, <1>4, <1>5, <1>6 DEF Fits, TrackerTypeOK

-----------------------------------------------------------------------------
(* Each action keeps the types and the numbering of the fetches.           *)

LEMMA InitFits == TrackerInit => Fits
<1> SUFFICES ASSUME TrackerInit PROVE Fits
  OBVIOUS
<1>1. \A t \in TrackedTrips : 0 \in 0 .. MaxRides
  BY TrackerAssumption DEF TrackerAssumption
<1>2. shown \in Shown /\ loggedRef \in BOOLEAN
  <2>1. shown = Closed /\ loggedRef = FALSE
    BY DEF TrackerInit
  <2>2. shown \in Shown
    BY ONLY <2>1, ClosedType, Zenon
  <2>3. loggedRef \in BOOLEAN
    BY ONLY <2>1, Zenon
  <2> QED BY <2>2, <2>3
<1>3. 0 \in Numbers
  BY TrackerAssumption DEF Numbers, TrackerAssumption
<1>4. rides \in [TrackedTrips -> 0 .. MaxRides]
  BY <1>1 DEF TrackerInit
<1>5. /\ missed \subseteq TrackedTrips /\ tripId \in TrackedTrips \cup {NoTrack}
      /\ fetchGen \in Numbers /\ fetches = {} /\ predictions = {}
      /\ confused \subseteq TrackedTrips
  BY <1>3 DEF TrackerInit
<1> QED BY <1>2, <1>4, <1>5 DEF Fits, TrackerTypeOK, FetchesSound

LEMMA OpenFits ==
    ASSUME Fits, NEW t \in TrackedTrips, OpenTrip(t)
    PROVE  Fits'
<1>1. FetchesSound' /\ fetchGen' \in Numbers /\ fetches' \subseteq Fetch
  BY FetchType DEF OpenTrip
<1>2. /\ shown' \in Shown /\ loggedRef' \in BOOLEAN
      /\ rides' \in [TrackedTrips -> 0 .. MaxRides]
  <2>1. CASE tripId = NoTrack
    <3>1. [Closed EXCEPT !.isActive = TRUE] \in Shown
      BY ClosedType DEF Shown
    <3>2. Commit([Closed EXCEPT !.isActive = TRUE])
      BY <2>1 DEF OpenTrip
    <3> QED BY <3>1, <3>2, CommitType DEF Fits
  <2>2. CASE tripId # NoTrack
    BY <2>2 DEF OpenTrip, Fits, TrackerTypeOK
  <2> QED BY <2>1, <2>2
<1> QED BY <1>1, <1>2 DEF OpenTrip, Fits, TrackerTypeOK

LEMMA PollFits ==
    ASSUME Fits, PollTrip
    PROVE  Fits'
<1>1. tripId \in TrackedTrips
  BY DEF PollTrip, Fits, TrackerTypeOK
<1>2. FetchesSound' /\ fetchGen' \in Numbers /\ fetches' \subseteq Fetch
  BY <1>1, FetchType DEF PollTrip
<1> QED BY <1>2 DEF PollTrip, Fits, TrackerTypeOK

LEMMA LeaveFits ==
    ASSUME Fits, LeaveScreen
    PROVE  Fits'
<1>1. shown' = Closed /\ loggedRef' = FALSE
  BY DEF LeaveScreen
<1>2. shown' \in Shown
  BY ONLY <1>1, ClosedType, Zenon
<1>3. loggedRef' \in BOOLEAN
  BY ONLY <1>1, Zenon
<1>4. 0 \in Numbers
  BY TrackerAssumption DEF Numbers, TrackerAssumption
<1>5. /\ tripId' = NoTrack /\ fetchGen' = 0 /\ fetches' = {} /\ predictions' = {}
      /\ UNCHANGED <<rides, missed, confused>>
  BY DEF LeaveScreen
<1> QED BY <1>2, <1>3, <1>4, <1>5 DEF Fits, TrackerTypeOK, FetchesSound

(* What a lookup answers is all that it changes of a fetch.                *)
LEMMA LookupIs ==
    ASSUME Fits, NEW r \in fetches, lookupTrip(r)
    PROVE  \E answer \in {"trip", "gone"}, f \in Fetch :
             /\ f.trip = r.trip /\ f.gen = r.gen /\ f.answer = answer
             /\ fetches' = (fetches \ {r}) \cup {f}
             /\ missed' = IF answer = "gone" THEN missed \cup {r.trip} ELSE missed
             /\ confused' = IF answer = "trip" THEN confused \cup ({r.trip} \cap missed)
                                               ELSE confused
<1>1. r \in Fetch
  BY DEF Fits, TrackerTypeOK
<1>2. ASSUME NEW answer \in {"trip", "gone"}
      PROVE  /\ [r EXCEPT !.answer = answer] \in Fetch
             /\ [r EXCEPT !.answer = answer].trip = r.trip
             /\ [r EXCEPT !.answer = answer].gen = r.gen
             /\ [r EXCEPT !.answer = answer].answer = answer
  BY <1>1 DEF Fetch
<1> QED BY <1>2 DEF lookupTrip

LEMMA LookupFits ==
    ASSUME Fits, NEW r \in fetches, lookupTrip(r)
    PROVE  Fits'
<1>1. PICK answer \in {"trip", "gone"}, f \in Fetch :
         /\ f.trip = r.trip /\ f.gen = r.gen /\ f.answer = answer
         /\ fetches' = (fetches \ {r}) \cup {f}
         /\ missed' = IF answer = "gone" THEN missed \cup {r.trip} ELSE missed
         /\ confused' = IF answer = "trip" THEN confused \cup ({r.trip} \cap missed)
                                           ELSE confused
  BY LookupIs
<1>2. UNCHANGED <<tripId, fetchGen, predictions, shown, loggedRef, rides>>
  BY DEF lookupTrip
<1>3. r.trip \in TrackedTrips /\ missed \subseteq TrackedTrips /\ confused \subseteq TrackedTrips
  BY DEF Fits, TrackerTypeOK, Fetch
<1>4. missed' \subseteq TrackedTrips /\ confused' \subseteq TrackedTrips /\ missed \subseteq missed'
  BY <1>1, <1>3
<1>5. fetches' \subseteq Fetch
  BY <1>1 DEF Fits, TrackerTypeOK
<1>6. FetchesSound'
  BY <1>1, <1>2, <1>4 DEF Fits, FetchesSound
<1> QED BY <1>2, <1>4, <1>5, <1>6 DEF Fits, TrackerTypeOK

LEMMA AnsweredFits ==
    ASSUME Fits, NEW r \in fetches, TripAnswered(r)
    PROVE  Fits'
<1>1. r \in Fetch /\ r.gen <= fetchGen
  BY DEF Fits, TrackerTypeOK, FetchesSound
<1> DEFINE state == [of |-> r.trip, gen |-> r.gen, prediction |-> 0,
                     isActive |-> TRUE, isExpired |-> FALSE]
<1>2. state \in Shown /\ [trip |-> r.trip, gen |-> r.gen] \in TripRequest
  BY <1>1, TrackerAssumption DEF Shown, Fetch, TripRequest, Numbers, TrackerAssumption
<1>3. /\ shown' \in Shown /\ loggedRef' \in BOOLEAN
      /\ rides' \in [TrackedTrips -> 0 .. MaxRides]
      /\ predictions' \subseteq TripRequest
      /\ \A q \in predictions' : q.gen <= fetchGen
  <2>1. CASE Latest(r)
    <3>1. /\ Commit(state)
          /\ predictions' = predictions \cup {[trip |-> r.trip, gen |-> r.gen]}
      BY <2>1 DEF TripAnswered
    <3>2. shown' \in Shown /\ loggedRef' \in BOOLEAN
          /\ rides' \in [TrackedTrips -> 0 .. MaxRides]
      BY <1>2, <3>1, CommitType DEF Fits
    <3>3. predictions' \subseteq TripRequest /\ \A q \in predictions' : q.gen <= fetchGen
      BY <1>1, <1>2, <3>1 DEF Fits, TrackerTypeOK, FetchesSound
    <3> QED BY <3>2, <3>3
  <2>2. CASE ~Latest(r)
    BY <2>2 DEF TripAnswered, Fits, TrackerTypeOK, FetchesSound
  <2> QED BY <2>1, <2>2
<1> QED BY <1>3 DEF TripAnswered, Fits, TrackerTypeOK, FetchesSound

(* A 404 or another failure: only what is shown changes.                   *)
LEMMA RefusedFits ==
    ASSUME Fits, NEW r \in fetches, TripGone(r) \/ TripFails(r)
    PROVE  Fits'
<1>1. \A a, b \in BOOLEAN : [shown EXCEPT !.isExpired = a, !.isActive = b] \in Shown
  BY DEF Fits, TrackerTypeOK, Shown
<1>2. shown.of \in TrackedTrips \cup {NoTrack}
  BY DEF Fits, TrackerTypeOK, Shown
<1>3. /\ shown' \in Shown /\ loggedRef' \in BOOLEAN
      /\ rides' \in [TrackedTrips -> 0 .. MaxRides]
      /\ confused' \subseteq TrackedTrips
  <2>1. CASE Latest(r)
    <3>1. CASE TripGone(r)
      <4>1. Commit([shown EXCEPT !.isExpired = TRUE, !.isActive = FALSE])
        BY <2>1, <3>1 DEF TripGone
      <4>2. confused' = confused \cup ({shown.of} \ {NoTrack, tripId})
        BY <2>1, <3>1 DEF TripGone
      <4>3. confused' \subseteq TrackedTrips
        BY <1>2, <4>2 DEF Fits, TrackerTypeOK
      <4> QED BY <1>1, <4>1, <4>3, CommitType DEF Fits
    <3>2. CASE TripFails(r)
      <4>1. Commit([shown EXCEPT !.isExpired = FALSE, !.isActive = TRUE])
        BY <2>1, <3>2 DEF TripFails
      <4>2. confused' = IF shown.isExpired THEN confused \cup ({shown.of} \ {NoTrack})
                           ELSE confused
        BY <2>1, <3>2 DEF TripFails
      <4>3. confused' \subseteq TrackedTrips
        BY <1>2, <4>2 DEF Fits, TrackerTypeOK
      <4> QED BY <1>1, <4>1, <4>3, CommitType DEF Fits
    <3> QED BY <3>1, <3>2
  <2>2. CASE ~Latest(r)
    BY <2>2 DEF TripGone, TripFails, Fits, TrackerTypeOK
  <2> QED BY <2>1, <2>2
<1>4. /\ fetches' = fetches \ {r}
      /\ UNCHANGED <<tripId, fetchGen, predictions, missed>>
  BY DEF TripGone, TripFails
<1> QED BY <1>3, <1>4 DEF Fits, TrackerTypeOK, FetchesSound

LEMMA PredictionFits ==
    ASSUME Fits, NEW r \in predictions, PredictionAnswered(r)
    PROVE  Fits'
<1>1. \A p \in {0, r.gen} : [shown EXCEPT !.prediction = p] \in Shown
  BY TrackerAssumption
  DEF Fits, TrackerTypeOK, Shown, TripRequest, Numbers, TrackerAssumption
<1>2. shown' \in Shown
  BY <1>1 DEF PredictionAnswered, Fits, TrackerTypeOK
<1> QED BY <1>2 DEF PredictionAnswered, Fits, TrackerTypeOK, FetchesSound

LEMMA FitsStep ==
    ASSUME Fits, [TrackerNext]_trackerVars
    PROVE  Fits'
<1>1. CASE UNCHANGED trackerVars
  BY <1>1 DEF trackerVars, Fits, TrackerTypeOK, FetchesSound
<1>2. CASE PollTrip \/ LeaveScreen
  BY <1>2, PollFits, LeaveFits
<1>3. ASSUME NEW t \in TrackedTrips, OpenTrip(t) PROVE Fits'
  BY <1>3, OpenFits
<1>4. ASSUME NEW r \in fetches, lookupTrip(r) PROVE Fits'
  BY <1>4, LookupFits
<1>5. ASSUME NEW r \in fetches, TripAnswered(r) \/ TripGone(r) \/ TripFails(r) PROVE Fits'
  BY <1>5, AnsweredFits, RefusedFits
<1>6. ASSUME NEW r \in predictions, PredictionAnswered(r) PROVE Fits'
  BY <1>6, PredictionFits
<1> QED BY <1>1, <1>2, <1>3, <1>4, <1>5, <1>6 DEF TrackerNext

LEMMA AlwaysFits == TrackerSpec => []Fits
  BY InitFits, FitsStep, PTL DEF TrackerSpec

(* The variables keep their types: every answer that is awaited is of a    *)
(* fetch that was sent, of the trip it was sent for.                       *)
THEOREM TrackerTypeCorrect == TrackerSpec => []TrackerTypeOK
<1>1. Fits => TrackerTypeOK
  BY DEF Fits
<1> QED BY <1>1, AlwaysFits, PTL

-----------------------------------------------------------------------------
(* The prediction on the screen                                            *)

Predicted == PredictionOfShown /\ PredictionWanted

LEMMA PredictedStep ==
    ASSUME Fits, Predicted, [TrackerNext]_trackerVars
    PROVE  Predicted'
<1>1. CASE UNCHANGED trackerVars
  BY <1>1 DEF trackerVars, Predicted, PredictionOfShown, PredictionWanted
<1>2. ASSUME NEW t \in TrackedTrips, OpenTrip(t) PROVE Predicted'
  <2>1. \A r \in predictions' : r.gen # fetchGen'
    BY <1>2, FetchType DEF OpenTrip
  <2>2. PredictionOfShown'
    BY <1>2 DEF OpenTrip, Commit, Closed, Predicted, PredictionOfShown
  <2> QED BY <2>1, <2>2 DEF Predicted, PredictionWanted
<1>3. CASE PollTrip
  <2>1. tripId \in TrackedTrips
    BY <1>3 DEF PollTrip, Fits, TrackerTypeOK
  <2>2. \A r \in predictions' : r.gen # fetchGen'
    BY <1>3, <2>1, FetchType DEF PollTrip
  <2> QED BY <1>3, <2>2 DEF PollTrip, Predicted, PredictionOfShown, PredictionWanted
<1>4. CASE LeaveScreen
  BY <1>4 DEF LeaveScreen, Closed, Predicted, PredictionOfShown, PredictionWanted
<1>5. ASSUME NEW r \in fetches, TripAnswered(r) PROVE Predicted'
  <2>1. CASE Latest(r)
    <3>1. shown'.prediction = 0 /\ shown'.gen = fetchGen'
      BY <1>5, <2>1 DEF TripAnswered, Commit, Latest
    <3> QED BY <3>1 DEF Predicted, PredictionOfShown, PredictionWanted
  <2>2. CASE ~Latest(r)
    BY <1>5, <2>2 DEF TripAnswered, Predicted, PredictionOfShown, PredictionWanted
  <2> QED BY <2>1, <2>2
<1>6. ASSUME NEW r \in fetches, TripGone(r) \/ TripFails(r) PROVE Predicted'
  <2>1. UNCHANGED <<predictions, fetchGen>>
    BY <1>6 DEF TripGone, TripFails
  <2>2. shown'.prediction = shown.prediction /\ shown'.gen = shown.gen
    BY <1>6 DEF TripGone, TripFails, Commit, Fits, TrackerTypeOK, Shown
  <2> QED BY <2>1, <2>2 DEF Predicted, PredictionOfShown, PredictionWanted
<1>7. ASSUME NEW r \in predictions, PredictionAnswered(r) PROVE Predicted'
  <2>1. UNCHANGED fetchGen /\ predictions' \subseteq predictions
    BY <1>7 DEF PredictionAnswered
  <2>2. CASE Wanted(r)
    <3>1. r.gen = shown.gen
      BY <2>2 DEF Wanted, Latest, Predicted, PredictionWanted
    <3>2. PICK p \in {0, r.gen} : shown' = [shown EXCEPT !.prediction = p]
      BY <1>7, <2>2 DEF PredictionAnswered
    <3>3. shown'.gen = shown.gen /\ shown'.prediction = p
      BY <3>2 DEF Fits, TrackerTypeOK, Shown
    <3> QED BY <2>1, <3>1, <3>2, <3>3 DEF Predicted, PredictionOfShown, PredictionWanted
  <2>3. CASE ~Wanted(r)
    BY <1>7, <2>1, <2>3
    DEF PredictionAnswered, Predicted, PredictionOfShown, PredictionWanted
  <2> QED BY <2>2, <2>3
<1>8. ASSUME NEW r \in fetches, lookupTrip(r) PROVE Predicted'
  BY <1>8 DEF lookupTrip, Predicted, PredictionOfShown, PredictionWanted
<1> QED BY <1>1, <1>2, <1>3, <1>4, <1>5, <1>6, <1>7, <1>8 DEF TrackerNext

(* The prediction on the screen was made for the trip, and the answer, it  *)
(* is shown beside.                                                        *)
THEOREM PredictionsBelong == TrackerSpec => []PredictionOfShown
<1>1. TrackerInit => Predicted
  BY DEF TrackerInit, Closed, Predicted, PredictionOfShown, PredictionWanted
<1>2. Predicted => PredictionOfShown
  BY DEF Predicted
<1> QED BY <1>1, <1>2, PredictedStep, AlwaysFits, PTL DEF TrackerSpec

-----------------------------------------------------------------------------
(* The rides that were logged                                              *)

(* A new fetch has not been looked up.                                     *)
LEMMA FetchKeepsOver ==
    ASSUME Fits, NEW t \in TrackedTrips, Over(t), UNCHANGED <<missed, rides>>,
           NEW u \in TrackedTrips, fetchTrip(u), tripId' = u, UNCHANGED predictions,
           shown'.of = t => loggedRef' /\ shown'.isExpired
    PROVE  Over(t)'
<1>1. \A r \in fetches' : r.gen = fetchGen' => r.answer = "none"
  BY FetchType
<1>2. \A r \in fetches' : r.trip = t /\ r.answer = "trip" => r.gen # fetchGen'
  BY <1>1 DEF Over
<1> QED BY <1>2 DEF Over

LEMMA LoggedOpen ==
    ASSUME Fits, LoggedIsOver, NEW u \in TrackedTrips, OpenTrip(u)
    PROVE  LoggedIsOver'
<1>1. UNCHANGED <<missed, confused, predictions>> /\ fetchTrip(u) /\ tripId' = u
  BY DEF OpenTrip
<1>2. UNCHANGED rides
  BY CommitLogs DEF OpenTrip, Closed
<1>3. ASSUME NEW t \in TrackedTrips, Over(t)
      PROVE  shown'.of = t => loggedRef' /\ shown'.isExpired
  BY <1>3, TrackerAssumption DEF OpenTrip, Commit, Closed, Over, TrackerAssumption
<1>4. ASSUME NEW t \in TrackedTrips \ confused' PROVE (rides[t] = 0 \/ Over(t))'
  <2>1. rides[t] = 0 \/ Over(t)
    BY <1>1, <1>4 DEF LoggedIsOver
  <2> QED BY <1>1, <1>2, <1>3, <2>1, FetchKeepsOver
<1> QED BY <1>4 DEF LoggedIsOver

LEMMA LoggedPoll ==
    ASSUME Fits, LoggedIsOver, PollTrip
    PROVE  LoggedIsOver'
<1>1. /\ UNCHANGED <<missed, confused, predictions, rides, shown, loggedRef>>
      /\ fetchTrip(tripId) /\ tripId' = tripId /\ tripId \in TrackedTrips
  BY DEF PollTrip, Fits, TrackerTypeOK
<1>2. ASSUME NEW t \in TrackedTrips, Over(t)
      PROVE  shown'.of = t => loggedRef' /\ shown'.isExpired
  BY <1>1, <1>2 DEF Over
<1>3. ASSUME NEW t \in TrackedTrips \ confused' PROVE (rides[t] = 0 \/ Over(t))'
  <2>1. rides[t] = 0 \/ Over(t)
    BY <1>1, <1>3 DEF LoggedIsOver
  <2> QED BY <1>1, <1>2, <2>1, FetchKeepsOver
<1> QED BY <1>3 DEF LoggedIsOver

(* A lookup that finds a trip whose ride was logged is one of the confused.*)
LEMMA LoggedLookup ==
    ASSUME Fits, LoggedIsOver, NEW r \in fetches, lookupTrip(r)
    PROVE  LoggedIsOver'
<1>1. PICK answer \in {"trip", "gone"}, f \in Fetch :
         /\ f.trip = r.trip /\ f.gen = r.gen /\ f.answer = answer
         /\ fetches' = (fetches \ {r}) \cup {f}
         /\ missed' = IF answer = "gone" THEN missed \cup {r.trip} ELSE missed
         /\ confused' = IF answer = "trip" THEN confused \cup ({r.trip} \cap missed)
                                           ELSE confused
  BY LookupIs
<1>2. UNCHANGED <<tripId, fetchGen, predictions, shown, loggedRef, rides>>
  BY DEF lookupTrip
<1>3. missed \subseteq missed' /\ confused \subseteq confused'
  BY <1>1
<1>4. ASSUME NEW t \in TrackedTrips \ confused' PROVE (rides[t] = 0 \/ Over(t))'
  <2>1. rides[t] = 0 \/ Over(t)
    BY <1>3, <1>4 DEF LoggedIsOver
  <2>2. ASSUME Over(t) PROVE Over(t)'
    <3>1. ~(f.trip = t /\ f.answer = "trip")
      BY <1>1, <1>4, <2>2 DEF Over
    <3> QED BY <1>1, <1>2, <1>3, <2>2, <3>1 DEF Over
  <2> QED BY <1>2, <2>1, <2>2
<1> QED BY <1>4 DEF LoggedIsOver

(* An answer that is taken shows a trip no ride was logged for.            *)
LEMMA LoggedAnswered ==
    ASSUME Fits, LoggedIsOver, NEW r \in fetches, TripAnswered(r)
    PROVE  LoggedIsOver'
<1>1. /\ fetches' = fetches \ {r} /\ r.answer = "trip"
      /\ UNCHANGED <<tripId, fetchGen, missed, confused>>
  BY DEF TripAnswered
<1>2. UNCHANGED rides
  BY CommitLogs DEF TripAnswered
<1>3. ASSUME NEW t \in TrackedTrips \ confused' PROVE (rides[t] = 0 \/ Over(t))'
  <2>1. rides[t] = 0 \/ Over(t)
    BY <1>1, <1>3 DEF LoggedIsOver
  <2>2. ASSUME Over(t) PROVE Over(t)'
    <3>1. CASE Latest(r)
      <4>1. r.trip # t
        BY <1>1, <2>2, <3>1 DEF Over, Latest
      <4>2. shown'.of = r.trip
        BY <3>1 DEF TripAnswered, Commit
      <4> QED BY <1>1, <1>2, <2>2, <4>1, <4>2 DEF Over
    <3>2. CASE ~Latest(r)
      BY <1>1, <1>2, <2>2, <3>2 DEF TripAnswered, Over
    <3> QED BY <3>1, <3>2
  <2> QED BY <1>2, <2>1, <2>2
<1> QED BY <1>3 DEF LoggedIsOver

(* A ride is logged when the trip is gone, and once only.                  *)
LEMMA LoggedGone ==
    ASSUME Fits, LoggedIsOver, NEW r \in fetches, TripGone(r)
    PROVE  LoggedIsOver'
<1> DEFINE state == [shown EXCEPT !.isExpired = TRUE, !.isActive = FALSE]
<1>1. /\ fetches' = fetches \ {r} /\ r.trip \in missed
      /\ UNCHANGED <<tripId, fetchGen, predictions, missed>>
  BY DEF TripGone, Fits, FetchesSound
<1>2. CASE ~Latest(r)
  BY <1>1, <1>2 DEF TripGone, LoggedIsOver, Over
<1>3. CASE Latest(r)
  <2>1. Commit(state) /\ confused' = confused \cup ({shown.of} \ {NoTrack, tripId})
    BY <1>3 DEF TripGone
  <2>2. state.of = shown.of /\ state.isExpired /\ ~state.isActive
    BY DEF Fits, TrackerTypeOK, Shown
  <2>3. ~Rearmed(state)
    BY <2>2 DEF Rearmed, Tracking
  <2>4. r.trip = tripId /\ \A q \in fetches' : q.gen # fetchGen
    BY <1>1, <1>3 DEF Latest, Fits, FetchesSound
  <2>5. shown' = state /\ (loggedRef => loggedRef')
    BY <2>1, <2>3 DEF Commit
  <2> HIDE DEF state
  <2>6. ASSUME NEW t \in TrackedTrips \ confused' PROVE (rides[t] = 0 \/ Over(t))'
    <3>1. t \in TrackedTrips \ confused /\ (shown.of = t => t = tripId)
      BY <2>1, <2>6, TrackerAssumption DEF TrackerAssumption
    <3>2. rides[t] = 0 \/ Over(t)
      BY <3>1 DEF LoggedIsOver
    <3>3. CASE rides' = rides
      <4>1. ASSUME Over(t) PROVE Over(t)'
        BY <1>1, <2>2, <2>4, <2>5, <3>3, <4>1 DEF Over
      <4> QED BY <3>2, <3>3, <4>1
    <3>4. CASE rides' # rides
      <4>1. /\ ~loggedRef /\ loggedRef' /\ shown.of # NoTrack
            /\ rides' = [rides EXCEPT ![shown.of] = @ + 1]
        BY <2>1, <2>2, <2>3, <3>4, CommitLogs
      <4>2. shown.of \in TrackedTrips
        BY <4>1 DEF Fits, TrackerTypeOK, Shown
      <4>3. CASE shown.of = t
        <5>1. rides[t] = 0
          BY <3>2, <4>1, <4>3 DEF Over
        <5>2. rides'[t] = 1
          BY <4>1, <4>2, <4>3, <5>1 DEF Fits, TrackerTypeOK
        <5>3. t \in missed'
          BY <1>1, <2>4, <3>1, <4>3
        <5> QED BY <1>1, <2>2, <2>4, <2>5, <4>1, <5>2, <5>3 DEF Over
      <4>4. CASE shown.of # t
        <5>1. rides'[t] = rides[t]
          BY <4>1, <4>2, <4>4 DEF Fits, TrackerTypeOK
        <5>2. ASSUME Over(t) PROVE Over(t)'
          BY <1>1, <2>2, <2>4, <2>5, <4>4, <5>1, <5>2 DEF Over
        <5> QED BY <3>2, <5>1, <5>2
      <4> QED BY <4>3, <4>4
    <3> QED BY <3>3, <3>4
  <2> QED BY <2>6 DEF LoggedIsOver
<1> QED BY <1>2, <1>3

(* A failed poll revives only what it makes one of the confused.           *)
LEMMA LoggedFails ==
    ASSUME Fits, LoggedIsOver, NEW r \in fetches, TripFails(r)
    PROVE  LoggedIsOver'
<1>1. /\ fetches' = fetches \ {r}
      /\ UNCHANGED <<tripId, fetchGen, predictions, missed>>
  BY DEF TripFails
<1>2. CASE ~Latest(r)
  BY <1>1, <1>2 DEF TripFails, LoggedIsOver, Over
<1>3. CASE Latest(r)
  <2> DEFINE state == [shown EXCEPT !.isExpired = FALSE, !.isActive = TRUE]
  <2>1. /\ Commit(state)
        /\ confused' = IF shown.isExpired THEN confused \cup ({shown.of} \ {NoTrack})
                       ELSE confused
    BY <1>3 DEF TripFails
  <2>2. state.of = shown.of /\ ~state.isExpired
    BY DEF Fits, TrackerTypeOK, Shown
  <2>3. UNCHANGED rides /\ shown'.of = shown.of
    BY <2>1, <2>2, CommitLogs DEF Commit
  <2>4. ASSUME NEW t \in TrackedTrips \ confused' PROVE (rides[t] = 0 \/ Over(t))'
    <3>1. t \in TrackedTrips \ confused /\ (shown.of = t => ~shown.isExpired)
      BY <2>1, <2>4, TrackerAssumption DEF TrackerAssumption
    <3>2. rides[t] = 0 \/ Over(t)
      BY <3>1 DEF LoggedIsOver
    <3>3. ASSUME Over(t) PROVE Over(t)'
      <4>1. shown'.of # t
        BY <2>3, <3>1, <3>3 DEF Over
      <4> QED BY <1>1, <2>3, <3>3, <4>1 DEF Over
    <3> QED BY <2>3, <3>2, <3>3
  <2> QED BY <2>4 DEF LoggedIsOver
<1> QED BY <1>2, <1>3

LEMMA LoggedStep ==
    ASSUME Fits, LoggedIsOver, [TrackerNext]_trackerVars
    PROVE  LoggedIsOver'
<1>1. CASE UNCHANGED trackerVars
  BY <1>1 DEF trackerVars, LoggedIsOver, Over
<1>2. ASSUME NEW t \in TrackedTrips, OpenTrip(t) PROVE LoggedIsOver'
  BY <1>2, LoggedOpen
<1>3. CASE PollTrip
  BY <1>3, LoggedPoll
<1>4. CASE LeaveScreen
  BY <1>4, TrackerAssumption
  DEF LeaveScreen, Closed, LoggedIsOver, Over, TrackerAssumption
<1>5. ASSUME NEW r \in fetches, TripAnswered(r) PROVE LoggedIsOver'
  BY <1>5, LoggedAnswered
<1>6. ASSUME NEW r \in fetches, TripGone(r) PROVE LoggedIsOver'
  BY <1>6, LoggedGone
<1>7. ASSUME NEW r \in fetches, TripFails(r) PROVE LoggedIsOver'
  BY <1>7, LoggedFails
<1>8. ASSUME NEW r \in predictions, PredictionAnswered(r) PROVE LoggedIsOver'
  <2>1. UNCHANGED <<fetchGen, fetches, loggedRef, rides, missed, confused>>
    BY <1>8 DEF PredictionAnswered
  <2>2. shown'.of = shown.of /\ shown'.isExpired = shown.isExpired
    BY <1>8 DEF PredictionAnswered, Fits, TrackerTypeOK, Shown
  <2> QED BY <2>1, <2>2 DEF LoggedIsOver, Over
<1>9. ASSUME NEW r \in fetches, lookupTrip(r) PROVE LoggedIsOver'
  BY <1>9, LoggedLookup
<1> QED BY <1>1, <1>2, <1>3, <1>4, <1>5, <1>6, <1>7, <1>8, <1>9 DEF TrackerNext

(* Late answers, a change of trips and a screen that is opened again log   *)
(* no ride twice: it takes a failed poll, another trip that is not found,  *)
(* or a lookup that finds the trip after one that has missed it.           *)
THEOREM RidesLoggedOnce == TrackerSpec => []LoggedAgainThreeWaysOnly
<1>1. TrackerInit => LoggedIsOver
  BY DEF TrackerInit, LoggedIsOver
<1>2. LoggedIsOver => LoggedAgainThreeWaysOnly
  <2>1. ASSUME LoggedIsOver, NEW t \in TrackedTrips \ confused PROVE rides[t] <= 1
    <3>1. rides[t] = 0 \/ rides[t] = 1
      BY <2>1 DEF LoggedIsOver, Over
    <3> QED BY <3>1
  <2> QED BY <2>1 DEF LoggedAgainThreeWaysOnly
<1> QED BY <1>1, <1>2, LoggedStep, AlwaysFits, PTL DEF TrackerSpec
=============================================================================
