------------------------- MODULE PushDatabaseProofs -------------------------
(***************************************************************************)
(* Proofs about PushDatabase for any number of operations, paths and       *)
(* initializations.                                                        *)
(*                                                                         *)
(* The argument rests on generations: an initialization belongs to the     *)
(* generation it started in, none is of a later one than the present, and  *)
(* of the present generation only the published one can sleep.             *)
(***************************************************************************)
EXTENDS PushDatabase, TLAPS

(* No initialization is of a generation to come. *)
GenerationsPast ==
    \A p \in Promises : inits[p].generation <= initializationGeneration

IInv ==
    /\ TypeOK
    /\ GenerationsPast
    /\ ConnectionIsCurrent
    /\ SleeperInProgress
    /\ StuckIsForgotten

InitRecord == [phase : {"settled", "asleep", "stuck"}, generation : Nat]

-----------------------------------------------------------------------------
(* What is left of a sleeper belongs to the same generation or to the      *)
(* first, and sleeps no more.                                              *)
LEMMA WokenType ==
    ASSUME NEW init \in InitRecord
    PROVE  /\ Woken(init) \in InitRecord
           /\ Woken(init).phase \in {"settled", "stuck"}
           /\ Woken(init).generation \in {0, init.generation}
           /\ Woken(init).phase = "stuck" =>
                init.generation = initializationGeneration
  BY DEF Woken, Settled, InitRecord

LEMMA InitIInv == Init => IInv
<1> SUFFICES ASSUME Init PROVE IInv
  OBVIOUS
<1>1. TypeOK
  BY DEF Init, TypeOK, Settled
<1>2. \A p \in Promises : inits[p] = Settled
  BY DEF Init
<1> QED BY <1>1, <1>2
        DEF IInv, Init, GenerationsPast, ConnectionIsCurrent,
            SleeperInProgress, StuckIsForgotten, Settled

(* A new generation: nothing is published and no sleeper belongs to it.    *)
LEMMA NewGeneration ==
    ASSUME IInv, CloseDatabase, inits' = inits
    PROVE  /\ initializationGeneration' \in Nat
           /\ GenerationsPast' /\ SleeperInProgress' /\ StuckIsForgotten'
<1>1. initializationGeneration \in Nat
      /\ initializationGeneration' = initializationGeneration + 1
      /\ initPromise' = None
  BY DEF IInv, TypeOK, CloseDatabase
<1>2. \A p \in Promises : inits[p].generation \in Nat
  BY DEF IInv, TypeOK
<1>3. GenerationsPast'
  BY <1>1, <1>2 DEF IInv, GenerationsPast
<1>4. SleeperInProgress'
  <2>1. \A p \in Promises : inits[p].generation # initializationGeneration'
    BY <1>1, <1>2 DEF IInv, GenerationsPast
  <2> QED BY <2>1 DEF SleeperInProgress
<1>5. StuckIsForgotten'
  BY <1>1, NoneAssumption DEF StuckIsForgotten
<1> QED BY <1>1, <1>3, <1>4, <1>5

LEMMA CloseIInv == IInv /\ closePushDatabase => IInv'
<1> SUFFICES ASSUME IInv, closePushDatabase PROVE IInv'
  OBVIOUS
<1>1. CloseDatabase /\ inits' = inits
  BY DEF closePushDatabase
<1>2. TypeOK'
  BY <1>1, NewGeneration
  DEF IInv, TypeOK, closePushDatabase, CloseDatabase
<1>3. ConnectionIsCurrent'
  BY DEF closePushDatabase, ConnectionIsCurrent
<1> QED BY <1>1, <1>2, <1>3, NewGeneration DEF IInv

LEMMA ConfigureIInv ==
    ASSUME NEW path \in Paths, IInv, configurePushDatabase(path) PROVE IInv'
<1>1. CASE CloseDatabase /\ db' = None /\ pushDbReady' = FALSE
           /\ pushDbPath' = path /\ UNCHANGED <<disk, inits, waitsFor>>
  <2>1. TypeOK'
    BY <1>1, NewGeneration DEF IInv, TypeOK, CloseDatabase
  <2>2. ConnectionIsCurrent'
    BY <1>1 DEF ConnectionIsCurrent
  <2> QED BY <1>1, <2>1, <2>2, NewGeneration DEF IInv
<1>2. CASE /\ pushDbPath \in {None, path} /\ pushDbPath' = path
           /\ UNCHANGED <<disk, db, pushDbReady, initPromise,
                          initPromiseGeneration, initializationGeneration,
                          inits, waitsFor>>
  <2>1. TypeOK'
    BY <1>2 DEF IInv, TypeOK
  <2>2. ConnectionIsCurrent'
    BY <1>2, NoneAssumption DEF IInv, TypeOK, ConnectionIsCurrent
  <2> QED BY <1>2, <2>1, <2>2
          DEF IInv, GenerationsPast, SleeperInProgress, StuckIsForgotten,
              InProgress
<1> QED BY <1>1, <1>2 DEF configurePushDatabase

LEMMA InitPushIInv ==
    ASSUME NEW path \in Paths, IInv, initPushDatabase(path) PROVE IInv'
<1>1. CloseDatabase /\ inits' = inits
  BY DEF initPushDatabase
<1>2. TypeOK'
  BY <1>1, NewGeneration DEF IInv, TypeOK, initPushDatabase, CloseDatabase
<1>3. ConnectionIsCurrent'
  BY NoneAssumption DEF initPushDatabase, ConnectionIsCurrent
<1> QED BY <1>1, <1>2, <1>3, NewGeneration DEF IInv

-----------------------------------------------------------------------------
(* An operation starts an initialization: as none was in progress, none of *)
(* the present generation sleeps but the new one.                          *)
LEMMA StartIInv ==
    ASSUME NEW c \in Callers, NEW p \in Promises, IInv, StartInit(c, p)
    PROVE  IInv'
<1>1. /\ initPromise' = p /\ p # None
      /\ initPromiseGeneration' = initializationGeneration
      /\ initializationGeneration' = initializationGeneration
      /\ initializationGeneration \in Nat
      /\ pushDbPath' = pushDbPath /\ disk' = disk
      /\ inits[p].phase = "settled"
      /\ waitsFor' = [waitsFor EXCEPT ![c] = p]
  BY NoneAssumption DEF StartInit, Unused, IInv, TypeOK
<1>2. inits \in [Promises -> InitRecord]
  BY DEF IInv, TypeOK, InitRecord
<1>3. \/ inits' = inits
      \/ inits' = [inits EXCEPT ![p] =
            [phase |-> "asleep", generation |-> initializationGeneration]]
  BY DEF StartInit, Attempt
<1>4. \A q \in Promises :
          /\ inits[q].phase = "asleep"
          => inits[q].generation # initializationGeneration
  BY DEF IInv, SleeperInProgress, StartInit
<1>5. inits' \in [Promises -> InitRecord]
  <2>1. [phase |-> "asleep", generation |-> initializationGeneration]
            \in InitRecord
    BY <1>1 DEF InitRecord
  <2> QED BY <1>2, <1>3, <2>1
<1>6. db' \in Paths \cup {None} /\ pushDbReady' \in BOOLEAN
  BY DEF StartInit, Attempt, IInv, TypeOK
<1>7. TypeOK'
  BY <1>1, <1>5, <1>6 DEF IInv, TypeOK, InitRecord
<1>8. \A q \in Promises : q # p => inits'[q] = inits[q]
  BY <1>2, <1>3
<1>9. inits'[p] \in {inits[p], [phase |-> "asleep",
                                generation |-> initializationGeneration]}
  BY <1>2, <1>3
<1>10. GenerationsPast'
  BY <1>1, <1>8, <1>9 DEF IInv, GenerationsPast
<1>11. ConnectionIsCurrent'
  BY <1>1, NoneAssumption
  DEF IInv, TypeOK, ConnectionIsCurrent, StartInit, Attempt
<1>12. SleeperInProgress'
  BY <1>1, <1>4, <1>8 DEF SleeperInProgress, InProgress
<1>13. StuckIsForgotten'
  BY <1>1, <1>8, <1>9 DEF StuckIsForgotten
<1> QED BY <1>7, <1>10, <1>11, <1>12, <1>13 DEF IInv

(* A sleeper wakes: if it is of the present generation it is the published *)
(* promise, which is forgotten as it gets stuck.                           *)
LEMMA WakeIInv == ASSUME NEW p \in Promises, IInv, Wake(p) PROVE IInv'
<1>1. /\ inits \in [Promises -> InitRecord]
      /\ inits[p].phase = "asleep"
      /\ inits' = [inits EXCEPT ![p] = Woken(inits[p])]
      /\ initializationGeneration' = initializationGeneration
      /\ initializationGeneration \in Nat
  BY DEF IInv, TypeOK, Wake, InitRecord
<1>2. inits[p] \in InitRecord /\ inits'[p] = Woken(inits[p])
  BY <1>1
<1>3. inits' \in [Promises -> InitRecord]
  BY <1>1, <1>2, WokenType
<1>4. \A q \in Promises : q # p => inits'[q] = inits[q]
  BY <1>1
<1>5. \/ initPromise' = None /\ initPromiseGeneration' = None
      \/ UNCHANGED <<initPromise, initPromiseGeneration>>
  BY DEF Wake
<1>6. TypeOK'
  BY <1>1, <1>3, <1>5 DEF IInv, TypeOK, Wake, InitRecord
<1>7. GenerationsPast'
  <2>1. inits'[p].generation \in {0, inits[p].generation}
    BY <1>2, WokenType
  <2> QED BY <1>1, <1>4, <2>1 DEF IInv, GenerationsPast
<1>8. ConnectionIsCurrent'
  BY DEF IInv, Wake, ConnectionIsCurrent
<1>9. inits[p].generation = initializationGeneration =>
          InProgress /\ initPromise = p
  BY <1>1 DEF IInv, SleeperInProgress
<1>10. SleeperInProgress'
  <2> SUFFICES ASSUME NEW q \in Promises, inits'[q].phase = "asleep",
                      inits'[q].generation = initializationGeneration
               PROVE  InProgress' /\ initPromise' = q
    BY <1>1 DEF SleeperInProgress
  <2>1. q # p
    BY <1>2, WokenType
  <2>2. InProgress /\ initPromise = q
    BY <1>4, <2>1 DEF IInv, SleeperInProgress
  <2>3. initPromiseGeneration # inits[p].generation
    BY <1>9, <2>1, <2>2 DEF InProgress
  <2> QED BY <2>2, <2>3 DEF Wake, InProgress
<1>11. StuckIsForgotten'
  <2> SUFFICES ASSUME NEW q \in Promises, inits'[q].phase = "stuck"
               PROVE  initPromise' # q
    BY DEF StuckIsForgotten
  <2>1. q # None
    BY NoneAssumption
  <2>2. CASE q = p
    <3>1. inits[p].generation = initializationGeneration
      BY <1>2, <2>2, WokenType
    <3>2. initPromiseGeneration = inits[p].generation
      BY <1>9, <3>1 DEF InProgress
    <3> QED BY <2>1, <3>2 DEF Wake
  <2>3. CASE q # p
    <3>1. initPromise # q
      BY <1>4, <2>3 DEF IInv, StuckIsForgotten
    <3> QED BY <1>5, <2>1, <3>1
  <2> QED BY <2>2, <2>3
<1> QED BY <1>6, <1>7, <1>8, <1>10, <1>11 DEF IInv

-----------------------------------------------------------------------------
(* The remaining steps touch the file system or one operation only.        *)
LEMMA DiskIInv == IInv /\ DiskChanges => IInv'
  BY DEF IInv, DiskChanges, TypeOK, GenerationsPast, ConnectionIsCurrent,
         SleeperInProgress, StuckIsForgotten, InProgress

LEMMA JoinIInv == ASSUME NEW c \in Callers, IInv, JoinInit(c) PROVE IInv'
<1>1. TypeOK'
  BY DEF IInv, TypeOK, JoinInit
<1> QED BY <1>1 DEF IInv, JoinInit, GenerationsPast, ConnectionIsCurrent,
                   SleeperInProgress, StuckIsForgotten, InProgress

LEMMA ResumeIInv == ASSUME NEW c \in Callers, IInv, Resume(c) PROVE IInv'
<1>1. TypeOK'
  BY DEF IInv, TypeOK, Resume
<1> QED BY <1>1 DEF IInv, Resume, GenerationsPast, ConnectionIsCurrent,
                   SleeperInProgress, StuckIsForgotten, InProgress

LEMMA StutterIInv == IInv /\ UNCHANGED vars => IInv'
  BY DEF IInv, vars, TypeOK, GenerationsPast, ConnectionIsCurrent,
         SleeperInProgress, StuckIsForgotten, InProgress

LEMMA StepIInv == IInv /\ [Next]_vars => IInv'
<1> SUFFICES ASSUME IInv, [Next]_vars PROVE IInv'
  OBVIOUS
<1>1. CASE DiskChanges
  BY <1>1, DiskIInv
<1>2. CASE closePushDatabase
  BY <1>2, CloseIInv
<1>3. ASSUME NEW path \in Paths, configurePushDatabase(path) PROVE IInv'
  BY <1>3, ConfigureIInv
<1>4. ASSUME NEW path \in Paths, initPushDatabase(path) PROVE IInv'
  BY <1>4, InitPushIInv
<1>5. ASSUME NEW c \in Callers, JoinInit(c) PROVE IInv'
  BY <1>5, JoinIInv
<1>6. ASSUME NEW c \in Callers, Resume(c) PROVE IInv'
  BY <1>6, ResumeIInv
<1>7. ASSUME NEW c \in Callers, NEW p \in Promises, StartInit(c, p)
      PROVE  IInv'
  BY <1>7, StartIInv
<1>8. ASSUME NEW p \in Promises, Wake(p) PROVE IInv'
  BY <1>8, WakeIInv
<1>9. CASE UNCHANGED vars
  BY <1>9, StutterIInv
<1> QED BY <1>1, <1>2, <1>3, <1>4, <1>5, <1>6, <1>7, <1>8, <1>9 DEF Next

-----------------------------------------------------------------------------
(* The inductive invariant holds in every reachable state.                 *)
THEOREM Invariance == Spec => []IInv
  BY InitIInv, StepIInv, PTL DEF Spec

(* Every variable keeps its type. *)
THEOREM TypeCorrect == Spec => []TypeOK
<1>1. IInv => TypeOK
  BY DEF IInv
<1> QED BY <1>1, Invariance, PTL

(* The open connection is always one to the configured path.               *)
THEOREM ConnectionFollowsPath == Spec => []ConnectionIsCurrent
<1>1. IInv => ConnectionIsCurrent
  BY DEF IInv
<1> QED BY <1>1, Invariance, PTL

(* Concurrent operations share one initialization per generation.          *)
THEOREM OneSleeper == Spec => []SleeperInProgress
<1>1. IInv => SleeperInProgress
  BY DEF IInv
<1> QED BY <1>1, Invariance, PTL

(* A promise that can never settle is not handed to another operation.     *)
THEOREM StuckNotContagious == Spec => []StuckIsForgotten
<1>1. IInv => StuckIsForgotten
  BY DEF IInv
<1> QED BY <1>1, Invariance, PTL

=============================================================================
