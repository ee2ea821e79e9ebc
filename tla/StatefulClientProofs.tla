------------------------ MODULE StatefulClientProofs ------------------------
(***************************************************************************)
(* Proofs about StatefulClient for any number of concurrent calls and any  *)
(* timing.                                                                 *)
(*                                                                         *)
(* The argument for the spacing of probes: the slot of a probe in flight   *)
(* is released only by a call that settles, and that call either closes    *)
(* the circuit or re-arms its window, so that a window that is running     *)
(* while the slot is free began after every probe in flight (WindowFresh). *)
(***************************************************************************)
EXTENDS StatefulClient, TLAPS

(* Nothing is stamped with a time to come. *)
CallStampsPast ==
    /\ circuitOpenAt <= clientNow
    /\ \A c \in Calls : calls[c].startedAt <= clientNow

(* While the slot is free, the open window is younger than every probe.    *)
WindowFresh ==
    isCircuitOpen /\ ~halfOpenProbeInFlight =>
        \A p \in Probes : calls[p].startedAt <= circuitOpenAt

ClientInv ==
    /\ ClientTypeOK
    /\ CallStampsPast
    /\ OpenMatchesFailures
    /\ SlotHasProbe
    /\ WindowFresh

CallRecord == [phase : {"none", "request", "body"}, probe : BOOLEAN,
               startedAt : Nat]

-----------------------------------------------------------------------------
LEMMA ThresholdPositive == OpenAfter \in Nat /\ OpenAfter > 0
  BY ClientAssumption DEF ClientAssumption

LEMMA ClientInitInv == ClientInit => ClientInv
<1> SUFFICES ASSUME ClientInit PROVE ClientInv
  OBVIOUS
<1>1. ClientTypeOK
  BY DEF ClientInit, ClientTypeOK, NoCall
<1>2. ~isCircuitOpen /\ Probes = {}
  BY DEF ClientInit, isCircuitOpen, Probes, InFlight, NoCall
<1>3. CallStampsPast
  BY DEF ClientInit, CallStampsPast, NoCall, NotOpen
<1>4. OpenMatchesFailures
  BY <1>2, ThresholdPositive DEF ClientInit, OpenMatchesFailures
<1>5. SlotHasProbe /\ WindowFresh
  BY <1>2 DEF ClientInit, SlotHasProbe, WindowFresh
<1> QED BY <1>1, <1>3, <1>4, <1>5 DEF ClientInv

(* The breaker after a call has settled: sound, and its window, if open,   *)
(* starts clientNow.                                                             *)
LEMMA SettledBreaker ==
    ASSUME ClientInv, recordSuccess \/ recordFailure
    PROVE  /\ circuitOpenAt' \in Nat \cup {NotOpen}
           /\ consecutiveFailures' \in Nat
           /\ circuitOpenAt' # NotOpen => circuitOpenAt' = clientNow
           /\ circuitOpenAt' # NotOpen <=> consecutiveFailures' >= OpenAfter
<1>1. /\ clientNow \in Nat /\ consecutiveFailures \in Nat
      /\ isCircuitOpen <=> consecutiveFailures >= OpenAfter
  BY DEF ClientInv, ClientTypeOK, OpenMatchesFailures
<1>2. CASE recordSuccess
  <2>1. circuitOpenAt' = NotOpen /\ consecutiveFailures' = 0
    BY <1>2 DEF recordSuccess
  <2> QED BY <2>1, ThresholdPositive
<1>3. CASE recordFailure
  <2>1. consecutiveFailures' = consecutiveFailures + 1
    BY <1>3 DEF recordFailure
  <2>2. CASE isCircuitOpen \/ consecutiveFailures + 1 >= OpenAfter
    <3>1. circuitOpenAt' = clientNow
      BY <1>3, <2>2 DEF recordFailure
    <3>2. consecutiveFailures' >= OpenAfter
      BY <1>1, <2>1, <2>2, ThresholdPositive
    <3> QED BY <1>1, <2>1, <3>1, <3>2 DEF NotOpen
  <2>3. CASE ~isCircuitOpen /\ ~(consecutiveFailures + 1 >= OpenAfter)
    <3>1. circuitOpenAt' = NotOpen
      BY <1>3, <2>3 DEF recordFailure, isCircuitOpen
    <3> QED BY <1>1, <2>1, <2>3, <3>1
  <2> QED BY <2>2, <2>3
<1> QED BY <1>2, <1>3

(* A call settles. *)
LEMMA SettleInv ==
    ASSUME NEW c \in Calls, ClientInv, recordSuccess \/ recordFailure, Settle(c)
    PROVE  ClientInv'
<1>1. /\ clientNow' = clientNow /\ clientNow \in Nat
      /\ halfOpenProbeInFlight' = FALSE
      /\ calls' = [calls EXCEPT ![c] = NoCall]
      /\ calls \in [Calls -> CallRecord]
  BY DEF Settle, ClientInv, ClientTypeOK, CallRecord
<1>2. NoCall \in CallRecord
  BY DEF NoCall, CallRecord
<1>3. \A d \in Calls : calls'[d] = IF d = c THEN NoCall ELSE calls[d]
  BY <1>1
<1>4. calls' \in [Calls -> CallRecord]
  BY <1>1, <1>2
<1>5. ClientTypeOK'
  BY <1>1, <1>4, SettledBreaker DEF ClientTypeOK, CallRecord
<1>6. \A d \in Calls : calls'[d].startedAt <= clientNow
  BY <1>1, <1>3 DEF ClientInv, CallStampsPast, NoCall
<1>7. CallStampsPast'
  BY <1>1, <1>6, SettledBreaker DEF CallStampsPast, NotOpen
<1>8. OpenMatchesFailures'
  BY SettledBreaker DEF OpenMatchesFailures, isCircuitOpen
<1>9. SlotHasProbe'
  BY <1>1 DEF SlotHasProbe
<1>10. WindowFresh'
  BY <1>1, <1>6, SettledBreaker
  DEF WindowFresh, isCircuitOpen, Probes, InFlight
<1> QED BY <1>5, <1>7, <1>8, <1>9, <1>10 DEF ClientInv

(* A call is admitted: if it is a probe it takes the slot. *)
LEMMA CallInv == ASSUME NEW c \in Calls, ClientInv, Call(c) PROVE ClientInv'
<1> DEFINE New == [phase |-> "request", probe |-> isCircuitOpen,
                   startedAt |-> clientNow]
<1>1. /\ clientNow' = clientNow /\ circuitOpenAt' = circuitOpenAt
      /\ consecutiveFailures' = consecutiveFailures
      /\ halfOpenProbeInFlight' = (halfOpenProbeInFlight \/ isCircuitOpen)
      /\ calls' = [calls EXCEPT ![c] = New]
  BY DEF Call
<1>2. calls \in [Calls -> CallRecord] /\ clientNow \in Nat
  BY DEF ClientInv, ClientTypeOK, CallRecord
<1>3. isCircuitOpen \in BOOLEAN
  BY DEF isCircuitOpen
<1>4. New \in CallRecord
  BY <1>2, <1>3 DEF CallRecord
<1>5. \A d \in Calls : calls'[d] = IF d = c THEN New ELSE calls[d]
  BY <1>1, <1>2
<1>6. calls' \in [Calls -> CallRecord]
  BY <1>1, <1>2, <1>4
<1>7. halfOpenProbeInFlight' \in BOOLEAN
  BY <1>1
<1>8. ClientTypeOK'
  BY <1>1, <1>6, <1>7 DEF ClientInv, ClientTypeOK, CallRecord
<1>9. CallStampsPast'
  BY <1>1, <1>2, <1>5 DEF ClientInv, CallStampsPast
<1>10. OpenMatchesFailures'
  BY <1>1 DEF ClientInv, OpenMatchesFailures, isCircuitOpen
<1>11. isCircuitOpen' <=> isCircuitOpen
  BY <1>1 DEF isCircuitOpen
<1>12. CASE isCircuitOpen
  <2>1. c \in Probes'
    BY <1>5, <1>12 DEF Probes, InFlight
  <2>2. halfOpenProbeInFlight'
    BY <1>1, <1>12
  <2> QED BY <2>1, <2>2, <1>8, <1>9, <1>10, <1>11, <1>12
          DEF ClientInv, SlotHasProbe, WindowFresh
<1>13. CASE ~isCircuitOpen
  <2>1. ~halfOpenProbeInFlight'
    BY <1>1, <1>13 DEF ClientInv, SlotHasProbe
  <2> QED BY <2>1, <1>8, <1>9, <1>10, <1>11, <1>13
          DEF ClientInv, SlotHasProbe, WindowFresh
<1> QED BY <1>12, <1>13

(* The headers of a response arrive: the same calls are in flight. *)
LEMMA RespondInv == ASSUME NEW c \in Calls, ClientInv, Respond(c) PROVE ClientInv'
<1>1. /\ clientNow' = clientNow /\ circuitOpenAt' = circuitOpenAt
      /\ consecutiveFailures' = consecutiveFailures
      /\ halfOpenProbeInFlight' = halfOpenProbeInFlight
      /\ calls' = [calls EXCEPT ![c].phase = "body"]
      /\ calls[c].phase = "request"
      /\ calls \in [Calls -> CallRecord]
  BY DEF Respond, ClientInv, ClientTypeOK, CallRecord
<1>2. calls' \in [Calls -> CallRecord]
  BY <1>1 DEF CallRecord
<1>3. /\ \A d \in Calls : /\ calls'[d].startedAt = calls[d].startedAt
                          /\ calls'[d].probe = calls[d].probe
                          /\ calls'[d].phase = "none" <=> calls[d].phase = "none"
  BY <1>1 DEF CallRecord
<1>4. Probes' = Probes
  BY <1>3 DEF Probes, InFlight
<1>5. ClientTypeOK'
  BY <1>1, <1>2 DEF ClientInv, ClientTypeOK, CallRecord
<1>6. CallStampsPast' /\ OpenMatchesFailures' /\ SlotHasProbe'
  BY <1>1, <1>3, <1>4
  DEF ClientInv, CallStampsPast, OpenMatchesFailures, SlotHasProbe, isCircuitOpen
<1>7. WindowFresh'
  <2>1. \A p \in Probes : p \in Calls
    BY DEF Probes, InFlight
  <2> QED BY <1>1, <1>3, <1>4, <2>1 DEF ClientInv, WindowFresh, isCircuitOpen
<1> QED BY <1>5, <1>6, <1>7 DEF ClientInv

LEMMA ClientTickInv == ClientInv /\ ClientTick => ClientInv'
<1> SUFFICES ASSUME ClientInv, ClientTick PROVE ClientInv'
  OBVIOUS
<1>1. /\ clientNow' = clientNow + 1 /\ clientNow \in Nat
      /\ circuitOpenAt' = circuitOpenAt /\ circuitOpenAt \in Int
      /\ consecutiveFailures' = consecutiveFailures
      /\ halfOpenProbeInFlight' = halfOpenProbeInFlight /\ calls' = calls
      /\ \A c \in Calls : calls[c].startedAt \in Nat
  BY DEF ClientTick, ClientInv, ClientTypeOK, NotOpen
<1>2. ClientTypeOK' /\ CallStampsPast'
  BY <1>1 DEF ClientInv, ClientTypeOK, CallStampsPast
<1> QED BY <1>1, <1>2
        DEF ClientInv, OpenMatchesFailures, SlotHasProbe, WindowFresh,
            isCircuitOpen, Probes, InFlight

LEMMA ClientStutterInv == ClientInv /\ UNCHANGED clientVars => ClientInv'
  BY DEF ClientInv, clientVars, ClientTypeOK, CallStampsPast, OpenMatchesFailures, SlotHasProbe,
         WindowFresh, isCircuitOpen, Probes, InFlight

LEMMA ClientStepInv == ClientInv /\ [ClientNext]_clientVars => ClientInv'
<1> SUFFICES ASSUME ClientInv, [ClientNext]_clientVars PROVE ClientInv'
  OBVIOUS
<1>1. CASE ClientTick
  BY <1>1, ClientTickInv
<1>2. ASSUME NEW c \in Calls, Call(c) PROVE ClientInv'
  BY <1>2, CallInv
<1>3. ASSUME NEW c \in Calls, Respond(c) PROVE ClientInv'
  BY <1>3, RespondInv
<1>4. ASSUME NEW c \in Calls, Succeed(c) PROVE ClientInv'
  BY <1>4, SettleInv DEF Succeed
<1>5. ASSUME NEW c \in Calls, Fail(c) PROVE ClientInv'
  BY <1>5, SettleInv DEF Fail
<1>6. CASE UNCHANGED clientVars
  BY <1>6, ClientStutterInv
<1> QED BY <1>1, <1>2, <1>3, <1>4, <1>5, <1>6 DEF ClientNext

-----------------------------------------------------------------------------
(* The inductive invariant holds in every reachable state.                 *)
THEOREM ClientInvariance == ClientSpec => []ClientInv
  BY ClientInitInv, ClientStepInv, PTL DEF ClientSpec

(* Every variable keeps its type. *)
THEOREM ClientTypeCorrect == ClientSpec => []ClientTypeOK
<1>1. ClientInv => ClientTypeOK
  BY DEF ClientInv
<1> QED BY <1>1, ClientInvariance, PTL

(* The circuit is open exactly while the run of failures has reached the   *)
(* threshold.                                                              *)
THEOREM ClientBreakerSound == ClientSpec => []OpenMatchesFailures
<1>1. ClientInv => OpenMatchesFailures
  BY DEF ClientInv
<1> QED BY <1>1, ClientInvariance, PTL

(* The probe slot is never taken without a probe in flight.                *)
THEOREM SlotNeverLeaks == ClientSpec => []SlotHasProbe
<1>1. ClientInv => SlotHasProbe
  BY DEF ClientInv
<1> QED BY <1>1, ClientInvariance, PTL

-----------------------------------------------------------------------------
(* Whether a call in flight is a probe is decided when it is admitted.     *)
LEMMA NewProbe ==
    ASSUME ClientInv, [ClientNext]_clientVars, NEW p \in Probes', p \notin Probes
    PROVE  Call(p) /\ isCircuitOpen /\ p \in Calls
<1>1. p \in Calls /\ calls'[p].phase # "none" /\ calls'[p].probe
  BY DEF Probes, InFlight
<1>2. calls \in [Calls -> CallRecord]
  BY DEF ClientInv, ClientTypeOK, CallRecord
<1>3. CASE UNCHANGED calls
  BY <1>3 DEF Probes, InFlight
<1>4. ASSUME NEW c \in Calls, Call(c) PROVE Call(p) /\ isCircuitOpen
  BY <1>1, <1>2, <1>4 DEF Call, Probes, InFlight
<1>5. ASSUME NEW c \in Calls, Respond(c) PROVE FALSE
  <2>1. calls'[p].probe = calls[p].probe /\ calls[p].phase # "none"
    BY <1>1, <1>2, <1>5 DEF Respond, CallRecord
  <2> QED BY <1>1, <2>1 DEF Probes, InFlight
<1>6. ASSUME NEW c \in Calls, Settle(c) PROVE FALSE
  <2>1. calls'[p] = calls[p]
    BY <1>1, <1>2, <1>6 DEF Settle, NoCall
  <2> QED BY <1>1, <2>1 DEF Probes, InFlight
<1> QED BY <1>1, <1>3, <1>4, <1>5, <1>6
        DEF ClientNext, ClientTick, Succeed, Fail, clientVars

(* Any two probes in flight at once started a reset window apart.          *)
THEOREM ProbesKeepDistance == ClientSpec => ProbesSpaced
<1>1. ClientInv /\ [ClientNext]_clientVars =>
        [\A p \in Probes' : \A q \in Probes :
            p \notin Probes =>
              calls'[p].startedAt >= calls[q].startedAt + ResetTime]_clientVars
  <2> SUFFICES ASSUME ClientInv, [ClientNext]_clientVars, NEW p \in Probes', NEW q \in Probes,
                      p \notin Probes
               PROVE  calls'[p].startedAt >= calls[q].startedAt + ResetTime
    OBVIOUS
  <2>1. Call(p) /\ isCircuitOpen /\ p \in Calls
    BY NewProbe
  <2>2. /\ q \in Calls /\ calls[q].startedAt \in Nat
        /\ circuitOpenAt \in Int /\ clientNow \in Nat /\ ResetTime \in Nat
    BY ClientAssumption
    DEF Probes, InFlight, ClientInv, ClientTypeOK, NotOpen, ClientAssumption
  <2>3. calls[q].startedAt <= circuitOpenAt
    BY <2>1 DEF ClientInv, WindowFresh, Call
  <2>4. clientNow - circuitOpenAt >= ResetTime
    BY <2>1 DEF Call, isHalfOpen
  <2>5. calls'[p].startedAt = clientNow
    BY <2>1 DEF Call, ClientInv, ClientTypeOK
  <2> QED BY <2>2, <2>3, <2>4, <2>5
<1> QED BY <1>1, ClientInvariance, PTL DEF ClientSpec, ProbesSpaced

=============================================================================
