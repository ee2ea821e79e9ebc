--------------------------- MODULE StatefulClient ---------------------------
(***************************************************************************)
(* The client through which the stateless core calls the stateful          *)
(* subsystem (packages/server/src/services/stateful-client.ts): a circuit  *)
(* breaker whose half-open state admits one probe.                         *)
(*                                                                         *)
(* Calls run concurrently.  A call is a request until the response headers *)
(* arrive, and then reads its body.  A call that is rejected at once by    *)
(* the open circuit changes nothing and is no step of this module.         *)
(***************************************************************************)
EXTENDS Integers, FiniteSets

CONSTANTS
    Calls,      \* calls in flight at the same time
    OpenAfter,  \* CIRCUIT_OPEN_AFTER
    ResetTime,  \* CIRCUIT_RESET_MS, in ticks
    Timeout,    \* TIMEOUT_MS, in ticks
    MaxTime     \* the clock stops here (bound of the model)

ASSUME ClientAssumption ==
    /\ OpenAfter \in Nat \ {0} /\ ResetTime \in Nat \ {0}
    /\ Timeout \in Nat \ {0} /\ MaxTime \in Nat

VARIABLES
    clientNow,                   \* Date.clientNow()
    circuitOpenAt,         \* fields of circuitState
    consecutiveFailures,
    halfOpenProbeInFlight,
    calls                  \* the callStatefulService calls in flight

clientVars == <<clientNow, circuitOpenAt, consecutiveFailures, halfOpenProbeInFlight, calls>>

NotOpen == -1

NoCall == [phase |-> "none", probe |-> FALSE, startedAt |-> 0]
InFlight == {c \in Calls : calls[c].phase # "none"}
Probes == {c \in InFlight : calls[c].probe}

ClientTypeOK ==
    /\ clientNow \in Nat
    /\ circuitOpenAt \in Nat \cup {NotOpen}
    /\ consecutiveFailures \in Nat
    /\ halfOpenProbeInFlight \in BOOLEAN
    /\ calls \in [Calls -> [phase : {"none", "request", "body"},
                            probe : BOOLEAN, startedAt : Nat]]

ClientInit ==
    /\ clientNow = 0
    /\ circuitOpenAt = NotOpen
    /\ consecutiveFailures = 0
    /\ halfOpenProbeInFlight = FALSE
    /\ calls = [c \in Calls |-> NoCall]

-----------------------------------------------------------------------------
isCircuitOpen == circuitOpenAt # NotOpen
isHalfOpen == isCircuitOpen /\ clientNow - circuitOpenAt >= ResetTime

recordSuccess ==
    /\ circuitOpenAt' = NotOpen
    /\ consecutiveFailures' = 0

(* Mutant of recordFailure: a failed probe does not re-arm the window.     *)
MutRecordFailure ==
    /\ consecutiveFailures' = consecutiveFailures + 1
    /\ circuitOpenAt' = IF ~isCircuitOpen /\ consecutiveFailures + 1 >= OpenAfter
                        THEN clientNow ELSE circuitOpenAt

(* A failure opens the circuit at the threshold, and re-arms the window of *)
(* a circuit that is open already.                                         *)
recordFailure ==
    /\ consecutiveFailures' = consecutiveFailures + 1
    /\ circuitOpenAt' = IF isCircuitOpen \/ consecutiveFailures + 1 >= OpenAfter
                        THEN clientNow ELSE circuitOpenAt

(* callStatefulService up to the fetch: the circuit is closed, or half-open *)
(* with its probe slot free.                                               *)
Call(c) ==
    /\ calls[c].phase = "none"
    /\ isCircuitOpen => isHalfOpen /\ ~halfOpenProbeInFlight
    /\ halfOpenProbeInFlight' = (halfOpenProbeInFlight \/ isCircuitOpen)
    /\ calls' = [calls EXCEPT ![c] =
          [phase |-> "request", probe |-> isCircuitOpen, startedAt |-> clientNow]]
    /\ UNCHANGED <<clientNow, circuitOpenAt, consecutiveFailures>>

(* A response that is ok arrives; the timeout is cleared before its body   *)
(* is read.                                                                *)
Respond(c) ==
    /\ calls[c].phase = "request"
    /\ calls' = [calls EXCEPT ![c].phase = "body"]
    /\ UNCHANGED <<clientNow, circuitOpenAt, consecutiveFailures,
                   halfOpenProbeInFlight>>

(* Mutant of Settle: the slot is released by the probe's success only.     *)
MutSettle(c) ==
    /\ halfOpenProbeInFlight' = (halfOpenProbeInFlight /\ circuitOpenAt' # NotOpen)
    /\ calls' = [calls EXCEPT ![c] = NoCall]
    /\ UNCHANGED clientNow

(* The finally block of callStatefulService: any call that settles, probe  *)
(* or not, releases the probe slot.                                        *)
Settle(c) ==
    /\ halfOpenProbeInFlight' = FALSE
    /\ calls' = [calls EXCEPT ![c] = NoCall]
    /\ UNCHANGED clientNow

Succeed(c) ==
    /\ calls[c].phase = "body"
    /\ recordSuccess
    /\ Settle(c)

(* A network error, the timeout, a response that is not ok, or a body that *)
(* cannot be read or parsed: counted once each.                            *)
Fail(c) ==
    /\ calls[c].phase \in {"request", "body"}
    /\ recordFailure
    /\ Settle(c)

(* The clock does not pass the timeout of a request, which aborts it.      *)
ClientTick ==
    /\ clientNow < MaxTime
    /\ \A c \in Calls :
          calls[c].phase = "request" => clientNow < calls[c].startedAt + Timeout
    /\ clientNow' = clientNow + 1
    /\ UNCHANGED <<circuitOpenAt, consecutiveFailures, halfOpenProbeInFlight,
                   calls>>

ClientNext ==
    \/ ClientTick
    \/ \E c \in Calls : Call(c) \/ Respond(c) \/ Succeed(c) \/ Fail(c)

ClientSpec == ClientInit /\ [][ClientNext]_clientVars

-----------------------------------------------------------------------------
(* Properties *)

(* The circuit is open exactly while the run of failures has reached the   *)
(* threshold, whichever calls, probes or not, report in which order.       *)
OpenMatchesFailures == isCircuitOpen <=> consecutiveFailures >= OpenAfter

(* The probe slot is never leaked: while it is taken a probe is in flight  *)
(* and the circuit is open, so that the circuit cannot reject every call   *)
(* for ever with nobody probing.                                           *)
SlotHasProbe == halfOpenProbeInFlight => isCircuitOpen /\ Probes # {}

(* A probe starts at least one reset window after every other probe still  *)
(* in flight: releasing the slot early does not let probes hammer the      *)
(* service, as whatever releases it also re-arms the window or closes it.  *)
ProbesSpaced ==
    [][\A p \in Probes' : \A q \in Probes :
          p \notin Probes => calls'[p].startedAt >= calls[q].startedAt + ResetTime]_clientVars
=============================================================================
