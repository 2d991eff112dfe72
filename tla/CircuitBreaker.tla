--------------------------- MODULE CircuitBreaker ---------------------------
(***************************************************************************)
(* core/circuit_breaker.py: the breaker every MCP bridge call goes through. *)
(*                                                                         *)
(* The service is one asyncio process.  The breaker's lock is never held   *)
(* across a suspension point, so each of its methods runs without being    *)
(* interleaved: a call is one atomic admission (`call` up to the await of  *)
(* fn) and one atomic completion (the return of fn together with           *)
(* _on_success or _on_failure).  Between the two, any number of other      *)
(* calls may be admitted, may finish, and may move the breaker.            *)
(***************************************************************************)
EXTENDS Naturals

CONSTANTS
  Callers,            \* the tasks that call through the breaker
  FailureThreshold,   \* failure_threshold
  RecoveryTimeout,    \* recovery_timeout_seconds, in ticks
  SuccessThreshold    \* success_threshold_in_half_open

\* 0 would be accepted by the constructor, but no configuration uses it.
ASSUME CBAssumption ==
  /\ FailureThreshold \in Nat \ {0}
  /\ RecoveryTimeout \in Nat
  /\ SuccessThreshold \in Nat \ {0}

VARIABLES
  state,           \* _state
  failure_count,   \* _failure_count
  success_count,   \* _success_count_in_half_open
  age,             \* time since _last_failure_time, up to RecoveryTimeout
  call             \* per caller: "idle", or the state its call was admitted in

breakerVars == <<state, failure_count, success_count, age>>
vars == <<state, failure_count, success_count, age, call>>

CircuitState == {"CLOSED", "OPEN", "HALF_OPEN"}

\* The clock starts far past any recovery timeout (_last_failure_time = 0.0).
Init ==
  /\ state = "CLOSED"
  /\ failure_count = 0
  /\ success_count = 0
  /\ age = RecoveryTimeout
  /\ call = [c \in Callers |-> "idle"]

-----------------------------------------------------------------------------
(* Plausible bugs, each used as a mutant of the definition that follows.   *)

OnSuccessClears ==
  /\ \/ /\ state = "HALF_OPEN"
        /\ success_count' = success_count + 1
        /\ IF success_count' >= SuccessThreshold
             THEN state' = "CLOSED" /\ failure_count' = 0
             ELSE UNCHANGED <<state, failure_count>>
     \/ /\ state = "CLOSED"
        /\ failure_count' = 0
        /\ UNCHANGED <<state, success_count>>
     \/ /\ state = "OPEN"
        /\ UNCHANGED <<state, failure_count, success_count>>
  /\ UNCHANGED age

OnFailureStrict ==
  /\ failure_count' = failure_count + 1
  /\ state' = IF failure_count' > FailureThreshold THEN "OPEN" ELSE state
  /\ age' = 0
  /\ UNCHANGED success_count

OnFailureKeepsFirstTime ==
  /\ failure_count' = failure_count + 1
  /\ age' = IF state = "CLOSED" THEN 0 ELSE age
  /\ state' = IF failure_count' >= FailureThreshold THEN "OPEN" ELSE state
  /\ UNCHANGED success_count

FastFailRestartsClock(c) ==
  /\ call[c] = "idle"
  /\ state = "OPEN" /\ age < RecoveryTimeout
  /\ age' = 0
  /\ UNCHANGED <<state, failure_count, success_count, call>>

HalfOpenForgetsReset ==
  /\ state = "OPEN" /\ age >= RecoveryTimeout
  /\ state' = "HALF_OPEN"
  /\ UNCHANGED <<failure_count, success_count, age>>

HalfOpenClearsFailures ==
  /\ state = "OPEN" /\ age >= RecoveryTimeout
  /\ state' = "HALF_OPEN"
  /\ success_count' = 0
  /\ failure_count' = 0
  /\ UNCHANGED age

-----------------------------------------------------------------------------
(* _on_success: probes are counted while HALF_OPEN, failures decay by one  *)
(* while CLOSED, and a late success in OPEN changes nothing.               *)
OnSuccess ==
  /\ \/ /\ state = "HALF_OPEN"
        /\ success_count' = success_count + 1
        /\ IF success_count' >= SuccessThreshold
             THEN state' = "CLOSED" /\ failure_count' = 0
             ELSE UNCHANGED <<state, failure_count>>
     \/ /\ state = "CLOSED"
        /\ failure_count' = IF failure_count > 0 THEN failure_count - 1 ELSE 0
        /\ UNCHANGED <<state, success_count>>
     \/ /\ state = "OPEN"
        /\ UNCHANGED <<state, failure_count, success_count>>
  /\ UNCHANGED age

(* _on_failure: counted, and dated, whatever the state.                    *)
OnFailure ==
  /\ failure_count' = failure_count + 1
  /\ age' = 0
  /\ state' = IF failure_count' >= FailureThreshold THEN "OPEN" ELSE state
  /\ UNCHANGED success_count

(* _maybe_transition_to_half_open, when it makes the transition.           *)
ToHalfOpen ==
  /\ state = "OPEN" /\ age >= RecoveryTimeout
  /\ state' = "HALF_OPEN"
  /\ success_count' = 0
  /\ UNCHANGED <<failure_count, age>>

(* call, refused: MCPCircuitOpenError is raised before the try block, so   *)
(* the breaker does not count it.                                          *)
FastFail(c) ==
  /\ call[c] = "idle"
  /\ state = "OPEN" /\ age < RecoveryTimeout
  /\ UNCHANGED vars

(* call, admitted: up to the await of fn.                                  *)
Admit(c) ==
  /\ call[c] = "idle"
  /\ \/ ToHalfOpen
     \/ state # "OPEN" /\ UNCHANGED breakerVars
  /\ call' = [call EXCEPT ![c] = state']

Finish(c) ==
  /\ call[c] # "idle"
  /\ call' = [call EXCEPT ![c] = "idle"]

(* fn returns. *)
ReturnOk(c) == Finish(c) /\ OnSuccess

(* fn raises an MCPError: timeout, disconnect or RPC error. *)
ReturnMcpError(c) == Finish(c) /\ OnFailure

(* fn raises anything else (HTTPStatusError on a 4xx or 5xx, a body that   *)
(* is not JSON, cancellation): neither branch of `call` records it.        *)
ReturnOtherError(c) == Finish(c) /\ UNCHANGED breakerVars

(* reset: _last_failure_time is left alone. *)
Reset ==
  /\ state' = "CLOSED"
  /\ failure_count' = 0
  /\ success_count' = 0
  /\ UNCHANGED <<age, call>>

(* time.monotonic() advances. *)
Tick ==
  /\ age < RecoveryTimeout
  /\ age' = age + 1
  /\ UNCHANGED <<state, failure_count, success_count, call>>

Return(c) == ReturnOk(c) \/ ReturnMcpError(c) \/ ReturnOtherError(c)

Next ==
  \/ Tick
  \/ Reset
  \/ \E c \in Callers : FastFail(c) \/ Admit(c) \/ Return(c)

Spec == Init /\ [][Next]_vars

-----------------------------------------------------------------------------
(* Every breaker field and call slot has a value the code can give it.     *)
TypeOK ==
  /\ state \in CircuitState
  /\ failure_count \in Nat
  /\ success_count \in 0 .. SuccessThreshold
  /\ age \in 0 .. RecoveryTimeout
  /\ call \in [Callers -> {"idle", "CLOSED", "HALF_OPEN"}]

(* The failure counter and the state agree: the breaker is CLOSED exactly  *)
(* while the count is below the threshold.  It must survive the decay, the *)
(* late results of calls admitted in another state, and an admin reset     *)
(* with calls in flight; and it is what makes one failed probe enough to   *)
(* re-open.                                                                *)
ThresholdInv == state = "CLOSED" <=> failure_count < FailureThreshold

(* While probing, fewer successes than needed have been counted: every     *)
(* HALF_OPEN episode counts its own, none is left from an earlier one.     *)
ProbeInv == state = "HALF_OPEN" => success_count < SuccessThreshold

(* An MCPError recorded while HALF_OPEN re-opens the breaker and restarts  *)
(* the recovery timeout, whichever call it belongs to.                     *)
FailedProbeReopens ==
  [][state = "HALF_OPEN" /\ failure_count' > failure_count
       => state' = "OPEN" /\ age' = 0]_vars

(* The breaker leaves OPEN only for HALF_OPEN after a full quiet           *)
(* RecoveryTimeout, or by reset.  Every opening starts that timeout, and   *)
(* so does every failure counted, those that come late while it is OPEN    *)
(* included: no call is admitted sooner after the last of them.            *)
OutageLasts ==
  [][/\ state # "OPEN" /\ state' = "OPEN" => age' = 0
     /\ failure_count' > failure_count => age' = 0
     /\ state = "OPEN" /\ state' # "OPEN" =>
          (state' = "HALF_OPEN" /\ age = RecoveryTimeout) \/ failure_count' = 0]_vars

Contract == INSTANCE BreakerContract WITH
  Outage <- RecoveryTimeout,
  Confirm <- SuccessThreshold,
  phase <- state,
  wait <- IF state = "OPEN" THEN RecoveryTimeout - age ELSE 0,
  needed <- IF state = "HALF_OPEN" THEN SuccessThreshold - success_count ELSE 0

(* The breaker implements its contract: the counters, the decay and the    *)
(* late results of calls from an earlier phase are invisible to a caller.  *)
KeepsContract == Contract!Spec

=============================================================================
