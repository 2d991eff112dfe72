-------------------------- MODULE MCCircuitBreaker --------------------------
(***************************************************************************)
(* Model checking of the circuit breaker: a bound on the failure counter,  *)
(* the fairness of the process, and a window of the outcomes recorded.     *)
(***************************************************************************)
EXTENDS CircuitBreaker, Integers, Sequences, FiniteSets

CONSTANTS
  MaxFailureCount,   \* bound on failure_count
  MaxWindow          \* bound on the outcomes remembered

ASSUME MCCBAssumption == MaxFailureCount \in Nat /\ MaxWindow \in Nat \ {0}

VARIABLE window   \* ghost: the last outcomes recorded since the circuit closed

MCInit == Init /\ window = <<>>

Latest(s) == IF Len(s) > MaxWindow THEN Tail(s) ELSE s

(* An outcome is remembered when it is recorded in CLOSED; the window is   *)
(* kept through an outage and begins afresh when that is over.             *)
Remember(outcome) ==
  window' = IF state = "CLOSED" THEN Latest(Append(window, outcome))
            ELSE IF state' = "CLOSED" THEN <<>>
            ELSE window

BoundedMcpError(c) == failure_count < MaxFailureCount /\ ReturnMcpError(c)

MCNext ==
  \/ Tick /\ UNCHANGED window
  \/ Reset /\ window' = <<>>
  \/ \E c \in Callers :
       \/ FastFail(c) /\ UNCHANGED window
       \/ Admit(c) /\ UNCHANGED window
       \/ ReturnOk(c) /\ Remember("success")
       \/ BoundedMcpError(c) /\ Remember("failure")
       \/ ReturnOtherError(c) /\ UNCHANGED window

mcVars == <<vars, window>>

(* Time passes, and a call in flight ends: httpx gives every request a     *)
(* timeout.  Nothing is assumed of new calls or of resets.                 *)
MCSpec ==
  /\ MCInit /\ [][MCNext]_mcVars
  /\ WF_vars(Tick)
  /\ \A c \in Callers : WF_vars(Return(c))

(* An outage always becomes probeable: late failures of calls admitted     *)
(* before it can restart the timeout, but refused calls never do, so only  *)
(* finitely often.                                                         *)
OutageEnds == state = "OPEN" ~> (age = RecoveryTimeout \/ state # "OPEN")

\* By how much failures outnumber successes from the i-th outcome on.
Recorded(s, i, outcome) == Cardinality({j \in i .. Len(s) : s[j] = outcome})
Surplus(s, i) == Recorded(s, i, "failure") - Recorded(s, i, "success")

(* The failures that open the circuit need not be consecutive: it opens    *)
(* exactly when, over some run of outcomes up to the last, failures        *)
(* outnumber successes by the threshold; successes before do not count.    *)
OpensOnSurplus ==
  LET opening == \E i \in DOMAIN window : Surplus(window, i) >= FailureThreshold
  IN /\ opening => state # "CLOSED"
     /\ state # "CLOSED" /\ Len(window) < MaxWindow => opening

(* What the module docstring (core/circuit_breaker.py:9) says of           *)
(* HALF_OPEN: "One trial call is allowed".  The code does not do it.       *)
OneTrialCall ==
  \A c, d \in Callers :
    state = "HALF_OPEN" /\ call[c] = "HALF_OPEN" /\ call[d] = "HALF_OPEN" => c = d

=============================================================================
