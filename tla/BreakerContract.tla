-------------------------- MODULE BreakerContract --------------------------
(***************************************************************************)
(* What a caller may rely on from the circuit breaker, with no failure     *)
(* counter and no calls: an outage lasts until `wait` has run out since    *)
(* the last recorded failure, a probe ends it, and it takes `needed`       *)
(* successes in a row, all recorded while probing, to return to normal.    *)
(***************************************************************************)
EXTENDS Naturals

CONSTANTS Outage,    \* ticks an outage lasts after the last failure
          Confirm    \* successes that end probing

VARIABLES phase, wait, needed
vars == <<phase, wait, needed>>

Init == phase = "CLOSED" /\ wait = 0 /\ needed = 0

Trip ==
  /\ phase' = "OPEN"
  /\ wait' = Outage
  /\ needed' = 0

Elapse ==
  /\ phase = "OPEN" /\ wait > 0
  /\ wait' = wait - 1
  /\ UNCHANGED <<phase, needed>>

Probe ==
  /\ phase = "OPEN" /\ wait = 0
  /\ phase' = "HALF_OPEN"
  /\ needed' = Confirm
  /\ UNCHANGED wait

Confirmed ==
  /\ phase = "HALF_OPEN"
  /\ needed' = needed - 1
  /\ phase' = IF needed' = 0 THEN "CLOSED" ELSE "HALF_OPEN"
  /\ UNCHANGED wait

ForceClosed ==
  /\ phase' = "CLOSED"
  /\ wait' = 0
  /\ needed' = 0

Next == Trip \/ Elapse \/ Probe \/ Confirmed \/ ForceClosed

Spec == Init /\ [][Next]_vars
=============================================================================
