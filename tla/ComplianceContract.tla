-------------------------- MODULE ComplianceContract --------------------------
(***************************************************************************)
(* What the service promises about a submission, whatever goes wrong       *)
(* inside: an answer with a verdict only after the security check; FLAGGED *)
(* only after every notification channel was tried, once each; no alert at *)
(* all about what is approved, rejected or failed; one answer at most.     *)
(*                                                                         *)
(* FLAGGED does not promise that anyone was reached: a dispatch that fails *)
(* counts as tried, and the answer is the same when all of them fail.      *)
(***************************************************************************)
EXTENDS Naturals

CONSTANTS Requests, Alerts

VARIABLES
  answer,    \* per request: "none", "pending", its answer, or "lost"
  checked,   \* requests that passed the security check
  tried      \* per request: notification channels tried, reached or not

vars == <<answer, checked, tried>>

Init ==
  /\ answer = [r \in Requests |-> "none"]
  /\ checked = {}
  /\ tried = [r \in Requests |-> 0]

Accept(r) ==
  /\ answer[r] = "none"
  /\ answer' = [answer EXCEPT ![r] = "pending"]
  /\ UNCHANGED <<checked, tried>>

Turndown(r) ==
  /\ answer[r] = "none"
  /\ answer' = [answer EXCEPT ![r] = "unavailable"]
  /\ UNCHANGED <<checked, tried>>

Check(r) ==
  /\ answer[r] = "pending"
  /\ checked' = checked \union {r}
  /\ UNCHANGED <<answer, tried>>

Alert(r) ==
  /\ answer[r] = "pending" /\ r \in checked /\ tried[r] < Alerts
  /\ tried' = [tried EXCEPT ![r] = @ + 1]
  /\ UNCHANGED <<answer, checked>>

Approve(r) == r \in checked /\ tried[r] = 0 /\ answer' = [answer EXCEPT ![r] = "APPROVED"]
Flag(r) == r \in checked /\ tried[r] = Alerts /\ answer' = [answer EXCEPT ![r] = "FLAGGED"]
Reject(r) == r \notin checked /\ answer' = [answer EXCEPT ![r] = "rejected"]
Fail(r) == r \in checked /\ tried[r] = 0 /\ answer' = [answer EXCEPT ![r] = "failed"]

Reply(r) ==
  /\ answer[r] = "pending"
  /\ Approve(r) \/ Flag(r) \/ Reject(r) \/ Fail(r)
  /\ UNCHANGED <<checked, tried>>

Crash ==
  /\ answer' = [r \in Requests |-> IF answer[r] = "pending" THEN "lost" ELSE answer[r]]
  /\ checked' = {r \in checked : answer[r] # "pending"}
  /\ UNCHANGED tried

Next ==
  \/ \E r \in Requests : Accept(r) \/ Turndown(r) \/ Check(r) \/ Alert(r) \/ Reply(r)
  \/ Crash

Spec == Init /\ [][Next]_vars
=============================================================================
