---------------------------- MODULE PolicyPromise ----------------------------
(***************************************************************************)
(* What the policy worker promises its caller, with neither cache nor      *)
(* bridge calls in sight: the policy a decision is made with is the local  *)
(* one, if the fetch met an MCP fault, or else one that was in force at    *)
(* the bridge for that department and category less than Bound ago.        *)
(***************************************************************************)
EXTENDS Integers, Sequences

CONSTANTS
  Requests, Keys,
  Bound,          \* how far back the policy may have been in force
  MaxTime, MaxVersion,
  Local,          \* the local ruleset's policy
  None

VARIABLES
  now,
  published,   \* per key: when each version came into force
  answer,      \* per request: None, or [key, policy]
  fault        \* per request: what went wrong with its fetch

vars == <<now, published, answer, fault>>

(* Version v of key k was in force at time t.                              *)
InForce(k, v, t) ==
  /\ v \in DOMAIN published[k]
  /\ published[k][v] <= t
  /\ v + 1 \in DOMAIN published[k] => t <= published[k][v + 1]

Init ==
  /\ now = 0
  /\ published = [k \in Keys |-> <<0>>]
  /\ answer = [r \in Requests |-> None]
  /\ fault = [r \in Requests |-> "none"]

AnswerBridge(r, k) ==
  /\ answer[r] = None /\ fault[r] = "none"
  /\ \E t \in 0 .. now, v \in DOMAIN published[k] :
       /\ now - t < Bound
       /\ InForce(k, v, t)
       /\ answer' = [answer EXCEPT ![r] = [key |-> k, policy |-> <<k, v>>]]
  /\ UNCHANGED <<now, published, fault>>

AnswerLocal(r, k) ==
  /\ answer[r] = None /\ fault[r] = "none"
  /\ answer' = [answer EXCEPT ![r] = [key |-> k, policy |-> Local]]
  /\ fault' = [fault EXCEPT ![r] = "mcp"]
  /\ UNCHANGED <<now, published>>

NoAnswer(r) ==
  /\ answer[r] = None /\ fault[r] = "none"
  /\ \E f \in {"no_client", "http_status", "other"} :
       fault' = [fault EXCEPT ![r] = f]
  /\ UNCHANGED <<now, published, answer>>

Publish(k) ==
  /\ Len(published[k]) < MaxVersion
  /\ published' = [published EXCEPT ![k] = Append(@, now)]
  /\ UNCHANGED <<now, answer, fault>>

Tick ==
  /\ now < MaxTime
  /\ now' = now + 1
  /\ UNCHANGED <<published, answer, fault>>

Next ==
  \/ \E r \in Requests : NoAnswer(r) \/ \E k \in Keys : AnswerBridge(r, k) \/ AnswerLocal(r, k)
  \/ \E k \in Keys : Publish(k)
  \/ Tick

Spec == Init /\ [][Next]_vars
=============================================================================
