--------------------------- MODULE McpClientProofs ---------------------------
(***************************************************************************)
(* Theorems about the MCP client over the circuit breaker: for every set   *)
(* of calls, number of attempts and setting of the breaker.                *)
(***************************************************************************)
EXTENDS McpClient, Integers, FiniteSetTheorems, TLAPS

CBP == INSTANCE CircuitBreakerProofs WITH
  Callers <- Calls, window <- <<>>, MaxWindow <- 1, MaxFailureCount <- 0

\* The requests of call c on their way, and the calls that failed.
Pending(c) == {r \in transit : r[1] = c}
Failed == {c \in Calls : result[c] \in McpErrors}

(* What a call has done follows from where it is; the breaker holds a slot *)
(* for it exactly while it is under way.                                   *)
CallInv ==
  \A c \in Calls :
    /\ call[c] = "idle" <=> pc[c] \in {"start", "done"}
    /\ result[c] = "none" <=> pc[c] # "done"
    /\ pc[c] = "start" \/ result[c] = "refused" => attempt[c] = 0
    /\ pc[c] \in {"post", "await", "backoff"} => attempt[c] >= 1
    /\ pc[c] = "backoff" => attempt[c] < MaxRetries

(* Of the attempts made, all but one that was not posted yet may run.      *)
SendInv ==
  \A c \in Calls :
    executed[c] + Cardinality(Pending(c)) + (IF pc[c] = "post" THEN 1 ELSE 0) <= attempt[c]

(* An answer of a tool, and a result made of it, come from an execution.   *)
ReplyInv ==
  /\ \A m \in replies : m.kind = "ok" => executed[m.req[1]] >= 1
  /\ \A c \in Calls : result[c] = "ok" => executed[c] >= 1

(* The breaker has counted no more than the failed calls.                  *)
FailedInv == IsFiniteSet(Failed) /\ failure_count <= Cardinality(Failed)

IInv == TypeOK /\ CBP!IInv /\ CallInv /\ SendInv /\ ReplyInv /\ FailedInv

-----------------------------------------------------------------------------
(* Every step of the client is a step of the breaker, or none.             *)
LEMMA NextBreaker == [Next]_vars => [CB!Next]_breaker
<1> SUFFICES ASSUME [Next]_vars PROVE CB!Next \/ UNCHANGED breaker
  OBVIOUS
<1>1. ASSUME NEW c \in Calls, Step(c) PROVE CB!Next \/ UNCHANGED breaker
  <2>1. \/ CB!FastFail(c) \/ CB!Admit(c) \/ CB!ReturnOk(c) \/ CB!ReturnMcpError(c)
        \/ CB!ReturnOtherError(c) \/ UNCHANGED breaker
    BY <1>1, Zenon DEF Step, Refuse, Start, LogRaises, Post, NotConnected, Receive, Retry,
                       GiveUp, BackoffOver, Disconnected, TransportError
  <2> QED BY <2>1 DEF CB!Next, CB!Return
<1>2. ASSUME NEW r \in transit, Execute(r) \/ Reject(r) PROVE UNCHANGED breaker
  BY <1>2 DEF Execute, Reject
<1>3. CASE Connect \/ Disconnect \/ ResetBreaker \/ Tick
  BY <1>3 DEF Connect, Disconnect, ResetBreaker, Tick, CB!Next
<1>4. CASE UNCHANGED vars
  BY <1>4 DEF vars
<1> QED BY <1>1, <1>2, <1>3, <1>4 DEF Next

(* The client leaves the breaker to itself: retries, late executions and   *)
(* reconnections move it in no way of their own.                           *)
THEOREM BreakerOwnSteps == Spec => BreakerUndisturbed
<1>1. Init => CB!Init
  BY DEF Init
<1>2. [Next]_vars => [CB!Next]_(CB!vars)
  BY NextBreaker DEF breaker, CB!vars
<1> QED BY <1>1, <1>2, PTL DEF Spec, BreakerUndisturbed, CB!Spec

(* So its invariant holds here too.                                        *)
LEMMA BreakerInit == Init => CBP!IInv
<1>1. CB!Init => CBP!Init
  BY DEF CB!Init, CBP!Init
<1>2. CBP!CBAssumption
  BY MCAssumption DEF CBP!CBAssumption
<1> QED BY <1>1, <1>2, CBP!InitIInv DEF Init

LEMMA BreakerNext == CBP!IInv /\ [Next]_vars => CBP!IInv'
<1>1. [CB!Next]_breaker => [CBP!Next]_(CBP!vars)
  BY DEF breaker, CBP!vars, CB!Next, CBP!Next, CB!Tick, CBP!Tick, CB!Reset, CBP!Reset,
         CB!FastFail, CBP!FastFail, CB!Admit, CBP!Admit, CB!Return, CBP!Return,
         CB!ReturnOk, CBP!ReturnOk, CB!ReturnMcpError, CBP!ReturnMcpError,
         CB!ReturnOtherError, CBP!ReturnOtherError, CB!Finish, CBP!Finish,
         CB!OnSuccess, CBP!OnSuccess, CB!OnFailure, CBP!OnFailure,
         CB!ToHalfOpen, CBP!ToHalfOpen, CB!vars, CB!breakerVars, CBP!breakerVars
<1>2. CBP!CBAssumption
  BY MCAssumption DEF CBP!CBAssumption
<1> QED BY <1>1, <1>2, NextBreaker, CBP!NextIInv

-----------------------------------------------------------------------------
(* Requests of one call, of which there are finitely many.                 *)
LEMMA PendingFinite ==
  ASSUME TypeOK, NEW c \in Calls
  PROVE  IsFiniteSet(Pending(c)) /\ Cardinality(Pending(c)) \in Nat
<1> DEFINE number == [r \in Pending(c) |-> r[2]]
<1>1. \A r \in Pending(c) : r[2] \in 1 .. MaxRetries /\ r = <<c, r[2]>>
  BY DEF TypeOK, Pending
<1>2. number \in Injection(Pending(c), 1 .. MaxRetries)
  BY <1>1 DEF Injection, IsInjective
<1>3. IsFiniteSet(1 .. MaxRetries)
  BY FS_Interval, MCAssumption
<1> QED BY <1>2, <1>3, FS_Injection, FS_CardinalityType

(* What the breaker's part of the invariant says of its variables.         *)
LEMMA BreakerTypes ==
  ASSUME CBP!IInv
  PROVE  CB!TypeOK /\ failure_count \in Nat
         /\ call \in [Calls -> {"idle", "CLOSED", "HALF_OPEN"}]
  BY DEF CBP!IInv, CBP!TypeOK, CB!TypeOK, CBP!CircuitState, CB!CircuitState

\* The same of the next state.
LEMMA BreakerTypesNext ==
  ASSUME CBP!IInv'
  PROVE  CB!TypeOK' /\ failure_count' \in Nat
         /\ call' \in [Calls -> {"idle", "CLOSED", "HALF_OPEN"}]
  BY DEF CBP!IInv, CBP!TypeOK, CB!TypeOK, CBP!CircuitState, CB!CircuitState

(* What a call's return does to its slot and to the failure count.         *)
LEMMA BreakerReturns ==
  ASSUME CBP!IInv, NEW c \in Calls
  PROVE  /\ CB!ReturnOk(c) \/ CB!ReturnMcpError(c) \/ CB!ReturnOtherError(c)
              => call' = [call EXCEPT ![c] = "idle"]
         /\ CB!ReturnOk(c) \/ CB!ReturnOtherError(c) => failure_count' <= failure_count
         /\ CB!ReturnMcpError(c) => failure_count' = failure_count + 1
<1>1. failure_count \in Nat
  BY BreakerTypes
<1>2. CB!OnSuccess => failure_count' <= failure_count
  BY <1>1 DEF CB!OnSuccess
<1> QED
  BY <1>1, <1>2 DEF CB!ReturnOk, CB!ReturnMcpError, CB!ReturnOtherError, CB!Finish,
                    CB!OnFailure, CB!breakerVars

-----------------------------------------------------------------------------
LEMMA InitIInv == Init => IInv
<1> SUFFICES ASSUME Init PROVE IInv
  OBVIOUS
<1>1. CBP!IInv
  BY BreakerInit
<1>2. TypeOK
  <2>1. CB!TypeOK
    BY <1>1, BreakerTypes
  <2> QED BY <2>1, MCAssumption DEF Init, TypeOK, Results
<1>3. CallInv /\ ReplyInv
  BY DEF Init, CB!Init, CallInv, ReplyInv
<1>4. SendInv
  <2>1. \A c \in Calls : Pending(c) = {}
    BY DEF Init, Pending
  <2> QED BY <2>1, FS_EmptySet DEF Init, SendInv
<1>5. FailedInv
  <2>1. Failed = {}
    BY DEF Init, Failed, McpErrors
  <2> QED BY <2>1, FS_EmptySet DEF Init, CB!Init, FailedInv
<1> QED BY <1>1, <1>2, <1>3, <1>4, <1>5 DEF IInv

(* A call ends: with "ok" only after an execution, with an MCPError when   *)
(* the breaker counted one failure, and the slot is free.                  *)
LEMMA EndIInv ==
  ASSUME IInv, CBP!IInv', NEW c \in Calls, NEW r \in Results \ {"none"},
         pc[c] # "done", End(c, r),
         r = "refused" => pc[c] = "start",
         r = "ok" => executed[c] >= 1,
         call' = [call EXCEPT ![c] = "idle"],
         \/ failure_count' <= failure_count
         \/ failure_count' = failure_count + 1 /\ r \in McpErrors,
         UNCHANGED <<log_info, connected, bridge>>
  PROVE  IInv'
<1>1. /\ pc' = [pc EXCEPT ![c] = "done"] /\ result' = [result EXCEPT ![c] = r]
      /\ UNCHANGED <<attempt, log_info, connected, transit, replies, executed>>
  BY DEF End, bridge
<1>2. /\ pc \in [Calls -> {"start", "post", "await", "backoff", "done"}]
      /\ result \in [Calls -> Results]
      /\ call \in [Calls -> {"idle", "CLOSED", "HALF_OPEN"}]
      /\ failure_count \in Nat
  BY BreakerTypes DEF IInv, TypeOK
<1>3. TypeOK' /\ failure_count' \in Nat
  <2>1. CB!TypeOK' /\ failure_count' \in Nat
    BY BreakerTypesNext
  <2> QED BY <1>1, <1>2, <2>1 DEF IInv, TypeOK
<1>4. CallInv'
  BY <1>1, <1>2 DEF IInv, CallInv
<1>5. SendInv'
  <2> SUFFICES ASSUME NEW d \in Calls
               PROVE  executed[d] + Cardinality(Pending(d))
                        + (IF pc'[d] = "post" THEN 1 ELSE 0) <= attempt[d]
    BY <1>1 DEF SendInv, Pending
  <2>1. executed[d] + Cardinality(Pending(d)) + (IF pc[d] = "post" THEN 1 ELSE 0) <= attempt[d]
        /\ executed[d] \in Nat /\ Cardinality(Pending(d)) \in Nat /\ attempt[d] \in Nat
    BY PendingFinite, MCAssumption DEF IInv, SendInv, TypeOK
  <2> QED BY <1>1, <1>2, <2>1
<1>6. ReplyInv'
  BY <1>1, <1>2 DEF IInv, ReplyInv
<1>7. FailedInv'
  <2>1. IsFiniteSet(Failed) /\ Cardinality(Failed) \in Nat /\ failure_count <= Cardinality(Failed)
    BY FS_CardinalityType DEF IInv, FailedInv
  <2>2. c \notin Failed
    BY DEF IInv, CallInv, Failed, McpErrors
  <2>3. CASE r \in McpErrors
    <3>1. Failed' = Failed \union {c}
      BY <1>1, <1>2, <2>3 DEF Failed
    <3>2. /\ IsFiniteSet(Failed \union {c})
          /\ Cardinality(Failed \union {c}) = Cardinality(Failed) + 1
      BY <2>1, <2>2, FS_AddElement
    <3>3. failure_count' <= Cardinality(Failed) + 1
      BY <1>2, <1>3, <2>1
    <3> QED BY <3>1, <3>2, <3>3 DEF FailedInv
  <2>4. CASE r \notin McpErrors
    <3>1. Failed' = Failed
      BY <1>1, <1>2, <2>2, <2>4 DEF Failed
    <3> QED BY <1>2, <1>3, <2>1, <2>4, <3>1 DEF FailedInv
  <2> QED BY <2>3, <2>4
<1> QED BY <1>3, <1>4, <1>5, <1>6, <1>7 DEF IInv

(* A step of the loop that neither sends nor ends: the breaker, the bridge *)
(* and the results are as before, and c made an attempt more or not.       *)
LEMMA LoopIInv ==
  ASSUME IInv, CBP!IInv', NEW c \in Calls, pc[c] # "done",
         NEW label \in {"post", "backoff"}, NEW n \in 1 .. MaxRetries,
         pc' = [pc EXCEPT ![c] = label], attempt' = [attempt EXCEPT ![c] = n],
         label = "backoff" => pc[c] \in {"post", "await"} /\ n = attempt[c] /\ n < MaxRetries,
         label = "post" => n = attempt[c] + 1,
         call'[c] # "idle", \A d \in Calls \ {c} : call'[d] = call[d],
         failure_count' <= failure_count,
         UNCHANGED <<log_info, connected, result, bridge>>
  PROVE  IInv'
<1>1. /\ pc \in [Calls -> {"start", "post", "await", "backoff", "done"}]
      /\ attempt \in [Calls -> 0 .. MaxRetries] /\ MaxRetries \in Nat
      /\ executed \in [Calls -> 0 .. MaxRetries]
      /\ UNCHANGED <<log_info, connected, result, transit, replies, executed>>
  BY MCAssumption DEF IInv, TypeOK, bridge
<1>2. TypeOK' /\ failure_count' \in Nat
  <2>1. CB!TypeOK' /\ failure_count' \in Nat
    BY BreakerTypesNext
  <2> QED BY <1>1, <2>1 DEF IInv, TypeOK
<1>3. CallInv'
  BY <1>1 DEF IInv, CallInv
<1>4. SendInv'
  <2> SUFFICES ASSUME NEW d \in Calls
               PROVE  executed[d] + Cardinality(Pending(d))
                        + (IF pc'[d] = "post" THEN 1 ELSE 0) <= attempt'[d]
    BY <1>1 DEF SendInv, Pending
  <2>1. executed[d] + Cardinality(Pending(d)) + (IF pc[d] = "post" THEN 1 ELSE 0) <= attempt[d]
        /\ executed[d] \in Nat /\ Cardinality(Pending(d)) \in Nat /\ attempt[d] \in Nat
    BY <1>1, PendingFinite DEF IInv, SendInv
  <2> QED BY <1>1, <2>1
<1>5. ReplyInv'
  BY <1>1 DEF IInv, ReplyInv
<1>6. FailedInv'
  <2>1. Failed' = Failed
    BY <1>1 DEF Failed
  <2>2. IsFiniteSet(Failed) /\ Cardinality(Failed) \in Nat /\ failure_count <= Cardinality(Failed)
        /\ failure_count \in Nat
    BY FS_CardinalityType, BreakerTypes DEF IInv, FailedInv
  <2> QED BY <1>2, <2>1, <2>2 DEF FailedInv
<1> QED BY <1>2, <1>3, <1>4, <1>5, <1>6 DEF IInv

(* The request of the current attempt is on its way.                       *)
LEMMA PostIInv ==
  ASSUME IInv, CBP!IInv', NEW c \in Calls, Post(c)
  PROVE  IInv'
<1>1. /\ pc[c] = "post" /\ pc' = [pc EXCEPT ![c] = "await"]
      /\ transit' = transit \union {<<c, attempt[c]>>}
      /\ UNCHANGED <<call, failure_count, log_info, connected, attempt, result, replies, executed>>
  BY DEF Post, Posting, breaker
<1>2. /\ pc \in [Calls -> {"start", "post", "await", "backoff", "done"}]
      /\ attempt[c] \in 1 .. MaxRetries
  BY <1>1, MCAssumption DEF IInv, TypeOK, CallInv
<1>3. TypeOK'
  <2>1. CB!TypeOK'
    BY BreakerTypesNext
  <2> QED BY <1>1, <1>2, <2>1 DEF IInv, TypeOK
<1>4. CallInv' /\ ReplyInv'
  BY <1>1, <1>2 DEF IInv, CallInv, ReplyInv
<1>5. SendInv'
  <2> SUFFICES ASSUME NEW d \in Calls
               PROVE  executed[d] + Cardinality(Pending(d)')
                        + (IF pc'[d] = "post" THEN 1 ELSE 0) <= attempt[d]
    BY <1>1 DEF SendInv
  <2>1. executed[d] + Cardinality(Pending(d)) + (IF pc[d] = "post" THEN 1 ELSE 0) <= attempt[d]
        /\ executed[d] \in Nat /\ attempt[d] \in Nat
        /\ IsFiniteSet(Pending(d)) /\ Cardinality(Pending(d)) \in Nat
    BY PendingFinite, MCAssumption DEF IInv, SendInv, TypeOK
  <2>2. CASE d = c
    <3>1. Pending(d)' = Pending(d) \union {<<c, attempt[c]>>}
      BY <1>1, <2>2 DEF Pending
    <3>2. Cardinality(Pending(d)') \in Nat
          /\ Cardinality(Pending(d)') <= Cardinality(Pending(d)) + 1
      <4>1. Cardinality(Pending(d) \union {<<c, attempt[c]>>}) =
              IF <<c, attempt[c]>> \in Pending(d) THEN Cardinality(Pending(d))
              ELSE Cardinality(Pending(d)) + 1
        BY <2>1, FS_AddElement
      <4> QED BY <2>1, <3>1, <4>1
    <3> QED BY <1>1, <1>2, <2>1, <2>2, <3>2
  <2>3. CASE d # c
    <3>1. Pending(d)' = Pending(d)
      BY <1>1, <2>3 DEF Pending
    <3> QED BY <1>1, <1>2, <2>1, <2>3, <3>1
  <2> QED BY <2>2, <2>3
<1>6. FailedInv'
  BY <1>1 DEF IInv, FailedInv, Failed
<1> QED BY <1>3, <1>4, <1>5, <1>6 DEF IInv

(* The bridge answers a request, and runs its tool or not.                 *)
LEMMA AnswerIInv ==
  ASSUME IInv, CBP!IInv', NEW r \in transit, Execute(r) \/ Reject(r)
  PROVE  IInv'
<1> DEFINE c == r[1]
<1>1. c \in Calls /\ r \in Calls \X (1 .. MaxRetries) /\ executed \in [Calls -> 0 .. MaxRetries]
  BY DEF IInv, TypeOK
<1>2. /\ transit' = transit \ {r}
      /\ UNCHANGED <<call, failure_count, log_info, connected, pc, attempt, result>>
      /\ \E k \in {"ok", "rpc_error", "other"} :
           /\ replies' = replies \union {[req |-> r, kind |-> k]}
           /\ \/ executed' = [executed EXCEPT ![c] = @ + 1]
              \/ executed' = executed /\ k # "ok"
  BY DEF Execute, Reject, breaker, client
<1>3. \A d \in Calls :
        /\ executed'[d] \in Nat /\ executed[d] <= executed'[d]
        /\ executed'[d] <= executed[d] + (IF d = c THEN 1 ELSE 0)
  BY <1>1, <1>2, MCAssumption
<1>4. SendInv'
  <2> SUFFICES ASSUME NEW d \in Calls
               PROVE  executed'[d] + Cardinality(Pending(d)')
                        + (IF pc[d] = "post" THEN 1 ELSE 0) <= attempt[d]
    BY <1>2 DEF SendInv
  <2>1. executed[d] + Cardinality(Pending(d)) + (IF pc[d] = "post" THEN 1 ELSE 0) <= attempt[d]
        /\ executed[d] \in Nat /\ attempt[d] \in Nat
        /\ IsFiniteSet(Pending(d)) /\ Cardinality(Pending(d)) \in Nat
    BY PendingFinite, MCAssumption DEF IInv, SendInv, TypeOK
  <2>2. CASE d = c
    <3>1. Pending(d)' = Pending(d) \ {r} /\ r \in Pending(d)
      BY <1>2, <2>2 DEF Pending
    <3>2. Cardinality(Pending(d)') = Cardinality(Pending(d)) - 1
      BY <2>1, <3>1, FS_RemoveElement
    <3> QED BY <1>3, <2>1, <2>2, <3>2
  <2>3. CASE d # c
    <3>1. Pending(d)' = Pending(d)
      BY <1>2, <2>3 DEF Pending
    <3> QED BY <1>3, <2>1, <2>3, <3>1
  <2> QED BY <2>2, <2>3
<1>5. TypeOK'
  <2>1. CB!TypeOK'
    BY BreakerTypesNext
  <2>2. executed' \in [Calls -> Nat]
    BY <1>1, <1>2, MCAssumption
  <2>3. ASSUME NEW d \in Calls PROVE executed'[d] \in 0 .. MaxRetries
    <3>1. attempt[d] \in 0 .. MaxRetries /\ IsFiniteSet(Pending(d))
      BY PendingFinite DEF IInv, TypeOK
    <3>2. Pending(d)' \subseteq Pending(d)
      BY <1>2 DEF Pending
    <3>3. Cardinality(Pending(d)') \in Nat
      BY <3>1, <3>2, FS_Subset, FS_CardinalityType
    <3> QED BY <1>2, <1>3, <1>4, <3>1, <3>3, MCAssumption DEF SendInv
  <2>4. replies' \subseteq [req : Calls \X (1 .. MaxRetries), kind : {"ok", "rpc_error", "other"}]
    BY <1>1, <1>2 DEF IInv, TypeOK
  <2> QED BY <1>2, <2>1, <2>2, <2>3, <2>4 DEF IInv, TypeOK
<1>6. CallInv'
  BY <1>2 DEF IInv, CallInv
<1>7. ReplyInv'
  <2>1. \A m \in replies : m.req[1] \in Calls /\ executed[m.req[1]] \in Nat
    BY <1>1, MCAssumption DEF IInv, TypeOK
  <2>2. ASSUME NEW m \in replies', m.kind = "ok" PROVE executed'[m.req[1]] >= 1
    <3>1. CASE m \in replies
      BY <1>3, <2>1, <2>2, <3>1 DEF IInv, ReplyInv
    <3>2. CASE m \notin replies
      <4>1. m.req = r /\ executed' = [executed EXCEPT ![c] = @ + 1]
        BY <1>2, <2>2, <3>2
      <4> QED BY <1>1, <4>1, MCAssumption
    <3> QED BY <3>1, <3>2
  <2>3. ASSUME NEW d \in Calls, result'[d] = "ok" PROVE executed'[d] >= 1
    BY <1>1, <1>2, <1>3, <2>3, MCAssumption DEF IInv, ReplyInv
  <2> QED BY <2>2, <2>3 DEF ReplyInv
<1>8. FailedInv'
  BY <1>2 DEF IInv, FailedInv, Failed
<1> QED BY <1>4, <1>5, <1>6, <1>7, <1>8 DEF IInv

(* The connection, the operator's reset and the clock.                     *)
LEMMA OutsideIInv ==
  ASSUME IInv, CBP!IInv', call' = call, failure_count' <= failure_count,
         log_info' = log_info, connected' \in BOOLEAN, UNCHANGED <<client, bridge>>
  PROVE  IInv'
<1>1. UNCHANGED <<pc, attempt, result, transit, replies, executed>>
  BY DEF client, bridge
<1>2. TypeOK' /\ failure_count' \in Nat
  <2>1. CB!TypeOK' /\ failure_count' \in Nat
    BY BreakerTypesNext
  <2> QED BY <1>1, <2>1 DEF IInv, TypeOK
<1>3. CallInv' /\ SendInv' /\ ReplyInv'
  BY <1>1 DEF IInv, CallInv, SendInv, ReplyInv, Pending
<1>4. FailedInv'
  <2>1. Failed' = Failed
    BY <1>1 DEF Failed
  <2>2. IsFiniteSet(Failed) /\ Cardinality(Failed) \in Nat /\ failure_count <= Cardinality(Failed)
        /\ failure_count \in Nat
    BY FS_CardinalityType, BreakerTypes DEF IInv, FailedInv
  <2> QED BY <1>2, <2>1, <2>2 DEF FailedInv
<1> QED BY <1>2, <1>3, <1>4 DEF IInv

(* One step of one call.                                                   *)
LEMMA StepIInv ==
  ASSUME IInv, CBP!IInv', NEW c \in Calls, Step(c)
  PROVE  IInv'
<1>1. /\ call \in [Calls -> {"idle", "CLOSED", "HALF_OPEN"}] /\ failure_count \in Nat
      /\ pc \in [Calls -> {"start", "post", "await", "backoff", "done"}]
      /\ attempt \in [Calls -> 0 .. MaxRetries] /\ MaxRetries \in Nat \ {0}
  BY BreakerTypes, MCAssumption DEF IInv, TypeOK
<1>2. CASE Refuse(c)
  <2>1. call[c] = "idle" /\ UNCHANGED <<call, failure_count>>
    BY <1>2 DEF Refuse, CB!FastFail, CB!vars
  <2>2. call' = [call EXCEPT ![c] = "idle"]
    BY <1>1, <2>1
  <2>3. /\ pc[c] = "start" /\ End(c, "refused") /\ UNCHANGED <<log_info, connected, bridge>>
        /\ failure_count' <= failure_count /\ "refused" \in Results \ {"none"}
    BY <1>1, <1>2, <2>1 DEF Refuse, Results
  <2> QED BY <2>2, <2>3, EndIInv
<1>3. CASE Start(c)
  <2>1. call' = [call EXCEPT ![c] = state'] /\ UNCHANGED failure_count
    BY <1>3 DEF Start, CB!Admit, CB!ToHalfOpen, CB!breakerVars
  <2>2. state' # "idle"
    BY BreakerTypesNext DEF CB!TypeOK, CB!CircuitState
  <2>3. attempt[c] = 0 /\ 1 \in 1 .. MaxRetries
    BY <1>1, <1>3 DEF Start, IInv, CallInv
  <2>4. /\ call'[c] # "idle" /\ \A d \in Calls \ {c} : call'[d] = call[d]
        /\ failure_count' <= failure_count
    BY <1>1, <2>1, <2>2
  <2>5. /\ pc[c] # "done" /\ pc' = [pc EXCEPT ![c] = "post"]
        /\ attempt' = [attempt EXCEPT ![c] = 1] /\ 1 = attempt[c] + 1
        /\ UNCHANGED <<log_info, connected, result, bridge>>
    BY <1>3, <2>3 DEF Start
  <2> QED BY <2>3, <2>4, <2>5, LoopIInv
<1>4. CASE Post(c)
  BY <1>4, PostIInv
<1>5. CASE Retry(c)
  <2>1. attempt[c] >= 1 /\ call[c] # "idle" /\ attempt' = [attempt EXCEPT ![c] = attempt[c]]
        /\ attempt[c] \in 1 .. MaxRetries /\ attempt[c] < MaxRetries
    BY <1>1, <1>5 DEF Retry, Posting, IInv, CallInv
  <2>2. /\ pc[c] \in {"post", "await"} /\ pc' = [pc EXCEPT ![c] = "backoff"]
        /\ UNCHANGED <<call, failure_count>>
        /\ UNCHANGED <<log_info, connected, result, bridge>>
    BY <1>5 DEF Retry, Posting, breaker
  <2>3. call'[c] # "idle" /\ failure_count' <= failure_count /\ pc[c] # "done"
        /\ \A d \in Calls \ {c} : call'[d] = call[d]
    BY <1>1, <2>1, <2>2
  <2> QED BY <2>1, <2>2, <2>3, LoopIInv
<1>6. CASE BackoffOver(c)
  <2>1. call[c] # "idle" /\ attempt[c] + 1 \in 1 .. MaxRetries
        /\ attempt' = [attempt EXCEPT ![c] = attempt[c] + 1]
    BY <1>1, <1>6 DEF BackoffOver, IInv, CallInv
  <2>2. /\ pc[c] = "backoff" /\ pc' = [pc EXCEPT ![c] = "post"]
        /\ UNCHANGED <<call, failure_count>>
        /\ UNCHANGED <<log_info, connected, result, bridge>>
    BY <1>6 DEF BackoffOver, breaker
  <2>3. call'[c] # "idle" /\ failure_count' <= failure_count /\ pc[c] # "done"
        /\ \A d \in Calls \ {c} : call'[d] = call[d]
    BY <1>1, <2>1, <2>2
  <2> QED BY <2>1, <2>2, <2>3, LoopIInv
<1>7. CASE Receive(c)
  <2>1. PICK m \in replies :
          /\ m.req = <<c, attempt[c]>>
          /\ \/ m.kind = "ok" /\ CB!ReturnOk(c)
             \/ m.kind = "rpc_error" /\ CB!ReturnMcpError(c)
             \/ m.kind = "other" /\ CB!ReturnOtherError(c)
          /\ End(c, m.kind)
    BY <1>7 DEF Receive
  <2>2. m.kind = "ok" => executed[c] >= 1
    BY <2>1 DEF IInv, ReplyInv
  <2>3. pc[c] = "await" /\ UNCHANGED <<log_info, connected, bridge>>
    BY <1>7 DEF Receive
  <2>4. m.kind \in Results \ {"none"} /\ m.kind # "refused"
    BY <2>1 DEF Results, McpErrors
  <2>5. /\ call' = [call EXCEPT ![c] = "idle"]
        /\ \/ failure_count' <= failure_count
           \/ failure_count' = failure_count + 1 /\ m.kind \in McpErrors
    BY <2>1, BreakerReturns DEF IInv, McpErrors
  <2> QED BY <2>1, <2>2, <2>3, <2>4, <2>5, EndIInv
<1>8. CASE GiveUp(c) \/ Disconnected(c)
  <2>1. PICK r \in {"timeout", "disconnect"} : End(c, r)
    BY <1>8 DEF GiveUp, Disconnected
  <2>2. CB!ReturnMcpError(c) /\ pc[c] # "done" /\ UNCHANGED <<log_info, connected, bridge>>
    BY <1>8 DEF GiveUp, Disconnected, Posting
  <2>3. r \in Results \ {"none"} /\ r \in McpErrors /\ r # "refused" /\ r # "ok"
    BY DEF Results, McpErrors
  <2> QED BY <2>1, <2>2, <2>3, BreakerReturns, EndIInv DEF IInv
<1>9. CASE LogRaises(c) \/ NotConnected(c) \/ TransportError(c)
  <2>1. PICK r \in {"key_error", "other"} : End(c, r)
    BY <1>9 DEF LogRaises, NotConnected, TransportError
  <2>2. CB!ReturnOtherError(c) /\ pc[c] # "done" /\ UNCHANGED <<log_info, connected, bridge>>
    BY <1>9 DEF LogRaises, NotConnected, TransportError, Posting
  <2>3. r \in Results \ {"none"} /\ r # "refused" /\ r # "ok"
    BY DEF Results
  <2> QED BY <2>1, <2>2, <2>3, BreakerReturns, EndIInv DEF IInv
<1> QED BY <1>2, <1>3, <1>4, <1>5, <1>6, <1>7, <1>8, <1>9 DEF Step

LEMMA NextIInv == IInv /\ [Next]_vars => IInv'
<1> SUFFICES ASSUME IInv, [Next]_vars PROVE IInv'
  OBVIOUS
<1>1. CBP!IInv'
  BY BreakerNext DEF IInv
<1>2. ASSUME NEW c \in Calls, Step(c) PROVE IInv'
  BY <1>1, <1>2, StepIInv
<1>3. ASSUME NEW r \in transit, Execute(r) \/ Reject(r) PROVE IInv'
  BY <1>1, <1>3, AnswerIInv
<1>4. failure_count \in Nat /\ connected \in BOOLEAN
  BY BreakerTypes DEF IInv, TypeOK
<1>5. CASE Connect \/ Disconnect
  <2>1. /\ UNCHANGED <<call, failure_count>> /\ log_info' = log_info
        /\ connected' \in BOOLEAN /\ UNCHANGED <<client, bridge>>
    BY <1>5 DEF Connect, Disconnect, breaker
  <2>2. failure_count' <= failure_count
    BY <1>4, <2>1
  <2> QED BY <1>1, <2>1, <2>2, OutsideIInv
<1>6. CASE ResetBreaker
  BY <1>1, <1>4, <1>6, OutsideIInv DEF ResetBreaker, CB!Reset
<1>7. CASE Tick
  BY <1>1, <1>4, <1>7, OutsideIInv DEF Tick, CB!Tick
<1>8. CASE UNCHANGED vars
  BY <1>1, <1>4, <1>8, OutsideIInv DEF vars, breaker
<1> QED BY <1>2, <1>3, <1>5, <1>6, <1>7, <1>8 DEF Next

LEMMA SpecIInv == Spec => []IInv
<1>1. Init => IInv
  BY InitIInv
<1> QED BY <1>1, NextIInv, PTL DEF Spec

-----------------------------------------------------------------------------
(* Calls, attempts, requests and answers have their types.                 *)
THEOREM TypeCorrect == Spec => []TypeOK
<1>1. IInv => TypeOK
  BY DEF IInv
<1> QED BY <1>1, SpecIInv, PTL

(* A tool that is not idempotent runs at most once per attempt, however    *)
(* late, and whatever the client made of the attempt meanwhile.            *)
THEOREM SendsWithinBudget == Spec => []SendBudget
<1>1. IInv => SendBudget
  <2> SUFFICES ASSUME IInv, NEW c \in Calls
               PROVE  executed[c] + Cardinality(Pending(c)) <= attempt[c]
    BY DEF SendBudget, Pending
  <2>1. executed[c] \in Nat /\ attempt[c] \in Nat /\ Cardinality(Pending(c)) \in Nat
    BY PendingFinite, MCAssumption DEF IInv, TypeOK
  <2> QED BY <2>1 DEF IInv, SendInv
<1> QED BY <1>1, SpecIInv, PTL

(* "ok" means that the tool ran, "refused" that it never does.             *)
THEOREM ResultsTellExecution == Spec => []ResultTellsExecution
<1>1. IInv => ResultTellsExecution
  <2> SUFFICES ASSUME IInv, NEW c \in Calls
               PROVE  /\ result[c] = "ok" => executed[c] >= 1
                      /\ result[c] = "refused" =>
                           executed[c] = 0 /\ \A r \in transit : r[1] # c
    BY DEF ResultTellsExecution
  <2>1. ASSUME result[c] = "refused"
        PROVE  executed[c] = 0 /\ \A r \in transit : r[1] # c
    <3>1. executed[c] \in Nat /\ IsFiniteSet(Pending(c)) /\ Cardinality(Pending(c)) \in Nat
          /\ attempt[c] = 0
      BY <2>1, PendingFinite, MCAssumption DEF IInv, TypeOK, CallInv
    <3>2. executed[c] = 0 /\ Cardinality(Pending(c)) = 0
      BY <3>1 DEF IInv, SendInv
    <3>3. Pending(c) = {}
      BY <3>1, <3>2, FS_EmptySet
    <3> QED BY <3>2, <3>3 DEF Pending
  <2> QED BY <2>1 DEF IInv, ReplyInv
<1> QED BY <1>1, SpecIInv, PTL

(* The breaker's count is at most the number of calls that failed, though  *)
(* each may have made several attempts.                                    *)
THEOREM FailuresPerCall == Spec => []OneFailurePerCall
<1>1. IInv => OneFailurePerCall
  BY DEF IInv, FailedInv, Failed, OneFailurePerCall
<1> QED BY <1>1, SpecIInv, PTL
=============================================================================
