------------------------------ MODULE McpClient ------------------------------
(***************************************************************************)
(* mcp/client.py over core/circuit_breaker.py: tool calls that go through  *)
(* the breaker once and may post several requests to the bridge, because   *)
(* the retry loop runs inside the breaker.  A request that timed out at    *)
(* the client may still be executed by the bridge, even after its call is  *)
(* over.                                                                   *)
(*                                                                         *)
(* Every call in Calls is made at most once; the breaker outlives them.    *)
(***************************************************************************)
EXTENDS Naturals, FiniteSets

CONSTANTS
  Calls,              \* the logical tool calls (call_tool)
  MaxRetries,         \* max_retries: attempts of one call
  FailureThreshold, RecoveryTimeout, SuccessThreshold

ASSUME MCAssumption ==
  /\ MaxRetries \in Nat \ {0}
  /\ FailureThreshold \in Nat \ {0}
  /\ RecoveryTimeout \in Nat
  /\ SuccessThreshold \in Nat \ {0}

VARIABLES
  state, failure_count, success_count, age, call,   \* the breaker
  log_info,    \* the logger "mcp.client" is enabled for INFO
  connected,   \* _http is not None
  pc,          \* per call: "start", "post", "await", "backoff" or "done"
  attempt,     \* per call: the attempt under way, 0 before the first
  result,      \* per call: how call_tool ended
  transit,     \* requests at or on the way to the bridge, <<call, attempt>>
  replies,     \* what the bridge answered: [req, kind]
  executed     \* per call: how often the bridge ran the tool (ghost)

breaker == <<state, failure_count, success_count, age, call>>
client == <<pc, attempt, result>>
bridge == <<transit, replies, executed>>
vars == <<breaker, log_info, connected, client, bridge>>

CB == INSTANCE CircuitBreaker WITH Callers <- Calls

McpErrors == {"timeout", "disconnect", "rpc_error"}
Results == {"none", "ok", "refused", "key_error", "other"} \union McpErrors

\* from_config has already created the http client.
Init ==
  /\ CB!Init
  /\ log_info \in BOOLEAN
  /\ connected = TRUE
  /\ pc = [c \in Calls |-> "start"]
  /\ attempt = [c \in Calls |-> 0]
  /\ result = [c \in Calls |-> "none"]
  /\ transit = {}
  /\ replies = {}
  /\ executed = [c \in Calls |-> 0]

-----------------------------------------------------------------------------
(* call_tool ends with result r. *)
End(c, r) ==
  /\ pc' = [pc EXCEPT ![c] = "done"]
  /\ result' = [result EXCEPT ![c] = r]
  /\ UNCHANGED attempt

(* call_tool, refused by the open circuit. *)
Refuse(c) ==
  /\ pc[c] = "start"
  /\ CB!FastFail(c)
  /\ End(c, "refused")
  /\ UNCHANGED <<log_info, connected, bridge>>

(* call_tool, admitted; _call_with_retry begins its first attempt. *)
Start(c) ==
  /\ pc[c] = "start"
  /\ CB!Admit(c)
  /\ pc' = [pc EXCEPT ![c] = "post"]
  /\ attempt' = [attempt EXCEPT ![c] = 1]
  /\ UNCHANGED <<log_info, connected, result, bridge>>

(* _raw_call logs its request with extra={"args": ...}; "args" is an       *)
(* attribute of every LogRecord, and makeRecord raises KeyError.           *)
LogRaises(c) ==
  /\ pc[c] = "post" /\ log_info
  /\ CB!ReturnOtherError(c)
  /\ End(c, "key_error")
  /\ UNCHANGED <<log_info, connected, bridge>>

\* Past the log call, when that does not raise.
Posting(c) == pc[c] = "post" /\ ~log_info

(* _raw_call posts the request of the current attempt. *)
Post(c) ==
  /\ Posting(c) /\ connected
  /\ pc' = [pc EXCEPT ![c] = "await"]
  /\ transit' = transit \union {<<c, attempt[c]>>}
  /\ UNCHANGED <<breaker, log_info, connected, attempt, result, replies, executed>>

(* _raw_call's assertion that the client is connected fails. *)
NotConnected(c) ==
  /\ Posting(c) /\ ~connected
  /\ CB!ReturnOtherError(c)
  /\ End(c, "other")
  /\ UNCHANGED <<log_info, connected, bridge>>

(* The bridge runs the tool, and answers or fails to (a 5xx, a bad body). *)
Execute(r) ==
  /\ transit' = transit \ {r}
  /\ executed' = [executed EXCEPT ![r[1]] = @ + 1]
  /\ \E k \in {"ok", "other"} : replies' = replies \union {[req |-> r, kind |-> k]}
  /\ UNCHANGED <<breaker, log_info, connected, client>>

(* The bridge answers without running it: an RPC error, or an HTTP error. *)
Reject(r) ==
  /\ transit' = transit \ {r}
  /\ \E k \in {"rpc_error", "other"} :
       replies' = replies \union {[req |-> r, kind |-> k]}
  /\ UNCHANGED <<breaker, log_info, connected, client, executed>>

ReceiveAnyKind(c) ==
  /\ pc[c] = "await"
  /\ \E m \in replies : m.req = <<c, attempt[c]>>
  /\ CB!ReturnOk(c)
  /\ End(c, "ok")
  /\ UNCHANGED <<log_info, connected, bridge>>

(* The response to the current attempt arrives: raise_for_status, json and *)
(* the "error" member decide how _raw_call, and the call, end.             *)
Receive(c) ==
  /\ pc[c] = "await"
  /\ \E m \in replies :
       /\ m.req = <<c, attempt[c]>>
       /\ \/ m.kind = "ok" /\ CB!ReturnOk(c)
          \/ m.kind = "rpc_error" /\ CB!ReturnMcpError(c)
          \/ m.kind = "other" /\ CB!ReturnOtherError(c)
       /\ End(c, m.kind)
  /\ UNCHANGED <<log_info, connected, bridge>>

\* Each timed-out attempt reported to the breaker.
RetryCounted(c) ==
  /\ Posting(c) \/ pc[c] = "await"
  /\ connected
  /\ attempt[c] < MaxRetries
  /\ pc' = [pc EXCEPT ![c] = "backoff"]
  /\ CB!OnFailure
  /\ UNCHANGED <<call, log_info, connected, attempt, result, bridge>>

RetryOffByOne(c) ==
  /\ Posting(c) \/ pc[c] = "await"
  /\ connected
  /\ attempt[c] <= MaxRetries
  /\ pc' = [pc EXCEPT ![c] = "backoff"]
  /\ UNCHANGED <<breaker, log_info, connected, attempt, result, bridge>>

(* TimeoutException (in the pool, connecting, writing or reading) with     *)
(* attempts left: MCPTimeoutError, and the loop backs off.                 *)
Retry(c) ==
  /\ Posting(c) \/ pc[c] = "await"
  /\ connected
  /\ attempt[c] < MaxRetries
  /\ pc' = [pc EXCEPT ![c] = "backoff"]
  /\ UNCHANGED <<breaker, log_info, connected, attempt, result, bridge>>

(* The same on the last attempt: MCPTimeoutError leaves the loop.          *)
GiveUp(c) ==
  /\ Posting(c) \/ pc[c] = "await"
  /\ connected
  /\ attempt[c] >= MaxRetries
  /\ CB!ReturnMcpError(c)
  /\ End(c, "timeout")
  /\ UNCHANGED <<log_info, connected, bridge>>

BackoffSameAttempt(c) ==
  /\ pc[c] = "backoff"
  /\ pc' = [pc EXCEPT ![c] = "post"]
  /\ UNCHANGED <<breaker, log_info, connected, attempt, result, bridge>>

(* The backoff is over; the next attempt does not ask the breaker.         *)
BackoffOver(c) ==
  /\ pc[c] = "backoff"
  /\ pc' = [pc EXCEPT ![c] = "post"]
  /\ attempt' = [attempt EXCEPT ![c] = @ + 1]
  /\ UNCHANGED <<breaker, log_info, connected, result, bridge>>

(* ConnectError or RemoteProtocolError: MCPDisconnectError, not retried.   *)
Disconnected(c) ==
  /\ Posting(c) \/ pc[c] = "await"
  /\ connected
  /\ CB!ReturnMcpError(c)
  /\ End(c, "disconnect")
  /\ UNCHANGED <<log_info, connected, bridge>>

(* Any other transport error (ReadError, a pool closed under the request,  *)
(* cancellation) propagates as it is.                                      *)
TransportError(c) ==
  /\ Posting(c) \/ pc[c] \in {"await", "backoff"}
  /\ CB!ReturnOtherError(c)
  /\ End(c, "other")
  /\ UNCHANGED <<log_info, connected, bridge>>

(* connect and disconnect.                                                 *)
Connect == connected' = TRUE /\ UNCHANGED <<breaker, log_info, client, bridge>>
Disconnect == connected' = FALSE /\ UNCHANGED <<breaker, log_info, client, bridge>>

(* POST /admin/circuit-reset and the clock, while calls are under way.     *)
ResetBreaker == CB!Reset /\ UNCHANGED <<log_info, connected, client, bridge>>
Tick == CB!Tick /\ UNCHANGED <<log_info, connected, client, bridge>>

Step(c) ==
  \/ Refuse(c) \/ Start(c) \/ LogRaises(c) \/ Post(c) \/ NotConnected(c) \/ Receive(c)
  \/ Retry(c) \/ GiveUp(c) \/ BackoffOver(c) \/ Disconnected(c) \/ TransportError(c)

Next ==
  \/ \E c \in Calls : Step(c)
  \/ \E r \in transit : Execute(r) \/ Reject(r)
  \/ Connect \/ Disconnect \/ ResetBreaker \/ Tick

(* A call under way keeps moving: every await has a timeout, every backoff *)
(* an end.  The bridge, the connection and the operator promise nothing.   *)
Spec ==
  /\ Init /\ [][Next]_vars
  /\ \A c \in Calls : WF_vars(pc[c] # "start" /\ Step(c))

-----------------------------------------------------------------------------
TypeOK ==
  /\ CB!TypeOK
  /\ log_info \in BOOLEAN /\ connected \in BOOLEAN
  /\ pc \in [Calls -> {"start", "post", "await", "backoff", "done"}]
  /\ attempt \in [Calls -> 0 .. MaxRetries]
  /\ result \in [Calls -> Results]
  /\ transit \subseteq Calls \X (1 .. MaxRetries)
  /\ replies \subseteq [req : Calls \X (1 .. MaxRetries),
                        kind : {"ok", "rpc_error", "other"}]
  /\ executed \in [Calls -> 0 .. MaxRetries]

(* The composition keeps the breaker's own specification: retries, delayed *)
(* executions and reconnections never move the breaker in another way.     *)
BreakerUndisturbed == CB!Spec

(* A call reported as successful was executed, and one refused by the open *)
(* circuit never reaches the bridge, not even later.                       *)
ResultTellsExecution ==
  \A c \in Calls :
    /\ result[c] = "ok" => executed[c] >= 1
    /\ result[c] = "refused" =>
         executed[c] = 0 /\ \A r \in transit : r[1] # c

(* A tool that is not idempotent (write_audit_event) runs at most once per *)
(* attempt made, those still on their way included.                        *)
SendBudget ==
  \A c \in Calls :
    executed[c] + Cardinality({r \in transit : r[1] = c}) <= attempt[c]

(* A call counts at most one failure, however many attempts it made: the   *)
(* breaker's count never exceeds the calls that ended in an MCPError.      *)
OneFailurePerCall ==
  failure_count <= Cardinality({c \in Calls : result[c] \in McpErrors})

(* The retry loop ends: every call that was admitted gets a result.        *)
CallsEnd == \A c \in Calls : pc[c] = "post" ~> pc[c] = "done"

(* mcp/client.py:10: "Structured request/response logging with redaction   *)
(* of sensitive fields" (with LOG_LEVEL=INFO, the default).  The log call  *)
(* ends every tool call instead.                                           *)
LoggingEndsNoCall == \A c \in Calls : result[c] # "key_error"
=============================================================================
