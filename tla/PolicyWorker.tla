---------------------------- MODULE PolicyWorker -----------------------------
(***************************************************************************)
(* Where PolicyEvaluatorWorker gets its policy                             *)
(* (agents/policy_evaluator_worker.py, _fetch_policy): concurrent requests *)
(* that share one cache with a time to live, a bridge whose policies       *)
(* change while answers are on their way, and the local ruleset when the   *)
(* fetch ends in an MCPError.                                              *)
(*                                                                         *)
(* A policy of the bridge is <<key, version>>.  Everything that happens    *)
(* inside fetch_corporate_policy (attempts, backoff, circuit breaker; see  *)
(* McpClient) is one fetch here, which takes at most Latency.              *)
(***************************************************************************)
EXTENDS Integers, Sequences

CONSTANTS
  Requests,
  Departments, Categories,
  TTL,            \* _cache_ttl
  Latency,        \* the longest a fetch takes, its attempts and backoffs included
  MaxTime,        \* bound: how long the model is observed
  MaxVersion,     \* bound: versions published of one key
  Local,          \* the local ruleset's policy
  None

Keys == Departments \X Categories

ASSUME PWAssumption ==
  /\ TTL \in Nat \ {0} /\ Latency \in Nat /\ MaxTime \in Nat /\ MaxVersion \in Nat \ {0}
  /\ Local \notin Keys \X Nat /\ None \notin Keys
  /\ None \notin [policy : Keys \X Nat, timestamp : Int]
  /\ None \notin [key : Keys, policy : (Keys \X Nat) \union {Local}]

VARIABLES
  now,          \* time.monotonic()
  has_client,   \* the pipeline built its MCPClient
  published,    \* per key: when each version came into force at the bridge
  cache,        \* _policy_cache: None or [policy, timestamp]
  pc,           \* per request: "idle", "fetching", "done" or "error"
  key,          \* per request: its department and category
  started,      \* per request: when its fetch began (ghost)
  reply,        \* per request: the version the bridge answered, 0 for none yet
  answer,       \* per request: None, or [key, policy] decided with
  fault         \* per request: what went wrong with its fetch

vars == <<now, has_client, published, cache, pc, key, started, reply, answer, fault>>

Init ==
  /\ now = 0
  /\ has_client \in BOOLEAN
  /\ published = [k \in Keys |-> <<0>>]
  /\ cache = [k \in Keys |-> None]
  /\ pc = [r \in Requests |-> "idle"]
  /\ key = [r \in Requests |-> None]
  /\ started = [r \in Requests |-> 0]
  /\ reply = [r \in Requests |-> 0]
  /\ answer = [r \in Requests |-> None]
  /\ fault = [r \in Requests |-> "none"]

-----------------------------------------------------------------------------
(* The cached entry for k exists and is younger than the time to live.     *)
Fresh(k) == cache[k] # None /\ now - cache[k].timestamp < TTL

\* The entry's lifetime starts again at every hit.
HitSlides(r, k) ==
  /\ pc[r] = "idle" /\ Fresh(k)
  /\ pc' = [pc EXCEPT ![r] = "done"]
  /\ key' = [key EXCEPT ![r] = k]
  /\ answer' = [answer EXCEPT ![r] = [key |-> k, policy |-> cache[k].policy]]
  /\ cache' = [cache EXCEPT ![k].timestamp = now]
  /\ UNCHANGED <<now, has_client, published, started, reply, fault>>

(* The lookup finds a fresh entry: no call, decide with it.                *)
Hit(r, k) ==
  /\ pc[r] = "idle" /\ Fresh(k)
  /\ pc' = [pc EXCEPT ![r] = "done"]
  /\ key' = [key EXCEPT ![r] = k]
  /\ answer' = [answer EXCEPT ![r] = [key |-> k, policy |-> cache[k].policy]]
  /\ UNCHANGED <<now, has_client, published, cache, started, reply, fault>>

(* It finds none: call the bridge.  Every other request that misses before *)
(* the answer is stored calls it too.                                      *)
Fetch(r, k) ==
  /\ pc[r] = "idle" /\ ~Fresh(k) /\ has_client
  /\ pc' = [pc EXCEPT ![r] = "fetching"]
  /\ key' = [key EXCEPT ![r] = k]
  /\ started' = [started EXCEPT ![r] = now]
  /\ UNCHANGED <<now, has_client, published, cache, reply, answer, fault>>

(* Without a client the call is an AttributeError, no MCPError.            *)
NoClient(r, k) ==
  /\ pc[r] = "idle" /\ ~Fresh(k) /\ ~has_client
  /\ pc' = [pc EXCEPT ![r] = "error"]
  /\ key' = [key EXCEPT ![r] = k]
  /\ fault' = [fault EXCEPT ![r] = "no_client"]
  /\ UNCHANGED <<now, has_client, published, cache, started, reply, answer>>

(* The bridge reads its current policy, perhaps for several attempts.      *)
Serve(r) ==
  /\ pc[r] = "fetching"
  /\ reply' = [reply EXCEPT ![r] = Len(published[key[r]])]
  /\ UNCHANGED <<now, has_client, published, cache, pc, key, started, answer, fault>>

(* The fetch is over; its local variables are gone.                        *)
EndFetch(r) ==
  /\ started' = [started EXCEPT ![r] = 0]
  /\ reply' = [reply EXCEPT ![r] = 0]

\* Cached under the department alone, whatever the category.
StoreByDepartment(r) ==
  /\ pc[r] = "fetching" /\ reply[r] # 0
  /\ LET policy == <<key[r], reply[r]>> IN
       /\ cache' = [k \in Keys |-> IF k[1] = key[r][1]
                                     THEN [policy |-> policy, timestamp |-> now]
                                     ELSE cache[k]]
       /\ answer' = [answer EXCEPT ![r] = [key |-> key[r], policy |-> policy]]
  /\ pc' = [pc EXCEPT ![r] = "done"]
  /\ UNCHANGED <<now, has_client, published, key, fault>>
  /\ EndFetch(r)

(* The answer arrives and is cached from now on, even over a newer one.    *)
Store(r) ==
  /\ pc[r] = "fetching" /\ reply[r] # 0
  /\ LET policy == <<key[r], reply[r]>> IN
       /\ cache' = [cache EXCEPT ![key[r]] = [policy |-> policy, timestamp |-> now]]
       /\ answer' = [answer EXCEPT ![r] = [key |-> key[r], policy |-> policy]]
  /\ pc' = [pc EXCEPT ![r] = "done"]
  /\ UNCHANGED <<now, has_client, published, key, fault>>
  /\ EndFetch(r)

\* The fallback kept in the cache like an answer of the bridge.
FallbackCached(r) ==
  /\ pc[r] = "fetching"
  /\ answer' = [answer EXCEPT ![r] = [key |-> key[r], policy |-> Local]]
  /\ cache' = [cache EXCEPT ![key[r]] = [policy |-> Local, timestamp |-> now]]
  /\ pc' = [pc EXCEPT ![r] = "done"]
  /\ fault' = [fault EXCEPT ![r] = "mcp"]
  /\ UNCHANGED <<now, has_client, published, key>>
  /\ EndFetch(r)

(* MCPError (timeout, disconnect, open circuit, RPC error): decide with    *)
(* the local ruleset, which the pipeline always provides; cache nothing.   *)
Fallback(r) ==
  /\ pc[r] = "fetching"
  /\ answer' = [answer EXCEPT ![r] = [key |-> key[r], policy |-> Local]]
  /\ pc' = [pc EXCEPT ![r] = "done"]
  /\ fault' = [fault EXCEPT ![r] = "mcp"]
  /\ UNCHANGED <<now, has_client, published, cache, key>>
  /\ EndFetch(r)

(* Any other exception (HTTPStatusError of a 4xx or 5xx, PolicyLoadError   *)
(* of an answer that cannot be read, the log call's KeyError) is not       *)
(* caught here.                                                            *)
Fail(r, f) ==
  /\ pc[r] = "fetching"
  /\ pc' = [pc EXCEPT ![r] = "error"]
  /\ fault' = [fault EXCEPT ![r] = f]
  /\ UNCHANGED <<now, has_client, published, cache, key, answer>>
  /\ EndFetch(r)

(* The enterprise changes the policy of k.                                 *)
Publish(k) ==
  /\ Len(published[k]) < MaxVersion
  /\ published' = [published EXCEPT ![k] = Append(@, now)]
  /\ UNCHANGED <<now, has_client, cache, pc, key, started, reply, answer, fault>>

(* Time passes, but no fetch outlasts Latency.                             *)
Tick ==
  /\ now < MaxTime
  /\ \A r \in Requests : pc[r] = "fetching" => now - started[r] < Latency
  /\ now' = now + 1
  /\ UNCHANGED <<has_client, published, cache, pc, key, started, reply, answer, fault>>

Next ==
  \/ \E r \in Requests :
       \/ \E k \in Keys : Hit(r, k) \/ Fetch(r, k) \/ NoClient(r, k)
       \/ Serve(r) \/ Store(r) \/ Fallback(r)
       \/ \E f \in {"http_status", "other"} : Fail(r, f)
  \/ \E k \in Keys : Publish(k)
  \/ Tick

Spec == Init /\ [][Next]_vars

-----------------------------------------------------------------------------
Promise == INSTANCE PolicyPromise WITH Bound <- TTL + Latency

Faults == {"none", "mcp", "no_client", "http_status", "other"}

TypeOK ==
  /\ now \in 0 .. MaxTime
  /\ has_client \in BOOLEAN
  /\ published \in [Keys -> Seq(0 .. MaxTime)]
  /\ cache \in [Keys -> [policy : Keys \X Nat, timestamp : 0 .. MaxTime] \union {None}]
  /\ pc \in [Requests -> {"idle", "fetching", "done", "error"}]
  /\ key \in [Requests -> Keys \union {None}]
  /\ started \in [Requests -> 0 .. MaxTime]
  /\ reply \in [Requests -> 0 .. MaxVersion]
  /\ answer \in [Requests -> [key : Keys, policy : (Keys \X Nat) \union {Local}] \union {None}]
  /\ fault \in [Requests -> Faults]

(* What is cached for a key is a version of that key, in force not longer  *)
(* than one fetch before the entry's timestamp, however many fetches of    *)
(* the key were under way at once and in whatever order they ended.        *)
CacheTrusted ==
  \A k \in Keys : cache[k] # None =>
    \E v \in DOMAIN published[k], t \in 0 .. cache[k].timestamp :
      /\ cache[k].policy = <<k, v>>
      /\ cache[k].timestamp - t <= Latency
      /\ Promise!InForce(k, v, t)

(* The worker implements its promise: no decision is made with a policy    *)
(* that went out of force TTL and one fetch ago, or earlier.               *)
KeepsPromise == Promise!Spec

(* README.md:29: "MCP bridge failures never cascade into total outages".   *)
(* A bridge that answers with an HTTP error fails the request.             *)
BridgeErrorUsesLocal == \A r \in Requests : fault[r] = "http_status" => pc[r] = "done"
=============================================================================
