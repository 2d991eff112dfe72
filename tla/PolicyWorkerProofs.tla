-------------------------- MODULE PolicyWorkerProofs --------------------------
(***************************************************************************)
(* What is proved of the policy worker, for every number of requests, keys *)
(* and versions, and every time to live and latency: its types, that what  *)
(* is cached can be trusted, and that it implements PolicyPromise.         *)
(***************************************************************************)
EXTENDS PolicyWorker, TLAPS

(* A key always has a policy, and none comes into force in the future.     *)
Timeline ==
  \A k \in Keys : /\ Len(published[k]) \in 1 .. MaxVersion
                  /\ \A v \in DOMAIN published[k] : published[k][v] <= now

(* Version v of key k was in force at some time from a to b.               *)
InForceWithin(k, v, a, b) == \E t \in a .. b : Promise!InForce(k, v, t)

(* A fetch under way is no older than Latency, and what the bridge has     *)
(* answered it was in force since it began.                                *)
FetchInv ==
  \A r \in Requests : pc[r] = "fetching" =>
    /\ key[r] \in Keys /\ answer[r] = None /\ fault[r] = "none"
    /\ started[r] <= now /\ now - started[r] <= Latency
    /\ reply[r] # 0 => InForceWithin(key[r], reply[r], started[r], now)

IdleInv ==
  \A r \in Requests : pc[r] = "idle" =>
    reply[r] = 0 /\ answer[r] = None /\ fault[r] = "none"

(* What is cached for a key is a version of that key, in force not longer  *)
(* than one fetch before the entry's timestamp, which is past.             *)
CacheInv ==
  \A k \in Keys : cache[k] # None =>
    /\ cache[k].timestamp <= now
    /\ \E v \in 1 .. MaxVersion, t \in 0 .. cache[k].timestamp :
         /\ cache[k].policy = <<k, v>>
         /\ cache[k].timestamp - t <= Latency
         /\ Promise!InForce(k, v, t)

(* CacheTrusted is not inductive: what is stored next comes from a fetch,  *)
(* so that the fetches must be known to be recent and truthful.            *)
IInv == TypeOK /\ Timeline /\ FetchInv /\ IdleInv /\ CacheInv

-----------------------------------------------------------------------------
(* Initially version 1 is in force, nothing is cached and nobody fetches.  *)
LEMMA InitIInv == Init => IInv
  <1> SUFFICES ASSUME Init PROVE IInv
    OBVIOUS
  <1> USE PWAssumption DEF Init
  <1>1. TypeOK
    BY DEF TypeOK, Faults
  <1>2. Timeline
    BY DEF Timeline
  <1>3. FetchInv /\ IdleInv /\ CacheInv
    BY DEF FetchInv, IdleInv, CacheInv
  <1> QED BY <1>1, <1>2, <1>3 DEF IInv

(* The version a bridge reads now is in force now.                         *)
LEMMA ServedInForce ==
  ASSUME TypeOK, Timeline, NEW k \in Keys
  PROVE  Promise!InForce(k, Len(published[k]), now)
  BY DEF TypeOK, Timeline, Promise!InForce

(* What was in force at a past time stays so when a version is published.  *)
LEMMA PublishKeepsInForce ==
  ASSUME TypeOK, Timeline, NEW p \in Keys, Publish(p),
         NEW k \in Keys, NEW v \in Nat, NEW t \in Nat, t <= now,
         Promise!InForce(k, v, t)
  PROVE  Promise!InForce(k, v, t)'
  <1>1. CASE k # p
    BY <1>1 DEF TypeOK, Publish, Promise!InForce
  <1>2. CASE k = p
    <2> DEFINE s == published[p]
    <2>1. s \in Seq(0 .. MaxTime) /\ now \in 0 .. MaxTime
      BY DEF TypeOK
    <2>2. published'[p] = Append(s, now)
      BY DEF Publish, TypeOK
    <2>3. /\ DOMAIN Append(s, now) = 1 .. Len(s) + 1
          /\ \A i \in 1 .. Len(s) : Append(s, now)[i] = s[i]
          /\ Append(s, now)[Len(s) + 1] = now
          /\ DOMAIN s = 1 .. Len(s) /\ Len(s) \in Nat
      BY <2>1
    <2> HIDE DEF s
    <2>4. v \in 1 .. Len(s) /\ s[v] <= t /\ (v + 1 \in 1 .. Len(s) => t <= s[v + 1])
      BY <1>2, <2>3 DEF s, Promise!InForce
    <2>5. v + 1 \in 1 .. Len(s) \/ v + 1 = Len(s) + 1
      BY <2>4, <2>3
    <2> QED BY <1>2, <2>2, <2>3, <2>4, <2>5 DEF Promise!InForce
  <1> QED BY <1>1, <1>2

-----------------------------------------------------------------------------
(* One lemma per action: it keeps the invariant.                           *)

(* A hit decides with the cached entry and changes no fetch.               *)
LEMMA HitIInv ==
  ASSUME IInv, NEW r \in Requests, NEW k \in Keys, Hit(r, k)
  PROVE  IInv'
  <1> USE PWAssumption DEF IInv, Hit
  <1>1. TypeOK'
    <2>1. cache[k].policy \in Keys \X Nat
      BY DEF TypeOK, Fresh
    <2> QED BY <2>1 DEF TypeOK
  <1>2. Timeline'
    BY DEF Timeline
  <1>3. FetchInv'
    BY DEF FetchInv, InForceWithin, Promise!InForce, TypeOK
  <1>4. IdleInv'
    BY DEF IdleInv, TypeOK
  <1>5. CacheInv'
    BY DEF CacheInv, Promise!InForce
  <1> QED BY <1>1, <1>2, <1>3, <1>4, <1>5

(* A fetch that begins is of age 0 and has no answer yet.                  *)
LEMMA FetchIInv ==
  ASSUME IInv, NEW r \in Requests, NEW k \in Keys, Fetch(r, k)
  PROVE  IInv'
  <1> USE PWAssumption DEF IInv, Fetch
  <1>1. TypeOK'
    BY DEF TypeOK
  <1>2. Timeline'
    BY DEF Timeline
  <1>3. FetchInv'
    BY DEF FetchInv, IdleInv, InForceWithin, Promise!InForce, TypeOK
  <1>4. IdleInv'
    BY DEF IdleInv, TypeOK
  <1>5. CacheInv'
    BY DEF CacheInv, Promise!InForce
  <1> QED BY <1>1, <1>2, <1>3, <1>4, <1>5

(* A request without a client ends in an error.                            *)
LEMMA NoClientIInv ==
  ASSUME IInv, NEW r \in Requests, NEW k \in Keys, NoClient(r, k)
  PROVE  IInv'
  <1> USE PWAssumption DEF IInv, NoClient
  <1>1. TypeOK'
    BY DEF TypeOK, Faults
  <1>2. Timeline'
    BY DEF Timeline
  <1>3. FetchInv'
    BY DEF FetchInv, InForceWithin, Promise!InForce, TypeOK
  <1>4. IdleInv'
    BY DEF IdleInv, TypeOK
  <1>5. CacheInv'
    BY DEF CacheInv, Promise!InForce
  <1> QED BY <1>1, <1>2, <1>3, <1>4, <1>5

(* The bridge answers with what is in force now.                           *)
LEMMA ServeIInv ==
  ASSUME IInv, NEW r \in Requests, Serve(r)
  PROVE  IInv'
  <1> USE PWAssumption DEF IInv, Serve
  <1>0. key[r] \in Keys
    BY DEF FetchInv
  <1>1. TypeOK'
    BY <1>0 DEF TypeOK, Timeline
  <1>2. Timeline'
    BY DEF Timeline
  <1>3. FetchInv'
    <2> SUFFICES ASSUME NEW q \in Requests, pc'[q] = "fetching", reply'[q] # 0
                 PROVE  InForceWithin(key[q], reply'[q], started[q], now)
      BY DEF FetchInv, InForceWithin, Promise!InForce
    <2>1. CASE q = r
      <3>1. Promise!InForce(key[r], reply'[r], now)
        BY <1>0, ServedInForce DEF TypeOK
      <3>2. now \in started[r] .. now
        BY DEF FetchInv, TypeOK
      <3> QED BY <2>1, <3>1, <3>2 DEF InForceWithin
    <2>2. CASE q # r
      BY <2>2 DEF FetchInv, TypeOK
    <2> QED BY <2>1, <2>2
  <1>4. IdleInv'
    BY DEF IdleInv, TypeOK
  <1>5. CacheInv'
    BY DEF CacheInv, Promise!InForce
  <1> QED BY <1>1, <1>2, <1>3, <1>4, <1>5

(* What is stored was in force since the fetch began, and so no longer ago *)
(* than Latency; its timestamp is now.                                     *)
LEMMA StoreIInv ==
  ASSUME IInv, NEW r \in Requests, Store(r)
  PROVE  IInv'
  <1> USE PWAssumption DEF IInv, Store, EndFetch
  <1> DEFINE k == key[r]
             v == reply[r]
             entry == [policy |-> <<k, v>>, timestamp |-> now]
  <1>0. k \in Keys /\ v \in 1 .. MaxVersion
    BY DEF FetchInv, TypeOK
  <1>1. TypeOK'
    BY <1>0 DEF TypeOK
  <1>2. Timeline'
    BY DEF Timeline
  <1>3. FetchInv'
    BY DEF FetchInv, InForceWithin, Promise!InForce, TypeOK
  <1>4. IdleInv'
    BY DEF IdleInv, TypeOK
  <1>5. CacheInv'
    <2>1. PICK t \in started[r] .. now : Promise!InForce(k, v, t)
      BY DEF FetchInv, InForceWithin
    <2>2. t \in 0 .. now /\ now - t <= Latency
      BY <2>1 DEF FetchInv, TypeOK
    <2> SUFFICES ASSUME NEW c \in Keys, cache'[c] # None
                 PROVE  /\ cache'[c].timestamp <= now
                        /\ \E w \in 1 .. MaxVersion, u \in 0 .. cache'[c].timestamp :
                             /\ cache'[c].policy = <<c, w>>
                             /\ cache'[c].timestamp - u <= Latency
                             /\ Promise!InForce(c, w, u)
      BY DEF CacheInv, Promise!InForce
    <2>3. CASE c = k
      <3>1. cache'[c] = entry
        BY <2>3, <1>0 DEF TypeOK
      <3>2. cache'[c].timestamp = now /\ cache'[c].policy = <<c, v>>
        BY <3>1, <2>3
      <3>3. now <= now
        BY DEF TypeOK
      <3> QED BY <1>0, <2>1, <2>2, <2>3, <3>2, <3>3
    <2>4. CASE c # k
      <3>1. cache'[c] = cache[c]
        BY <2>4, <1>0 DEF TypeOK
      <3> QED BY <3>1 DEF CacheInv
    <2> QED BY <2>3, <2>4
  <1> QED BY <1>1, <1>2, <1>3, <1>4, <1>5

(* A fallback leaves the cache and the other fetches alone.                *)
LEMMA FallbackIInv ==
  ASSUME IInv, NEW r \in Requests, Fallback(r)
  PROVE  IInv'
  <1> USE PWAssumption DEF IInv, Fallback, EndFetch
  <1>1. TypeOK'
    BY DEF TypeOK, FetchInv, Faults
  <1>2. Timeline'
    BY DEF Timeline
  <1>3. FetchInv'
    BY DEF FetchInv, InForceWithin, Promise!InForce, TypeOK
  <1>4. IdleInv'
    BY DEF IdleInv, TypeOK
  <1>5. CacheInv'
    BY DEF CacheInv, Promise!InForce
  <1> QED BY <1>1, <1>2, <1>3, <1>4, <1>5

(* So does a failure.                                                      *)
LEMMA FailIInv ==
  ASSUME IInv, NEW r \in Requests, NEW f \in {"http_status", "other"}, Fail(r, f)
  PROVE  IInv'
  <1> USE PWAssumption DEF IInv, Fail, EndFetch
  <1>1. TypeOK'
    BY DEF TypeOK, Faults
  <1>2. Timeline'
    BY DEF Timeline
  <1>3. FetchInv'
    BY DEF FetchInv, InForceWithin, Promise!InForce, TypeOK
  <1>4. IdleInv'
    BY DEF IdleInv, TypeOK
  <1>5. CacheInv'
    BY DEF CacheInv, Promise!InForce
  <1> QED BY <1>1, <1>2, <1>3, <1>4, <1>5

(* A version published now leaves every earlier one in force until now.    *)
LEMMA PublishIInv ==
  ASSUME IInv, NEW p \in Keys, Publish(p)
  PROVE  IInv'
  <1> USE PWAssumption DEF IInv, Publish
  <1>0. /\ published' \in [Keys -> Seq(0 .. MaxTime)]
        /\ Timeline'
    <2>1. /\ now \in 0 .. MaxTime /\ published \in [Keys -> Seq(0 .. MaxTime)]
          /\ published[p] \in Seq(0 .. MaxTime) /\ Len(published[p]) \in 1 .. MaxVersion
      BY DEF TypeOK, Timeline
    <2>2. Append(published[p], now) \in Seq(0 .. MaxTime)
      BY <2>1
    <2>3. Len(Append(published[p], now)) = Len(published[p]) + 1
      BY <2>1
    <2>4. \A i \in 1 .. Len(published[p]) + 1 : Append(published[p], now)[i] <= now
      BY <2>1 DEF Timeline
    <2>5. published' \in [Keys -> Seq(0 .. MaxTime)]
      BY <2>1, <2>2
    <2> SUFFICES ASSUME NEW k \in Keys
                 PROVE  /\ Len(published'[k]) \in 1 .. MaxVersion
                        /\ \A v \in DOMAIN published'[k] : published'[k][v] <= now
      BY <2>5 DEF Timeline
    <2>6. CASE k = p
      <3>1. published'[k] = Append(published[p], now)
        BY <2>1, <2>6
      <3> QED BY <2>1, <2>2, <2>3, <2>4, <3>1
    <2>7. CASE k # p
      BY <2>1, <2>7 DEF Timeline
    <2> QED BY <2>6, <2>7
  <1>1. TypeOK'
    BY <1>0 DEF TypeOK
  <1>3. FetchInv'
    <2> SUFFICES ASSUME NEW r \in Requests, pc[r] = "fetching", reply[r] # 0
                 PROVE  InForceWithin(key[r], reply[r], started[r], now)'
      BY DEF FetchInv
    <2>1. PICK t \in started[r] .. now : Promise!InForce(key[r], reply[r], t)
      BY DEF FetchInv, InForceWithin
    <2>2. t \in Nat /\ t <= now /\ reply[r] \in Nat /\ key[r] \in Keys
      BY <2>1 DEF FetchInv, TypeOK
    <2>3. Promise!InForce(key[r], reply[r], t)'
      BY <2>1, <2>2, PublishKeepsInForce DEF Promise!InForce
    <2> QED BY <2>1, <2>3 DEF InForceWithin, Promise!InForce
  <1>4. IdleInv'
    BY DEF IdleInv
  <1>5. CacheInv'
    <2> SUFFICES ASSUME NEW k \in Keys, cache[k] # None
                 PROVE  \E v \in 1 .. MaxVersion, t \in 0 .. cache[k].timestamp :
                          /\ cache[k].policy = <<k, v>>
                          /\ cache[k].timestamp - t <= Latency
                          /\ Promise!InForce(k, v, t)'
      BY DEF CacheInv, Promise!InForce
    <2>1. PICK v \in 1 .. MaxVersion, t \in 0 .. cache[k].timestamp :
            /\ cache[k].policy = <<k, v>>
            /\ cache[k].timestamp - t <= Latency
            /\ Promise!InForce(k, v, t)
      BY DEF CacheInv
    <2>2. t \in Nat /\ t <= now
      BY <2>1 DEF CacheInv, TypeOK
    <2>3. Promise!InForce(k, v, t)'
      BY <2>1, <2>2, PublishKeepsInForce DEF Promise!InForce
    <2> QED BY <2>1, <2>3
  <1> QED BY <1>0, <1>1, <1>3, <1>4, <1>5

(* Time passes only while every fetch is younger than Latency.             *)
LEMMA TickIInv ==
  ASSUME IInv, Tick
  PROVE  IInv'
  <1> USE PWAssumption DEF IInv, Tick
  <1>1. TypeOK'
    BY DEF TypeOK
  <1>2. Timeline'
    <2> SUFFICES ASSUME NEW k \in Keys, NEW v \in DOMAIN published[k]
                 PROVE  published[k][v] <= now + 1
      BY DEF Timeline
    <2>1. published[k][v] \in Nat /\ now \in Nat /\ published[k][v] <= now
      BY DEF TypeOK, Timeline
    <2> QED BY <2>1
  <1>3. FetchInv'
    <2>1. \A r \in Requests : pc[r] = "fetching" =>
            started[r] \in Nat /\ now \in Nat /\ started[r] <= now
      BY DEF FetchInv, TypeOK
    <2>2. ASSUME NEW r \in Requests, pc[r] = "fetching", reply[r] # 0
          PROVE  \E t \in started[r] .. now' : Promise!InForce(key[r], reply[r], t)
      <3>1. started[r] .. now \subseteq started[r] .. (now + 1)
        BY <2>1, <2>2
      <3> QED BY <2>2, <3>1 DEF FetchInv, InForceWithin
    <2>3. \A r \in Requests : pc[r] = "fetching" =>
            /\ key[r] \in Keys /\ answer[r] = None /\ fault[r] = "none"
            /\ started[r] <= now' /\ now' - started[r] <= Latency
      BY <2>1 DEF FetchInv
    <2> QED BY <2>2, <2>3 DEF FetchInv, InForceWithin, Promise!InForce
  <1>4. IdleInv'
    BY DEF IdleInv
  <1>5. CacheInv'
    BY DEF CacheInv, Promise!InForce, TypeOK
  <1> QED BY <1>1, <1>2, <1>3, <1>4, <1>5

(* Every step of the worker keeps the invariant.                           *)
LEMMA NextIInv == IInv /\ [Next]_vars => IInv'
  <1> SUFFICES ASSUME IInv, [Next]_vars PROVE IInv'
    OBVIOUS
  <1>1. ASSUME NEW r \in Requests, NEW k \in Keys, Hit(r, k) \/ Fetch(r, k) \/ NoClient(r, k)
        PROVE  IInv'
    BY <1>1, HitIInv, FetchIInv, NoClientIInv
  <1>2. ASSUME NEW r \in Requests, Serve(r) \/ Store(r) \/ Fallback(r)
        PROVE  IInv'
    BY <1>2, ServeIInv, StoreIInv, FallbackIInv
  <1>3. ASSUME NEW r \in Requests, NEW f \in {"http_status", "other"}, Fail(r, f)
        PROVE  IInv'
    BY <1>3, FailIInv
  <1>4. ASSUME NEW k \in Keys, Publish(k)
        PROVE  IInv'
    BY <1>4, PublishIInv
  <1>5. CASE Tick
    BY <1>5, TickIInv
  <1>6. CASE UNCHANGED vars
    BY <1>6 DEF vars, IInv, TypeOK, Timeline, FetchInv, IdleInv, CacheInv,
                InForceWithin, Promise!InForce
  <1> QED BY <1>1, <1>2, <1>3, <1>4, <1>5, <1>6 DEF Next

(* The inductive invariant holds in every reachable state.                 *)
LEMMA SpecIInv == Spec => []IInv
  BY InitIInv, NextIInv, PTL DEF Spec

(* Type correctness of the worker, its cache and its requests.             *)
THEOREM TypeCorrect == Spec => []TypeOK
  BY SpecIInv, PTL DEF IInv

(* What is cached was in force for its key within Latency of its timestamp *)
(* whatever requests missed together and in whatever order they stored.    *)
THEOREM CacheCanBeTrusted == Spec => []CacheTrusted
  <1>1. IInv => CacheTrusted
    BY DEF IInv, CacheInv, CacheTrusted, Promise!InForce
  <1> QED BY <1>1, SpecIInv, PTL

-----------------------------------------------------------------------------
(* The promise's initial state.                                            *)
LEMMA PromiseInit == Init => Promise!Init
  BY DEF Init, Promise!Init

(* A hit keeps the promise: the entry is younger than TTL, and its policy  *)
(* was in force at most Latency before it was stored.                      *)
LEMMA HitPromise ==
  ASSUME IInv, NEW r \in Requests, NEW k \in Keys, Hit(r, k)
  PROVE  Promise!AnswerBridge(r, k)
  <1> USE PWAssumption DEF IInv, Hit
  <1>1. cache[k] # None /\ cache[k].timestamp \in Nat /\ now \in Nat
    BY DEF Fresh, TypeOK
  <1>2. PICK v \in 1 .. MaxVersion, t \in 0 .. cache[k].timestamp :
          /\ cache[k].policy = <<k, v>>
          /\ cache[k].timestamp - t <= Latency
          /\ Promise!InForce(k, v, t)
    BY <1>1 DEF CacheInv
  <1>3. t \in 0 .. now /\ now - t < TTL + Latency
    BY <1>1, <1>2 DEF CacheInv, Fresh
  <1>4. v \in DOMAIN published[k]
    BY <1>2 DEF Promise!InForce
  <1>5. answer' = [answer EXCEPT ![r] = [key |-> k, policy |-> <<k, v>>]]
    BY <1>2
  <1>6. answer[r] = None /\ fault[r] = "none"
    BY DEF IdleInv
  <1> QED BY <1>2, <1>3, <1>4, <1>5, <1>6 DEF Promise!AnswerBridge

(* So does an answer that has just arrived, which is at most Latency old.  *)
LEMMA StorePromise ==
  ASSUME IInv, NEW r \in Requests, Store(r)
  PROVE  Promise!AnswerBridge(r, key[r])
  <1> USE PWAssumption DEF IInv, Store
  <1>1. PICK t \in started[r] .. now : Promise!InForce(key[r], reply[r], t)
    BY DEF FetchInv, InForceWithin
  <1>2. t \in 0 .. now /\ now - t < TTL + Latency
    BY <1>1 DEF FetchInv, TypeOK
  <1>3. reply[r] \in DOMAIN published[key[r]]
    BY <1>1 DEF Promise!InForce
  <1>4. answer[r] = None /\ fault[r] = "none"
    BY DEF FetchInv
  <1> QED BY <1>1, <1>2, <1>3, <1>4 DEF Promise!AnswerBridge

(* Every step of the worker is a step of the promise, or none.             *)
LEMMA PromiseNext == IInv /\ [Next]_vars => [Promise!Next]_Promise!vars
  <1> SUFFICES ASSUME IInv, [Next]_vars PROVE [Promise!Next]_Promise!vars
    OBVIOUS
  <1> USE DEF Promise!Next, Promise!vars
  <1>1. ASSUME NEW r \in Requests, NEW k \in Keys, Hit(r, k)
        PROVE  Promise!Next
    BY <1>1, HitPromise
  <1>2. ASSUME NEW r \in Requests, NEW k \in Keys, Fetch(r, k)
        PROVE  UNCHANGED Promise!vars
    BY <1>2 DEF Fetch
  <1>3. ASSUME NEW r \in Requests, NEW k \in Keys, NoClient(r, k)
        PROVE  Promise!NoAnswer(r)
    BY <1>3 DEF NoClient, Promise!NoAnswer, IInv, IdleInv
  <1>4. ASSUME NEW r \in Requests, Serve(r)
        PROVE  UNCHANGED Promise!vars
    BY <1>4 DEF Serve
  <1>5. ASSUME NEW r \in Requests, Store(r)
        PROVE  Promise!Next
    <2>1. key[r] \in Keys
      BY <1>5 DEF Store, IInv, FetchInv
    <2> QED BY <1>5, <2>1, StorePromise
  <1>6. ASSUME NEW r \in Requests, Fallback(r)
        PROVE  key[r] \in Keys /\ Promise!AnswerLocal(r, key[r])
    BY <1>6 DEF Fallback, IInv, FetchInv, Promise!AnswerLocal
  <1>7. ASSUME NEW r \in Requests, NEW f \in {"http_status", "other"}, Fail(r, f)
        PROVE  Promise!NoAnswer(r)
    BY <1>7 DEF Fail, IInv, FetchInv, Promise!NoAnswer
  <1>8. ASSUME NEW k \in Keys, Publish(k)
        PROVE  Promise!Publish(k)
    BY <1>8 DEF Publish, Promise!Publish
  <1>9. CASE Tick
    BY <1>9 DEF Tick, Promise!Tick
  <1>10. CASE UNCHANGED vars
    BY <1>10 DEF vars
  <1> QED BY <1>1, <1>2, <1>3, <1>4, <1>5, <1>6, <1>7, <1>8, <1>9, <1>10 DEF Next

(* The worker implements its promise: no decision is made with a policy    *)
(* that has been out of force for TTL + Latency.                           *)
THEOREM WorkerKeepsPromise == Spec => KeepsPromise
  BY PromiseInit, PromiseNext, SpecIInv, PTL DEF Spec, KeepsPromise, Promise!Spec
=============================================================================
