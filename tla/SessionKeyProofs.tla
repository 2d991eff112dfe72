--------------------------- MODULE SessionKeyProofs ---------------------------
(***************************************************************************)
(* Theorems about session keys, for all secrets, lifetimes, clock errors   *)
(* and any length of a second in ticks.                                    *)
(***************************************************************************)
EXTENDS SessionKey, TLAPS

\* The offset its issuer's clock had explains a key's timestamp.
Stamped(k) ==
  /\ k.at >= Skew /\ k.at <= now
  /\ k.sig.ts = k.ts
  /\ \E o \in Offsets : k.ts = (k.at + o) \div Second

(* Every key has the timestamp of a clock that was off by Skew at most,    *)
(* and true time has not gone back since.                                  *)
IInv ==
  /\ TypeOK
  /\ now >= Skew
  /\ api = "up" => Preflight(env)
  /\ \A k \in keys : Stamped(k)

-----------------------------------------------------------------------------
(* What int() does to a time: it takes off less than a second.             *)
LEMMA Floor ==
  ASSUME NEW n \in Nat
  PROVE  /\ n \div Second \in Nat
         /\ Second * (n \div Second) <= n
         /\ n < Second * (n \div Second) + Second
BY SKAssumption

(* Ages in whole seconds: two times at most t seconds apart are at most t  *)
(* apart when both are cut, and in their order.                            *)
LEMMA AgeWithin ==
  ASSUME NEW m \in Nat, NEW n \in Nat, NEW t \in Nat,
         m <= n, n - m <= t * Second
  PROVE  n \div Second - m \div Second \in 0 .. t
<1> DEFINE p == m \div Second
           q == n \div Second
<1>1. /\ p \in Nat /\ Second * p <= m /\ m < Second * p + Second
      /\ q \in Nat /\ Second * q <= n /\ n < Second * q + Second
  BY Floor
<1>2. q >= p
  BY <1>1, SKAssumption
<1>3. q - p <= t
  BY <1>1, SKAssumption
<1> QED
  BY <1>1, <1>2, <1>3

(* Conversely, cut times at most t apart are less than t + 1 seconds apart. *)
LEMMA AgeReal ==
  ASSUME NEW m \in Nat, NEW n \in Nat, NEW t \in Nat,
         n \div Second - m \div Second <= t
  PROVE  n - m < (t + 1) * Second
<1> DEFINE p == m \div Second
           q == n \div Second
<1>1. /\ p \in Nat /\ Second * p <= m /\ m < Second * p + Second
      /\ q \in Nat /\ Second * q <= n /\ n < Second * q + Second
  BY Floor
<1>2. q <= p + t
  BY <1>1
<1>3. Second * q <= Second * p + Second * t
  BY <1>1, <1>2, SKAssumption
<1> QED
  BY <1>1, <1>3, SKAssumption

-----------------------------------------------------------------------------
(* The invariant holds before the first process starts.                    *)
LEMMA InitIInv == Init => IInv
BY SKAssumption DEF Init, IInv, TypeOK, Hosts, Offsets, KeyType, Environments

(* A host's clock shows a natural number of seconds.                       *)
LEMMA ClockType ==
  ASSUME IInv, NEW h \in Hosts
  PROVE  /\ now + offset[h] \in Nat
         /\ Clock(h) \in Nat
<1>1. now \in Nat /\ now >= Skew /\ offset[h] \in Int /\ offset[h] >= -Skew
  BY SKAssumption DEF IInv, TypeOK, Offsets
<1>2. now + offset[h] \in Nat
  BY <1>1, SKAssumption
<1> QED
  BY <1>2, Floor DEF Clock

(* A key just generated is stamped with its issuer's clock.                *)
LEMMA GenerateIInv ==
  ASSUME IInv, NEW h \in Hosts, NEW e \in Environments, NEW employee \in Employees,
         Generate(h, e, employee), UNCHANGED <<now, offset, api, env>>
  PROVE  IInv'
<1> DEFINE key == [ts |-> Clock(h), at |-> now, ttl |-> e.ttl,
                   sig |-> [secret |-> HmacSecret(e), employee |-> employee, ts |-> Clock(h)]]
<1>1. keys' = keys \union {key}
  BY DEF Generate
<1>2. HmacSecret(e) \in Secrets \union {"short", "fallback"}
  BY DEF HmacSecret, Environments
<1>3. now \in Nat /\ e.ttl \in Ttls /\ Clock(h) \in Nat
  BY ClockType DEF IInv, TypeOK, Environments
<1>4. key \in KeyType
  BY <1>2, <1>3 DEF KeyType
<1>5. Stamped(key)
  <2>1. offset[h] \in Offsets
    BY DEF IInv, TypeOK
  <2>2. key.ts = (key.at + offset[h]) \div Second
    BY DEF Clock
  <2> QED
    BY <1>3, <2>1, <2>2, SKAssumption DEF Stamped, IInv
<1>6. \A k \in keys' : Stamped(k)
  BY <1>1, <1>5 DEF IInv
<1>7. (\A k \in keys : Stamped(k))'
  BY <1>6 DEF Stamped
<1>8. TypeOK'
  BY <1>1, <1>4 DEF IInv, TypeOK
<1> QED
  BY <1>7, <1>8 DEF IInv, Preflight

(* Every step keeps the invariant: only Tick moves what Stamped speaks of. *)
LEMMA NextIInv == IInv /\ [Next]_vars => IInv'
<1> SUFFICES ASSUME IInv, [Next]_vars PROVE IInv'
  OBVIOUS
<1>1. CASE IssueByApi
  BY <1>1, GenerateIInv DEF IssueByApi, IInv, TypeOK, Hosts
<1>2. CASE IssueByCli
  BY <1>2, GenerateIInv DEF IssueByCli, Hosts
<1>3. CASE Start
  BY <1>3 DEF Start, IInv, TypeOK, Stamped, Preflight
<1>4. CASE Stop
  BY <1>4 DEF Stop, IInv, TypeOK, Stamped
<1>5. CASE Tick
  <2>1. now \in Nat /\ now' = now + 1 /\ UNCHANGED <<offset, api, env, keys>>
    BY <1>5 DEF Tick, IInv, TypeOK
  <2>2. TypeOK' /\ now' >= Skew
    BY <2>1, SKAssumption DEF IInv, TypeOK
  <2>3. ASSUME NEW k \in keys PROVE Stamped(k)'
    <3>1. k.at \in Nat /\ Stamped(k)
      BY DEF IInv, TypeOK, KeyType
    <3> QED
      BY <2>1, <3>1 DEF Stamped
  <2> QED
    BY <2>1, <2>2, <2>3 DEF IInv, Preflight
<1>6. CASE Adjust
  <2>1. UNCHANGED <<now, api, env, keys>> /\ offset' \in [Hosts -> Offsets]
    BY <1>6 DEF Adjust, IInv, TypeOK
  <2> QED
    BY <2>1 DEF IInv, TypeOK, Stamped, Preflight
<1>7. CASE UNCHANGED vars
  BY <1>7 DEF vars, IInv, TypeOK, Stamped, Preflight
<1> QED
  BY <1>1, <1>2, <1>3, <1>4, <1>5, <1>6, <1>7 DEF Next

(* IInv is an invariant of every behaviour of the keys and the API.        *)
THEOREM InvariantHolds == Spec => []IInv
  BY InitIInv, NextIInv, PTL DEF Spec

-----------------------------------------------------------------------------
(* A key's age as the API sees it is the true one up to the clocks' error. *)
LEMMA SeenAge ==
  ASSUME IInv, NEW k \in keys
  PROVE  \E m, n \in Nat :
           /\ k.ts = m \div Second /\ Clock("api") = n \div Second
           /\ (n - m) - (now - k.at) \in (-(2 * Skew)) .. (2 * Skew)
<1>1. PICK o \in Offsets : k.ts = (k.at + o) \div Second
  BY DEF IInv, Stamped
<1>2. k.at \in Nat /\ now \in Nat /\ k.at >= Skew /\ o \in Int /\ o >= -Skew /\ o <= Skew
  BY <1>1, SKAssumption DEF IInv, TypeOK, KeyType, Stamped, Offsets
<1>3. now + offset["api"] \in Nat
  BY ClockType DEF Hosts
<1>4. offset["api"] \in Int /\ offset["api"] >= -Skew /\ offset["api"] <= Skew
  BY SKAssumption DEF IInv, TypeOK, Hosts, Offsets
<1> DEFINE m == k.at + o
           n == now + offset["api"]
<1>5. m \in Nat /\ n \in Nat
  BY <1>2, <1>3, SKAssumption
<1>6. (n - m) - (now - k.at) \in (-(2 * Skew)) .. (2 * Skew)
  BY <1>2, <1>4, SKAssumption
<1> QED
  BY <1>1, <1>5, <1>6 DEF Clock

(* A key within its lifetime is accepted.                                  *)
LEMMA HonouredWhenInvariant == IInv => KeyHonoured
<1> SUFFICES ASSUME IInv, NEW k \in keys,
                    HmacSecret(env) = k.sig.secret, env.ttl >= k.ttl,
                    now - k.at >= 2 * Skew,
                    now - k.at <= k.ttl * Second - 2 * Skew
             PROVE  Verify(k, k.sig.employee) = "ok"
  BY DEF KeyHonoured
<1>1. PICK m \in Nat, n \in Nat :
           /\ k.ts = m \div Second /\ Clock("api") = n \div Second
           /\ (n - m) - (now - k.at) \in (-(2 * Skew)) .. (2 * Skew)
  BY SeenAge
<1>2. /\ k.ttl \in Nat /\ env.ttl \in Nat
      /\ k.at \in Nat /\ now \in Nat /\ k.ttl * Second \in Nat
      /\ k.sig = [secret |-> k.sig.secret, employee |-> k.sig.employee, ts |-> k.sig.ts]
  <2>1. k \in KeyType /\ env \in Environments /\ now \in Nat
    BY DEF IInv, TypeOK
  <2>2. k.ttl \in Nat /\ env.ttl \in Nat /\ k.at \in Nat
    BY <2>1, SKAssumption DEF KeyType, Environments
  <2>3. k.ttl * Second \in Nat
    BY <2>2, SKAssumption
  <2> QED
    BY <2>1, <2>2, <2>3 DEF KeyType
<1>3. m <= n /\ n - m <= k.ttl * Second
  BY <1>1, <1>2, SKAssumption
<1>4. n \div Second - m \div Second \in 0 .. k.ttl
  BY <1>2, <1>3, AgeWithin
<1>5. Clock("api") - k.ts \in 0 .. k.ttl
  BY <1>1, <1>4
<1>6. ~(Clock("api") - k.ts > env.ttl \/ Clock("api") - k.ts < 0)
  BY <1>2, <1>5
<1>7. k.sig.ts = k.ts
  BY DEF IInv, Stamped
<1> QED
  BY <1>2, <1>6, <1>7 DEF Verify

(* A key that is accepted is within its lifetime.                          *)
LEMMA ExpiresWhenInvariant == IInv => KeyExpires
<1> SUFFICES ASSUME IInv, NEW k \in keys, NEW employee \in Employees,
                    Verify(k, employee) = "ok"
             PROVE  /\ employee = k.sig.employee
                    /\ now - k.at < (env.ttl + 1) * Second + 2 * Skew
  BY DEF KeyExpires
<1>1. /\ ~(Clock("api") - k.ts > env.ttl)
      /\ k.sig = [secret |-> HmacSecret(env), employee |-> employee, ts |-> k.ts]
  BY DEF Verify
<1>2. PICK m \in Nat, n \in Nat :
           /\ k.ts = m \div Second /\ Clock("api") = n \div Second
           /\ (n - m) - (now - k.at) \in (-(2 * Skew)) .. (2 * Skew)
  BY SeenAge
<1>3. env.ttl \in Nat /\ k.at \in Nat /\ now \in Nat /\ (env.ttl + 1) * Second \in Nat
  <2>1. env.ttl \in Nat /\ k.at \in Nat /\ now \in Nat
    BY SKAssumption DEF IInv, TypeOK, KeyType, Environments
  <2> QED
    BY <2>1, SKAssumption
<1>4. m \div Second \in Nat /\ n \div Second \in Nat
  BY Floor
<1>5. n - m < (env.ttl + 1) * Second
  BY <1>1, <1>2, <1>3, <1>4, AgeReal
<1>6. now - k.at < (env.ttl + 1) * Second + 2 * Skew
  BY <1>2, <1>3, <1>5, SKAssumption
<1> QED
  BY <1>1, <1>6

(* An API process that runs has a secret that is not the literal.          *)
LEMMA FallbackRefusedWhenInvariant == IInv => NoFallbackKey
<1> SUFFICES ASSUME IInv, NEW k \in keys, api = "up", k.sig.secret = "fallback"
             PROVE  Verify(k, k.sig.employee) # "ok"
  BY DEF NoFallbackKey
<1>1. HmacSecret(env) # "fallback"
  BY SKAssumption DEF IInv, TypeOK, Environments, HmacSecret, Preflight
<1>2. k.sig # [secret |-> HmacSecret(env), employee |-> k.sig.employee, ts |-> k.ts]
  BY <1>1
<1> QED
  BY <1>2 DEF Verify

(* Type correctness, for every number of employees, secrets and keys.      *)
THEOREM TypeCorrect == Spec => []TypeOK
  BY InvariantHolds, PTL DEF IInv

(* A key is accepted for as long as the endpoint said, up to clock errors. *)
THEOREM KeysHonoured == Spec => []KeyHonoured
  BY InvariantHolds, HonouredWhenInvariant, PTL

(* A key is refused once it is a second older than the TTL, up to the      *)
(* clocks' errors, and always for another employee.                        *)
THEOREM KeysExpire == Spec => []KeyExpires
  BY InvariantHolds, ExpiresWhenInvariant, PTL

(* The literal secret never opens an API that passed its preflight.        *)
THEOREM FallbackKeysRefused == Spec => []NoFallbackKey
  BY InvariantHolds, FallbackRefusedWhenInvariant, PTL

=============================================================================
