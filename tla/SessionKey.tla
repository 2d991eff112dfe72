------------------------------ MODULE SessionKey ------------------------------
(***************************************************************************)
(* core/security.py: session keys, issued by the API (GET                  *)
(* /generate-session-key) or by `start.py --genkey` on another host, and   *)
(* verified by the API at any later time, after restarts with another      *)
(* environment and under clocks that differ and are corrected.             *)
(*                                                                         *)
(* HMAC is perfect: a signature is the triple it was computed from.  Time  *)
(* is in ticks, Second of them in a second.                                *)
(***************************************************************************)
EXTENDS Integers, FiniteSets

CONSTANTS
  Employees, Secrets,
  Ttls,       \* values of SESSION_KEY_TTL_SECONDS
  Second,     \* ticks in a second
  Skew,       \* ticks by which a host's clock may be off, either way
  MaxTime,    \* bound: ticks observed
  MaxKeys     \* bound: keys issued

(* No configured secret is one of the words used here for what is no      *)
(* secret, nor the literal itself.                                         *)
ASSUME SKAssumption ==
  /\ Secrets \intersect {"absent", "short", "fallback"} = {}
  /\ Ttls \subseteq Nat
  /\ Second \in Nat \ {0}
  /\ Skew \in Nat /\ MaxTime \in Nat /\ MaxKeys \in Nat

VARIABLES
  now,        \* true time
  offset,     \* per host: its clock minus the true time
  api,        \* "down" or "up"
  env,        \* the environment of the API process, or of the last one
  keys        \* the keys issued so far, with ghosts

vars == <<now, offset, api, env, keys>>

Hosts == {"api", "cli"}
Offsets == (-Skew) .. Skew

(* Secrets hold at least 16 characters.  "absent" also stands for a blank  *)
(* value, "fallback" for the literal in _get_hmac_secret.                  *)
Environments ==
  [hmac : Secrets \union {"absent"}, enterprise : Secrets \union {"absent", "short"}, ttl : Ttls]

\* A missing SESSION_HMAC_SECRET is used as it is.
HmacSecretOnly(e) == e.hmac

(* _get_hmac_secret: read once per process, whose environment is fixed.    *)
HmacSecret(e) ==
  IF e.hmac # "absent" THEN e.hmac
  ELSE IF e.enterprise # "absent" THEN e.enterprise
  ELSE "fallback"

(* enforce_enterprise_secret: not absent, not blank, not too short.        *)
Preflight(e) == e.enterprise \notin {"absent", "short"}

\* int(time.time()) on host h.
Clock(h) == (now + offset[h]) \div Second

Init ==
  /\ now = Skew   \* no clock has ever shown a time before 1970
  /\ offset \in [Hosts -> Offsets]
  /\ api = "down"
  /\ env \in Environments
  /\ keys = {}

-----------------------------------------------------------------------------
(* generate_session_key on host h in environment e.  Ghosts: when, and the *)
(* ttl_seconds that the endpoint's answer names.                           *)
Generate(h, e, employee) ==
  /\ Cardinality(keys) < MaxKeys
  /\ keys' = keys \union
       {[ts  |-> Clock(h), at |-> now, ttl |-> e.ttl,
         sig |-> [secret |-> HmacSecret(e), employee |-> employee, ts |-> Clock(h)]]}

VerifyYoungOnly(key, employee) ==
  LET a == Clock("api") - key.ts IN
  IF a >= env.ttl \/ a < 0 THEN "expired"
  ELSE IF key.sig # [secret |-> HmacSecret(env), employee |-> employee, ts |-> key.ts]
    THEN "tampered" ELSE "ok"

VerifyUnsigned(key, employee) ==
  LET a == Clock("api") - key.ts IN
  IF a > env.ttl \/ a < 0 THEN "expired"
  ELSE IF key.sig.secret # HmacSecret(env) \/ key.sig.ts # key.ts THEN "tampered" ELSE "ok"

(* verify_session_key, past the checks of the key's form.                  *)
Verify(key, employee) ==
  LET a == Clock("api") - key.ts IN
  IF a > env.ttl \/ a < 0 THEN "expired"
  ELSE IF key.sig # [secret |-> HmacSecret(env), employee |-> employee, ts |-> key.ts]
    THEN "tampered" ELSE "ok"

(* GET /generate-session-key.                                              *)
IssueByApi ==
  /\ api = "up"
  /\ \E employee \in Employees : Generate("api", env, employee)
  /\ UNCHANGED <<now, offset, api, env>>

(* start.py --genkey: no preflight, and an environment of its own.         *)
IssueByCli ==
  /\ \E employee \in Employees, e \in Environments : Generate("cli", e, employee)
  /\ UNCHANGED <<now, offset, api, env>>

StartUnchecked ==
  /\ api = "down"
  /\ env' \in Environments
  /\ api' = "up"
  /\ UNCHANGED <<now, offset, keys>>

(* The API process starts: main.py aborts before anything else if the      *)
(* preflight fails.                                                        *)
Start ==
  /\ api = "down"
  /\ env' \in Environments
  /\ api' = IF Preflight(env') THEN "up" ELSE "down"
  /\ UNCHANGED <<now, offset, keys>>

Stop ==
  /\ api = "up" /\ api' = "down"
  /\ UNCHANGED <<now, offset, env, keys>>

Tick ==
  /\ now < MaxTime /\ now' = now + 1
  /\ UNCHANGED <<offset, api, env, keys>>

(* A clock is set, by NTP or by hand: forwards or back.                    *)
Adjust ==
  /\ \E h \in Hosts, o \in Offsets : offset' = [offset EXCEPT ![h] = o]
  /\ UNCHANGED <<now, api, env, keys>>

Next == IssueByApi \/ IssueByCli \/ Start \/ Stop \/ Tick \/ Adjust

Spec == Init /\ [][Next]_vars

-----------------------------------------------------------------------------
KeyType ==
  [ts : Nat, at : Nat, ttl : Ttls,
   sig : [secret : Secrets \union {"short", "fallback"}, employee : Employees, ts : Nat]]

(* The state, and every key with its timestamp, is of the code's types.    *)
TypeOK ==
  /\ now \in Nat
  /\ offset \in [Hosts -> Offsets]
  /\ api \in {"down", "up"}
  /\ env \in Environments
  /\ keys \subseteq KeyType

(* main.py:455 answers a key with its ttl_seconds: it is accepted for that *)
(* long, after restarts too, as long as the secret is the same and the TTL *)
(* no shorter; only what the clocks can differ by is lost at both ends,    *)
(* and nothing to rounding.                                                *)
KeyHonoured ==
  \A k \in keys :
    /\ api = "up" /\ HmacSecret(env) = k.sig.secret /\ env.ttl >= k.ttl
    /\ now - k.at >= 2 * Skew
    /\ now - k.at <= k.ttl * Second - 2 * Skew
    => Verify(k, k.sig.employee) = "ok"

(* A key that is accepted is the employee's own and was issued less than   *)
(* ttl + 1 seconds ago, plus what the clocks can differ by: whole seconds  *)
(* cost less than one second, however often clocks were set since.         *)
KeyExpires ==
  \A k \in keys, employee \in Employees :
    Verify(k, employee) = "ok" =>
      /\ employee = k.sig.employee
      /\ now - k.at < (env.ttl + 1) * Second + 2 * Skew

(* A key signed with the literal of an unconfigured --genkey is accepted   *)
(* by no API process that passed the preflight, in whatever environment.   *)
NoFallbackKey ==
  \A k \in keys :
    api = "up" /\ k.sig.secret = "fallback" => Verify(k, k.sig.employee) # "ok"
=============================================================================
