----------------------------- MODULE PolicyRules -----------------------------
(***************************************************************************)
(* The decision for one expense: the amount's coercion and bounds          *)
(* (core/models.py), the lookup of the applicable rule, at the bridge      *)
(* (mcp/server.py) and in the local fallback (core/models.py, loaded by    *)
(* orchestrator/pipeline.py), and the comparison in integer cents          *)
(* (agents/policy_evaluator_worker.py).                                    *)
(*                                                                         *)
(* Money is counted in mills, a thousandth of a dollar, where the code has *)
(* a Decimal, and in cents where it has an int.  Departments and           *)
(* categories are words; a rule's `lower` says whether its category is     *)
(* written in lower case, the only thing about spelling on which the two   *)
(* lookups differ.                                                         *)
(***************************************************************************)
EXTENDS Integers, Sequences

CONSTANTS
  Departments, Categories,   \* words; "*" is the wildcard category
  Amounts,                   \* amounts submitted, in mills
  Files,                     \* contents of policy_rules.json
  TooMuch,                   \* cents an amount must be below ($1,000,000.00)
  None                       \* an absent value

Rules == [department : Departments, category : Categories \union {"*"},
          lower : BOOLEAN, limit : Nat, escalation : Nat \union {None}]

ASSUME PRAssumption ==
  /\ None \notin Int /\ None \notin Rules
  /\ Amounts \subseteq Nat
  /\ TooMuch \in Nat
  /\ Files \subseteq [default : Nat, rules : Seq(Rules)]

VARIABLES
  amount,     \* the amount submitted, in mills
  query,      \* its department and category
  file,       \* the policy file of the bridge and of the service
  stage,      \* "pending", "rejected" or "decided"
  decision    \* None, or [source, policy, verdict]

vars == <<amount, query, file, stage, decision>>

-----------------------------------------------------------------------------
(* Plausible bugs, each used as a mutant of a definition below.            *)

QuantizeHalfUp(m) == (m + 5) \div 10

\* limit_cents by rounding to the nearest cent instead of int().
CentsRounded(mills) == (mills + 5) \div 10

\* The first rule of the department, whatever comes before whatever.
ResolveFirst(f, d, c) ==
  LET hits == {i \in DOMAIN f.rules :
                 f.rules[i].department = d /\ f.rules[i].category \in {c, "*"}}
  IN IF hits = {} THEN [limit |-> f.default, escalation |-> 4 * f.default]
     ELSE LET r == f.rules[CHOOSE i \in hits : \A j \in hits : i <= j]
          IN [limit |-> r.limit,
              escalation |-> IF r.escalation = None THEN 4 * r.limit ELSE r.escalation]

-----------------------------------------------------------------------------
(* coerce_amount: quantize to cents; Decimal's default rounding sends a    *)
(* tie to the even cent.                                                   *)
Quantize(mills) ==
  LET cent == mills \div 10
      rest == mills % 10
  IN IF rest > 5 \/ (rest = 5 /\ cent % 2 = 1) THEN cent + 1 ELSE cent

(* The bounds of ExpensePayload.amount, on the quantized amount.           *)
Accepted(cents) == cents > 0 /\ cents < TooMuch

(* limit_cents, escalation_cents: int() drops fractions of a cent.         *)
Cents(mills) == mills \div 10

FirstOf(rules, hits) ==
  IF hits = {} THEN None ELSE rules[CHOOSE i \in hits : \A j \in hits : i <= j]

(* PolicyRuleSet.resolve_limit: exact match in any spelling, then the      *)
(* department's wildcard, then the default, which never escalates.         *)
ExactRules(f, d, c) ==
  {i \in DOMAIN f.rules : f.rules[i].department = d /\ f.rules[i].category = c}
WildRules(f, d) == ExactRules(f, d, "*")

ResolveLimit(f, d, c) ==
  LET exact == FirstOf(f.rules, ExactRules(f, d, c))
      wild == FirstOf(f.rules, WildRules(f, d))
      rule == IF exact # None THEN exact ELSE wild
  IN IF rule # None
       THEN [limit |-> rule.limit, escalation |-> rule.escalation]
       ELSE [limit |-> f.default, escalation |-> None]

(* _handle_fetch_corporate_policy with _format_rule: the same priorities,  *)
(* on categories in lower case only, and an escalation for every answer.   *)
BridgePolicy(f, d, c) ==
  LET lower == {i \in ExactRules(f, d, c) : f.rules[i].lower}
      exact == FirstOf(f.rules, lower)
      wild == FirstOf(f.rules, WildRules(f, d))
      rule == IF exact # None THEN exact ELSE wild
      limit == IF rule # None THEN rule.limit ELSE f.default
  IN [limit |-> limit,
      escalation |-> IF rule # None /\ rule.escalation # None
                       THEN rule.escalation ELSE 4 * limit]

(* _load_local_ruleset: only the default is read, "rules=[]".              *)
LoadLocal(f) == [default |-> f.default, rules |-> <<>>]

\* Two plausible bugs: max(0, .) forgotten, the variance taken over the tier.
EvaluateSigned(cents, policy) ==
  LET over == cents > Cents(policy.limit)
  IN [status |-> IF over THEN "FLAGGED" ELSE "APPROVED",
      variance |-> cents - Cents(policy.limit),
      escalate |-> over /\ policy.escalation # None /\ cents > Cents(policy.escalation)]

(* PolicyEvaluatorWorker.run, steps 2 to 4.                                *)
Evaluate(cents, policy) ==
  LET over == cents > Cents(policy.limit)
  IN [status |-> IF over THEN "FLAGGED" ELSE "APPROVED",
      variance |-> IF over THEN cents - Cents(policy.limit) ELSE 0,
      escalate |-> /\ over
                   /\ policy.escalation # None
                   /\ cents > Cents(policy.escalation)]

-----------------------------------------------------------------------------
Init ==
  /\ amount \in Amounts
  /\ query \in [department : Departments, category : Categories]
  /\ file \in Files
  /\ stage = "pending"
  /\ decision = None

(* The request is refused before any agent sees it.                        *)
Reject ==
  /\ stage = "pending"
  /\ ~Accepted(Quantize(amount))
  /\ stage' = "rejected"
  /\ UNCHANGED <<amount, query, file, decision>>

(* The worker decides with the bridge's policy, or, the bridge being       *)
(* unavailable, with the local ruleset.                                    *)
Decide(source) ==
  /\ stage = "pending"
  /\ Accepted(Quantize(amount))
  /\ stage' = "decided"
  /\ LET policy == IF source = "bridge"
                     THEN BridgePolicy(file, query.department, query.category)
                     ELSE ResolveLimit(LoadLocal(file), query.department, query.category)
     IN decision' = [source |-> source, policy |-> policy,
                     verdict |-> Evaluate(Quantize(amount), policy)]
  /\ UNCHANGED <<amount, query, file>>

Next == Reject \/ Decide("bridge") \/ Decide("local")

Spec == Init /\ [][Next]_vars

Decided == stage = "decided"

-----------------------------------------------------------------------------
Policies == [limit : Nat, escalation : Nat \union {None}]

Verdicts == [status : {"APPROVED", "FLAGGED"}, variance : Nat, escalate : BOOLEAN]

TypeOK ==
  /\ amount \in Amounts /\ file \in Files
  /\ query \in [department : Departments, category : Categories]
  /\ stage \in {"pending", "rejected", "decided"}
  /\ IF Decided
       THEN decision \in [source : {"bridge", "local"}, policy : Policies, verdict : Verdicts]
       ELSE decision = None

(* The integer comparison decides as exact arithmetic on the amount and    *)
(* the limit would, although limit and escalation are cut to whole cents.  *)
ExactDecision ==
  Decided =>
    LET mills == 10 * Quantize(amount)
    IN /\ decision.verdict.status = "FLAGGED" <=> mills > decision.policy.limit
       /\ decision.verdict.escalate <=>
            /\ mills > decision.policy.limit
            /\ decision.policy.escalation # None
            /\ mills > decision.policy.escalation

(* A larger amount never gets a milder verdict under the same policy.      *)
VerdictGrows ==
  Decided =>
    \A m \in Amounts : m >= amount /\ Accepted(Quantize(m)) =>
      LET v == Evaluate(Quantize(m), decision.policy)
      IN /\ decision.verdict.status = "FLAGGED" => v.status = "FLAGGED"
         /\ decision.verdict.escalate => v.escalate
         /\ v.variance >= decision.verdict.variance

(* The amount decided on is the one submitted, to the nearest cent; an     *)
(* exact tie goes to the even cent.                                        *)
NearestCent ==
  LET cents == Quantize(amount)
  IN /\ 10 * cents - amount \in -5 .. 5
     /\ 10 * cents - amount \in {-5, 5} => cents % 2 = 0

(* The limit the bridge applies is the most specific rule of the file, as  *)
(* resolve_limit finds it, when categories are in lower case.              *)
BridgeAppliesFile ==
  Decided /\ decision.source = "bridge"
          /\ (\A i \in DOMAIN file.rules : file.rules[i].lower)
  => decision.policy.limit =
       ResolveLimit(file, query.department, query.category).limit

(* docs/ARCHITECTURE.md:55: with the bridge down the worker "falls back to *)
(* a locally cached `policy_rules.json` file".  The verdict is not the     *)
(* file's.                                                                 *)
FallbackAppliesFile ==
  Decided /\ decision.source = "local"
  => decision.policy = ResolveLimit(file, query.department, query.category)
=============================================================================
