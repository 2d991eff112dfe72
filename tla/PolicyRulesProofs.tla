-------------------------- MODULE PolicyRulesProofs --------------------------
(***************************************************************************)
(* The decision's arithmetic and the lookup of rules, for every amount,    *)
(* every limit and every policy file.  DecisionInv says where the stored   *)
(* decision came from; the other invariants follow from it by arithmetic.  *)
(***************************************************************************)
EXTENDS PolicyRules, WellFoundedInduction, TLAPS

USE PRAssumption

-----------------------------------------------------------------------------
(* Comparing whole cents with a limit cut to whole cents is exact.         *)
LEMMA CentsComparison ==
  ASSUME NEW c \in Nat, NEW l \in Nat
  PROVE  /\ Cents(l) \in Nat
         /\ c > Cents(l) <=> 10 * c > l
  BY DEF Cents

(* Quantizing to cents: a natural number, the nearest, ties to even.       *)
LEMMA QuantizeNearest ==
  ASSUME NEW m \in Nat
  PROVE  /\ Quantize(m) \in Nat
         /\ 10 * Quantize(m) - m \in -5 .. 5
         /\ 10 * Quantize(m) - m \in {-5, 5} => Quantize(m) % 2 = 0
  BY DEF Quantize

(* A non-empty set of positions has a first one.                           *)
LEMMA FirstPosition ==
  ASSUME NEW H, H \subseteq Nat, H # {}
  PROVE  \E i \in H : \A j \in H : i <= j
  <1>1. PICK i \in H : \A j \in H : ~(<<j, i>> \in OpToRel(<, Nat))
    BY WFMin, NatLessThanWellFounded
  <1>2. ASSUME NEW j \in H PROVE i <= j
    <2>1. ~(<<j, i>> \in OpToRel(<, Nat))
      BY <1>1
    <2>2. j \in Nat /\ i \in Nat
      OBVIOUS
    <2>3. ~(j < i)
      BY <2>1, <2>2 DEF OpToRel
    <2> QED BY <2>2, <2>3
  <1> QED BY <1>2

(* FirstOf finds a rule of the file, or nothing.                           *)
LEMMA FirstOfRule ==
  ASSUME NEW rules \in Seq(Rules), NEW H \in SUBSET (DOMAIN rules)
  PROVE  /\ FirstOf(rules, H) \in Rules \union {None}
         /\ FirstOf(rules, H) = None <=> H = {}
  <1>1. CASE H = {}
    BY <1>1 DEF FirstOf
  <1>2. CASE H # {}
    <2>1. H \subseteq Nat
      OBVIOUS
    <2>2. \E i \in H : \A j \in H : i <= j
      BY <1>2, <2>1, FirstPosition
    <2>3. (CHOOSE i \in H : \A j \in H : i <= j) \in H
      BY <2>2
    <2>4. FirstOf(rules, H) \in Rules
      BY <1>2, <2>3 DEF FirstOf
    <2> QED BY <1>2, <2>4
  <1> QED BY <1>1, <1>2

(* Both lookups return a policy with a limit.                              *)
LEMMA LookupTypes ==
  ASSUME NEW f \in Files, NEW d \in Departments, NEW c \in Categories
  PROVE  /\ BridgePolicy(f, d, c) \in Policies
         /\ ResolveLimit(f, d, c) \in Policies
         /\ ResolveLimit(LoadLocal(f), d, c) \in Policies
  <1>1. f.rules \in Seq(Rules) /\ f.default \in Nat
    OBVIOUS
  <1>2. /\ ExactRules(f, d, c) \in SUBSET (DOMAIN f.rules)
        /\ WildRules(f, d) \in SUBSET (DOMAIN f.rules)
        /\ {i \in ExactRules(f, d, c) : f.rules[i].lower} \in SUBSET (DOMAIN f.rules)
    BY DEF ExactRules, WildRules
  <1> DEFINE exact == FirstOf(f.rules, ExactRules(f, d, c))
             low == FirstOf(f.rules, {i \in ExactRules(f, d, c) : f.rules[i].lower})
             wild == FirstOf(f.rules, WildRules(f, d))
             local == LoadLocal(f)
  <1>3. /\ exact \in Rules \union {None}
        /\ low \in Rules \union {None}
        /\ wild \in Rules \union {None}
    <2> HIDE DEF exact, low, wild
    <2>1. exact \in Rules \union {None}
      BY <1>1, <1>2, FirstOfRule DEF exact
    <2>2. low \in Rules \union {None}
      BY <1>1, <1>2, FirstOfRule DEF low
    <2>3. wild \in Rules \union {None}
      BY <1>1, <1>2, FirstOfRule DEF wild
    <2> QED BY <2>1, <2>2, <2>3
  <1>4. ResolveLimit(f, d, c) \in Policies
    <2>1. ResolveLimit(f, d, c) =
            LET rule == IF exact # None THEN exact ELSE wild
            IN IF rule # None
                 THEN [limit |-> rule.limit, escalation |-> rule.escalation]
                 ELSE [limit |-> f.default, escalation |-> None]
      BY DEF ResolveLimit
    <2> HIDE DEF exact, low, wild
    <2> QED BY <1>1, <1>3, <2>1 DEF Policies, Rules
  <1>5. BridgePolicy(f, d, c) \in Policies
    <2>1. BridgePolicy(f, d, c) =
            LET rule == IF low # None THEN low ELSE wild
                limit == IF rule # None THEN rule.limit ELSE f.default
            IN [limit |-> limit,
                escalation |-> IF rule # None /\ rule.escalation # None
                                 THEN rule.escalation ELSE 4 * limit]
      BY DEF BridgePolicy
    <2> HIDE DEF exact, low, wild
    <2> QED BY <1>1, <1>3, <2>1 DEF Policies, Rules
  <1>6. ResolveLimit(local, d, c) \in Policies
    <2>1. ExactRules(local, d, c) = {} /\ WildRules(local, d) = {}
      BY DEF ExactRules, WildRules, LoadLocal
    <2>2. ResolveLimit(local, d, c) = [limit |-> f.default, escalation |-> None]
      BY <2>1 DEF ResolveLimit, FirstOf, LoadLocal
    <2> QED BY <1>1, <2>2 DEF Policies
  <1> QED BY <1>4, <1>5, <1>6

(* The verdict on an amount of cents under a policy, in plain arithmetic.  *)
LEMMA EvaluateExact ==
  ASSUME NEW c \in Nat, NEW p \in Policies
  PROVE  LET v == Evaluate(c, p)
         IN /\ v \in Verdicts
            /\ v.status = "FLAGGED" <=> 10 * c > p.limit
            /\ v.escalate <=> /\ 10 * c > p.limit
                              /\ p.escalation # None
                              /\ 10 * c > p.escalation
            /\ v.variance = IF c > Cents(p.limit) THEN c - Cents(p.limit) ELSE 0
  <1>1. p.limit \in Nat /\ p.escalation \in Nat \union {None}
    BY DEF Policies
  <1>2. Cents(p.limit) \in Nat /\ (c > Cents(p.limit) <=> 10 * c > p.limit)
    BY <1>1, CentsComparison
  <1>3. p.escalation # None => (c > Cents(p.escalation) <=> 10 * c > p.escalation)
    BY <1>1, CentsComparison
  <1> QED BY <1>1, <1>2, <1>3 DEF Evaluate, Verdicts

(* A larger amount is never quantized to fewer cents.                      *)
LEMMA QuantizeGrows ==
  ASSUME NEW m \in Nat, NEW n \in Nat, m <= n
  PROVE  Quantize(m) <= Quantize(n)
  BY DEF Quantize

-----------------------------------------------------------------------------
(* The decision kept is the evaluation of the submitted amount under the   *)
(* policy of its source.                                                   *)
DecisionInv ==
  /\ TypeOK
  /\ Decided =>
       /\ decision.verdict = Evaluate(Quantize(amount), decision.policy)
       /\ decision.source = "bridge" =>
            decision.policy = BridgePolicy(file, query.department, query.category)

LEMMA DecideType ==
  ASSUME TypeOK, NEW source \in {"bridge", "local"}, Decide(source)
  PROVE  DecisionInv'
  <1> DEFINE policy == IF source = "bridge"
                         THEN BridgePolicy(file, query.department, query.category)
                         ELSE ResolveLimit(LoadLocal(file), query.department, query.category)
  <1>1. /\ amount \in Nat /\ file \in Files
        /\ query.department \in Departments /\ query.category \in Categories
    BY DEF TypeOK
  <1>2. policy \in Policies
    BY <1>1, LookupTypes
  <1>3. Quantize(amount) \in Nat
    BY <1>1, QuantizeNearest
  <1> HIDE DEF policy
  <1>4. Evaluate(Quantize(amount), policy) \in Verdicts
    BY <1>2, <1>3, EvaluateExact
  <1>5. decision' = [source |-> source, policy |-> policy,
                     verdict |-> Evaluate(Quantize(amount), policy)]
    BY DEF Decide, policy
  <1>6. /\ stage' = "decided" /\ amount' = amount /\ query' = query /\ file' = file
    BY DEF Decide
  <1>7. Quantize(amount)' = Quantize(amount)
    BY <1>6 DEF Quantize
  <1>8. TypeOK'
    BY <1>2, <1>4, <1>5, <1>6 DEF TypeOK, Decided
  <1>9. decision'.verdict = Evaluate(Quantize(amount'), decision'.policy)
    BY <1>5, <1>6
  <1>10. decision'.source = "bridge" =>
           decision'.policy = BridgePolicy(file', query'.department, query'.category)
    BY <1>5, <1>6 DEF policy
  <1> QED BY <1>8, <1>9, <1>10 DEF DecisionInv

(* Every decision is made from the submitted amount and the right policy.  *)
THEOREM DecisionCorrect == Spec => []DecisionInv
  <1>1. Init => DecisionInv
    BY DEF Init, DecisionInv, TypeOK, Decided
  <1>2. DecisionInv /\ [Next]_vars => DecisionInv'
    <2> SUFFICES ASSUME DecisionInv, [Next]_vars PROVE DecisionInv'
      OBVIOUS
    <2>1. CASE Reject
      BY <2>1 DEF Reject, DecisionInv, TypeOK, Decided
    <2>2. CASE Decide("bridge")
      BY <2>2, DecideType DEF DecisionInv
    <2>3. CASE Decide("local")
      BY <2>3, DecideType DEF DecisionInv
    <2>4. CASE UNCHANGED vars
      BY <2>4 DEF vars, DecisionInv, TypeOK, Decided
    <2> QED BY <2>1, <2>2, <2>3, <2>4 DEF Next
  <1> QED BY <1>1, <1>2, PTL DEF Spec

(* Every state of a decision is well typed: a limit, a verdict, a variance *)
(* that is never negative.                                                 *)
THEOREM TypeCorrect == Spec => []TypeOK
  <1>1. DecisionInv => TypeOK
    BY DEF DecisionInv
  <1> QED BY <1>1, DecisionCorrect, PTL

(* Deciding in whole cents is exact, for every amount, limit and           *)
(* escalation threshold, those with a fraction of a cent included.         *)
THEOREM DecisionsExact == Spec => []ExactDecision
  <1>1. DecisionInv => ExactDecision
    <2> SUFFICES ASSUME DecisionInv, Decided PROVE ExactDecision
      BY DEF ExactDecision
    <2>1. decision.policy \in Policies /\ amount \in Nat
      BY DEF DecisionInv, TypeOK
    <2>2. Quantize(amount) \in Nat
      BY <2>1, QuantizeNearest
    <2>3. decision.verdict = Evaluate(Quantize(amount), decision.policy)
      BY DEF DecisionInv
    <2> QED BY <2>1, <2>2, <2>3, EvaluateExact DEF ExactDecision
  <1> QED BY <1>1, DecisionCorrect, PTL

(* A larger amount never fares better under the same policy.               *)
THEOREM VerdictsGrow == Spec => []VerdictGrows
  <1>1. DecisionInv => VerdictGrows
    <2> SUFFICES ASSUME DecisionInv, Decided,
                        NEW m \in Amounts, m >= amount
                 PROVE  LET v == Evaluate(Quantize(m), decision.policy)
                        IN /\ decision.verdict.status = "FLAGGED" => v.status = "FLAGGED"
                           /\ decision.verdict.escalate => v.escalate
                           /\ v.variance >= decision.verdict.variance
      BY DEF VerdictGrows
    <2> DEFINE v == Evaluate(Quantize(m), decision.policy)
               q == Quantize(amount)
               r == Quantize(m)
               p == decision.policy
    <2>1. p \in Policies /\ amount \in Nat /\ m \in Nat
      BY DEF DecisionInv, TypeOK
    <2>2. q \in Nat /\ r \in Nat /\ q <= r
      BY <2>1, QuantizeNearest, QuantizeGrows
    <2>3. decision.verdict = Evaluate(q, p)
      BY DEF DecisionInv
    <2>4. p.limit \in Nat /\ p.escalation \in Nat \union {None} /\ Cents(p.limit) \in Nat
      BY <2>1, CentsComparison DEF Policies
    <2> HIDE DEF q, r, p
    <2>5. /\ Evaluate(q, p).status = "FLAGGED" <=> 10 * q > p.limit
          /\ Evaluate(q, p).escalate <=> /\ 10 * q > p.limit
                                         /\ p.escalation # None
                                         /\ 10 * q > p.escalation
          /\ Evaluate(q, p).variance =
               IF q > Cents(p.limit) THEN q - Cents(p.limit) ELSE 0
      BY <2>1, <2>2, EvaluateExact
    <2>6. /\ Evaluate(r, p).status = "FLAGGED" <=> 10 * r > p.limit
          /\ Evaluate(r, p).escalate <=> /\ 10 * r > p.limit
                                         /\ p.escalation # None
                                         /\ 10 * r > p.escalation
          /\ Evaluate(r, p).variance =
               IF r > Cents(p.limit) THEN r - Cents(p.limit) ELSE 0
      BY <2>1, <2>2, EvaluateExact
    <2>7. /\ Evaluate(q, p).status = "FLAGGED" => Evaluate(r, p).status = "FLAGGED"
          /\ Evaluate(r, p).variance >= Evaluate(q, p).variance
      BY <2>2, <2>4, <2>5, <2>6
    <2>8. Evaluate(q, p).escalate => Evaluate(r, p).escalate
      BY <2>2, <2>4, <2>5, <2>6
    <2> QED BY <2>3, <2>7, <2>8 DEF q, r, p
  <1> QED BY <1>1, DecisionCorrect, PTL

(* The amount decided on is the submitted one to the nearest cent, ties to *)
(* the even cent.                                                          *)
THEOREM AmountsNearest == Spec => []NearestCent
  <1>1. DecisionInv => NearestCent
    <2> SUFFICES ASSUME DecisionInv PROVE NearestCent
      OBVIOUS
    <2>1. amount \in Nat
      BY DEF DecisionInv, TypeOK
    <2> QED BY <2>1, QuantizeNearest DEF NearestCent
  <1> QED BY <1>1, DecisionCorrect, PTL

(* The bridge's rule is resolve_limit's, whatever the file, as long as its *)
(* categories are in lower case.                                           *)
THEOREM BridgeFollowsFile == Spec => []BridgeAppliesFile
  <1>1. DecisionInv => BridgeAppliesFile
    <2> SUFFICES ASSUME DecisionInv, Decided, decision.source = "bridge",
                        \A i \in DOMAIN file.rules : file.rules[i].lower
                 PROVE  decision.policy.limit =
                          ResolveLimit(file, query.department, query.category).limit
      BY DEF BridgeAppliesFile
    <2> DEFINE hits == ExactRules(file, query.department, query.category)
               exact == FirstOf(file.rules, hits)
               wild == FirstOf(file.rules, WildRules(file, query.department))
               rule == IF exact # None THEN exact ELSE wild
    <2>1. decision.policy = BridgePolicy(file, query.department, query.category)
      BY DEF DecisionInv
    <2>2. {i \in hits : file.rules[i].lower} = hits
      BY DEF ExactRules
    <2>3. decision.policy =
            [limit |-> IF rule # None THEN rule.limit ELSE file.default,
             escalation |-> IF rule # None /\ rule.escalation # None THEN rule.escalation
                            ELSE 4 * (IF rule # None THEN rule.limit ELSE file.default)]
      <3>1. BridgePolicy(file, query.department, query.category) =
              LET low == FirstOf(file.rules, {i \in hits : file.rules[i].lower})
                  found == IF low # None THEN low ELSE wild
                  limit == IF found # None THEN found.limit ELSE file.default
              IN [limit |-> limit,
                  escalation |-> IF found # None /\ found.escalation # None
                                   THEN found.escalation ELSE 4 * limit]
        BY DEF BridgePolicy
      <3>2. FirstOf(file.rules, {i \in hits : file.rules[i].lower}) = exact
        BY <2>2
      <3> HIDE DEF exact, wild, hits
      <3> QED BY <2>1, <3>1, <3>2, Zenon
    <2>4. ResolveLimit(file, query.department, query.category) =
            IF rule # None
              THEN [limit |-> rule.limit, escalation |-> rule.escalation]
              ELSE [limit |-> file.default, escalation |-> None]
      BY DEF ResolveLimit
    <2> HIDE DEF rule
    <2>5. decision.policy.limit = IF rule # None THEN rule.limit ELSE file.default
      BY <2>3
    <2>6. ResolveLimit(file, query.department, query.category).limit =
            IF rule # None THEN rule.limit ELSE file.default
      BY <2>4
    <2> QED BY <2>5, <2>6
  <1> QED BY <1>1, DecisionCorrect, PTL
=============================================================================
