------------------------ MODULE CircuitBreakerProofs ------------------------
(***************************************************************************)
(* The circuit breaker's invariants, action properties and contract, for   *)
(* every set of callers, threshold and timeout.                            *)
(***************************************************************************)
EXTENDS MCCircuitBreaker, FiniteSetTheorems, TLAPS

USE CBAssumption

(* TypeOK alone is not inductive: success_count stays below its bound only *)
(* because ProbeInv holds whenever it is about to be incremented.          *)
IInv == TypeOK /\ ThresholdInv /\ ProbeInv

(* The initial state: CLOSED with nothing counted. *)
LEMMA InitIInv == Init => IInv
  BY DEF Init, IInv, TypeOK, ThresholdInv, ProbeInv, CircuitState

(* _on_success keeps the breaker's fields in the invariant.                *)
LEMMA OnSuccessIInv ==
  ASSUME IInv, OnSuccess
  PROVE  /\ state' \in CircuitState /\ failure_count' \in Nat
         /\ success_count' \in 0 .. SuccessThreshold /\ age' \in 0 .. RecoveryTimeout
         /\ ThresholdInv' /\ ProbeInv'
  <1> USE DEF IInv, TypeOK, ThresholdInv, ProbeInv, CircuitState, OnSuccess
  <1>1. CASE state = "HALF_OPEN"
    BY <1>1
  <1>2. CASE state = "CLOSED"
    BY <1>2
  <1>3. CASE state = "OPEN"
    BY <1>3
  <1> QED BY <1>1, <1>2, <1>3

(* _on_failure keeps the breaker's fields in the invariant.                *)
LEMMA OnFailureIInv ==
  ASSUME IInv, OnFailure
  PROVE  /\ state' \in CircuitState /\ failure_count' \in Nat
         /\ success_count' \in 0 .. SuccessThreshold /\ age' \in 0 .. RecoveryTimeout
         /\ ThresholdInv' /\ ProbeInv'
  <1> USE DEF IInv, TypeOK, ThresholdInv, ProbeInv, CircuitState, OnFailure
  <1>1. failure_count' \in Nat /\ age' \in 0 .. RecoveryTimeout
    OBVIOUS
  <1>2. CASE failure_count' >= FailureThreshold
    BY <1>1, <1>2
  <1>3. CASE ~(failure_count' >= FailureThreshold)
    BY <1>1, <1>3
  <1> QED BY <1>1, <1>2, <1>3

(* Every step of the breaker keeps the invariant.                          *)
LEMMA NextIInv == IInv /\ [Next]_vars => IInv'
  <1> SUFFICES ASSUME IInv, [Next]_vars PROVE IInv'
    OBVIOUS
  <1>1. CASE Tick
    BY <1>1 DEF IInv, TypeOK, ThresholdInv, ProbeInv, CircuitState, Tick
  <1>2. CASE Reset
    BY <1>2 DEF IInv, TypeOK, ThresholdInv, ProbeInv, CircuitState, Reset
  <1>3. ASSUME NEW c \in Callers, FastFail(c) PROVE IInv'
    BY <1>3 DEF IInv, TypeOK, ThresholdInv, ProbeInv, FastFail, vars
  <1>4. ASSUME NEW c \in Callers, Admit(c) PROVE IInv'
    <2>1. CASE ToHalfOpen
      BY <1>4, <2>1
      DEF IInv, TypeOK, ThresholdInv, ProbeInv, CircuitState, Admit, ToHalfOpen
    <2>2. CASE state # "OPEN" /\ UNCHANGED breakerVars
      BY <1>4, <2>2
      DEF IInv, TypeOK, ThresholdInv, ProbeInv, CircuitState, Admit, breakerVars
    <2> QED BY <1>4, <2>1, <2>2 DEF Admit
  <1>5. ASSUME NEW c \in Callers, Return(c) PROVE IInv'
    <2>1. call' \in [Callers -> {"idle", "CLOSED", "HALF_OPEN"}]
      BY <1>5 DEF IInv, TypeOK, Return, ReturnOk, ReturnMcpError, ReturnOtherError, Finish
    <2>2. CASE ReturnOk(c)
      BY <2>1, <2>2, OnSuccessIInv DEF IInv, TypeOK, ReturnOk
    <2>3. CASE ReturnMcpError(c)
      BY <2>1, <2>3, OnFailureIInv DEF IInv, TypeOK, ReturnMcpError
    <2>4. CASE ReturnOtherError(c)
      BY <2>1, <2>4
      DEF IInv, TypeOK, ThresholdInv, ProbeInv, ReturnOtherError, breakerVars
    <2> QED BY <1>5, <2>2, <2>3, <2>4 DEF Return
  <1>6. CASE UNCHANGED vars
    BY <1>6 DEF IInv, TypeOK, ThresholdInv, ProbeInv, vars
  <1> QED BY <1>1, <1>2, <1>3, <1>4, <1>5, <1>6 DEF Next

(* The inductive invariant holds in every reachable state.                 *)
LEMMA SpecIInv == Spec => []IInv
  BY InitIInv, NextIInv, PTL DEF Spec

(* Type correctness, with success_count bounded by its threshold.          *)
THEOREM TypeCorrect == Spec => []TypeOK
  BY SpecIInv, PTL DEF IInv

(* The breaker is CLOSED exactly while the count is below the threshold.   *)
THEOREM ThresholdHolds == Spec => []ThresholdInv
  BY SpecIInv, PTL DEF IInv

(* Each HALF_OPEN episode counts its own successes.                        *)
THEOREM ProbesCountedAfresh == Spec => []ProbeInv
  BY SpecIInv, PTL DEF IInv

-----------------------------------------------------------------------------
(* Only _on_failure adds to the failure count. *)
LEMMA CountGrowsByFailure ==
  ASSUME IInv, [Next]_vars, failure_count' > failure_count
  PROVE  OnFailure
  <1> USE DEF IInv, TypeOK, CircuitState
  <1>1. CASE Tick
    BY <1>1 DEF Tick
  <1>2. CASE Reset
    BY <1>2 DEF Reset
  <1>3. ASSUME NEW c \in Callers, FastFail(c) PROVE FALSE
    BY <1>3 DEF FastFail, vars
  <1>4. ASSUME NEW c \in Callers, Admit(c) PROVE FALSE
    BY <1>4 DEF Admit, ToHalfOpen, breakerVars
  <1>5. ASSUME NEW c \in Callers, Return(c) PROVE OnFailure
    BY <1>5 DEF Return, ReturnOk, ReturnMcpError, ReturnOtherError, OnSuccess, breakerVars
  <1>6. CASE UNCHANGED vars
    BY <1>6 DEF vars
  <1> QED BY <1>1, <1>2, <1>3, <1>4, <1>5, <1>6 DEF Next

(* One failed probe re-opens: the count was already at the threshold.      *)
THEOREM FailedProbe == Spec => FailedProbeReopens
  <1>1. IInv /\ [Next]_vars
          => [state = "HALF_OPEN" /\ failure_count' > failure_count
                => state' = "OPEN" /\ age' = 0]_vars
    <2> SUFFICES ASSUME IInv, [Next]_vars, state = "HALF_OPEN",
                        failure_count' > failure_count
                 PROVE  state' = "OPEN" /\ age' = 0
      OBVIOUS
    <2>1. OnFailure
      BY CountGrowsByFailure
    <2> QED BY <2>1 DEF IInv, TypeOK, ThresholdInv, OnFailure
  <1> QED BY <1>1, SpecIInv, PTL DEF Spec, FailedProbeReopens

(* An outage lasts the whole timeout after the last failure counted, or    *)
(* until a reset.                                                          *)
THEOREM OutageLastsTimeout == Spec => OutageLasts
  <1> DEFINE Lasts ==
        /\ state # "OPEN" /\ state' = "OPEN" => age' = 0
        /\ failure_count' > failure_count => age' = 0
        /\ state = "OPEN" /\ state' # "OPEN" =>
             (state' = "HALF_OPEN" /\ age = RecoveryTimeout) \/ failure_count' = 0
  <1>1. IInv /\ [Next]_vars => [Lasts]_vars
    <2> SUFFICES ASSUME IInv, Next PROVE Lasts
      OBVIOUS
    <2> USE CBAssumption DEF IInv, TypeOK, CircuitState
    <2>1. CASE Tick
      BY <2>1 DEF Tick
    <2>2. CASE Reset
      BY <2>2 DEF Reset
    <2>3. ASSUME NEW c \in Callers, FastFail(c) PROVE Lasts
      BY <2>3 DEF FastFail, vars
    <2>4. ASSUME NEW c \in Callers, Admit(c) PROVE Lasts
      BY <2>4 DEF Admit, ToHalfOpen, breakerVars
    <2>5. ASSUME NEW c \in Callers, Return(c) PROVE Lasts
      <3>1. CASE ReturnOk(c)
        BY <3>1 DEF ReturnOk, OnSuccess
      <3>2. CASE ReturnMcpError(c)
        BY <3>2 DEF ReturnMcpError, OnFailure
      <3>3. CASE ReturnOtherError(c)
        BY <3>3 DEF ReturnOtherError, breakerVars
      <3> QED BY <2>5, <3>1, <3>2, <3>3 DEF Return
    <2> QED BY <2>1, <2>2, <2>3, <2>4, <2>5 DEF Next
  <1> QED BY <1>1, SpecIInv, PTL DEF Spec, OutageLasts

-----------------------------------------------------------------------------
(* The abstract initial state. *)
LEMMA ContractInit == Init => Contract!Init
  BY DEF Init, Contract!Init

(* Every step of the breaker is a step of the contract, or none.           *)
LEMMA ContractNext == IInv /\ [Next]_vars => [Contract!Next]_Contract!vars
  <1> SUFFICES ASSUME IInv, [Next]_vars PROVE [Contract!Next]_Contract!vars
    OBVIOUS
  <1> USE DEF IInv, TypeOK, CircuitState, Contract!vars
  <1>1. CASE Tick
    <2>1. CASE state = "OPEN"
      BY <1>1, <2>1 DEF Tick, Contract!Next, Contract!Elapse
    <2>2. CASE state # "OPEN"
      BY <1>1, <2>2 DEF Tick
    <2> QED BY <2>1, <2>2
  <1>2. CASE Reset
    BY <1>2 DEF Reset, Contract!Next, Contract!ForceClosed
  <1>3. ASSUME NEW c \in Callers, FastFail(c) PROVE UNCHANGED Contract!vars
    BY <1>3 DEF FastFail, vars
  <1>4. ASSUME NEW c \in Callers, Admit(c) PROVE [Contract!Next]_Contract!vars
    <2>1. CASE ToHalfOpen
      BY <1>4, <2>1 DEF ToHalfOpen, Contract!Next, Contract!Probe
    <2>2. CASE UNCHANGED breakerVars
      BY <1>4, <2>2 DEF breakerVars
    <2> QED BY <1>4, <2>1, <2>2 DEF Admit
  <1>5. CASE OnSuccess
    <2>1. CASE state = "HALF_OPEN"
      <3>1. /\ success_count < SuccessThreshold
            /\ success_count' = success_count + 1
            /\ state' = IF success_count' >= SuccessThreshold THEN "CLOSED" ELSE "HALF_OPEN"
        BY <1>5, <2>1 DEF OnSuccess, ProbeInv
      <3>2. Contract!Confirmed
        BY <2>1, <3>1 DEF Contract!Confirmed
      <3> QED BY <3>2 DEF Contract!Next
    <2>2. CASE state # "HALF_OPEN"
      BY <1>5, <2>2 DEF OnSuccess
    <2> QED BY <2>1, <2>2
  <1>6. CASE OnFailure
    <2>1. CASE failure_count' >= FailureThreshold
      BY <1>6, <2>1 DEF OnFailure, Contract!Next, Contract!Trip
    <2>2. CASE ~(failure_count' >= FailureThreshold)
      BY <1>6, <2>2 DEF OnFailure, ThresholdInv
    <2> QED BY <2>1, <2>2
  <1>7. ASSUME NEW c \in Callers, Return(c) PROVE [Contract!Next]_Contract!vars
    BY <1>5, <1>6, <1>7
    DEF Return, ReturnOk, ReturnMcpError, ReturnOtherError, breakerVars
  <1>8. CASE UNCHANGED vars
    BY <1>8 DEF vars
  <1> QED BY <1>1, <1>2, <1>3, <1>4, <1>7, <1>8 DEF Next

(* The breaker implements its contract.                                    *)
THEOREM BreakerKeepsContract == Spec => KeepsContract
  BY ContractInit, ContractNext, SpecIInv, PTL DEF Spec, KeepsContract, Contract!Spec

-----------------------------------------------------------------------------
Outcomes == {"success", "failure"}

(* What the window tells: no run of outcomes up to the last has a larger   *)
(* surplus than the failures counted, and one has that surplus; the window *)
(* of an outage shows why the circuit opened.  What fell out of a full     *)
(* window may have been part of the run.                                   *)
WindowInv ==
  /\ window \in Seq(Outcomes)
  /\ state = "CLOSED" => \A i \in 1 .. Len(window) : Surplus(window, i) <= failure_count
  /\ Len(window) < MaxWindow =>
       \/ state = "CLOSED" /\ failure_count = 0
       \/ \E i \in 1 .. Len(window) :
            Surplus(window, i) >= IF state = "CLOSED" THEN failure_count ELSE FailureThreshold

(* What the runs of a window count are numbers, and none is past its end.  *)
LEMMA RecordedCount ==
  ASSUME NEW s \in Seq(Outcomes), NEW i \in Nat \ {0}, NEW o
  PROVE  /\ IsFiniteSet({j \in i .. Len(s) : s[j] = o})
         /\ Recorded(s, i, o) \in Nat
         /\ i > Len(s) => Recorded(s, i, o) = 0
<1> DEFINE R == {j \in i .. Len(s) : s[j] = o}
<1>1. Len(s) \in Nat
  OBVIOUS
<1>2. IsFiniteSet(i .. Len(s)) /\ R \in SUBSET (i .. Len(s))
  BY <1>1, FS_Interval
<1>3. IsFiniteSet(R)
  BY <1>2, FS_Subset
<1>4. Cardinality(R) \in Nat
  BY <1>3, FS_CardinalityType
<1>5. ASSUME i > Len(s) PROVE Cardinality(R) = 0
  <2>1. R = {}
    BY <1>1, <1>5
  <2> QED BY <2>1, FS_EmptySet
<1> QED BY <1>3, <1>4, <1>5 DEF Recorded

(* One outcome more adds one to the runs of its kind, and to no other.     *)
LEMMA RecordedMore ==
  ASSUME NEW s \in Seq(Outcomes), NEW i \in 1 .. Len(s) + 1,
         NEW out \in Outcomes, NEW o
  PROVE  Recorded(Append(s, out), i, o) =
           IF o = out THEN Recorded(s, i, o) + 1 ELSE Recorded(s, i, o)
<1> DEFINE t == Append(s, out)
           R == {j \in i .. Len(s) : s[j] = o}
           M == {j \in i .. Len(t) : t[j] = o}
<1>1. /\ Len(s) \in Nat /\ Len(t) = Len(s) + 1
      /\ t[Len(s) + 1] = out
      /\ \A j \in 1 .. Len(s) : t[j] = s[j]
  OBVIOUS
<1> HIDE DEF t
<1>2. IsFiniteSet(R)
  <2>1. i \in Nat \ {0}
    OBVIOUS
  <2> QED BY <2>1, RecordedCount, Zenon
<1>3. CASE o = out
  <2>1. M = R \union {Len(s) + 1} /\ Len(s) + 1 \notin R
    BY <1>1, <1>3
  <2> QED BY <1>2, <1>3, <2>1, FS_AddElement DEF Recorded, t
<1>4. CASE o # out
  <2>1. M = R
    BY <1>1, <1>4
  <2> QED BY <1>4, <2>1 DEF Recorded, t
<1> QED BY <1>3, <1>4

(* Cutting the oldest outcome off leaves the later runs as they are.       *)
LEMMA RecordedTail ==
  ASSUME NEW s \in Seq(Outcomes), s # <<>>, NEW i \in 1 .. Len(s), NEW o
  PROVE  Recorded(Tail(s), i, o) = Recorded(s, i + 1, o)
<1> DEFINE t == Tail(s)
           R == {j \in i + 1 .. Len(s) : s[j] = o}
           M == {j \in i .. Len(t) : t[j] = o}
           f == [j \in R |-> j - 1]
<1>1. /\ Len(s) \in Nat /\ Len(s) >= 1 /\ Len(t) = Len(s) - 1
      /\ \A j \in 1 .. Len(t) : t[j] = s[j + 1]
  OBVIOUS
<1> HIDE DEF t
<1>2. IsFiniteSet(R)
  <2>1. i + 1 \in Nat \ {0}
    BY <1>1
  <2> QED BY <2>1, RecordedCount, Zenon
<1>3. f \in [R -> M]
  BY <1>1
<1>4. \A a, b \in R : f[a] = f[b] => a = b
  BY <1>1
<1>5. \A m \in M : \E j \in R : f[j] = m
  <2> SUFFICES ASSUME NEW m \in M PROVE \E j \in R : f[j] = m
    OBVIOUS
  <2>1. m + 1 \in R /\ m + 1 - 1 = m
    BY <1>1
  <2> QED BY <2>1
<1>6. f \in Bijection(R, M)
  BY <1>3, <1>4, <1>5 DEF Bijection, Injection, Surjection, IsInjective
<1>7. Cardinality(M) = Cardinality(R)
  BY <1>2, <1>6, FS_Bijection DEF ExistsBijection
<1> QED BY <1>7 DEF Recorded, t

(* The same of the surplus.                                                *)
LEMMA SurplusMore ==
  ASSUME NEW s \in Seq(Outcomes), NEW out \in Outcomes, NEW i \in 1 .. Len(s) + 1
  PROVE  /\ Surplus(s, i) \in Int
         /\ i = Len(s) + 1 => Surplus(s, i) = 0
         /\ Surplus(Append(s, out), i) =
              IF out = "failure" THEN Surplus(s, i) + 1 ELSE Surplus(s, i) - 1
<1>1. i \in Nat \ {0} /\ Len(s) \in Nat
  OBVIOUS
<1>2. \A o : /\ Recorded(s, i, o) \in Nat
             /\ i > Len(s) => Recorded(s, i, o) = 0
  BY <1>1, RecordedCount, Zenon
<1>3. \A o : Recorded(Append(s, out), i, o) =
               IF o = out THEN Recorded(s, i, o) + 1 ELSE Recorded(s, i, o)
  BY RecordedMore, Zenon
<1>4. /\ Recorded(s, i, "failure") \in Nat /\ Recorded(s, i, "success") \in Nat
      /\ i = Len(s) + 1 => Recorded(s, i, "failure") = 0 /\ Recorded(s, i, "success") = 0
  <2>1. /\ Recorded(s, i, "failure") \in Nat
        /\ i > Len(s) => Recorded(s, i, "failure") = 0
    BY <1>2, Zenon
  <2>2. /\ Recorded(s, i, "success") \in Nat
        /\ i > Len(s) => Recorded(s, i, "success") = 0
    BY <1>2, Zenon
  <2> QED BY <1>1, <2>1, <2>2
<1>5. CASE out = "failure"
  <2>1. /\ Recorded(Append(s, out), i, "failure") = Recorded(s, i, "failure") + 1
        /\ Recorded(Append(s, out), i, "success") = Recorded(s, i, "success")
    BY <1>3, <1>5
  <2> QED BY <1>4, <1>5, <2>1 DEF Surplus
<1>6. CASE out = "success"
  <2>1. /\ Recorded(Append(s, out), i, "failure") = Recorded(s, i, "failure")
        /\ Recorded(Append(s, out), i, "success") = Recorded(s, i, "success") + 1
    BY <1>3, <1>6
  <2> QED BY <1>4, <1>6, <2>1 DEF Surplus
<1> QED BY <1>5, <1>6 DEF Outcomes

(* A surplus is a number.                                                  *)
LEMMA SurplusNumber ==
  ASSUME NEW s \in Seq(Outcomes), NEW i \in 1 .. Len(s)
  PROVE  Surplus(s, i) \in Int
<1>1. i \in Nat \ {0}
  OBVIOUS
<1>2. Recorded(s, i, "failure") \in Nat /\ Recorded(s, i, "success") \in Nat
  BY <1>1, RecordedCount, Zenon
<1> QED BY <1>2 DEF Surplus

(* Cutting the oldest outcome off shifts the surpluses.                    *)
LEMMA SurplusTail ==
  ASSUME NEW s \in Seq(Outcomes), s # <<>>, NEW i \in 1 .. Len(s)
  PROVE  Surplus(Tail(s), i) = Surplus(s, i + 1)
BY RecordedTail DEF Surplus

(* What becomes of a window that remembers one outcome more, cut at its    *)
(* old end when it is full.                                                *)
LEMMA WindowMore ==
  ASSUME NEW s \in Seq(Outcomes), NEW out \in Outcomes,
         NEW gain \in Int, gain = IF out = "failure" THEN 1 ELSE -1
  PROVE  LET t == Latest(Append(s, out))
         IN /\ t \in Seq(Outcomes)
            /\ \A i \in 1 .. Len(t) :
                 \/ Surplus(t, i) = gain
                 \/ \E k \in 1 .. Len(s) : Surplus(t, i) = Surplus(s, k) + gain
            /\ Len(t) < MaxWindow =>
                 /\ Len(s) < MaxWindow
                 /\ Len(t) = Len(s) + 1
                 /\ Surplus(t, Len(t)) = gain
                 /\ \A i \in 1 .. Len(s) : Surplus(t, i) = Surplus(s, i) + gain
<1> DEFINE a == Append(s, out)
<1>1. a \in Seq(Outcomes) /\ a # <<>> /\ Len(s) \in Nat /\ Len(a) = Len(s) + 1
  OBVIOUS
<1>2. ASSUME NEW i \in 1 .. Len(a)
      PROVE  /\ Surplus(a, i) = Surplus(s, i) + gain
             /\ i = Len(a) => Surplus(a, i) = gain
             /\ Surplus(s, i) \in Int
  <2>1. i \in 1 .. Len(s) + 1
    BY <1>1
  <2> QED BY <1>1, <2>1, SurplusMore
<1> HIDE DEF a
<1>3. CASE Len(a) > MaxWindow
  <2> DEFINE t == Tail(a)
  <2>1. /\ t \in Seq(Outcomes) /\ Len(t) = Len(s) /\ ~ (Len(t) < MaxWindow)
        /\ Latest(a) = t
    BY <1>1, <1>3, MCCBAssumption DEF Latest
  <2>2. ASSUME NEW i \in 1 .. Len(t)
        PROVE  \/ Surplus(t, i) = gain
               \/ \E k \in 1 .. Len(s) : Surplus(t, i) = Surplus(s, k) + gain
    <3>1. i \in 1 .. Len(a) /\ i + 1 \in 1 .. Len(a)
      BY <1>1, <2>1
    <3>2. Surplus(t, i) = Surplus(a, i + 1)
      BY <1>1, <3>1, SurplusTail
    <3>3. CASE i + 1 = Len(a)
      BY <1>2, <3>1, <3>2, <3>3
    <3>4. CASE i + 1 # Len(a)
      <4>1. i + 1 \in 1 .. Len(s)
        BY <1>1, <3>1, <3>4
      <4> QED BY <1>2, <3>1, <3>2, <4>1
    <3> QED BY <3>3, <3>4
  <2> QED BY <2>1, <2>2 DEF a
<1>4. CASE ~ (Len(a) > MaxWindow)
  <2>1. Latest(a) = a
    BY <1>4 DEF Latest
  <2>2. ASSUME NEW i \in 1 .. Len(a)
        PROVE  \/ Surplus(a, i) = gain
               \/ \E k \in 1 .. Len(s) : Surplus(a, i) = Surplus(s, k) + gain
    <3>1. CASE i = Len(a)
      BY <1>2, <3>1
    <3>2. CASE i # Len(a)
      <4>1. i \in 1 .. Len(s)
        BY <1>1, <3>2
      <4> QED BY <1>2, <4>1
    <3> QED BY <3>1, <3>2
  <2>3. /\ Surplus(a, Len(a)) = gain
        /\ \A i \in 1 .. Len(s) : Surplus(a, i) = Surplus(s, i) + gain
    BY <1>1, <1>2
  <2>4. Len(a) < MaxWindow => Len(s) < MaxWindow
    BY <1>1, MCCBAssumption
  <2> QED BY <1>1, <2>1, <2>2, <2>3, <2>4 DEF a
<1> QED BY <1>3, <1>4

(* A success takes one off every surplus, and off a count above zero.      *)
LEMMA SuccessWindow ==
  ASSUME IInv, WindowInv, OnSuccess, Remember("success")
  PROVE  WindowInv'
<1> DEFINE t == Latest(Append(window, "success"))
<1>1. /\ state \in CircuitState /\ failure_count \in Nat
      /\ window \in Seq(Outcomes) /\ "success" \in Outcomes
  BY DEF IInv, TypeOK, WindowInv, Outcomes
<1>2. PICK loss \in Int : loss = -1
  OBVIOUS
<1>3. CASE state = "CLOSED"
  <2>1. /\ window' = t /\ state' = "CLOSED"
        /\ failure_count' = IF failure_count > 0 THEN failure_count - 1 ELSE 0
    BY <1>3 DEF Remember, OnSuccess
  <2>2. /\ t \in Seq(Outcomes)
        /\ \A i \in 1 .. Len(t) :
             \/ Surplus(t, i) = loss
             \/ \E k \in 1 .. Len(window) : Surplus(t, i) = Surplus(window, k) + loss
        /\ Len(t) < MaxWindow =>
             /\ Len(window) < MaxWindow
             /\ Len(t) = Len(window) + 1
             /\ \A i \in 1 .. Len(window) : Surplus(t, i) = Surplus(window, i) + loss
    <3>1. loss = IF "success" = "failure" THEN 1 ELSE -1
      BY <1>2
    <3> QED BY <1>1, <3>1, WindowMore, Zenon
  <2>3. Len(t) \in Nat /\ Len(window) \in Nat
    BY <1>1, <2>2
  <2>4. \A i \in 1 .. Len(window) :
          Surplus(window, i) \in Int /\ Surplus(window, i) <= failure_count
    BY <1>1, <1>3, SurplusNumber DEF WindowInv
  <2> HIDE DEF t
  <2>5. \A i \in 1 .. Len(t) : Surplus(t, i) <= failure_count'
    BY <1>1, <1>2, <2>4, <2>1, <2>2, <2>3
  <2>6. Len(t) < MaxWindow =>
          failure_count' = 0 \/ \E i \in 1 .. Len(t) : Surplus(t, i) >= failure_count'
    BY <1>1, <1>3, <2>1, <2>2, <2>3, <2>4, <1>2 DEF WindowInv
  <2> QED BY <2>1, <2>2, <2>5, <2>6 DEF WindowInv
<1>4. CASE state = "HALF_OPEN"
  <2>1. \/ state' = "CLOSED" /\ failure_count' = 0 /\ window' = <<>>
        \/ state' = state /\ failure_count' = failure_count /\ window' = window
    BY <1>4 DEF Remember, OnSuccess
  <2>2. CASE state' = "CLOSED" /\ failure_count' = 0 /\ window' = <<>>
    BY <2>2 DEF WindowInv
  <2>3. CASE state' = state /\ failure_count' = failure_count /\ window' = window
    BY <1>4, <2>3 DEF WindowInv
  <2> QED BY <2>1, <2>2, <2>3
<1>5. CASE state = "OPEN"
  BY <1>5 DEF Remember, OnSuccess, WindowInv
<1> QED BY <1>1, <1>3, <1>4, <1>5 DEF CircuitState

(* A failure adds one to every surplus and to the count.                   *)
LEMMA FailureWindow ==
  ASSUME IInv, WindowInv, OnFailure, Remember("failure")
  PROVE  WindowInv'
<1> DEFINE t == Latest(Append(window, "failure"))
<1>1. /\ state \in CircuitState /\ failure_count \in Nat
      /\ window \in Seq(Outcomes) /\ "failure" \in Outcomes
      /\ 1 \in Int /\ 1 = IF "failure" = "failure" THEN 1 ELSE -1
  BY DEF IInv, TypeOK, WindowInv, Outcomes
<1>2. CASE state = "CLOSED"
  <2>1. /\ window' = t /\ failure_count' = failure_count + 1
        /\ state' = IF failure_count' >= FailureThreshold THEN "OPEN" ELSE "CLOSED"
    BY <1>2 DEF Remember, OnFailure
  <2>2. /\ t \in Seq(Outcomes) /\ Len(t) \in Nat /\ Len(window) \in Nat
        /\ \A i \in 1 .. Len(t) :
             \/ Surplus(t, i) = 1
             \/ \E k \in 1 .. Len(window) : Surplus(t, i) = Surplus(window, k) + 1
        /\ Len(t) < MaxWindow =>
             /\ Len(window) < MaxWindow
             /\ Len(t) = Len(window) + 1
             /\ Surplus(t, Len(t)) = 1
             /\ \A i \in 1 .. Len(window) : Surplus(t, i) = Surplus(window, i) + 1
    BY <1>1, WindowMore
  <2>3. \A i \in 1 .. Len(window) :
          Surplus(window, i) \in Int /\ Surplus(window, i) <= failure_count
    BY <1>1, <1>2, SurplusNumber DEF WindowInv
  <2> HIDE DEF t
  <2>4. \A i \in 1 .. Len(t) : Surplus(t, i) <= failure_count'
    BY <1>1, <2>3, <2>1, <2>2
  <2>5. ASSUME Len(t) < MaxWindow
        PROVE  \E i \in 1 .. Len(t) : Surplus(t, i) >= failure_count'
    <3>1. \/ failure_count = 0
          \/ \E i \in 1 .. Len(window) : Surplus(window, i) >= failure_count
      BY <1>2, <2>2, <2>5 DEF WindowInv
    <3>2. CASE failure_count = 0
      BY <2>1, <2>2, <2>5, <3>2
    <3>3. ASSUME NEW i \in 1 .. Len(window), Surplus(window, i) >= failure_count
          PROVE  i \in 1 .. Len(t) /\ Surplus(t, i) >= failure_count'
      BY <1>1, <2>1, <2>2, <2>5, <2>3, <3>3
    <3> QED BY <3>1, <3>2, <3>3
  <2>6. failure_count' >= FailureThreshold \/ state' = "CLOSED"
    BY <2>1
  <2>7. Len(t) < MaxWindow =>
          \E i \in 1 .. Len(t) :
            Surplus(t, i) >= IF state' = "CLOSED" THEN failure_count' ELSE FailureThreshold
    <3>1. CASE state' = "CLOSED"
      BY <2>5, <3>1
    <3>2. CASE state' # "CLOSED"
      <4> SUFFICES ASSUME Len(t) < MaxWindow
                   PROVE  \E i \in 1 .. Len(t) : Surplus(t, i) >= FailureThreshold
        BY <3>2
      <4>1. PICK i \in 1 .. Len(t) : Surplus(t, i) >= failure_count'
        BY <2>5
      <4>2. Surplus(t, i) \in Int
        BY <2>2, <2>3
      <4> QED BY <1>1, <2>1, <2>6, <3>2, <4>1, <4>2
    <3> QED BY <3>1, <3>2
  <2> QED BY <2>1, <2>2, <2>4, <2>7 DEF WindowInv
<1>3. CASE state # "CLOSED"
  <2>1. state' # "CLOSED"
    BY <1>3 DEF OnFailure
  <2>2. window' = window
    BY <1>3, <2>1 DEF Remember
  <2> QED BY <1>3, <2>1, <2>2 DEF WindowInv
<1> QED BY <1>2, <1>3

(* Every step keeps the window true of the count.                          *)
LEMMA WindowNext == IInv /\ WindowInv /\ [MCNext]_mcVars => WindowInv'
<1> SUFFICES ASSUME IInv, WindowInv, [MCNext]_mcVars PROVE WindowInv'
  OBVIOUS
<1>1. CASE Tick /\ UNCHANGED window
  BY <1>1 DEF Tick, WindowInv
<1>2. CASE Reset /\ window' = <<>>
  BY <1>2 DEF Reset, WindowInv
<1>3. ASSUME NEW c \in Callers, FastFail(c), UNCHANGED window PROVE WindowInv'
  BY <1>3 DEF FastFail, vars, WindowInv
<1>4. ASSUME NEW c \in Callers, Admit(c), UNCHANGED window PROVE WindowInv'
  BY <1>4 DEF Admit, ToHalfOpen, breakerVars, WindowInv
<1>5. ASSUME NEW c \in Callers, ReturnOk(c), Remember("success") PROVE WindowInv'
  BY <1>5, SuccessWindow DEF ReturnOk
<1>6. ASSUME NEW c \in Callers, BoundedMcpError(c), Remember("failure") PROVE WindowInv'
  BY <1>6, FailureWindow DEF BoundedMcpError, ReturnMcpError
<1>7. ASSUME NEW c \in Callers, ReturnOtherError(c), UNCHANGED window PROVE WindowInv'
  BY <1>7 DEF ReturnOtherError, breakerVars, WindowInv
<1>8. CASE UNCHANGED mcVars
  BY <1>8 DEF mcVars, vars, WindowInv
<1> QED BY <1>1, <1>2, <1>3, <1>4, <1>5, <1>6, <1>7, <1>8 DEF MCNext

(* The circuit opens exactly when failures outnumber successes by the      *)
(* threshold over some run of outcomes up to the last.                     *)
THEOREM OpensExactly == MCSpec => []OpensOnSurplus
<1>1. MCInit => IInv /\ WindowInv
  <2> SUFFICES ASSUME MCInit PROVE IInv /\ WindowInv
    OBVIOUS
  <2>1. IInv
    BY InitIInv DEF MCInit
  <2>2. WindowInv
    BY DEF MCInit, Init, WindowInv
  <2> QED BY <2>1, <2>2
<1>2. [MCNext]_mcVars => [Next]_vars
  BY DEF MCNext, mcVars, BoundedMcpError, Next, Return
<1>3. IInv /\ WindowInv => OpensOnSurplus
  <2> SUFFICES ASSUME IInv, WindowInv PROVE OpensOnSurplus
    OBVIOUS
  <2>1. /\ DOMAIN window = 1 .. Len(window)
        /\ window \in Seq(Outcomes)
        /\ failure_count \in Nat
        /\ state = "CLOSED" => failure_count < FailureThreshold
    BY DEF IInv, TypeOK, ThresholdInv, WindowInv
  <2>2. \A i \in 1 .. Len(window) : Surplus(window, i) \in Int
    BY <2>1, SurplusNumber
  <2> QED BY <2>1, <2>2 DEF WindowInv, OpensOnSurplus
<1> QED BY <1>1, <1>2, <1>3, NextIInv, WindowNext, PTL DEF MCSpec

=============================================================================
