---------------------------- MODULE PipelineProofs ----------------------------
(***************************************************************************)
(* Theorems about the pipeline: for every finite set of submissions,       *)
(* number of alerts and of restarts, in every interleaving, whatever the   *)
(* database stores and wherever a process ends.                            *)
(***************************************************************************)
EXTENDS Pipeline, Integers, FiniteSetTheorems, SequenceTheorems, TLAPS

(* What is written for r is a beginning of the path.                       *)
Along(r, path) ==
  /\ Len(rows[r]) <= Len(path)
  /\ \A i \in 1 .. Len(rows[r]) : rows[r][i].type = path[i]

All(r, path) == Along(r, path) /\ Len(rows[r]) = Len(path)
AllButLast(r, path) == Along(r, path) /\ Len(rows[r]) + 1 = Len(path)

\* The path to a verdict, and the path of a request that ends in an error.
Granted(r) == IF verdict[r] = "FLAGGED" THEN Flagging ELSE Approval
Refused(r) == IF kind[r] = "valid" THEN Failure ELSE Rejection

\* A dispatch is begun and its row not yet written.
Alerting == {"dispatching", "announcing"}

(* How far the trail of r is follows from where its coroutine is.          *)
TrailInv(r) ==
  /\ pc[r] \in {"new", "received"} \/ response[r].status = 503 => rows[r] = <<>>
  /\ pc[r] = "validated" => Along(r, Flagging) /\ Len(rows[r]) = 1
  /\ pc[r] \in {"evaluating", "evaluated"} => Along(r, Flagging) /\ Len(rows[r]) = 2
  /\ pc[r] = "notifying" => Along(r, Flagging) /\ Len(rows[r]) = 3 + tried[r]
  /\ pc[r] \in Alerting => Along(r, Flagging) /\ Len(rows[r]) = 2 + tried[r]
  /\ pc[r] = "deciding" => AllButLast(r, Granted(r))
  /\ pc[r] = "failing" => AllButLast(r, Refused(r))
  /\ pc[r] = "returning" \/ response[r].status = 200 => All(r, Granted(r))
  /\ pc[r] = "raising" \/ response[r].status \in {401, 422, 500} => All(r, Refused(r))
  /\ \E path \in Paths : Along(r, path)

Deciding == {"evaluated", "notifying", "dispatching", "announcing", "deciding", "returning"}

(* What is known of r where its coroutine is.                              *)
RequestInv(r) ==
  /\ pc[r] \in InGates \/ response[r].status = 200 => kind[r] = "valid"
  /\ pc[r] \in {"new", "received"} \union InGates => failure[r] = 0
  /\ pc[r] \in {"failing", "raising"} =>
       failure[r] = IF kind[r] = "valid" THEN 500 ELSE HttpStatus(kind[r])
  /\ failure[r] # 0 => verdict[r] = "none" /\ tried[r] = 0
  /\ pc[r] \in {"new", "received", "validated", "evaluating"} => verdict[r] = "none"
  /\ pc[r] \in Deciding \/ response[r].status = 200 => verdict[r] # "none"
  /\ pc[r] \in {"notifying"} \union Alerting => verdict[r] = "FLAGGED"
  /\ pc[r] \in {"new", "received", "validated", "evaluating", "evaluated"} => tried[r] = 0
  /\ pc[r] = "notifying" => tried[r] < Alerts
  /\ pc[r] \in Alerting => tried[r] >= 1
  /\ pc[r] \in {"deciding", "returning"} \/ response[r].status = 200 =>
       tried[r] = IF verdict[r] = "FLAGGED" THEN Alerts ELSE 0

(* A request is answered once, with what became of it.                     *)
AnswerInv(r) ==
  /\ pc[r] # "answered" => response[r] = NoResponse
  /\ pc[r] = "answered" =>
       \/ /\ response[r] = [status |-> 503, verdict |-> "none"]
          /\ failure[r] = 0 /\ verdict[r] = "none" /\ tried[r] = 0
       \/ /\ response[r] = [status |-> 200, verdict |-> verdict[r]]
          /\ failure[r] = 0
       \/ /\ response[r] = [status |-> failure[r], verdict |-> "none"]
          /\ failure[r] = IF kind[r] = "valid" THEN 500 ELSE HttpStatus(kind[r])
  /\ r \in served => pc[r] = "answered"

(* What a row of r says is so, and stays so.                               *)
RowTrue(r, type) ==
  /\ type = "SECURITY_VALIDATED" => kind[r] = "valid"
  /\ type = "APPROVED" => verdict[r] = "APPROVED" /\ tried[r] = 0
  /\ type = "FLAGGED" => verdict[r] = "FLAGGED" /\ tried[r] = Alerts
  /\ type = "SYSTEM_ERROR" => failure[r] # 0

RowsTrue(r) ==
  /\ Announced(r) \in Nat
  /\ pc[r] \in Alerting => tried[r] = Announced(r) + 1
  /\ pc[r] \notin Alerting \union {"lost"} => tried[r] = Announced(r)
  /\ pc[r] = "lost" => tried[r] \in {Announced(r), Announced(r) + 1}
  /\ \A i \in 1 .. Len(rows[r]) : RowTrue(r, rows[r][i].type)

\* Only a process that is up has requests under way.
ProcessInv == process # "up" => Active = {}

\* The requests the supervisor ran for in this process, and some of them.
Ran == {x \in Requests : pc[x] \notin Idle \/ (x \in served /\ response[x].status # 503)}
RanFailed == {x \in Ran : failure[x] # 0}
Past == {x \in Ran : kind[x] = "valid" /\ pc[x] \notin {"received", "validated"}}
PastFailed == {x \in Past : failure[x] # 0}
PastFlagged == {x \in Past : verdict[x] = "FLAGGED" /\ pc[x] # "evaluated"}

\* The requests this process answered with a verdict.
Gave(v) == {x \in served : response[x].verdict = v}

StatsInv ==
  /\ stats["total"] = Cardinality(served)
  /\ stats["approved"] = Cardinality(Gave("APPROVED"))
  /\ stats["flagged"] = Cardinality(Gave("FLAGGED"))
  /\ stats["errors"] = Cardinality(Gave("none"))
  /\ stats["errors"] = stats["total"] - stats["approved"] - stats["flagged"]

MetricsInv ==
  process # "down" =>
    /\ runs["supervisor"] = Cardinality(Ran)
    /\ errors["supervisor"] = Cardinality(RanFailed)
    /\ runs["policy"] = Cardinality(Past)
    /\ errors["policy"] = Cardinality(PastFailed)
    /\ runs["communicator"] = Cardinality(PastFlagged)
    /\ errors["communicator"] = 0

Local(r) == TrailInv(r) /\ RequestInv(r) /\ AnswerInv(r) /\ RowsTrue(r)

IInv == TypeOK /\ ProcessInv /\ StatsInv /\ MetricsInv /\ \A r \in Requests : Local(r)

-----------------------------------------------------------------------------
(* Where the elements of two joined sequences are.                         *)
LEMMA Joined ==
  ASSUME NEW s \in Seq(Types), NEW t \in Seq(Types)
  PROVE  /\ s \o t \in Seq(Types)
         /\ Len(s \o t) = Len(s) + Len(t)
         /\ \A i \in 1 .. Len(s) : (s \o t)[i] = s[i]
         /\ \A i \in 1 .. Len(t) : (s \o t)[Len(s) + i] = t[i]
<1>1. /\ s \o t \in Seq(Types)
      /\ Len(s \o t) = Len(s) + Len(t)
      /\ \A i \in 1 .. Len(s) + Len(t) :
           (s \o t)[i] = IF i <= Len(s) THEN s[i] ELSE t[i - Len(s)]
  BY ConcatProperties, Zenon
<1>2. Len(s) \in Nat /\ Len(t) \in Nat
  OBVIOUS
<1>3. ASSUME NEW u, NEW m \in Nat, NEW n \in Nat,
             \A i \in 1 .. m + n : u[i] = IF i <= m THEN s[i] ELSE t[i - m]
      PROVE  /\ \A i \in 1 .. m : u[i] = s[i]
             /\ \A i \in 1 .. n : u[m + i] = t[i]
  <2>1. ASSUME NEW i \in 1 .. m PROVE u[i] = s[i]
    BY <1>3
  <2>2. ASSUME NEW i \in 1 .. n PROVE u[m + i] = t[i]
    <3>1. m + i \in 1 .. m + n /\ ~ (m + i <= m) /\ m + i - m = i
      OBVIOUS
    <3> QED BY <1>3, <3>1
  <2> QED BY <2>1, <2>2
<1> QED BY <1>1, <1>2, <1>3, Zenon

(* The four paths, position by position.                                   *)
LEMMA Positions ==
  /\ Approval \in Seq(Types) /\ Len(Approval) = 4
  /\ Flagging \in Seq(Types) /\ Len(Flagging) = Alerts + 4
  /\ Rejection \in Seq(Types) /\ Len(Rejection) = 2
  /\ Failure \in Seq(Types) /\ Len(Failure) = 3
  /\ \A path \in Paths : path[1] = "PAYLOAD_RECEIVED"
  /\ \A path \in {Approval, Flagging, Failure} : path[2] = "SECURITY_VALIDATED"
  /\ Approval[3] = "POLICY_EVALUATED" /\ Approval[4] = "APPROVED"
  /\ Flagging[3] = "POLICY_EVALUATED" /\ Flagging[Alerts + 4] = "FLAGGED"
  /\ \A i \in 4 .. Alerts + 3 : Flagging[i] = "NOTIFICATION_SENT"
  /\ Failure[3] = "SYSTEM_ERROR" /\ Rejection[2] = "SYSTEM_ERROR"
<1>1. /\ Approval \in Seq(Types) /\ Len(Approval) = 4
      /\ Rejection \in Seq(Types) /\ Len(Rejection) = 2
      /\ Failure \in Seq(Types) /\ Len(Failure) = 3
  BY DEF Approval, Rejection, Failure, Types
<1> DEFINE start == <<"PAYLOAD_RECEIVED", "SECURITY_VALIDATED", "POLICY_EVALUATED">>
           alerts == Repeat("NOTIFICATION_SENT")
           opening == start \o alerts
           end == <<"FLAGGED">>
<1>2. /\ start \in Seq(Types) /\ Len(start) = 3 /\ end \in Seq(Types) /\ Len(end) = 1
      /\ start[1] = "PAYLOAD_RECEIVED" /\ start[2] = "SECURITY_VALIDATED"
      /\ start[3] = "POLICY_EVALUATED" /\ end[1] = "FLAGGED"
  BY DEF Types
<1>3. /\ alerts \in Seq(Types) /\ Len(alerts) = Alerts
      /\ \A i \in 1 .. Alerts : alerts[i] = "NOTIFICATION_SENT"
  BY PAssumption DEF Repeat, Types
<1>4. Alerts \in Nat /\ Alerts >= 1
  BY PAssumption
<1>5. Flagging = opening \o end
  BY DEF Flagging
<1> HIDE DEF start, alerts, end
<1>6. /\ opening \in Seq(Types) /\ Len(opening) = 3 + Alerts
      /\ \A i \in 1 .. 3 : opening[i] = start[i]
      /\ \A i \in 1 .. Alerts : opening[3 + i] = alerts[i]
  <2>1. /\ opening \in Seq(Types) /\ Len(opening) = Len(start) + Len(alerts)
        /\ \A i \in 1 .. Len(start) : opening[i] = start[i]
        /\ \A i \in 1 .. Len(alerts) : opening[Len(start) + i] = alerts[i]
    <3>1. start \in Seq(Types) /\ alerts \in Seq(Types)
      BY <1>2, <1>3
    <3> QED BY <3>1, Joined, Zenon
  <2> QED BY <1>2, <1>3, <2>1, Zenon
<1> HIDE DEF opening
<1>7. /\ opening \o end \in Seq(Types) /\ Len(opening \o end) = (3 + Alerts) + 1
      /\ \A i \in 1 .. 3 + Alerts : (opening \o end)[i] = opening[i]
      /\ \A i \in 1 .. 1 : (opening \o end)[(3 + Alerts) + i] = end[i]
  <2>1. /\ opening \o end \in Seq(Types) /\ Len(opening \o end) = Len(opening) + Len(end)
        /\ \A i \in 1 .. Len(opening) : (opening \o end)[i] = opening[i]
        /\ \A i \in 1 .. Len(end) : (opening \o end)[Len(opening) + i] = end[i]
    <3>1. opening \in Seq(Types) /\ end \in Seq(Types)
      BY <1>2, <1>6
    <3> QED BY <3>1, Joined, Zenon
  <2> QED BY <1>2, <1>6, <2>1, Zenon
<1> HIDE DEF Approval, Failure, Rejection, Flagging
<1>8. /\ Flagging \in Seq(Types) /\ Len(Flagging) = (3 + Alerts) + 1
      /\ \A i \in 1 .. 3 + Alerts : Flagging[i] = opening[i]
      /\ \A i \in 1 .. 1 : Flagging[(3 + Alerts) + i] = end[i]
  BY <1>5, <1>7, Zenon
<1>9. /\ Flagging[1] = "PAYLOAD_RECEIVED" /\ Flagging[2] = "SECURITY_VALIDATED"
      /\ Flagging[3] = "POLICY_EVALUATED" /\ Flagging[Alerts + 4] = "FLAGGED"
      /\ Len(Flagging) = Alerts + 4
  <2>1. (3 + Alerts) + 1 = Alerts + 4
    BY <1>4
  <2>2. \A i \in 1 .. 3 : Flagging[i] = start[i]
    BY <1>4, <1>6, <1>8
  <2>3. Flagging[Alerts + 4] = end[1]
    BY <1>8, <2>1
  <2> QED BY <1>2, <1>8, <2>1, <2>2, <2>3
<1>10. ASSUME NEW i \in 4 .. Alerts + 3
       PROVE  Flagging[i] = "NOTIFICATION_SENT"
  <2>1. /\ i \in 1 .. 3 + Alerts /\ i - 3 \in 1 .. Alerts /\ 3 + (i - 3) = i
    BY <1>4
  <2>2. Flagging[i] = opening[i] /\ opening[3 + (i - 3)] = alerts[i - 3]
        /\ alerts[i - 3] = "NOTIFICATION_SENT"
    BY <1>3, <1>6, <1>8, <2>1, Zenon
  <2> QED BY <2>1, <2>2
<1>11. /\ Approval[1] = "PAYLOAD_RECEIVED" /\ Approval[2] = "SECURITY_VALIDATED"
       /\ Approval[3] = "POLICY_EVALUATED" /\ Approval[4] = "APPROVED"
       /\ Failure[1] = "PAYLOAD_RECEIVED" /\ Failure[2] = "SECURITY_VALIDATED"
       /\ Failure[3] = "SYSTEM_ERROR"
       /\ Rejection[1] = "PAYLOAD_RECEIVED" /\ Rejection[2] = "SYSTEM_ERROR"
  BY DEF Approval, Failure, Rejection
<1>12. /\ \A path \in Paths : path[1] = "PAYLOAD_RECEIVED"
       /\ \A path \in {Approval, Flagging, Failure} : path[2] = "SECURITY_VALIDATED"
  BY <1>9, <1>11, Zenon DEF Paths
<1> QED BY <1>1, <1>8, <1>9, <1>10, <1>11, <1>12, Zenon

(* What is answered, by where the coroutine is and how it was answered.    *)
LEMMA Answers ==
  ASSUME NEW r \in Requests
  PROVE  /\ pc[r] = "new" => Answer(r) = "none"
         /\ pc[r] = "lost" => Answer(r) = "lost"
         /\ pc[r] \notin Idle => Answer(r) = "pending"
         /\ pc[r] = "answered" => Answer(r) = Meaning(response[r])
  BY Zenon DEF Answer, Idle

LEMMA Meanings ==
  ASSUME NEW reply
  PROVE  /\ reply.status = 200 => Meaning(reply) = reply.verdict
         /\ reply.status = 503 => Meaning(reply) = "unavailable"
         /\ reply.status = 500 => Meaning(reply) = "failed"
         /\ reply.status \in {401, 422} => Meaning(reply) = "rejected"
<1>1. ASSUME NEW s \in Int,
             NEW v
      PROVE  LET m == CASE s = 200 -> v
                        [] s = 503 -> "unavailable"
                        [] s = 500 -> "failed"
                        [] s \in {401, 422} -> "rejected"
             IN  /\ s = 200 => m = v
                 /\ s = 503 => m = "unavailable"
                 /\ s = 500 => m = "failed"
                 /\ s \in {401, 422} => m = "rejected"
  OBVIOUS
<1> QED BY <1>1 DEF Meaning

-----------------------------------------------------------------------------
(* record() adds one row to the trail of its request.                      *)
LEMMA Recorded ==
  ASSUME TypeOK, NEW r \in Requests, NEW type \in Types, Record(r, type)
  PROVE  /\ rows' \in [Requests -> Seq([type : Types, stored : BOOLEAN])]
         /\ Len(rows[r]) \in Nat
         /\ Len(rows'[r]) = Len(rows[r]) + 1
         /\ \A i \in 1 .. Len(rows[r]) : rows'[r][i].type = rows[r][i].type
         /\ rows'[r][Len(rows[r]) + 1].type = type
         /\ \A x \in Requests \ {r} : rows'[x] = rows[x]
<1> DEFINE Entry == [type : Types, stored : BOOLEAN]
<1>1. rows \in [Requests -> Seq(Entry)]
  BY DEF TypeOK
<1>2. PICK stored \in BOOLEAN :
        rows' = [rows EXCEPT ![r] = Append(@, [type |-> type, stored |-> stored])]
  BY DEF Record
<1> DEFINE row == [type |-> type, stored |-> stored]
<1>3. row \in Entry /\ row.type = type
  OBVIOUS
<1> HIDE DEF Entry, row
<1>4. /\ rows[r] \in Seq(Entry) /\ rows' = [rows EXCEPT ![r] = Append(rows[r], row)]
      /\ rows'[r] = Append(rows[r], row)
  BY <1>1, <1>2 DEF row
<1>5. /\ Append(rows[r], row) \in Seq(Entry) /\ Len(rows[r]) \in Nat
      /\ Len(Append(rows[r], row)) = Len(rows[r]) + 1
      /\ \A i \in 1 .. Len(rows[r]) : Append(rows[r], row)[i] = rows[r][i]
      /\ Append(rows[r], row)[Len(rows[r]) + 1] = row
  BY <1>3, <1>4
<1>6. rows' \in [Requests -> Seq(Entry)] /\ \A x \in Requests \ {r} : rows'[x] = rows[x]
  BY <1>1, <1>4, <1>5
<1> QED BY <1>3, <1>4, <1>5, <1>6 DEF Entry

(* A trail along a path stays on it with the path's next event.            *)
LEMMA Extended ==
  ASSUME TypeOK, NEW r \in Requests, NEW type \in Types, Record(r, type),
         NEW path, Len(path) \in Nat, Along(r, path),
         Len(rows[r]) + 1 <= Len(path), path[Len(rows[r]) + 1] = type
  PROVE  Along(r, path)'
<1>1. /\ Len(rows[r]) \in Nat /\ Len(rows'[r]) = Len(rows[r]) + 1
      /\ \A i \in 1 .. Len(rows[r]) : rows'[r][i].type = rows[r][i].type
      /\ rows'[r][Len(rows[r]) + 1].type = type
  BY Recorded
<1>2. ASSUME NEW i \in 1 .. Len(rows'[r])
      PROVE  rows'[r][i].type = path[i]
  <2>1. CASE i = Len(rows[r]) + 1
    BY <1>1, <2>1
  <2>2. CASE i # Len(rows[r]) + 1
    <3>1. i \in 1 .. Len(rows[r])
      BY <1>1, <2>2
    <3> QED BY <1>1, <3>1 DEF Along
  <2> QED BY <2>1, <2>2
<1> QED BY <1>1, <1>2 DEF Along

(* The paths begin alike: a short trail on one of them is on the others.   *)
LEMMA Beginnings ==
  ASSUME TypeOK, NEW r \in Requests, Along(r, Flagging)
  PROVE  /\ Len(rows[r]) <= 3 => Along(r, Approval)
         /\ Len(rows[r]) <= 2 => Along(r, Failure)
         /\ Len(rows[r]) <= 1 => Along(r, Rejection)
<1>1. Len(rows[r]) \in Nat
  BY DEF TypeOK
<1>2. /\ Flagging[1] = Approval[1] /\ Flagging[2] = Approval[2] /\ Flagging[3] = Approval[3]
      /\ Flagging[1] = Failure[1] /\ Flagging[2] = Failure[2] /\ Flagging[1] = Rejection[1]
      /\ Len(Approval) = 4 /\ Len(Failure) = 3 /\ Len(Rejection) = 2
  BY Positions, Zenon DEF Paths
<1>3. \A i \in 1 .. Len(rows[r]) : rows[r][i].type = Flagging[i]
  BY DEF Along
<1> HIDE DEF Flagging, Approval, Failure, Rejection
<1>4. ASSUME Len(rows[r]) <= 3 PROVE Along(r, Approval)
  <2>1. ASSUME NEW i \in 1 .. Len(rows[r])
        PROVE  rows[r][i].type = Approval[i]
    <3>1. i = 1 \/ i = 2 \/ i = 3
      BY <1>1, <1>4
    <3> QED BY <1>2, <1>3, <3>1
  <2>2. Len(rows[r]) <= Len(Approval)
    BY <1>1, <1>2, <1>4
  <2> QED BY <2>1, <2>2, Zenon DEF Along
<1>5. ASSUME Len(rows[r]) <= 2 PROVE Along(r, Failure)
  <2>1. ASSUME NEW i \in 1 .. Len(rows[r])
        PROVE  rows[r][i].type = Failure[i]
    <3>1. i = 1 \/ i = 2
      BY <1>1, <1>5
    <3> QED BY <1>2, <1>3, <3>1
  <2>2. Len(rows[r]) <= Len(Failure)
    BY <1>1, <1>2, <1>5
  <2> QED BY <2>1, <2>2, Zenon DEF Along
<1>6. ASSUME Len(rows[r]) <= 1 PROVE Along(r, Rejection)
  <2>1. ASSUME NEW i \in 1 .. Len(rows[r])
        PROVE  rows[r][i].type = Rejection[i]
    <3>1. i = 1
      BY <1>1, <1>6
    <3> QED BY <1>2, <1>3, <3>1
  <2>2. Len(rows[r]) <= Len(Rejection)
    BY <1>1, <1>2, <1>6
  <2> QED BY <2>1, <2>2, Zenon DEF Along
<1> QED BY <1>4, <1>5, <1>6

(* A row about an alert is counted, and no other.                          *)
LEMMA AnnouncedMore ==
  ASSUME TypeOK, NEW r \in Requests, NEW type \in Types, Record(r, type)
  PROVE  /\ Announced(r) \in Nat
         /\ Announced(r)' = IF type = "NOTIFICATION_SENT" THEN Announced(r) + 1
                            ELSE Announced(r)
<1> DEFINE n == Len(rows[r])
           sent == {i \in DOMAIN rows[r] : rows[r][i].type = "NOTIFICATION_SENT"}
           more == {i \in DOMAIN rows'[r] : rows'[r][i].type = "NOTIFICATION_SENT"}
<1>1. /\ n \in Nat /\ Len(rows'[r]) = n + 1
      /\ \A i \in 1 .. n : rows'[r][i].type = rows[r][i].type
      /\ rows'[r][n + 1].type = type
      /\ rows' \in [Requests -> Seq([type : Types, stored : BOOLEAN])]
  BY Recorded
<1>2. DOMAIN rows[r] = 1 .. n /\ DOMAIN rows'[r] = 1 .. n + 1
  BY <1>1 DEF TypeOK
<1>3. IsFiniteSet(sent)
  <2>1. IsFiniteSet(1 .. n)
    BY <1>1, FS_Interval
  <2>2. sent \subseteq 1 .. n
    BY <1>2
  <2> QED BY <2>1, <2>2, FS_Subset, Zenon
<1>4. Cardinality(sent) \in Nat
  BY <1>3, FS_CardinalityType, Zenon
<1>5. Announced(r) = Cardinality(sent) /\ Announced(r)' = Cardinality(more)
  BY DEF Announced
<1>6. CASE type = "NOTIFICATION_SENT"
  <2>1. more = sent \cup {n + 1} /\ n + 1 \notin sent
    BY <1>1, <1>2, <1>6
  <2>2. Cardinality(sent \cup {n + 1}) =
          IF n + 1 \in sent THEN Cardinality(sent) ELSE Cardinality(sent) + 1
    BY <1>3, FS_AddElement, Zenon
  <2> HIDE DEF sent, more, n
  <2> QED BY <1>4, <1>5, <1>6, <2>1, <2>2
<1>7. CASE type # "NOTIFICATION_SENT"
  <2>1. more = sent
    BY <1>1, <1>2, <1>7
  <2> HIDE DEF sent, more, n
  <2> QED BY <1>4, <1>5, <1>7, <2>1
<1> QED BY <1>6, <1>7

(* What rows there are stays true unless a verdict or failure is taken     *)
(* back.                                                                   *)
LEMMA SilentTrue ==
  ASSUME NEW r, RowsTrue(r), rows'[r] = rows[r], kind'[r] = kind[r],
         tried'[r] = tried[r], failure[r] # 0 => failure'[r] # 0,
         verdict[r] # "none" => verdict'[r] = verdict[r],
         pc'[r] \in Alerting => pc[r] \in Alerting,
         pc'[r] \notin Alerting \union {"lost"} => pc[r] \notin Alerting \union {"lost"}
  PROVE  RowsTrue(r)'
<1>1. Announced(r)' = Announced(r)
  BY DEF Announced
<1>2. \A i \in 1 .. Len(rows[r]) : RowTrue(r, rows[r][i].type)
  BY DEF RowsTrue
<1>3. (\A i \in 1 .. Len(rows[r]) : RowTrue(r, rows[r][i].type))'
  BY <1>2 DEF RowTrue
<1>4. /\ Announced(r) \in Nat
      /\ pc[r] \in Alerting => tried[r] = Announced(r) + 1
      /\ pc[r] \notin Alerting \union {"lost"} => tried[r] = Announced(r)
      /\ pc[r] = "lost" => tried[r] \in {Announced(r), Announced(r) + 1}
  BY DEF RowsTrue
<1>5. /\ pc'[r] \in Alerting => tried'[r] = Announced(r)' + 1
      /\ pc'[r] \notin Alerting \union {"lost"} => tried'[r] = Announced(r)'
      /\ pc'[r] = "lost" => tried'[r] \in {Announced(r)', Announced(r)' + 1}
  BY <1>1, <1>4 DEF Alerting
<1> QED BY <1>1, <1>3, <1>4, <1>5 DEF RowsTrue

(* A row that is true is added, about an alert when one is under way.      *)
LEMMA RecordedTrue ==
  ASSUME TypeOK, NEW r \in Requests, NEW type \in Types, Record(r, type), RowsTrue(r),
         kind'[r] = kind[r], tried'[r] = tried[r], verdict'[r] = verdict[r],
         failure[r] # 0 => failure'[r] # 0, RowTrue(r, type)',
         pc'[r] \notin Alerting \union {"lost"}, pc[r] # "lost",
         type = "NOTIFICATION_SENT" <=> pc[r] \in Alerting
  PROVE  RowsTrue(r)'
<1>1. /\ Announced(r) \in Nat
      /\ Announced(r)' = IF type = "NOTIFICATION_SENT" THEN Announced(r) + 1 ELSE Announced(r)
  BY AnnouncedMore
<1>2. /\ Len(rows[r]) \in Nat /\ Len(rows'[r]) = Len(rows[r]) + 1
      /\ \A i \in 1 .. Len(rows[r]) : rows'[r][i].type = rows[r][i].type
      /\ rows'[r][Len(rows[r]) + 1].type = type
  BY Recorded
<1>3. \A i \in 1 .. Len(rows[r]) : RowTrue(r, rows[r][i].type)
  BY DEF RowsTrue
<1>4. (\A i \in 1 .. Len(rows[r]) : RowTrue(r, rows[r][i].type))'
  <2> SUFFICES ASSUME NEW i \in 1 .. Len(rows'[r]), NEW t, t = rows'[r][i].type
               PROVE  RowTrue(r, t)'
    BY DEF RowTrue
  <2>1. CASE i = Len(rows[r]) + 1
    BY <1>2, <2>1 DEF RowTrue
  <2>2. CASE i # Len(rows[r]) + 1
    <3>1. i \in 1 .. Len(rows[r]) /\ t = rows[r][i].type
      BY <1>2, <2>2
    <3>2. RowTrue(r, t)
      BY <1>3, <3>1 DEF RowTrue
    <3> QED BY <3>2 DEF RowTrue
  <2> QED BY <2>1, <2>2
<1>5. tried'[r] = Announced(r)' /\ Announced(r)' \in Nat
  <2>1. /\ pc[r] \in Alerting => tried[r] = Announced(r) + 1
        /\ pc[r] \notin Alerting \union {"lost"} => tried[r] = Announced(r)
    BY DEF RowsTrue
  <2> QED BY <1>1, <2>1 DEF Alerting
<1> QED BY <1>4, <1>5 DEF RowsTrue, Alerting

-----------------------------------------------------------------------------
(* The types of everything but the counters, whose bounds come last.       *)
Lives == {"new", "up", "down"}
Kinds == {"valid", "blank", "bad_key"}
Verdicts == {"none", "APPROVED", "FLAGGED"}
Codes == {0, 401, 422, 500}
Row == [type : Types, stored : BOOLEAN]
Replies == [status : {0, 200, 401, 422, 500, 503}, verdict : {"none", "APPROVED", "FLAGGED"}]

Shapes ==
  /\ process \in Lives /\ boots \in 1 .. MaxBoots
  /\ pc \in [Requests -> Labels] /\ kind \in [Requests -> Kinds]
  /\ verdict \in [Requests -> Verdicts] /\ failure \in [Requests -> Codes]
  /\ rows \in [Requests -> Seq(Row)] /\ response \in [Requests -> Replies]
  /\ tried \in [Requests -> 0 .. Alerts] /\ served \subseteq Requests

Bounds ==
  /\ runs \in [Agents -> 0 .. Cardinality(Requests)]
  /\ errors \in [Agents -> 0 .. Cardinality(Requests)]
  /\ stats \in [Figures -> 0 .. Cardinality(Requests)]

LEMMA Typed == TypeOK <=> Shapes /\ Bounds
<1>1. ASSUME TypeOK
      PROVE  Shapes
  <2>1. /\ process \in Lives /\ boots \in 1 .. MaxBoots /\ pc \in [Requests -> Labels]
        /\ tried \in [Requests -> 0 .. Alerts] /\ served \subseteq Requests
    BY <1>1 DEF TypeOK, Lives
  <2>2. /\ kind \in [Requests -> Kinds] /\ verdict \in [Requests -> Verdicts]
        /\ failure \in [Requests -> Codes]
    BY <1>1 DEF TypeOK, Kinds, Verdicts, Codes
  <2>3. rows \in [Requests -> Seq(Row)]
    <3>1. rows \in [Requests -> Seq([type : Types, stored : BOOLEAN])]
      BY <1>1 DEF TypeOK
    <3> QED BY <3>1, Zenon DEF Row
  <2>4. response \in [Requests -> Replies]
    BY <1>1 DEF TypeOK, Replies
  <2> QED BY <2>1, <2>2, <2>3, <2>4, Zenon DEF Shapes
<1>2. TypeOK => Bounds
  BY DEF TypeOK, Bounds
<1>3. ASSUME Shapes, Bounds
      PROVE  TypeOK
  <2>1. /\ process \in {"new", "up", "down"}
        /\ kind \in [Requests -> {"valid", "blank", "bad_key"}]
        /\ verdict \in [Requests -> {"none", "APPROVED", "FLAGGED"}]
        /\ failure \in [Requests -> {0, 401, 422, 500}]
    BY <1>3 DEF Shapes, Lives, Kinds, Verdicts, Codes
  <2>2. rows \in [Requests -> Seq([type : Types, stored : BOOLEAN])]
    BY <1>3 DEF Shapes, Row
  <2>3. response \in [Requests -> [status : {0, 200, 401, 422, 500, 503},
                                    verdict : {"none", "APPROVED", "FLAGGED"}]]
    BY <1>3 DEF Shapes, Replies
  <2>4. /\ boots \in 1 .. MaxBoots /\ pc \in [Requests -> Labels]
        /\ tried \in [Requests -> 0 .. Alerts] /\ served \subseteq Requests
    BY <1>3 DEF Shapes
  <2>5. /\ runs \in [Agents -> 0 .. Cardinality(Requests)]
        /\ errors \in [Agents -> 0 .. Cardinality(Requests)]
        /\ stats \in [Figures -> 0 .. Cardinality(Requests)]
    BY <1>3 DEF Bounds
  <2> QED BY <2>1, <2>2, <2>3, <2>4, <2>5 DEF TypeOK
<1> QED BY <1>1, <1>2, <1>3

LEMMA TypedNext == TypeOK' <=> Shapes' /\ Bounds'
<1>1. ASSUME TypeOK'
      PROVE  Shapes'
  <2>1. /\ process' \in Lives /\ boots' \in 1 .. MaxBoots /\ pc' \in [Requests -> Labels]
        /\ tried' \in [Requests -> 0 .. Alerts] /\ served' \subseteq Requests
    BY <1>1 DEF TypeOK, Lives
  <2>2. /\ kind' \in [Requests -> Kinds] /\ verdict' \in [Requests -> Verdicts]
        /\ failure' \in [Requests -> Codes]
    BY <1>1 DEF TypeOK, Kinds, Verdicts, Codes
  <2>3. rows' \in [Requests -> Seq(Row)]
    <3>1. rows' \in [Requests -> Seq([type : Types, stored : BOOLEAN])]
      BY <1>1 DEF TypeOK
    <3> QED BY <3>1, Zenon DEF Row
  <2>4. response' \in [Requests -> Replies]
    BY <1>1 DEF TypeOK, Replies
  <2> QED BY <2>1, <2>2, <2>3, <2>4, Zenon DEF Shapes
<1>2. TypeOK' => Bounds'
  BY DEF TypeOK, Bounds
<1>3. ASSUME Shapes', Bounds'
      PROVE  TypeOK'
  <2>1. /\ process' \in {"new", "up", "down"}
        /\ kind' \in [Requests -> {"valid", "blank", "bad_key"}]
        /\ verdict' \in [Requests -> {"none", "APPROVED", "FLAGGED"}]
        /\ failure' \in [Requests -> {0, 401, 422, 500}]
    BY <1>3 DEF Shapes, Lives, Kinds, Verdicts, Codes
  <2>2. rows' \in [Requests -> Seq([type : Types, stored : BOOLEAN])]
    BY <1>3 DEF Shapes, Row
  <2>3. response' \in [Requests -> [status : {0, 200, 401, 422, 500, 503},
                                    verdict : {"none", "APPROVED", "FLAGGED"}]]
    BY <1>3 DEF Shapes, Replies
  <2>4. /\ boots' \in 1 .. MaxBoots /\ pc' \in [Requests -> Labels]
        /\ tried' \in [Requests -> 0 .. Alerts] /\ served' \subseteq Requests
    BY <1>3 DEF Shapes
  <2>5. /\ runs' \in [Agents -> 0 .. Cardinality(Requests)]
        /\ errors' \in [Agents -> 0 .. Cardinality(Requests)]
        /\ stats' \in [Figures -> 0 .. Cardinality(Requests)]
    BY <1>3 DEF Bounds
  <2> QED BY <2>1, <2>2, <2>3, <2>4, <2>5 DEF TypeOK
<1> QED BY <1>1, <1>2, <1>3

(* A step of r is no step of another request.                              *)
Framed(r) ==
  /\ kind' = kind
  /\ \A x \in Requests \ {r} :
       /\ pc'[x] = pc[x] /\ verdict'[x] = verdict[x] /\ failure'[x] = failure[x]
       /\ rows'[x] = rows[x] /\ response'[x] = response[x]
       /\ tried'[x] = tried[x]
       /\ x \in served' <=> x \in served

LEMMA OthersKept ==
  ASSUME NEW r, Framed(r), NEW x \in Requests \ {r}, Local(x)
  PROVE  Local(x)'
<1>1. /\ kind'[x] = kind[x] /\ pc'[x] = pc[x] /\ verdict'[x] = verdict[x]
      /\ failure'[x] = failure[x] /\ rows'[x] = rows[x] /\ response'[x] = response[x]
      /\ tried'[x] = tried[x]
      /\ x \in served' <=> x \in served
  BY DEF Framed
<1>2. \A path : Along(x, path)' <=> Along(x, path)
  BY <1>1 DEF Along
<1>3. TrailInv(x)'
  BY <1>1, <1>2 DEF Local, TrailInv, All, AllButLast, Granted, Refused
<1>4. RequestInv(x)'
  BY <1>1 DEF Local, RequestInv
<1>5. AnswerInv(x)'
  BY <1>1 DEF Local, AnswerInv
<1>6. RowsTrue(x)'
  BY <1>1, SilentTrue DEF Local
<1> QED BY <1>3, <1>4, <1>5, <1>6 DEF Local

(* Turned down before startup.                                             *)
LEMMA NotStartedKeeps ==
  ASSUME TypeOK, NEW r \in Requests, Local(r), NotStarted(r)
  PROVE  Shapes' /\ Framed(r) /\ Local(r)'
<1> USE DEF NotStarted, Respond, Goto, NoResponse, work, counters
<1>1. Shapes'
  <2> DEFINE answer == [status |-> 503, verdict |-> "none"]
  <2>1. answer \in Replies
    BY DEF TypeOK, Replies
  <2>2. response' = [response EXCEPT ![r] = answer]
    OBVIOUS
  <2> HIDE DEF answer
  <2>3. Shapes /\ response' \in [Requests -> Replies]
    BY <2>1, <2>2, Typed DEF Shapes
  <2>4. pc' \in [Requests -> Labels] /\ served' \subseteq Requests
    BY DEF TypeOK, Labels, Idle
  <2> QED BY <2>3, <2>4, Zenon DEF Shapes, work
<1>2. Framed(r)
  BY DEF TypeOK, Framed, work, counters, front
<1>3. TrailInv(r)'
  <2>1. \A path : Along(r, path)' <=> Along(r, path)
    BY DEF Along, work, counters, front
  <2> QED BY <2>1 DEF Local, TypeOK, TrailInv, RequestInv, AnswerInv, All, AllButLast,
                     Granted, Refused, HttpStatus, Alerting, work, counters, front
<1>4. RequestInv(r)'
  BY DEF Local, TypeOK, RequestInv, AnswerInv, HttpStatus, InGates, Deciding, Alerting,
         work, counters, front
<1>5. AnswerInv(r)'
  BY DEF Local, TypeOK, RequestInv, AnswerInv, HttpStatus, InGates, Deciding, Alerting,
         work, counters, front
<1>6. RowsTrue(r)'
  <2>1. /\ rows'[r] = rows[r] /\ kind'[r] = kind[r] /\ tried'[r] = tried[r]
        /\ failure[r] # 0 => failure'[r] # 0
        /\ verdict[r] # "none" => verdict'[r] = verdict[r]
        /\ pc[r] \notin Alerting \union {"lost"} /\ pc'[r] \notin Alerting \union {"lost"}
    BY DEF NotStarted, Goto, Respond, Local, TypeOK, RequestInv, Alerting, work, counters, front
  <2> QED BY <2>1, SilentTrue DEF Local
<1> QED BY <1>1, <1>2, <1>3, <1>4, <1>5, <1>6 DEF Local

(* Handed to the supervisor.                                               *)
LEMMA SubmitKeeps ==
  ASSUME TypeOK, NEW r \in Requests, Local(r), Submit(r)
  PROVE  Shapes' /\ Framed(r) /\ Local(r)'
<1> USE DEF Submit, Goto, work, front
<1>1. Shapes'
  <2>1. Shapes /\ pc' \in [Requests -> Labels]
    <3>1. Shapes
      BY Typed
    <3> QED BY <3>1 DEF Shapes, Labels, Idle
  <2> QED BY <2>1, Zenon DEF Shapes
<1>2. Framed(r)
  BY DEF TypeOK, Framed, work, counters, front
<1>3. TrailInv(r)'
  <2>1. \A path : Along(r, path)' <=> Along(r, path)
    BY DEF Along, work, counters, front
  <2> QED BY <2>1 DEF Local, TypeOK, TrailInv, RequestInv, AnswerInv, All, AllButLast,
                     Granted, Refused, HttpStatus, Alerting, work, counters, front
<1>4. RequestInv(r)'
  BY DEF Local, TypeOK, RequestInv, AnswerInv, HttpStatus, InGates, Deciding, Alerting,
         work, counters, front
<1>5. AnswerInv(r)'
  BY DEF Local, TypeOK, RequestInv, AnswerInv, HttpStatus, InGates, Deciding, Alerting,
         work, counters, front
<1>6. RowsTrue(r)'
  <2>1. /\ rows'[r] = rows[r] /\ kind'[r] = kind[r] /\ tried'[r] = tried[r]
        /\ failure[r] # 0 => failure'[r] # 0
        /\ verdict[r] # "none" => verdict'[r] = verdict[r]
        /\ pc[r] \notin Alerting \union {"lost"} /\ pc'[r] \notin Alerting \union {"lost"}
    BY DEF Submit, Goto, Local, TypeOK, RequestInv, Alerting, work, counters, front
  <2> QED BY <2>1, SilentTrue DEF Local
<1> QED BY <1>1, <1>2, <1>3, <1>4, <1>5, <1>6 DEF Local

(* Decided by the policy worker.                                           *)
LEMMA EvaluateKeeps ==
  ASSUME TypeOK, NEW r \in Requests, Local(r), Evaluate(r)
  PROVE  Shapes' /\ Framed(r) /\ Local(r)'
<1> USE DEF Evaluate, Goto, counters, front
<1>1. Shapes'
  <2>1. verdict' \in [Requests -> Verdicts]
    BY DEF TypeOK, Verdicts
  <2>2. Shapes /\ pc' \in [Requests -> Labels]
    <3>1. Shapes
      BY Typed
    <3> QED BY <3>1 DEF Shapes, Labels, Idle
  <2> QED BY <2>1, <2>2, Zenon DEF Shapes, front
<1>2. Framed(r)
  BY DEF TypeOK, Framed, work, counters, front
<1>3. TrailInv(r)'
  <2>1. \A path : Along(r, path)' <=> Along(r, path)
    BY DEF Along, work, counters, front
  <2> QED BY <2>1 DEF Local, TypeOK, TrailInv, RequestInv, AnswerInv, All, AllButLast,
                     Granted, Refused, HttpStatus, Alerting, work, counters, front
<1>4. RequestInv(r)'
  BY DEF Local, TypeOK, RequestInv, AnswerInv, HttpStatus, InGates, Deciding, Alerting,
         work, counters, front
<1>5. AnswerInv(r)'
  BY DEF Local, TypeOK, RequestInv, AnswerInv, HttpStatus, InGates, Deciding, Alerting,
         work, counters, front
<1>6. RowsTrue(r)'
  <2>1. /\ rows'[r] = rows[r] /\ kind'[r] = kind[r] /\ tried'[r] = tried[r]
        /\ failure[r] # 0 => failure'[r] # 0
        /\ verdict[r] # "none" => verdict'[r] = verdict[r]
        /\ pc[r] \notin Alerting \union {"lost"} /\ pc'[r] \notin Alerting \union {"lost"}
    BY DEF Evaluate, Goto, Local, TypeOK, RequestInv, Alerting, work, counters, front
  <2> QED BY <2>1, SilentTrue DEF Local
<1> QED BY <1>1, <1>2, <1>3, <1>4, <1>5, <1>6 DEF Local

(* Given up by the policy worker.                                          *)
LEMMA EvaluateFailsKeeps ==
  ASSUME TypeOK, NEW r \in Requests, Local(r), EvaluateFails(r)
  PROVE  Shapes' /\ Framed(r) /\ Local(r)'
<1> USE DEF EvaluateFails, Goto, front
<1>1. Shapes'
  <2>1. Shapes /\ pc' \in [Requests -> Labels]
    <3>1. Shapes
      BY Typed
    <3> QED BY <3>1 DEF Shapes, Labels, Idle
  <2>2. failure' \in [Requests -> Codes]
    BY DEF TypeOK, Codes
  <2> QED BY <2>1, <2>2, Zenon DEF Shapes
<1>2. Framed(r)
  BY DEF TypeOK, Framed, work, counters, front
<1>3. TrailInv(r)'
  <2>1. \A path : Along(r, path)' <=> Along(r, path)
    BY DEF Along, work, counters, front
  <2>2. /\ Along(r, Failure) /\ Len(rows[r]) = 2 /\ Len(Failure) = 3
        /\ kind[r] = "valid" /\ response[r] = NoResponse /\ rows' = rows
    <3>1. Along(r, Flagging) /\ Len(rows[r]) = 2 /\ rows' = rows
      BY DEF Local, TrailInv
    <3>2. kind[r] = "valid" /\ response[r] = NoResponse
      BY DEF Local, RequestInv, AnswerInv, InGates
    <3>3. Len(Failure) = 3 /\ Along(r, Failure)
      <4>1. Len(rows[r]) <= 2
        BY <3>1
      <4> QED BY <3>1, <4>1, Beginnings, Positions, Zenon
    <3> QED BY <3>1, <3>2, <3>3
  <2>3. (AllButLast(r, Refused(r)))'
    BY <2>1, <2>2 DEF AllButLast, Refused
  <2>4. pc'[r] = "failing" /\ response'[r].status = 0
    BY <2>2 DEF TypeOK, NoResponse, front
  <2>5. (\E path \in Paths : Along(r, path))'
    BY <2>1, <2>2 DEF Paths
  <2> QED BY <2>3, <2>4, <2>5 DEF TrailInv, Alerting
<1>4. RequestInv(r)'
  BY DEF Local, TypeOK, RequestInv, AnswerInv, HttpStatus, InGates, Deciding, Alerting,
         work, counters, front
<1>5. AnswerInv(r)'
  BY DEF Local, TypeOK, RequestInv, AnswerInv, HttpStatus, InGates, Deciding, Alerting,
         work, counters, front
<1>6. RowsTrue(r)'
  <2>1. /\ rows'[r] = rows[r] /\ kind'[r] = kind[r] /\ tried'[r] = tried[r]
        /\ failure[r] # 0 => failure'[r] # 0
        /\ verdict[r] # "none" => verdict'[r] = verdict[r]
        /\ pc[r] \notin Alerting \union {"lost"} /\ pc'[r] \notin Alerting \union {"lost"}
    BY DEF EvaluateFails, Goto, Local, TypeOK, RequestInv, Alerting, work, counters, front
  <2> QED BY <2>1, SilentTrue DEF Local
<1> QED BY <1>1, <1>2, <1>3, <1>4, <1>5, <1>6 DEF Local

(* Answered with a verdict.                                                *)
LEMMA ReturnKeeps ==
  ASSUME TypeOK, NEW r \in Requests, Local(r), Return(r)
  PROVE  Shapes' /\ Framed(r) /\ Local(r)'
<1> USE DEF Return, Respond, Goto, NoResponse, work, counters
<1>1. Shapes'
  <2> DEFINE answer == [status |-> 200, verdict |-> verdict[r]]
  <2>1. answer \in Replies
    BY DEF TypeOK, Replies
  <2>2. response' = [response EXCEPT ![r] = answer]
    OBVIOUS
  <2> HIDE DEF answer
  <2>3. Shapes /\ response' \in [Requests -> Replies]
    BY <2>1, <2>2, Typed DEF Shapes
  <2>4. pc' \in [Requests -> Labels] /\ served' \subseteq Requests
    BY DEF TypeOK, Labels, Idle
  <2> QED BY <2>3, <2>4, Zenon DEF Shapes, work
<1>2. Framed(r)
  BY DEF TypeOK, Framed, work, counters, front
<1>3. TrailInv(r)'
  <2>1. \A path : Along(r, path)' <=> Along(r, path)
    BY DEF Along, work, counters, front
  <2> QED BY <2>1 DEF Local, TypeOK, TrailInv, RequestInv, AnswerInv, All, AllButLast,
                     Granted, Refused, HttpStatus, Alerting, work, counters, front
<1>4. RequestInv(r)'
  BY DEF Local, TypeOK, RequestInv, AnswerInv, HttpStatus, InGates, Deciding, Alerting,
         work, counters, front
<1>5. AnswerInv(r)'
  BY DEF Local, TypeOK, RequestInv, AnswerInv, HttpStatus, InGates, Deciding, Alerting,
         work, counters, front
<1>6. RowsTrue(r)'
  <2>1. /\ rows'[r] = rows[r] /\ kind'[r] = kind[r] /\ tried'[r] = tried[r]
        /\ failure[r] # 0 => failure'[r] # 0
        /\ verdict[r] # "none" => verdict'[r] = verdict[r]
        /\ pc[r] \notin Alerting \union {"lost"} /\ pc'[r] \notin Alerting \union {"lost"}
    BY DEF Return, Goto, Respond, Local, TypeOK, RequestInv, Alerting, work, counters, front
  <2> QED BY <2>1, SilentTrue DEF Local
<1> QED BY <1>1, <1>2, <1>3, <1>4, <1>5, <1>6 DEF Local

(* Answered with an error.                                                 *)
LEMMA ReturnErrorKeeps ==
  ASSUME TypeOK, NEW r \in Requests, Local(r), ReturnError(r)
  PROVE  Shapes' /\ Framed(r) /\ Local(r)'
<1> USE DEF ReturnError, Respond, Goto, NoResponse, work, counters
<1>1. Shapes'
  <2> DEFINE answer == [status |-> failure[r], verdict |-> "none"]
  <2>1. answer \in Replies
    BY DEF TypeOK, Replies
  <2>2. response' = [response EXCEPT ![r] = answer]
    OBVIOUS
  <2> HIDE DEF answer
  <2>3. Shapes /\ response' \in [Requests -> Replies]
    BY <2>1, <2>2, Typed DEF Shapes
  <2>4. pc' \in [Requests -> Labels] /\ served' \subseteq Requests
    BY DEF TypeOK, Labels, Idle
  <2> QED BY <2>3, <2>4, Zenon DEF Shapes, work
<1>2. Framed(r)
  BY DEF TypeOK, Framed, work, counters, front
<1>3. TrailInv(r)'
  <2>1. \A path : Along(r, path)' <=> Along(r, path)
    BY DEF Along, work, counters, front
  <2> QED BY <2>1 DEF Local, TypeOK, TrailInv, RequestInv, AnswerInv, All, AllButLast,
                     Granted, Refused, HttpStatus, Alerting, work, counters, front
<1>4. RequestInv(r)'
  BY DEF Local, TypeOK, RequestInv, AnswerInv, HttpStatus, InGates, Deciding, Alerting,
         work, counters, front
<1>5. AnswerInv(r)'
  BY DEF Local, TypeOK, RequestInv, AnswerInv, HttpStatus, InGates, Deciding, Alerting,
         work, counters, front
<1>6. RowsTrue(r)'
  <2>1. /\ rows'[r] = rows[r] /\ kind'[r] = kind[r] /\ tried'[r] = tried[r]
        /\ failure[r] # 0 => failure'[r] # 0
        /\ verdict[r] # "none" => verdict'[r] = verdict[r]
        /\ pc[r] \notin Alerting \union {"lost"} /\ pc'[r] \notin Alerting \union {"lost"}
    BY DEF ReturnError, Goto, Respond, Local, TypeOK, RequestInv, Alerting, work, counters, front
  <2> QED BY <2>1, SilentTrue DEF Local
<1> QED BY <1>1, <1>2, <1>3, <1>4, <1>5, <1>6 DEF Local

(* Received by the supervisor, and past its security check or not.         *)
LEMMA ReceivedKeeps ==
  ASSUME TypeOK, NEW r \in Requests, Local(r), Received(r)
  PROVE  Shapes' /\ Framed(r) /\ Local(r)'
<1>a. "PAYLOAD_RECEIVED" \in Types /\ Record(r, "PAYLOAD_RECEIVED")
  BY DEF Received, Types
<1>b. /\ rows' \in [Requests -> Seq(Row)]
      /\ Len(rows[r]) \in Nat /\ Len(rows'[r]) = Len(rows[r]) + 1
      /\ \A x \in Requests \ {r} : rows'[x] = rows[x]
      /\ "PAYLOAD_RECEIVED" \in Types /\ Record(r, "PAYLOAD_RECEIVED")
  BY <1>a, Recorded, Zenon DEF Row
<1>1. Shapes'
  <2>1. /\ Shapes /\ tried' \in [Requests -> 0 .. Alerts]
        /\ pc' \in [Requests -> Labels] /\ failure' \in [Requests -> Codes]
    <3>1. \E label \in {"validated", "failing"} : pc' = [pc EXCEPT ![r] = label]
      BY DEF Received, Goto
    <3>2. pc' \in [Requests -> Labels]
      BY <3>1 DEF TypeOK, Labels
    <3>3. failure' \in [Requests -> Codes]
      <4>1. failure' = failure \/ \E n \in {401, 422} : failure' = [failure EXCEPT ![r] = n]
        BY DEF Received, HttpStatus
      <4>2. failure \in [Requests -> Codes]
        BY Typed DEF Shapes
      <4>3. ASSUME NEW n \in {401, 422}, failure' = [failure EXCEPT ![r] = n]
            PROVE  failure' \in [Requests -> Codes]
        BY <4>2, <4>3 DEF Codes
      <4> QED BY <4>1, <4>2, <4>3
    <3> QED BY <3>2, <3>3, Typed DEF Received, Shapes
  <2> QED BY <1>b, <2>1, Zenon DEF Received, Shapes, front
<1>2. Framed(r)
  BY <1>b DEF Received, Goto, TypeOK, Framed, counters, front
<1>3. TrailInv(r)'
  <2>1. rows[r] = <<>> /\ Len(rows[r]) = 0 /\ response[r] = NoResponse
    BY DEF Received, Local, TrailInv, AnswerInv
  <2>2. /\ Len(Flagging) \in Nat /\ Len(Flagging) >= 1 /\ Flagging[1] = "PAYLOAD_RECEIVED"
        /\ Len(Rejection) = 2 /\ Rejection[1] = "PAYLOAD_RECEIVED"
    <3>1. /\ Len(Flagging) = Alerts + 4 /\ Flagging[1] = "PAYLOAD_RECEIVED"
          /\ Len(Rejection) = 2 /\ Rejection[1] = "PAYLOAD_RECEIVED"
      BY Positions, Zenon DEF Paths
    <3> QED BY <3>1, PAssumption
  <2>3. Along(r, Flagging)' /\ Along(r, Rejection)' /\ Len(rows'[r]) = 1
    <3>1. /\ Len(rows[r]) + 1 = 1 /\ 1 <= Len(Flagging) /\ 1 <= Len(Rejection)
          /\ Len(Rejection) \in Nat
      BY <2>1, <2>2
    <3>2. Along(r, Flagging) /\ Along(r, Rejection)
      BY <2>1, <2>2 DEF Along
    <3>3. /\ Flagging[Len(rows[r]) + 1] = "PAYLOAD_RECEIVED"
          /\ Rejection[Len(rows[r]) + 1] = "PAYLOAD_RECEIVED"
          /\ Len(rows[r]) + 1 <= Len(Flagging) /\ Len(rows[r]) + 1 <= Len(Rejection)
      BY <2>2, <3>1
    <3> QED BY <1>b, <2>2, <3>1, <3>2, <3>3, Extended, Zenon
  <2>4. response'[r].status = 0 /\ kind' = kind
        /\ pc'[r] = IF kind[r] = "valid" THEN "validated" ELSE "failing"
    BY <2>1 DEF Received, Goto, TypeOK, NoResponse, front
  <2> QED BY <2>2, <2>3, <2>4 DEF TrailInv, AllButLast, Refused, Alerting, Paths
<1>4. RequestInv(r)'
  BY <1>b DEF Received, Goto, Local, TypeOK, TrailInv, RequestInv, AnswerInv, NoResponse,
          HttpStatus, InGates, Deciding, Alerting, counters, front
<1>5. AnswerInv(r)'
  BY DEF Received, Goto, Local, TypeOK, AnswerInv, HttpStatus, counters, front
<1>6. RowsTrue(r)'
  <2>1. /\ kind'[r] = kind[r] /\ tried'[r] = tried[r] /\ verdict'[r] = verdict[r]
        /\ failure[r] # 0 => failure'[r] # 0
        /\ pc[r] # "lost" /\ pc'[r] \notin Alerting \union {"lost"}
        /\ "PAYLOAD_RECEIVED" = "NOTIFICATION_SENT" <=> pc[r] \in Alerting
    BY <1>b DEF Received, Goto, Local, TypeOK, RequestInv, HttpStatus, Alerting, Types, Deciding
  <2>2. RowTrue(r, "PAYLOAD_RECEIVED")'
    BY DEF Received, Goto, Local, TypeOK, RequestInv, RowTrue, InGates, Deciding, Alerting
  <2>3. "PAYLOAD_RECEIVED" \in Types /\ Record(r, "PAYLOAD_RECEIVED") /\ RowsTrue(r)
    BY <1>b DEF Local
  <2> QED BY <2>1, <2>2, <2>3, RecordedTrue
<1> QED BY <1>1, <1>2, <1>3, <1>4, <1>5, <1>6 DEF Local

(* Past the security check, and handed to the policy worker.               *)
LEMMA ValidatedKeeps ==
  ASSUME TypeOK, NEW r \in Requests, Local(r), Validated(r)
  PROVE  Shapes' /\ Framed(r) /\ Local(r)'
<1>a. "SECURITY_VALIDATED" \in Types /\ Record(r, "SECURITY_VALIDATED")
  BY DEF Validated, Types
<1>b. /\ rows' \in [Requests -> Seq(Row)]
      /\ Len(rows[r]) \in Nat /\ Len(rows'[r]) = Len(rows[r]) + 1
      /\ \A x \in Requests \ {r} : rows'[x] = rows[x]
      /\ "SECURITY_VALIDATED" \in Types /\ Record(r, "SECURITY_VALIDATED")
  BY <1>a, Recorded, Zenon DEF Row
<1>1. Shapes'
  <2>1. /\ Shapes /\ tried' \in [Requests -> 0 .. Alerts]
        /\ pc' \in [Requests -> Labels] /\ failure' \in [Requests -> Codes]
    <3>1. Shapes
      BY Typed
    <3> QED BY <3>1 DEF Validated, Goto, Shapes, Labels, Idle
  <2> QED BY <1>b, <2>1, Zenon DEF Validated, Shapes, front
<1>2. Framed(r)
  BY <1>b DEF Validated, Goto, TypeOK, Framed, counters, front
<1>3. TrailInv(r)'
  <2>1. Along(r, Flagging) /\ Len(rows[r]) = 1 /\ response[r] = NoResponse
    BY DEF Validated, Local, TrailInv, AnswerInv
  <2>2. Along(r, Flagging)' /\ Len(rows'[r]) = 2
    <3>1. /\ Len(Flagging) \in Nat /\ Len(Flagging) >= 2
          /\ Flagging[2] = "SECURITY_VALIDATED"
      <4>1. Len(Flagging) = Alerts + 4 /\ Flagging[2] = "SECURITY_VALIDATED"
        BY Positions, Zenon
      <4> QED BY <4>1, PAssumption
    <3>2. /\ Len(rows[r]) + 1 = 2 /\ Len(rows[r]) + 1 <= Len(Flagging)
          /\ Flagging[Len(rows[r]) + 1] = "SECURITY_VALIDATED"
      BY <2>1, <3>1
    <3> QED BY <1>b, <2>1, <3>1, <3>2, Extended, Zenon
  <2>3. response'[r].status = 0 /\ pc'[r] = "evaluating"
    BY <2>1 DEF Validated, Goto, TypeOK, NoResponse, front
  <2> QED BY <2>2, <2>3 DEF TrailInv, Alerting, Paths
<1>4. RequestInv(r)'
  BY <1>b DEF Validated, Goto, Local, TypeOK, TrailInv, RequestInv, AnswerInv, NoResponse,
          HttpStatus, InGates, Deciding, Alerting, counters, front
<1>5. AnswerInv(r)'
  BY DEF Validated, Goto, Local, TypeOK, AnswerInv, HttpStatus, counters, front
<1>6. RowsTrue(r)'
  <2>1. /\ kind'[r] = kind[r] /\ tried'[r] = tried[r] /\ verdict'[r] = verdict[r]
        /\ failure[r] # 0 => failure'[r] # 0
        /\ pc[r] # "lost" /\ pc'[r] \notin Alerting \union {"lost"}
        /\ "SECURITY_VALIDATED" = "NOTIFICATION_SENT" <=> pc[r] \in Alerting
    BY <1>b DEF Validated, Goto, Local, TypeOK, RequestInv, HttpStatus, Alerting, Types, Deciding
  <2>2. RowTrue(r, "SECURITY_VALIDATED")'
    BY DEF Validated, Goto, Local, TypeOK, RequestInv, RowTrue, InGates, Deciding, Alerting
  <2>3. "SECURITY_VALIDATED" \in Types /\ Record(r, "SECURITY_VALIDATED") /\ RowsTrue(r)
    BY <1>b DEF Local
  <2> QED BY <2>1, <2>2, <2>3, RecordedTrue
<1> QED BY <1>1, <1>2, <1>3, <1>4, <1>5, <1>6 DEF Local

(* Evaluated, with an alert to dispatch or not.                            *)
LEMMA EvaluatedKeeps ==
  ASSUME TypeOK, NEW r \in Requests, Local(r), Evaluated(r)
  PROVE  Shapes' /\ Framed(r) /\ Local(r)'
<1>a. "POLICY_EVALUATED" \in Types /\ Record(r, "POLICY_EVALUATED")
  BY DEF Evaluated, Types
<1>b. /\ rows' \in [Requests -> Seq(Row)]
      /\ Len(rows[r]) \in Nat /\ Len(rows'[r]) = Len(rows[r]) + 1
      /\ \A x \in Requests \ {r} : rows'[x] = rows[x]
      /\ "POLICY_EVALUATED" \in Types /\ Record(r, "POLICY_EVALUATED")
  BY <1>a, Recorded, Zenon DEF Row
<1>1. Shapes'
  <2>1. /\ Shapes /\ tried' \in [Requests -> 0 .. Alerts]
        /\ pc' \in [Requests -> Labels] /\ failure' \in [Requests -> Codes]
    <3>1. \E label \in {"notifying", "deciding"} : pc' = [pc EXCEPT ![r] = label]
      BY DEF Evaluated, Goto
    <3>2. pc' \in [Requests -> Labels]
      BY <3>1 DEF TypeOK, Labels
    <3>3. failure' \in [Requests -> Codes]
      BY DEF Evaluated, TypeOK, Codes
    <3> QED BY <3>2, <3>3, Typed DEF Evaluated, Shapes
  <2> QED BY <1>b, <2>1, Zenon DEF Evaluated, Shapes, front
<1>2. Framed(r)
  BY <1>b DEF Evaluated, Goto, TypeOK, Framed, counters, front
<1>3. TrailInv(r)'
  <2>1. Along(r, Flagging) /\ Len(rows[r]) = 2 /\ response[r] = NoResponse
    BY DEF Evaluated, Local, TrailInv, AnswerInv
  <2>2. /\ Len(Flagging) = Alerts + 4 /\ Flagging[3] = "POLICY_EVALUATED"
        /\ Len(Approval) = 4 /\ Approval[3] = "POLICY_EVALUATED"
    BY Positions, Zenon
  <2>3. Along(r, Flagging)' /\ Along(r, Approval)' /\ Len(rows'[r]) = 3
    <3>1. Along(r, Approval)
      <4>1. Len(rows[r]) <= 3
        BY <2>1
      <4> QED BY <2>1, <4>1, Beginnings, Zenon
    <3>2. /\ Len(rows[r]) + 1 = 3 /\ Len(Flagging) \in Nat /\ Len(Approval) \in Nat
          /\ Len(rows[r]) + 1 <= Len(Flagging) /\ Len(rows[r]) + 1 <= Len(Approval)
          /\ Flagging[Len(rows[r]) + 1] = "POLICY_EVALUATED"
          /\ Approval[Len(rows[r]) + 1] = "POLICY_EVALUATED"
      BY <2>1, <2>2, PAssumption
    <3> QED BY <1>b, <2>1, <3>1, <3>2, Extended, Zenon
  <2>4. /\ response'[r].status = 0 /\ verdict' = verdict /\ tried'[r] = 0
        /\ pc'[r] = IF verdict[r] = "FLAGGED" THEN "notifying" ELSE "deciding"
    BY <2>1 DEF Evaluated, Goto, TypeOK, NoResponse, Local, RequestInv, front
  <2> QED BY <2>2, <2>3, <2>4, PAssumption DEF TrailInv, AllButLast, Granted, Alerting, Paths
<1>4. RequestInv(r)'
  <2>1. /\ kind'[r] = kind[r] /\ verdict'[r] = verdict[r] /\ failure'[r] = failure[r]
        /\ tried'[r] = tried[r] /\ response'[r] = NoResponse
        /\ pc'[r] = IF verdict[r] = "FLAGGED" THEN "notifying" ELSE "deciding"
    <3>2. pc'[r] = IF verdict[r] = "FLAGGED" THEN "notifying" ELSE "deciding"
      BY DEF Evaluated, Goto, TypeOK
    <3>3. response[r] = NoResponse
      BY DEF Evaluated, Local, AnswerInv
    <3> QED BY <3>2, <3>3 DEF Evaluated, front
  <2>2. kind[r] = "valid" /\ failure[r] = 0 /\ verdict[r] # "none" /\ tried[r] = 0
    BY DEF Evaluated, Local, RequestInv, InGates, Deciding, Alerting
  <2> QED BY <2>1, <2>2, PAssumption DEF RequestInv, NoResponse, InGates, Deciding, Alerting
<1>5. AnswerInv(r)'
  BY DEF Evaluated, Goto, Local, TypeOK, AnswerInv, HttpStatus, counters, front
<1>6. RowsTrue(r)'
  <2>1. /\ kind'[r] = kind[r] /\ tried'[r] = tried[r] /\ verdict'[r] = verdict[r]
        /\ failure[r] # 0 => failure'[r] # 0
        /\ pc[r] # "lost" /\ pc'[r] \notin Alerting \union {"lost"}
        /\ "POLICY_EVALUATED" = "NOTIFICATION_SENT" <=> pc[r] \in Alerting
    BY <1>b DEF Evaluated, Goto, Local, TypeOK, RequestInv, HttpStatus, Alerting, Types, Deciding
  <2>2. RowTrue(r, "POLICY_EVALUATED")'
    BY DEF Evaluated, Goto, Local, TypeOK, RequestInv, RowTrue, InGates, Deciding, Alerting
  <2>3. "POLICY_EVALUATED" \in Types /\ Record(r, "POLICY_EVALUATED") /\ RowsTrue(r)
    BY <1>b DEF Local
  <2> QED BY <2>1, <2>2, <2>3, RecordedTrue
<1> QED BY <1>1, <1>2, <1>3, <1>4, <1>5, <1>6 DEF Local

(* Dispatched to one more channel.                                         *)
LEMMA DispatchKeeps ==
  ASSUME TypeOK, NEW r \in Requests, Local(r), Dispatch(r)
  PROVE  Shapes' /\ Framed(r) /\ Local(r)'
<1>a. /\ pc[r] = "notifying" /\ pc'[r] = "dispatching" /\ tried'[r] = tried[r] + 1
      /\ tried[r] \in 0 .. Alerts /\ tried[r] < Alerts /\ Alerts \in Nat
      /\ verdict[r] = "FLAGGED" /\ response[r] = NoResponse
      /\ UNCHANGED <<kind, verdict, failure, rows, response, served>>
  BY PAssumption DEF Dispatch, Goto, TypeOK, Local, RequestInv, AnswerInv, counters, front
<1>1. Shapes'
  <2>1. Shapes
    BY Typed
  <2>2. pc' \in [Requests -> Labels]
    BY DEF Dispatch, Goto, TypeOK, Labels
  <2>3. tried' \in [Requests -> 0 .. Alerts]
    BY <1>a DEF Dispatch, TypeOK
  <2> QED BY <2>1, <2>2, <2>3, Zenon DEF Dispatch, Shapes, front
<1>2. Framed(r)
  BY DEF Dispatch, Goto, TypeOK, Framed, counters, front
<1>3. TrailInv(r)'
  <2>1. \A path : Along(r, path)' <=> Along(r, path)
    BY <1>a DEF Along
  <2>2. Along(r, Flagging) /\ Len(rows[r]) = 3 + tried[r]
    BY <1>a DEF Local, TrailInv
  <2>3. Along(r, Flagging)' /\ Len(rows'[r]) = 2 + tried'[r]
    BY <1>a, <2>1, <2>2
  <2> QED BY <1>a, <2>3 DEF TrailInv, NoResponse, Alerting, Paths
<1>4. RequestInv(r)'
  BY <1>a DEF Local, RequestInv, NoResponse, InGates, Deciding, Alerting
<1>5. AnswerInv(r)'
  BY <1>a DEF Local, AnswerInv
<1>6. RowsTrue(r)'
  <2>1. Announced(r)' = Announced(r)
    BY <1>a DEF Announced
  <2>2. Announced(r) \in Nat /\ tried[r] = Announced(r)
    BY <1>a DEF Local, RowsTrue, Alerting
  <2>3. \A i \in 1 .. Len(rows[r]) : RowTrue(r, rows[r][i].type)
    BY DEF Local, RowsTrue
  <2>4. (\A i \in 1 .. Len(rows[r]) : RowTrue(r, rows[r][i].type))'
    BY <1>a, <2>3 DEF RowTrue
  <2>5. tried'[r] = Announced(r)' + 1 /\ Announced(r)' \in Nat
    BY <1>a, <2>1, <2>2
  <2> QED BY <1>a, <2>4, <2>5 DEF RowsTrue, Alerting
<1> QED BY <1>1, <1>2, <1>3, <1>4, <1>5, <1>6 DEF Local

(* The dispatch has returned.                                              *)
LEMMA DispatchedKeeps ==
  ASSUME TypeOK, NEW r \in Requests, Local(r), Dispatched(r)
  PROVE  Shapes' /\ Framed(r) /\ Local(r)'
<1>a. /\ pc[r] = "dispatching" /\ pc'[r] = "announcing" /\ response[r] = NoResponse
      /\ UNCHANGED <<kind, verdict, failure, rows, tried, response, served>>
  BY DEF Dispatched, Goto, TypeOK, Local, AnswerInv, work, front
<1>1. Shapes'
  <2>1. Shapes
    BY Typed
  <2>2. pc' \in [Requests -> Labels]
    BY DEF Dispatched, Goto, TypeOK, Labels
  <2> QED BY <2>1, <2>2, Zenon DEF Dispatched, Shapes, work, front
<1>2. Framed(r)
  BY <1>a DEF Dispatched, Goto, TypeOK, Framed
<1>3. TrailInv(r)'
  <2>1. \A path : Along(r, path)' <=> Along(r, path)
    BY <1>a DEF Along
  <2>2. Along(r, Flagging)' /\ Len(rows'[r]) = 2 + tried'[r]
    BY <1>a, <2>1 DEF Local, TrailInv, Alerting
  <2> QED BY <1>a, <2>2 DEF TrailInv, NoResponse, Alerting, Paths
<1>4. RequestInv(r)'
  BY <1>a DEF Local, RequestInv, NoResponse, InGates, Deciding, Alerting
<1>5. AnswerInv(r)'
  BY <1>a DEF Local, AnswerInv
<1>6. RowsTrue(r)'
  BY <1>a, SilentTrue DEF Local, Alerting
<1> QED BY <1>1, <1>2, <1>3, <1>4, <1>5, <1>6 DEF Local

(* The row of the channel dispatched to.                                   *)
LEMMA AnnounceKeeps ==
  ASSUME TypeOK, NEW r \in Requests, Local(r), Announce(r)
  PROVE  Shapes' /\ Framed(r) /\ Local(r)'
<1>a. "NOTIFICATION_SENT" \in Types /\ Record(r, "NOTIFICATION_SENT")
  BY DEF Announce, Types
<1>b. /\ rows' \in [Requests -> Seq(Row)]
      /\ Len(rows[r]) \in Nat /\ Len(rows'[r]) = Len(rows[r]) + 1
      /\ \A x \in Requests \ {r} : rows'[x] = rows[x]
      /\ "NOTIFICATION_SENT" \in Types /\ Record(r, "NOTIFICATION_SENT")
  BY <1>a, Recorded, Zenon DEF Row
<1>c. /\ pc[r] = "announcing" /\ verdict[r] = "FLAGGED" /\ response[r] = NoResponse
      /\ pc'[r] = IF tried[r] = Alerts THEN "deciding" ELSE "notifying"
      /\ tried[r] \in 0 .. Alerts /\ tried[r] >= 1 /\ Alerts \in Nat
      /\ UNCHANGED <<kind, verdict, failure, tried, response, served>>
  BY PAssumption DEF Announce, Goto, TypeOK, Local, RequestInv, AnswerInv, Alerting, front
<1>1. Shapes'
  <2>1. Shapes
    BY Typed
  <2>2. pc' \in [Requests -> Labels]
    <3>1. \E label \in {"notifying", "deciding"} : pc' = [pc EXCEPT ![r] = label]
      BY DEF Announce, Goto
    <3> QED BY <3>1 DEF TypeOK, Labels
  <2> QED BY <1>b, <2>1, <2>2, Zenon DEF Announce, Shapes, front
<1>2. Framed(r)
  BY <1>b, <1>c DEF Announce, Goto, TypeOK, Framed
<1>3. TrailInv(r)'
  <2>1. Along(r, Flagging) /\ Len(rows[r]) = 2 + tried[r]
    BY <1>c DEF Local, TrailInv, Alerting
  <2>2. /\ Len(Flagging) = Alerts + 4
        /\ \A i \in 4 .. Alerts + 3 : Flagging[i] = "NOTIFICATION_SENT"
    BY Positions, Zenon
  <2>3. Along(r, Flagging)' /\ Len(rows'[r]) = 3 + tried[r]
    <3>1. /\ Len(rows[r]) + 1 \in 4 .. Alerts + 3 /\ Len(Flagging) \in Nat
          /\ Len(rows[r]) + 1 <= Len(Flagging) /\ Len(rows[r]) + 1 = 3 + tried[r]
      BY <1>c, <2>1, <2>2
    <3>2. Flagging[Len(rows[r]) + 1] = "NOTIFICATION_SENT"
      BY <2>2, <3>1, Zenon
    <3> QED BY <1>b, <2>1, <3>1, <3>2, Extended, Zenon
  <2>4. CASE tried[r] = Alerts
    <3>1. pc'[r] = "deciding" /\ Len(rows'[r]) + 1 = Len(Flagging)
      BY <1>c, <2>2, <2>3, <2>4
    <3> QED BY <1>c, <2>3, <3>1 DEF TrailInv, AllButLast, Granted, Alerting, NoResponse, Paths
  <2>5. CASE tried[r] # Alerts
    <3>1. pc'[r] = "notifying" /\ tried'[r] = tried[r]
      BY <1>c, <2>5
    <3> QED BY <1>c, <2>3, <3>1 DEF TrailInv, Alerting, NoResponse, Paths
  <2> QED BY <2>4, <2>5
<1>4. RequestInv(r)'
  BY <1>c DEF Local, RequestInv, NoResponse, InGates, Deciding, Alerting
<1>5. AnswerInv(r)'
  BY <1>c DEF Local, AnswerInv
<1>6. RowsTrue(r)'
  <2>1. RowTrue(r, "NOTIFICATION_SENT")'
    BY DEF RowTrue
  <2>2. pc[r] \in Alerting /\ pc[r] # "lost" /\ pc'[r] \notin Alerting \union {"lost"}
    BY <1>c DEF Alerting
  <2> QED BY <1>b, <1>c, <2>1, <2>2, RecordedTrue DEF Local
<1> QED BY <1>1, <1>2, <1>3, <1>4, <1>5, <1>6 DEF Local

(* The verdict written.                                                    *)
LEMMA DecideKeeps ==
  ASSUME TypeOK, NEW r \in Requests, Local(r), Decide(r)
  PROVE  Shapes' /\ Framed(r) /\ Local(r)'
<1>a. verdict[r] \in Types /\ Record(r, verdict[r])
  BY DEF Decide, Types, Local, RequestInv, Deciding, TypeOK
<1>b. /\ rows' \in [Requests -> Seq(Row)]
      /\ Len(rows[r]) \in Nat /\ Len(rows'[r]) = Len(rows[r]) + 1
      /\ \A x \in Requests \ {r} : rows'[x] = rows[x]
      /\ verdict[r] \in Types /\ Record(r, verdict[r])
  BY <1>a, Recorded, Zenon DEF Row
<1>1. Shapes'
  <2>1. /\ Shapes /\ tried' \in [Requests -> 0 .. Alerts]
        /\ pc' \in [Requests -> Labels] /\ failure' \in [Requests -> Codes]
    <3>1. Shapes
      BY Typed
    <3> QED BY <3>1 DEF Decide, Goto, Shapes, Labels, Idle
  <2> QED BY <1>b, <2>1, Zenon DEF Decide, Shapes, front
<1>2. Framed(r)
  BY <1>b DEF Decide, Goto, TypeOK, Framed, counters, front
<1>3. TrailInv(r)'
  <2>1. AllButLast(r, Granted(r)) /\ response[r] = NoResponse
    BY DEF Decide, Local, TrailInv, AnswerInv
  <2>2. /\ Len(Flagging) = Alerts + 4 /\ Flagging[Alerts + 4] = "FLAGGED"
        /\ Len(Approval) = 4 /\ Approval[4] = "APPROVED"
    BY Positions, Zenon
  <2>3. /\ Len(Granted(r)) \in Nat /\ Granted(r)[Len(Granted(r))] = verdict[r]
        /\ Granted(r) \in Paths
    <3>1. verdict[r] \in {"APPROVED", "FLAGGED"}
      BY DEF Decide, Local, RequestInv, Deciding, TypeOK
    <3>2. CASE verdict[r] = "FLAGGED"
      <4>1. Granted(r) = Flagging
        BY <3>2, Zenon DEF Granted
      <4> QED BY <2>2, <3>2, <4>1, PAssumption DEF Paths
    <3>3. CASE verdict[r] = "APPROVED"
      <4>1. Granted(r) = Approval
        BY <3>3 DEF Granted
      <4>2. Len(Granted(r)) = 4 /\ Granted(r)[4] = verdict[r] /\ Granted(r) \in Paths
        BY <2>2, <3>3, <4>1, Zenon DEF Paths
      <4> QED BY <4>2
    <3> QED BY <3>1, <3>2, <3>3
  <2>4. (All(r, Granted(r)))'
    <3>1. ASSUME NEW way, way = Granted(r)
          PROVE  Along(r, way)' /\ Len(rows'[r]) = Len(way)
      <4>1. /\ Along(r, way) /\ Len(way) \in Nat /\ Len(rows[r]) + 1 = Len(way)
            /\ way[Len(rows[r]) + 1] = verdict[r]
        BY <2>1, <2>3, <3>1 DEF AllButLast
      <4>2. Len(rows[r]) + 1 <= Len(way)
        BY <4>1
      <4> QED BY <1>b, <4>1, <4>2, Extended, Zenon
    <3>2. Granted(r)' = Granted(r)
      BY DEF Granted, Decide
    <3> QED BY <3>1, <3>2 DEF All
  <2>5. response'[r].status = 0 /\ pc'[r] = "returning"
    BY <2>1 DEF Decide, Goto, TypeOK, NoResponse, front
  <2>6. (\E path \in Paths : Along(r, path))'
    BY <2>4 DEF All, Granted, Paths
  <2> QED BY <2>4, <2>5, <2>6 DEF TrailInv, Alerting
<1>4. RequestInv(r)'
  BY <1>b DEF Decide, Goto, Local, TypeOK, TrailInv, RequestInv, AnswerInv, NoResponse,
          HttpStatus, InGates, Deciding, Alerting, counters, front
<1>5. AnswerInv(r)'
  BY DEF Decide, Goto, Local, TypeOK, AnswerInv, HttpStatus, counters, front
<1>6. RowsTrue(r)'
  <2>1. /\ kind'[r] = kind[r] /\ tried'[r] = tried[r] /\ verdict'[r] = verdict[r]
        /\ failure[r] # 0 => failure'[r] # 0
        /\ pc[r] # "lost" /\ pc'[r] \notin Alerting \union {"lost"}
        /\ verdict[r] = "NOTIFICATION_SENT" <=> pc[r] \in Alerting
    BY <1>b DEF Decide, Goto, Local, TypeOK, RequestInv, HttpStatus, Alerting, Types, Deciding
  <2>2. RowTrue(r, verdict[r])'
    BY DEF Decide, Goto, Local, TypeOK, RequestInv, RowTrue, InGates, Deciding, Alerting
  <2>3. verdict[r] \in Types /\ Record(r, verdict[r]) /\ RowsTrue(r)
    BY <1>b DEF Local
  <2> QED BY <2>1, <2>2, <2>3, RecordedTrue
<1> QED BY <1>1, <1>2, <1>3, <1>4, <1>5, <1>6 DEF Local

(* The error written.                                                      *)
LEMMA FailingKeeps ==
  ASSUME TypeOK, NEW r \in Requests, Local(r), Failing(r)
  PROVE  Shapes' /\ Framed(r) /\ Local(r)'
<1>a. "SYSTEM_ERROR" \in Types /\ Record(r, "SYSTEM_ERROR")
  BY DEF Failing, Types
<1>b. /\ rows' \in [Requests -> Seq(Row)]
      /\ Len(rows[r]) \in Nat /\ Len(rows'[r]) = Len(rows[r]) + 1
      /\ \A x \in Requests \ {r} : rows'[x] = rows[x]
      /\ "SYSTEM_ERROR" \in Types /\ Record(r, "SYSTEM_ERROR")
  BY <1>a, Recorded, Zenon DEF Row
<1>1. Shapes'
  <2>1. /\ Shapes /\ tried' \in [Requests -> 0 .. Alerts]
        /\ pc' \in [Requests -> Labels] /\ failure' \in [Requests -> Codes]
    <3>1. Shapes
      BY Typed
    <3> QED BY <3>1 DEF Failing, Goto, Shapes, Labels, Idle
  <2> QED BY <1>b, <2>1, Zenon DEF Failing, Shapes, front
<1>2. Framed(r)
  BY <1>b DEF Failing, Goto, TypeOK, Framed, counters, front
<1>3. TrailInv(r)'
  <2>1. AllButLast(r, Refused(r)) /\ response[r] = NoResponse
    BY DEF Failing, Local, TrailInv, AnswerInv
  <2>2. /\ Len(Failure) = 3 /\ Failure[3] = "SYSTEM_ERROR"
        /\ Len(Rejection) = 2 /\ Rejection[2] = "SYSTEM_ERROR"
    BY Positions, Zenon
  <2>3. (All(r, Refused(r)))'
    <3>1. ASSUME NEW way, way = Refused(r)
          PROVE  Along(r, way)' /\ Len(rows'[r]) = Len(way)
      <4>1. /\ Along(r, way) /\ Len(way) \in Nat /\ Len(rows[r]) + 1 = Len(way)
            /\ way[Len(rows[r]) + 1] = "SYSTEM_ERROR"
        <5>1. Along(r, way) /\ Len(rows[r]) + 1 = Len(way)
          BY <2>1, <3>1 DEF AllButLast
        <5>2. way = Failure \/ way = Rejection
          BY <3>1 DEF Refused
        <5>3. /\ Len(way) = 3 \/ Len(way) = 2
              /\ way[Len(way)] = "SYSTEM_ERROR"
          BY <2>2, <5>2, Zenon
        <5> QED BY <5>1, <5>3
      <4>2. Len(rows[r]) + 1 <= Len(way)
        BY <4>1
      <4> QED BY <1>b, <4>1, <4>2, Extended, Zenon
    <3>2. Refused(r)' = Refused(r)
      BY DEF Refused, Failing
    <3> QED BY <3>1, <3>2 DEF All
  <2>4. response'[r].status = 0 /\ pc'[r] = "raising"
    BY <2>1 DEF Failing, Goto, TypeOK, NoResponse, front
  <2>5. (\E path \in Paths : Along(r, path))'
    BY <2>3 DEF All, Refused, Paths
  <2> QED BY <2>3, <2>4, <2>5 DEF TrailInv, Alerting
<1>4. RequestInv(r)'
  BY <1>b DEF Failing, Goto, Local, TypeOK, TrailInv, RequestInv, AnswerInv, NoResponse,
          HttpStatus, InGates, Deciding, Alerting, counters, front
<1>5. AnswerInv(r)'
  BY DEF Failing, Goto, Local, TypeOK, AnswerInv, HttpStatus, counters, front
<1>6. RowsTrue(r)'
  <2>1. /\ kind'[r] = kind[r] /\ tried'[r] = tried[r] /\ verdict'[r] = verdict[r]
        /\ failure[r] # 0 => failure'[r] # 0
        /\ pc[r] # "lost" /\ pc'[r] \notin Alerting \union {"lost"}
        /\ "SYSTEM_ERROR" = "NOTIFICATION_SENT" <=> pc[r] \in Alerting
    BY <1>b DEF Failing, Goto, Local, TypeOK, RequestInv, HttpStatus, Alerting, Types, Deciding
  <2>2. RowTrue(r, "SYSTEM_ERROR")'
    BY DEF Failing, Goto, Local, TypeOK, RequestInv, RowTrue, HttpStatus
  <2>3. "SYSTEM_ERROR" \in Types /\ Record(r, "SYSTEM_ERROR") /\ RowsTrue(r)
    BY <1>b DEF Local
  <2> QED BY <2>1, <2>2, <2>3, RecordedTrue
<1> QED BY <1>1, <1>2, <1>3, <1>4, <1>5, <1>6 DEF Local

-----------------------------------------------------------------------------
(* Sets of requests that differ in one of them at most.                    *)
LEMMA Grows ==
  ASSUME NEW S \in SUBSET Requests, NEW T \in SUBSET Requests, NEW r \in Requests,
         \A x \in Requests \ {r} : x \in T <=> x \in S
  PROVE  /\ IsFiniteSet(S) /\ Cardinality(S) \in 0 .. Cardinality(Requests)
         /\ (r \in T <=> r \in S) => Cardinality(T) = Cardinality(S)
         /\ r \in T /\ r \notin S => Cardinality(T) = Cardinality(S) + 1
<1>1. /\ IsFiniteSet(Requests) /\ Cardinality(Requests) \in Nat
  BY PAssumption, FS_CardinalityType
<1>2. IsFiniteSet(S) /\ Cardinality(S) <= Cardinality(Requests)
  BY <1>1, FS_Subset
<1>3. Cardinality(S) \in Nat
  BY <1>2, FS_CardinalityType
<1>4. ASSUME r \in T <=> r \in S
      PROVE  T = S
  BY <1>4
<1>5. ASSUME r \in T, r \notin S
      PROVE  Cardinality(T) = Cardinality(S) + 1
  <2>1. T = S \cup {r}
    BY <1>5
  <2>2. Cardinality(S \cup {r}) = IF r \in S THEN Cardinality(S) ELSE Cardinality(S) + 1
    BY <1>2, FS_AddElement
  <2> QED BY <1>5, <2>1, <2>2
<1> QED BY <1>1, <1>2, <1>3, <1>4, <1>5

LEMMA Bounded ==
  ASSUME NEW S \in SUBSET Requests
  PROVE  Cardinality(S) \in 0 .. Cardinality(Requests)
<1>1. /\ IsFiniteSet(Requests) /\ Cardinality(Requests) \in Nat
  BY PAssumption, FS_CardinalityType
<1>2. IsFiniteSet(S) /\ Cardinality(S) <= Cardinality(Requests)
  BY <1>1, FS_Subset
<1>3. Cardinality(S) \in Nat
  BY <1>2, FS_CardinalityType
<1> QED BY <1>1, <1>2, <1>3

LEMMA SetsOfRequests ==
  /\ Ran \subseteq Requests /\ RanFailed \subseteq Requests /\ Past \subseteq Requests
  /\ PastFailed \subseteq Requests /\ PastFlagged \subseteq Requests
BY DEF Ran, RanFailed, Past, PastFailed, PastFlagged

LEMMA SetsOfRequestsNext ==
  /\ Ran' \subseteq Requests /\ RanFailed' \subseteq Requests /\ Past' \subseteq Requests
  /\ PastFailed' \subseteq Requests /\ PastFlagged' \subseteq Requests
BY DEF Ran, RanFailed, Past, PastFailed, PastFlagged

(* Whatever r does, the other requests stay in the sets they are in.       *)
LEMMA SetsKept ==
  ASSUME NEW r \in Requests, Framed(r)
  PROVE  /\ \A x \in Requests \ {r} : x \in Ran' <=> x \in Ran
         /\ \A x \in Requests \ {r} : x \in RanFailed' <=> x \in RanFailed
         /\ \A x \in Requests \ {r} : x \in Past' <=> x \in Past
         /\ \A x \in Requests \ {r} : x \in PastFailed' <=> x \in PastFailed
         /\ \A x \in Requests \ {r} : x \in PastFlagged' <=> x \in PastFlagged
<1>1. ASSUME NEW x \in Requests \ {r} PROVE x \in Ran' <=> x \in Ran
  BY DEF Framed, Ran
<1>2. ASSUME NEW x \in Requests \ {r} PROVE x \in RanFailed' <=> x \in RanFailed
  BY <1>1 DEF Framed, RanFailed
<1>3. ASSUME NEW x \in Requests \ {r} PROVE x \in Past' <=> x \in Past
  BY <1>1 DEF Framed, Past
<1>4. ASSUME NEW x \in Requests \ {r} PROVE x \in PastFailed' <=> x \in PastFailed
  BY <1>3 DEF Framed, PastFailed
<1>5. ASSUME NEW x \in Requests \ {r} PROVE x \in PastFlagged' <=> x \in PastFlagged
  BY <1>3 DEF Framed, PastFlagged
<1> QED BY <1>1, <1>2, <1>3, <1>4, <1>5

\* One, if r is in T and not in S.
Entered(r, S, T) == IF r \in T /\ r \notin S THEN 1 ELSE 0

(* A step of r counts r wherever it starts to belong.                      *)
Counted(r) ==
  /\ r \in Ran => r \in Ran'
  /\ r \in RanFailed => r \in RanFailed'
  /\ r \in Past => r \in Past'
  /\ r \in PastFailed => r \in PastFailed'
  /\ r \in PastFlagged => r \in PastFlagged'
  /\ runs'["supervisor"] = runs["supervisor"] + Entered(r, Ran, Ran')
  /\ errors'["supervisor"] = errors["supervisor"] + Entered(r, RanFailed, RanFailed')
  /\ runs'["policy"] = runs["policy"] + Entered(r, Past, Past')
  /\ errors'["policy"] = errors["policy"] + Entered(r, PastFailed, PastFailed')
  /\ runs'["communicator"] = runs["communicator"] + Entered(r, PastFlagged, PastFlagged')
  /\ errors'["communicator"] = errors["communicator"]

LEMMA MetricsFollow ==
  ASSUME MetricsInv, NEW r \in Requests, Framed(r), Counted(r), process' = process
  PROVE  MetricsInv'
<1> SUFFICES ASSUME process # "down" PROVE MetricsInv'
  BY DEF MetricsInv
<1>1. ASSUME NEW S \in SUBSET Requests, NEW T \in SUBSET Requests,
             \A x \in Requests \ {r} : x \in T <=> x \in S, r \in S => r \in T
      PROVE  Cardinality(T) = Cardinality(S) + Entered(r, S, T)
  <2>1. /\ Cardinality(S) \in 0 .. Cardinality(Requests)
        /\ (r \in T <=> r \in S) => Cardinality(T) = Cardinality(S)
        /\ r \in T /\ r \notin S => Cardinality(T) = Cardinality(S) + 1
    BY <1>1, Grows, Zenon
  <2> QED BY <1>1, <2>1 DEF Entered
<1>2. Cardinality(Ran') = Cardinality(Ran) + Entered(r, Ran, Ran')
  BY <1>1, SetsKept, SetsOfRequests, SetsOfRequestsNext, Zenon DEF Counted
<1>3. Cardinality(RanFailed') = Cardinality(RanFailed) + Entered(r, RanFailed, RanFailed')
  BY <1>1, SetsKept, SetsOfRequests, SetsOfRequestsNext, Zenon DEF Counted
<1>4. Cardinality(Past') = Cardinality(Past) + Entered(r, Past, Past')
  BY <1>1, SetsKept, SetsOfRequests, SetsOfRequestsNext, Zenon DEF Counted
<1>5. Cardinality(PastFailed') = Cardinality(PastFailed) + Entered(r, PastFailed, PastFailed')
  BY <1>1, SetsKept, SetsOfRequests, SetsOfRequestsNext, Zenon DEF Counted
<1>6. Cardinality(PastFlagged')
        = Cardinality(PastFlagged) + Entered(r, PastFlagged, PastFlagged')
  BY <1>1, SetsKept, SetsOfRequests, SetsOfRequestsNext, Zenon DEF Counted
<1> QED BY <1>2, <1>3, <1>4, <1>5, <1>6, Zenon DEF MetricsInv, Counted

LEMMA CountOf ==
  ASSUME NEW counter, NEW chosen
  PROVE  \A a \in Agents :
           Count(counter, chosen)[a] = IF a \in chosen THEN counter[a] + 1 ELSE counter[a]
BY DEF Count

LEMMA CountersTyped ==
  ASSUME TypeOK
  PROVE  \A a \in Agents : runs[a] \in Int /\ errors[a] \in Int
<1>1. Cardinality(Requests) \in Nat
  BY PAssumption, FS_CardinalityType
<1> QED BY <1>1 DEF TypeOK

(* Where r is counted, by where its coroutine is.                          *)
LEMMA Places ==
  ASSUME NEW r \in Requests
  PROVE  /\ r \in Ran <=> pc[r] \notin Idle \/ (r \in served /\ response[r].status # 503)
         /\ r \in RanFailed <=> r \in Ran /\ failure[r] # 0
         /\ r \in Past <=> r \in Ran /\ kind[r] = "valid" /\ pc[r] \notin {"received", "validated"}
         /\ r \in PastFailed <=> r \in Past /\ failure[r] # 0
         /\ r \in PastFlagged <=> r \in Past /\ verdict[r] = "FLAGGED" /\ pc[r] # "evaluated"
BY DEF Ran, RanFailed, Past, PastFailed, PastFlagged

LEMMA PlacesNext ==
  ASSUME NEW r \in Requests
  PROVE  /\ r \in Ran' <=> pc'[r] \notin Idle \/ (r \in served' /\ response'[r].status # 503)
         /\ r \in RanFailed' <=> r \in Ran' /\ failure'[r] # 0
         /\ r \in Past' <=> r \in Ran' /\ kind'[r] = "valid"
                          /\ pc'[r] \notin {"received", "validated"}
         /\ r \in PastFailed' <=> r \in Past' /\ failure'[r] # 0
         /\ r \in PastFlagged' <=> r \in Past' /\ verdict'[r] = "FLAGGED" /\ pc'[r] # "evaluated"
BY DEF Ran, RanFailed, Past, PastFailed, PastFlagged

LEMMA NotStartedMetrics ==
  ASSUME TypeOK, NEW r \in Requests, Local(r), NotStarted(r)
  PROVE  Counted(r)
<1>1. /\ pc[r] = "new" /\ pc'[r] = "answered" /\ r \notin served
      /\ response'[r].status = 503
  BY DEF NotStarted, Respond, Goto, TypeOK, Local, RequestInv, AnswerInv, NoResponse,
         InGates, Deciding, Alerting, HttpStatus, work, counters, front
<1>2. runs' = runs /\ errors' = errors
  BY CountOf, CountersTyped DEF NotStarted, Agents, counters
<1>3. \A a \in Agents : runs[a] \in Int /\ errors[a] \in Int
  BY CountersTyped
<1> QED BY <1>1, <1>2, <1>3, Places, PlacesNext DEF Counted, Entered, Agents, Idle

LEMMA SubmitMetrics ==
  ASSUME TypeOK, NEW r \in Requests, Local(r), Submit(r)
  PROVE  Counted(r)
<1>1. /\ pc[r] = "new" /\ pc'[r] = "received" /\ r \notin served
      /\ failure'[r] = 0 /\ kind' = kind
  BY DEF Submit, Goto, TypeOK, Local, RequestInv, AnswerInv, NoResponse,
         InGates, Deciding, Alerting, HttpStatus, work, counters, front
<1>2. /\ runs'["supervisor"] = runs["supervisor"] + 1 /\ runs'["policy"] = runs["policy"]
      /\ runs'["communicator"] = runs["communicator"] /\ errors' = errors
  BY CountOf, CountersTyped DEF Submit, Agents, counters
<1>3. \A a \in Agents : runs[a] \in Int /\ errors[a] \in Int
  BY CountersTyped
<1> QED BY <1>1, <1>2, <1>3, Places, PlacesNext DEF Counted, Entered, Agents, Idle

LEMMA ReceivedMetrics ==
  ASSUME TypeOK, NEW r \in Requests, Local(r), Received(r)
  PROVE  Counted(r)
<1>1. /\ pc[r] = "received" /\ kind' = kind /\ failure[r] = 0
      /\ pc'[r] = IF kind[r] = "valid" THEN "validated" ELSE "failing"
      /\ IF kind[r] = "valid" THEN failure'[r] = 0 ELSE failure'[r] # 0
  BY DEF Received, Goto, TypeOK, Local, RequestInv, AnswerInv, NoResponse,
         InGates, Deciding, Alerting, HttpStatus, work, counters, front
<1>2. /\ runs' = runs /\ errors'["policy"] = errors["policy"]
      /\ errors'["communicator"] = errors["communicator"]
      /\ errors'["supervisor"] = errors["supervisor"] + IF kind[r] = "valid" THEN 0 ELSE 1
  BY CountOf, CountersTyped DEF Received, Agents, counters
<1>3. \A a \in Agents : runs[a] \in Int /\ errors[a] \in Int
  BY CountersTyped
<1> QED BY <1>1, <1>2, <1>3, Places, PlacesNext DEF Counted, Entered, Agents, Idle

LEMMA ValidatedMetrics ==
  ASSUME TypeOK, NEW r \in Requests, Local(r), Validated(r)
  PROVE  Counted(r)
<1>1. /\ pc[r] = "validated" /\ pc'[r] = "evaluating" /\ kind'[r] = "valid" /\ kind[r] = "valid"
      /\ failure[r] = 0 /\ failure'[r] = 0 /\ verdict'[r] = "none"
  BY DEF Validated, Goto, TypeOK, Local, RequestInv, AnswerInv, NoResponse,
         InGates, Deciding, Alerting, HttpStatus, work, counters, front
<1>2. /\ runs'["policy"] = runs["policy"] + 1 /\ runs'["supervisor"] = runs["supervisor"]
      /\ runs'["communicator"] = runs["communicator"] /\ errors' = errors
  BY CountOf, CountersTyped DEF Validated, Agents, counters
<1>3. \A a \in Agents : runs[a] \in Int /\ errors[a] \in Int
  BY CountersTyped
<1> QED BY <1>1, <1>2, <1>3, Places, PlacesNext DEF Counted, Entered, Agents, Idle

LEMMA EvaluateMetrics ==
  ASSUME TypeOK, NEW r \in Requests, Local(r), Evaluate(r)
  PROVE  Counted(r)
<1>1. /\ pc[r] = "evaluating" /\ pc'[r] = "evaluated" /\ kind' = kind
      /\ failure' = failure /\ verdict[r] = "none"
  BY DEF Evaluate, Goto, TypeOK, Local, RequestInv, AnswerInv, NoResponse,
         InGates, Deciding, Alerting, HttpStatus, work, counters, front
<1>2. runs' = runs /\ errors' = errors
  BY CountOf, CountersTyped DEF Evaluate, Agents, counters
<1>3. \A a \in Agents : runs[a] \in Int /\ errors[a] \in Int
  BY CountersTyped
<1> QED BY <1>1, <1>2, <1>3, Places, PlacesNext DEF Counted, Entered, Agents, Idle

LEMMA EvaluateFailsMetrics ==
  ASSUME TypeOK, NEW r \in Requests, Local(r), EvaluateFails(r)
  PROVE  Counted(r)
<1>1. /\ pc[r] = "evaluating" /\ pc'[r] = "failing" /\ kind[r] = "valid" /\ kind'[r] = "valid"
      /\ failure[r] = 0 /\ failure'[r] = 500 /\ verdict'[r] = "none" /\ verdict[r] = "none"
  BY DEF EvaluateFails, Goto, TypeOK, Local, RequestInv, AnswerInv, NoResponse,
         InGates, Deciding, Alerting, HttpStatus, work, counters, front
<1>2. /\ runs' = runs /\ errors'["policy"] = errors["policy"] + 1
      /\ errors'["communicator"] = errors["communicator"]
      /\ errors'["supervisor"] = errors["supervisor"] + 1
  BY CountOf, CountersTyped DEF EvaluateFails, Agents, counters
<1>3. \A a \in Agents : runs[a] \in Int /\ errors[a] \in Int
  BY CountersTyped
<1> QED BY <1>1, <1>2, <1>3, Places, PlacesNext DEF Counted, Entered, Agents, Idle

LEMMA EvaluatedMetrics ==
  ASSUME TypeOK, NEW r \in Requests, Local(r), Evaluated(r)
  PROVE  Counted(r)
<1>1. /\ pc[r] = "evaluated" /\ kind[r] = "valid" /\ kind'[r] = "valid"
      /\ failure' = failure /\ verdict' = verdict
      /\ pc'[r] = IF verdict[r] = "FLAGGED" THEN "notifying" ELSE "deciding"
  BY DEF Evaluated, Goto, TypeOK, Local, RequestInv, AnswerInv, NoResponse,
         InGates, Deciding, Alerting, HttpStatus, work, counters, front
<1>2. /\ runs'["supervisor"] = runs["supervisor"] /\ runs'["policy"] = runs["policy"]
      /\ errors' = errors
      /\ runs'["communicator"] = runs["communicator"] + IF verdict[r] = "FLAGGED" THEN 1 ELSE 0
  BY CountOf, CountersTyped DEF Evaluated, Agents, counters
<1>3. \A a \in Agents : runs[a] \in Int /\ errors[a] \in Int
  BY CountersTyped
<1> QED BY <1>1, <1>2, <1>3, Places, PlacesNext DEF Counted, Entered, Agents, Idle

LEMMA DispatchMetrics ==
  ASSUME TypeOK, NEW r \in Requests, Local(r), Dispatch(r)
  PROVE  Counted(r)
<1>1. /\ pc[r] = "notifying" /\ pc'[r] = "dispatching" /\ kind' = kind
      /\ failure' = failure /\ verdict' = verdict
  BY DEF Dispatch, Goto, TypeOK, Local, RequestInv, AnswerInv, NoResponse,
         InGates, Deciding, Alerting, HttpStatus, work, counters, front
<1>2. runs' = runs /\ errors' = errors
  BY CountOf, CountersTyped DEF Dispatch, Agents, counters
<1>3. \A a \in Agents : runs[a] \in Int /\ errors[a] \in Int
  BY CountersTyped
<1> QED BY <1>1, <1>2, <1>3, Places, PlacesNext DEF Counted, Entered, Agents, Idle

LEMMA DispatchedMetrics ==
  ASSUME TypeOK, NEW r \in Requests, Local(r), Dispatched(r)
  PROVE  Counted(r)
<1>1. /\ pc[r] = "dispatching" /\ pc'[r] = "announcing" /\ kind' = kind
      /\ failure' = failure /\ verdict' = verdict
  BY DEF Dispatched, Goto, TypeOK, Local, RequestInv, AnswerInv, NoResponse,
         InGates, Deciding, Alerting, HttpStatus, work, counters, front
<1>2. runs' = runs /\ errors' = errors
  BY CountOf, CountersTyped DEF Dispatched, Agents, counters
<1>3. \A a \in Agents : runs[a] \in Int /\ errors[a] \in Int
  BY CountersTyped
<1> QED BY <1>1, <1>2, <1>3, Places, PlacesNext DEF Counted, Entered, Agents, Idle

LEMMA AnnounceMetrics ==
  ASSUME TypeOK, NEW r \in Requests, Local(r), Announce(r)
  PROVE  Counted(r)
<1>1. /\ pc[r] = "announcing" /\ pc'[r] \in {"notifying", "deciding"} /\ kind' = kind
      /\ failure' = failure /\ verdict' = verdict
  BY DEF Announce, Goto, TypeOK, Local, RequestInv, AnswerInv, NoResponse,
         InGates, Deciding, Alerting, HttpStatus, work, counters, front
<1>2. runs' = runs /\ errors' = errors
  BY CountOf, CountersTyped DEF Announce, Agents, counters
<1>3. \A a \in Agents : runs[a] \in Int /\ errors[a] \in Int
  BY CountersTyped
<1> QED BY <1>1, <1>2, <1>3, Places, PlacesNext DEF Counted, Entered, Agents, Idle

LEMMA DecideMetrics ==
  ASSUME TypeOK, NEW r \in Requests, Local(r), Decide(r)
  PROVE  Counted(r)
<1>1. /\ pc[r] = "deciding" /\ pc'[r] = "returning" /\ kind' = kind
      /\ failure' = failure /\ verdict' = verdict
  BY DEF Decide, Goto, TypeOK, Local, RequestInv, AnswerInv, NoResponse,
         InGates, Deciding, Alerting, HttpStatus, work, counters, front
<1>2. runs' = runs /\ errors' = errors
  BY CountOf, CountersTyped DEF Decide, Agents, counters
<1>3. \A a \in Agents : runs[a] \in Int /\ errors[a] \in Int
  BY CountersTyped
<1> QED BY <1>1, <1>2, <1>3, Places, PlacesNext DEF Counted, Entered, Agents, Idle

LEMMA ReturnMetrics ==
  ASSUME TypeOK, NEW r \in Requests, Local(r), Return(r)
  PROVE  Counted(r)
<1>1. /\ pc[r] = "returning" /\ pc'[r] = "answered" /\ kind' = kind
      /\ failure' = failure /\ verdict' = verdict
      /\ r \in served' /\ response'[r].status = 200
  BY DEF Return, Respond, Goto, TypeOK, Local, RequestInv, AnswerInv, NoResponse,
         InGates, Deciding, Alerting, HttpStatus, work, counters, front
<1>2. runs' = runs /\ errors' = errors
  BY CountOf, CountersTyped DEF Return, Agents, counters
<1>3. \A a \in Agents : runs[a] \in Int /\ errors[a] \in Int
  BY CountersTyped
<1> QED BY <1>1, <1>2, <1>3, Places, PlacesNext DEF Counted, Entered, Agents, Idle

LEMMA FailingMetrics ==
  ASSUME TypeOK, NEW r \in Requests, Local(r), Failing(r)
  PROVE  Counted(r)
<1>1. /\ pc[r] = "failing" /\ pc'[r] = "raising" /\ kind' = kind
      /\ failure' = failure /\ verdict' = verdict
  BY DEF Failing, Goto, TypeOK, Local, RequestInv, AnswerInv, NoResponse,
         InGates, Deciding, Alerting, HttpStatus, work, counters, front
<1>2. runs' = runs /\ errors' = errors
  BY CountOf, CountersTyped DEF Failing, Agents, counters
<1>3. \A a \in Agents : runs[a] \in Int /\ errors[a] \in Int
  BY CountersTyped
<1> QED BY <1>1, <1>2, <1>3, Places, PlacesNext DEF Counted, Entered, Agents, Idle

LEMMA ReturnErrorMetrics ==
  ASSUME TypeOK, NEW r \in Requests, Local(r), ReturnError(r)
  PROVE  Counted(r)
<1>1. /\ pc[r] = "raising" /\ pc'[r] = "answered" /\ kind' = kind
      /\ failure' = failure /\ verdict' = verdict
      /\ r \in served' /\ response'[r].status # 503
  BY DEF ReturnError, Respond, Goto, TypeOK, Local, RequestInv, AnswerInv, NoResponse,
         InGates, Deciding, Alerting, HttpStatus, work, counters, front
<1>2. runs' = runs /\ errors' = errors
  BY CountOf, CountersTyped DEF ReturnError, Agents, counters
<1>3. \A a \in Agents : runs[a] \in Int /\ errors[a] \in Int
  BY CountersTyped
<1> QED BY <1>1, <1>2, <1>3, Places, PlacesNext DEF Counted, Entered, Agents, Idle

-----------------------------------------------------------------------------
(* An answer is counted in the total and under its own heading.            *)
LEMMA RespondStats ==
  ASSUME TypeOK, StatsInv, NEW r \in Requests, NEW answer \in Replies, NEW what,
         answer.verdict = "none" => what = "errors",
         answer.verdict = "APPROVED" => what = "approved",
         answer.verdict = "FLAGGED" => what = "flagged",
         Respond(r, answer, what), r \notin served, Framed(r)
  PROVE  StatsInv' /\ stats' \in [Figures -> Int]
<1>1. /\ stats \in [Figures -> Int] /\ served \subseteq Requests
      /\ response \in [Requests -> Replies]
  <2>1. Cardinality(Requests) \in Nat
    BY PAssumption, FS_CardinalityType
  <2> QED BY <2>1 DEF TypeOK, Replies
<1>2. /\ served' = served \cup {r} /\ response'[r] = answer
      /\ stats' = [stats EXCEPT !["total"] = @ + 1, ![what] = @ + 1]
      /\ what \in {"errors", "approved", "flagged"}
  BY <1>1 DEF Respond, Replies
<1>3. ASSUME NEW v \in {"none", "APPROVED", "FLAGGED"}
      PROVE  Cardinality(Gave(v)') = Cardinality(Gave(v)) + IF answer.verdict = v THEN 1 ELSE 0
  <2>1. /\ Gave(v) \in SUBSET Requests /\ Gave(v)' \in SUBSET Requests
        /\ \A x \in Requests \ {r} : x \in Gave(v)' <=> x \in Gave(v)
        /\ r \notin Gave(v) /\ (r \in Gave(v)' <=> answer.verdict = v)
    BY <1>1, <1>2 DEF Gave, Framed
  <2>2. /\ (r \in Gave(v)' <=> r \in Gave(v)) => Cardinality(Gave(v)') = Cardinality(Gave(v))
        /\ r \in Gave(v)' /\ r \notin Gave(v) =>
             Cardinality(Gave(v)') = Cardinality(Gave(v)) + 1
        /\ Cardinality(Gave(v)) \in 0 .. Cardinality(Requests)
    BY <2>1, Grows, Zenon
  <2> QED BY <2>1, <2>2
<1>4. Cardinality(served') = Cardinality(served) + 1
  <2>1. /\ served \in SUBSET Requests /\ served' \in SUBSET Requests
        /\ \A x \in Requests \ {r} : x \in served' <=> x \in served
        /\ r \in served' /\ r \notin served
    BY <1>1, <1>2
  <2> QED BY <2>1, Grows, Zenon
<1>5. stats' \in [Figures -> Int]
  BY <1>1, <1>2 DEF Figures
<1>6. /\ stats'["total"] = stats["total"] + 1
      /\ stats'["approved"] = stats["approved"] + IF what = "approved" THEN 1 ELSE 0
      /\ stats'["flagged"] = stats["flagged"] + IF what = "flagged" THEN 1 ELSE 0
      /\ stats'["errors"] = stats["errors"] + IF what = "errors" THEN 1 ELSE 0
      /\ \A f \in Figures : stats[f] \in Int
  BY <1>1, <1>2 DEF Figures
<1>7. /\ what = "approved" <=> answer.verdict = "APPROVED"
      /\ what = "flagged" <=> answer.verdict = "FLAGGED"
      /\ what = "errors" <=> answer.verdict = "none"
  BY DEF Replies
<1>8. /\ Cardinality(Gave("APPROVED")') = Cardinality(Gave("APPROVED"))
                                            + IF answer.verdict = "APPROVED" THEN 1 ELSE 0
      /\ Cardinality(Gave("FLAGGED")') = Cardinality(Gave("FLAGGED"))
                                            + IF answer.verdict = "FLAGGED" THEN 1 ELSE 0
      /\ Cardinality(Gave("none")') = Cardinality(Gave("none"))
                                            + IF answer.verdict = "none" THEN 1 ELSE 0
  BY <1>3
<1>9. /\ stats'["total"] = Cardinality(served')
      /\ stats'["approved"] = Cardinality(Gave("APPROVED")')
      /\ stats'["flagged"] = Cardinality(Gave("FLAGGED")')
      /\ stats'["errors"] = Cardinality(Gave("none")')
  BY <1>4, <1>6, <1>7, <1>8 DEF StatsInv
<1>10. stats'["errors"] = stats'["total"] - stats'["approved"] - stats'["flagged"]
  <2>1. /\ stats["errors"] = stats["total"] - stats["approved"] - stats["flagged"]
        /\ stats["total"] \in Int /\ stats["approved"] \in Int
        /\ stats["flagged"] \in Int /\ stats["errors"] \in Int
    BY <1>6 DEF StatsInv, Figures
  <2> QED BY <1>2, <1>6, <2>1
<1> QED BY <1>5, <1>9, <1>10, Zenon DEF StatsInv

LEMMA CountTyped ==
  ASSUME NEW counter \in [Agents -> Int], NEW chosen
  PROVE  Count(counter, chosen) \in [Agents -> Int]
<1>1. ASSUME NEW a \in Agents
      PROVE  (IF a \in chosen THEN counter[a] + 1 ELSE counter[a]) \in Int
  <2>1. counter[a] \in Int
    OBVIOUS
  <2>2. counter[a] + 1 \in Int
    BY <2>1
  <2> QED BY <2>1, <2>2, Zenon
<1> QED BY <1>1, Zenon DEF Count

(* The bounds of the counters follow from what they count.                 *)
LEMMA TypesFollow ==
  ASSUME Shapes', MetricsInv', StatsInv', process' # "down",
         runs' \in [Agents -> Int], errors' \in [Agents -> Int], stats' \in [Figures -> Int]
  PROVE  TypeOK'
<1> DEFINE N == 0 .. Cardinality(Requests)
<1>1. \A S \in SUBSET Requests : Cardinality(S) \in N
  BY Bounded
<1>2. 0 \in N
  <2>1. Cardinality(Requests) \in Nat
    BY PAssumption, FS_CardinalityType
  <2> QED BY <2>1
<1> HIDE DEF N
<1>3. \A a \in Agents : runs'[a] \in N /\ errors'[a] \in N
  BY <1>1, <1>2, SetsOfRequestsNext DEF MetricsInv, Agents
<1>4. \A f \in Figures : stats'[f] \in N
  <2>1. /\ served' \in SUBSET Requests /\ Gave("APPROVED")' \in SUBSET Requests
        /\ Gave("FLAGGED")' \in SUBSET Requests /\ Gave("none")' \in SUBSET Requests
    BY DEF Shapes, Gave
  <2> QED BY <1>1, <2>1 DEF StatsInv, Figures
<1>5. runs' \in [Agents -> N] /\ errors' \in [Agents -> N] /\ stats' \in [Figures -> N]
  BY <1>3, <1>4
<1> QED BY <1>5, TypedNext, Zenon DEF Bounds, N

-----------------------------------------------------------------------------
(* What a step of one request's coroutine keeps.                           *)
LEMMA OwnStep ==
  ASSUME TypeOK, NEW r \in Requests, Local(r), NotStarted(r) \/ Submit(r) \/ Step(r)
  PROVE  Shapes' /\ Framed(r) /\ Local(r)' /\ Counted(r)
<1>1. ASSUME NotStarted(r) PROVE Shapes' /\ Framed(r) /\ Local(r)' /\ Counted(r)
  BY <1>1, NotStartedKeeps, NotStartedMetrics
<1>2. ASSUME Submit(r) PROVE Shapes' /\ Framed(r) /\ Local(r)' /\ Counted(r)
  BY <1>2, SubmitKeeps, SubmitMetrics
<1>3. ASSUME Received(r) PROVE Shapes' /\ Framed(r) /\ Local(r)' /\ Counted(r)
  BY <1>3, ReceivedKeeps, ReceivedMetrics
<1>4. ASSUME Validated(r) PROVE Shapes' /\ Framed(r) /\ Local(r)' /\ Counted(r)
  BY <1>4, ValidatedKeeps, ValidatedMetrics
<1>5. ASSUME Evaluate(r) PROVE Shapes' /\ Framed(r) /\ Local(r)' /\ Counted(r)
  BY <1>5, EvaluateKeeps, EvaluateMetrics
<1>6. ASSUME EvaluateFails(r) PROVE Shapes' /\ Framed(r) /\ Local(r)' /\ Counted(r)
  BY <1>6, EvaluateFailsKeeps, EvaluateFailsMetrics
<1>7. ASSUME Evaluated(r) PROVE Shapes' /\ Framed(r) /\ Local(r)' /\ Counted(r)
  BY <1>7, EvaluatedKeeps, EvaluatedMetrics
<1>8. ASSUME Dispatch(r) PROVE Shapes' /\ Framed(r) /\ Local(r)' /\ Counted(r)
  BY <1>8, DispatchKeeps, DispatchMetrics
<1>13. ASSUME Dispatched(r) PROVE Shapes' /\ Framed(r) /\ Local(r)' /\ Counted(r)
  BY <1>13, DispatchedKeeps, DispatchedMetrics
<1>14. ASSUME Announce(r) PROVE Shapes' /\ Framed(r) /\ Local(r)' /\ Counted(r)
  BY <1>14, AnnounceKeeps, AnnounceMetrics
<1>9. ASSUME Decide(r) PROVE Shapes' /\ Framed(r) /\ Local(r)' /\ Counted(r)
  BY <1>9, DecideKeeps, DecideMetrics
<1>10. ASSUME Return(r) PROVE Shapes' /\ Framed(r) /\ Local(r)' /\ Counted(r)
  BY <1>10, ReturnKeeps, ReturnMetrics
<1>11. ASSUME Failing(r) PROVE Shapes' /\ Framed(r) /\ Local(r)' /\ Counted(r)
  BY <1>11, FailingKeeps, FailingMetrics
<1>12. ASSUME ReturnError(r) PROVE Shapes' /\ Framed(r) /\ Local(r)' /\ Counted(r)
  BY <1>12, ReturnErrorKeeps, ReturnErrorMetrics
<1> QED BY <1>1, <1>2, <1>3, <1>4, <1>5, <1>6, <1>7,
          <1>8, <1>9, <1>10, <1>11, <1>12, <1>13, <1>14 DEF Step

LEMMA OwnCounters ==
  ASSUME TypeOK, StatsInv, NEW r \in Requests, Local(r), Framed(r),
         NotStarted(r) \/ Submit(r) \/ Step(r)
  PROVE  /\ runs' \in [Agents -> Int] /\ errors' \in [Agents -> Int]
         /\ stats' \in [Figures -> Int] /\ StatsInv'
<1>1. /\ runs \in [Agents -> Int] /\ errors \in [Agents -> Int]
      /\ stats \in [Figures -> Int]
  <2>1. Cardinality(Requests) \in Nat
    BY PAssumption, FS_CardinalityType
  <2> QED BY <2>1 DEF TypeOK
<1>2. runs' \in [Agents -> Int] /\ errors' \in [Agents -> Int]
  <2>1. /\ runs' = runs \/ \E chosen \in SUBSET Agents : runs' = Count(runs, chosen)
        /\ errors' = errors \/ \E chosen \in SUBSET Agents : errors' = Count(errors, chosen)
    BY DEF Agents, NotStarted, Submit, Step, Received, Validated, Evaluate, EvaluateFails,
           Evaluated, Dispatch, Dispatched, Announce, Decide, Return, Failing, ReturnError, counters
  <2> QED BY <1>1, <2>1, CountTyped
<1>3. CASE NotStarted(r)
  <2> DEFINE answer == [status |-> 503, verdict |-> "none"]
  <2>1. answer \in Replies /\ answer.verdict = "none" /\ Respond(r, answer, "errors")
        /\ r \notin served
    BY <1>3 DEF NotStarted, Replies, Local, AnswerInv
  <2> HIDE DEF answer
  <2> QED BY <1>2, <2>1, RespondStats
<1>4. CASE Return(r)
  <2> DEFINE answer == [status |-> 200, verdict |-> verdict[r]]
             what == IF verdict[r] = "APPROVED" THEN "approved" ELSE "flagged"
  <2>1. answer \in Replies /\ answer.verdict = verdict[r] /\ Respond(r, answer, what)
        /\ r \notin served
    BY <1>4 DEF Return, Replies, Local, AnswerInv, TypeOK
  <2>2. verdict[r] \in {"APPROVED", "FLAGGED"}
    BY <1>4 DEF Return, Local, RequestInv, Deciding, TypeOK
  <2>3. /\ verdict[r] = "APPROVED" => what = "approved"
        /\ verdict[r] = "FLAGGED" => what = "flagged"
    OBVIOUS
  <2> HIDE DEF answer, what
  <2> QED BY <1>2, <2>1, <2>2, <2>3, RespondStats
<1>5. CASE ReturnError(r)
  <2> DEFINE answer == [status |-> failure[r], verdict |-> "none"]
  <2>1. answer \in Replies /\ answer.verdict = "none" /\ Respond(r, answer, "errors")
        /\ r \notin served
    BY <1>5 DEF ReturnError, Replies, Local, AnswerInv, TypeOK
  <2> HIDE DEF answer
  <2> QED BY <1>2, <2>1, RespondStats
<1>6. CASE ~ NotStarted(r) /\ ~ Return(r) /\ ~ ReturnError(r)
  <2>1. response' = response /\ stats' = stats /\ served' = served
    BY <1>6 DEF Submit, Step, Received, Validated, Evaluate, EvaluateFails, Evaluated, Dispatch,
                Dispatched, Announce, Decide, Failing, front
  <2>2. StatsInv'
    BY <2>1 DEF StatsInv, Gave
  <2> QED BY <1>1, <1>2, <2>1, <2>2
<1> QED BY <1>3, <1>4, <1>5, <1>6

-----------------------------------------------------------------------------
LEMMA InitHolds == ASSUME Init PROVE IInv
<1>1. Cardinality(Requests) \in Nat /\ Cardinality({}) = 0 /\ 0 \in 0 .. Cardinality(Requests)
  <2>1. Cardinality(Requests) \in Nat
    BY PAssumption, FS_CardinalityType
  <2> QED BY <2>1, FS_EmptySet
<1>2. TypeOK
  <2>1. Bounds
    BY <1>1, Zenon DEF Init, Zero, NoStats, Bounds
  <2>2. boots \in 1 .. MaxBoots
    BY PAssumption DEF Init
  <2>3. response \in [Requests -> Replies]
    BY DEF Init, NoResponse, Replies
  <2>4. rows \in [Requests -> Seq(Row)]
    BY DEF Init
  <2>5. /\ process \in Lives /\ pc \in [Requests -> Labels]
        /\ kind \in [Requests -> Kinds] /\ verdict \in [Requests -> Verdicts]
        /\ failure \in [Requests -> Codes]
        /\ tried \in [Requests -> 0 .. Alerts] /\ served \subseteq Requests
    BY PAssumption DEF Init, Labels, Idle, Lives, Kinds, Verdicts, Codes
  <2> QED BY <2>1, <2>2, <2>3, <2>4, <2>5, Typed, Zenon DEF Shapes
<1>3. ProcessInv
  BY DEF Init, ProcessInv, Active, Idle
<1>4. StatsInv
  <2>1. served = {} /\ \A v : Gave(v) = {}
    BY DEF Init, Gave
  <2>2. \A f \in Figures : stats[f] = 0
    BY DEF Init, NoStats
  <2>3. /\ stats["total"] = 0 /\ stats["approved"] = 0 /\ stats["flagged"] = 0
        /\ stats["errors"] = 0
    BY <2>2 DEF Figures
  <2> QED BY <1>1, <2>1, <2>3 DEF StatsInv
<1>5. MetricsInv
  <2>1. Ran = {}
    BY DEF Init, Ran, Idle
  <2>2. RanFailed = {} /\ Past = {} /\ PastFailed = {} /\ PastFlagged = {}
    BY <2>1 DEF RanFailed, Past, PastFailed, PastFlagged
  <2>3. \A a \in Agents : runs[a] = 0 /\ errors[a] = 0
    BY DEF Init, Zero
  <2> QED BY <1>1, <2>1, <2>2, <2>3 DEF MetricsInv, Agents
<1>6. ASSUME NEW r \in Requests
      PROVE  Local(r)
  <2>1. /\ pc[r] = "new" /\ rows[r] = <<>> /\ response[r] = NoResponse /\ served = {}
        /\ failure[r] = 0 /\ verdict[r] = "none" /\ tried[r] = 0 /\ response[r].status = 0
    BY DEF Init, NoResponse
  <2>2. Along(r, Rejection) /\ Rejection \in Paths
    <3>1. Len(Rejection) = 2
      BY Positions, Zenon
    <3> QED BY <2>1, <3>1 DEF Along, Paths
  <2>3. TrailInv(r)
    BY <2>1, <2>2 DEF TrailInv, Alerting
  <2>4. RequestInv(r)
    BY <2>1 DEF RequestInv, InGates, Deciding, Alerting
  <2>5. AnswerInv(r)
    BY <2>1 DEF AnswerInv
  <2>6. RowsTrue(r)
    <3>1. DOMAIN rows[r] = {} /\ Len(rows[r]) = 0
      BY <2>1
    <3>2. Announced(r) = Cardinality({})
      BY <3>1 DEF Announced
    <3> QED BY <1>1, <2>1, <3>1, <3>2 DEF RowsTrue, Alerting
  <2> QED BY <2>3, <2>4, <2>5, <2>6 DEF Local
<1> QED BY <1>2, <1>3, <1>4, <1>5, <1>6 DEF IInv

LEMMA RequestKeeps ==
  ASSUME IInv, NEW r \in Requests, NotStarted(r) \/ Submit(r) \/ Step(r)
  PROVE  IInv'
<1>1. TypeOK /\ ProcessInv /\ StatsInv /\ MetricsInv /\ Local(r)
  BY DEF IInv
<1>2. process # "down" /\ process' = process
  <2>1. process' = process
    BY DEF NotStarted, Submit, Step, Received, Validated, Evaluate, EvaluateFails, Evaluated,
           Dispatch, Dispatched, Announce, Decide, Return, Failing, ReturnError
  <2>2. CASE NotStarted(r) \/ Submit(r)
    BY <2>1, <2>2 DEF NotStarted, Submit
  <2>3. CASE Step(r)
    <3>1. r \in Active
      BY <2>3 DEF Step, Received, Validated, Evaluate, EvaluateFails, Evaluated,
                  Dispatch, Dispatched, Announce, Decide, Return, Failing, ReturnError, Active, Idle
    <3> QED BY <1>1, <2>1, <3>1 DEF ProcessInv
  <2> QED BY <2>2, <2>3
<1>3. Shapes' /\ Framed(r) /\ Local(r)' /\ Counted(r)
  BY <1>1, OwnStep
<1>4. /\ runs' \in [Agents -> Int] /\ errors' \in [Agents -> Int]
      /\ stats' \in [Figures -> Int] /\ StatsInv'
  BY <1>1, <1>3, OwnCounters
<1>5. MetricsInv'
  BY <1>1, <1>2, <1>3, MetricsFollow
<1>6. TypeOK'
  BY <1>2, <1>3, <1>4, <1>5, TypesFollow
<1>7. ASSUME NEW x \in Requests
      PROVE  Local(x)'
  <2>1. CASE x = r
    BY <1>3, <2>1
  <2>2. CASE x # r
    <3>1. x \in Requests \ {r} /\ Local(x)
      BY <2>2 DEF IInv
    <3> QED BY <1>3, <3>1, OthersKept
  <2> QED BY <2>1, <2>2
<1>8. ProcessInv'
  <2>1. CASE process = "up"
    BY <1>2, <2>1 DEF ProcessInv
  <2>2. CASE process # "up"
    <3>1. NotStarted(r)
      <4>1. ~ Submit(r)
        BY <2>2 DEF Submit
      <4>2. ASSUME Step(r) PROVE r \in Active
        BY <4>2 DEF Step, Received, Validated, Evaluate, EvaluateFails, Evaluated,
                    Dispatch, Dispatched, Announce, Decide, Return, Failing, ReturnError, Active, Idle
      <4> QED BY <1>1, <2>2, <4>1, <4>2 DEF ProcessInv
    <3>2. pc'[r] = "answered"
      BY <1>1, <3>1 DEF NotStarted, Respond, Goto, TypeOK
    <3>3. Active = {}
      BY <1>1, <2>2 DEF ProcessInv
    <3>4. Active' = {}
      BY <1>3, <3>2, <3>3 DEF Active, Framed, Idle
    <3> QED BY <3>4 DEF ProcessInv
  <2> QED BY <2>1, <2>2
<1> QED BY <1>4, <1>5, <1>6, <1>7, <1>8 DEF IInv

(* What does not touch a request, its trail or its answer keeps them.      *)
LEMMA Untouched ==
  ASSUME NEW r, Local(r), UNCHANGED <<pc, kind, work, response>>, r \in served' => r \in served
  PROVE  Local(r)'
<1>1. \A path : Along(r, path)' <=> Along(r, path)
  BY DEF Along, work
<1>2. TrailInv(r)'
  BY <1>1 DEF Local, TrailInv, All, AllButLast, Granted, Refused, work
<1>3. RequestInv(r)'
  BY DEF Local, RequestInv, work
<1>4. AnswerInv(r)'
  BY DEF Local, AnswerInv, work
<1>5. RowsTrue(r)'
  BY SilentTrue DEF Local, work
<1> QED BY <1>2, <1>3, <1>4, <1>5 DEF Local

LEMMA StartupKeeps == ASSUME IInv, Startup \/ Shutdown PROVE IInv'
<1>1. UNCHANGED <<boots, pc, kind, work, counters, front>> /\ process' \in {"up", "down"}
  BY DEF Startup, Shutdown
<1>2. TypeOK'
  <2>1. Shapes /\ Bounds
    BY Typed DEF IInv
  <2>2. Shapes'
    <3>1. process' \in Lives
      BY <1>1 DEF Lives
    <3> QED BY <1>1, <2>1, <3>1, Zenon DEF Shapes, work, front
  <2>3. Bounds'
    BY <1>1, <2>1, Zenon DEF Bounds, counters, front
  <2> QED BY <2>2, <2>3, TypedNext
<1>3. ProcessInv'
  BY <1>1 DEF Startup, Shutdown, ProcessInv, Active
<1>4. StatsInv'
  BY <1>1 DEF IInv, StatsInv, Gave, front
<1>5. MetricsInv'
  <2>1. CASE Startup
    BY <1>1, <2>1 DEF IInv, Startup, MetricsInv, Ran, RanFailed, Past, PastFailed, PastFlagged,
                      work, counters, front
  <2>2. CASE Shutdown
    BY <2>2 DEF Shutdown, MetricsInv
  <2> QED BY <2>1, <2>2
<1>6. ASSUME NEW r \in Requests
      PROVE  Local(r)'
  BY <1>1, Untouched DEF IInv, front
<1> QED BY <1>2, <1>3, <1>4, <1>5, <1>6 DEF IInv

LEMMA CrashKeeps == ASSUME IInv, Crash PROVE IInv'
<1>1. /\ process' = "down" /\ pc' = [r \in Requests |-> IF r \in Active THEN "lost" ELSE pc[r]]
      /\ UNCHANGED <<boots, kind, work, counters, front>>
  BY DEF Crash
<1>2. TypeOK'
  <2>1. pc' \in [Requests -> Labels]
    BY <1>1 DEF IInv, TypeOK, Labels, Idle
  <2>2. Shapes /\ Bounds /\ process' \in Lives
    BY <1>1, Typed DEF IInv, Lives
  <2>3. Shapes'
    BY <1>1, <2>1, <2>2, Zenon DEF Shapes, work, front
  <2>4. Bounds'
    BY <1>1, <2>2, Zenon DEF Bounds, counters, front
  <2> QED BY <2>3, <2>4, TypedNext
<1>3. ProcessInv'
  BY <1>1 DEF ProcessInv, Active, Idle
<1>4. StatsInv'
  BY <1>1 DEF IInv, StatsInv, Gave, front
<1>5. MetricsInv'
  BY <1>1 DEF MetricsInv
<1>6. ASSUME NEW r \in Requests
      PROVE  Local(r)'
  <2>1. Local(r)
    BY DEF IInv
  <2>2. CASE r \in Active
    <3>1. /\ pc'[r] = "lost" /\ response'[r] = NoResponse /\ response'[r].status = 0
          /\ r \notin served'
      BY <1>1, <2>1, <2>2 DEF Active, Idle, Local, AnswerInv, NoResponse, front
    <3>2. (\E path \in Paths : Along(r, path))'
      BY <1>1, <2>1 DEF Local, TrailInv, Along, work
    <3>3. failure'[r] # 0 => verdict'[r] = "none" /\ tried'[r] = 0
      BY <1>1, <2>1 DEF Local, RequestInv, work
    <3>4. TrailInv(r)'
      BY <3>1, <3>2 DEF TrailInv, Alerting
    <3>5. RequestInv(r)'
      BY <3>1, <3>3 DEF RequestInv, InGates, Deciding, Alerting
    <3>6. AnswerInv(r)'
      BY <3>1 DEF AnswerInv
    <3>7. RowsTrue(r)'
      <4>1. /\ rows' = rows /\ kind' = kind /\ tried' = tried /\ failure' = failure
            /\ verdict' = verdict /\ pc'[r] \notin Alerting
        BY <1>1, <3>1 DEF work, Alerting
      <4> QED BY <2>1, <3>1, <4>1, SilentTrue DEF Local
    <3> QED BY <3>4, <3>5, <3>6, <3>7 DEF Local
  <2>3. CASE r \notin Active
    <3>1. /\ pc'[r] = pc[r] /\ kind'[r] = kind[r] /\ verdict' = verdict /\ failure' = failure
          /\ rows' = rows /\ response' = response /\ tried' = tried /\ served' = served
      BY <1>1, <2>3 DEF work, front
    <3>2. \A path : Along(r, path)' <=> Along(r, path)
      BY <3>1 DEF Along
    <3>3. TrailInv(r)'
      BY <2>1, <3>1, <3>2 DEF Local, TrailInv, All, AllButLast, Granted, Refused
    <3>4. RequestInv(r)'
      BY <2>1, <3>1 DEF Local, RequestInv
    <3>5. AnswerInv(r)'
      BY <2>1, <3>1 DEF Local, AnswerInv
    <3>6. RowsTrue(r)'
      BY <2>1, <3>1, SilentTrue DEF Local
    <3> QED BY <3>3, <3>4, <3>5, <3>6 DEF Local
  <2> QED BY <2>2, <2>3
<1> QED BY <1>2, <1>3, <1>4, <1>5, <1>6 DEF IInv

LEMMA BootKeeps == ASSUME IInv, Boot PROVE IInv'
<1>1. /\ process = "down" /\ process' = "new" /\ boots' = boots + 1 /\ boots < MaxBoots
      /\ runs' = Zero /\ errors' = Zero /\ stats' = NoStats /\ served' = {}
      /\ UNCHANGED <<pc, kind, work, response>>
  BY DEF Boot
<1>2. Cardinality(Requests) \in Nat /\ Cardinality({}) = 0 /\ 0 \in 0 .. Cardinality(Requests)
  <2>1. Cardinality(Requests) \in Nat
    BY PAssumption, FS_CardinalityType
  <2> QED BY <2>1, FS_EmptySet
<1>3. Active = {} /\ Active' = {}
  BY <1>1 DEF IInv, ProcessInv, Active
<1>4. TypeOK'
  <2>1. Bounds'
    BY <1>1, <1>2, Zenon DEF Zero, NoStats, Bounds
  <2>2. boots' \in 1 .. MaxBoots
    <3>1. boots \in 1 .. MaxBoots /\ MaxBoots \in Nat
      BY PAssumption DEF IInv, TypeOK
    <3> QED BY <1>1, <3>1
  <2>3. Shapes /\ process' \in Lives /\ served' \subseteq Requests
    BY <1>1, Typed DEF IInv, Lives
  <2>4. Shapes'
    BY <1>1, <2>2, <2>3, Zenon DEF Shapes, work
  <2> QED BY <2>1, <2>4, TypedNext
<1>5. ProcessInv'
  BY <1>3 DEF ProcessInv
<1>6. StatsInv'
  <2>1. served' = {} /\ \A v : Gave(v)' = {}
    BY <1>1 DEF Gave
  <2>2. \A f \in Figures : stats'[f] = 0
    BY <1>1 DEF NoStats
  <2>3. /\ stats'["total"] = 0 /\ stats'["approved"] = 0 /\ stats'["flagged"] = 0
        /\ stats'["errors"] = 0
    BY <2>2 DEF Figures
  <2> QED BY <1>2, <2>1, <2>3 DEF StatsInv
<1>7. MetricsInv'
  <2>1. Ran' = {}
    BY <1>1, <1>3 DEF Ran, Active
  <2>2. RanFailed' = {} /\ Past' = {} /\ PastFailed' = {} /\ PastFlagged' = {}
    BY <2>1 DEF RanFailed, Past, PastFailed, PastFlagged
  <2>3. \A a \in Agents : runs'[a] = 0 /\ errors'[a] = 0
    BY <1>1 DEF Zero
  <2> QED BY <1>2, <2>1, <2>2, <2>3 DEF MetricsInv, Agents
<1>8. ASSUME NEW r \in Requests
      PROVE  Local(r)'
  BY <1>1, Untouched DEF IInv
<1> QED BY <1>4, <1>5, <1>6, <1>7, <1>8 DEF IInv

LEMMA StutterKeeps == ASSUME IInv, UNCHANGED vars PROVE IInv'
<1>1. /\ UNCHANGED <<process, boots, pc, kind, work, counters, front>>
  BY DEF vars
<1>2. TypeOK'
  <2>1. Shapes /\ Bounds
    BY Typed DEF IInv
  <2>2. Shapes'
    BY <1>1, <2>1, Zenon DEF Shapes, work, front
  <2>3. Bounds'
    BY <1>1, <2>1, Zenon DEF Bounds, counters, front
  <2> QED BY <2>2, <2>3, TypedNext
<1>3. ProcessInv' /\ StatsInv'
  BY <1>1 DEF IInv, ProcessInv, Active, StatsInv, Gave, front
<1>4. MetricsInv'
  BY <1>1 DEF IInv, MetricsInv, Ran, RanFailed, Past, PastFailed, PastFlagged,
              work, counters, front
<1>5. ASSUME NEW r \in Requests
      PROVE  Local(r)'
  BY <1>1, Untouched DEF IInv, front
<1> QED BY <1>2, <1>3, <1>4, <1>5 DEF IInv

LEMMA NextKeeps == ASSUME IInv, [Next]_vars PROVE IInv'
<1>1. ASSUME NEW r \in Requests, NotStarted(r) \/ Submit(r) \/ Step(r)
      PROVE  IInv'
  BY <1>1, RequestKeeps
<1>2. ASSUME Startup \/ Shutdown PROVE IInv'
  BY <1>2, StartupKeeps
<1>3. ASSUME Crash PROVE IInv'
  BY <1>3, CrashKeeps
<1>4. ASSUME Boot PROVE IInv'
  BY <1>4, BootKeeps
<1>5. ASSUME UNCHANGED vars PROVE IInv'
  BY <1>5, StutterKeeps
<1> QED BY <1>1, <1>2, <1>3, <1>4, <1>5 DEF Next

THEOREM Invariant == Spec => []IInv
<1>1. Init => IInv
  BY InitHolds
<1>2. IInv /\ [Next]_vars => IInv'
  BY NextKeeps
<1> QED BY <1>1, <1>2, PTL DEF Spec

(* Every variable keeps its type, and no counter exceeds the submissions.  *)
THEOREM TypeCorrect == Spec => []TypeOK
<1>1. IInv => TypeOK
  BY DEF IInv
<1> QED BY <1>1, Invariant, PTL

-----------------------------------------------------------------------------
(* What a request that was answered got, in terms of its response.         *)
LEMMA Outcomes ==
  ASSUME TypeOK, NEW r \in Requests, Local(r), pc[r] = "answered"
  PROVE  /\ response[r].status \in {200, 401, 422, 500, 503}
         /\ response[r].status = 200 =>
              /\ Answer(r) = verdict[r] /\ response[r].verdict = verdict[r]
              /\ verdict[r] \in {"APPROVED", "FLAGGED"} /\ failure[r] = 0
         /\ response[r].status = 503 => /\ Answer(r) = "unavailable" /\ failure[r] = 0
                                        /\ response[r].verdict = "none"
         /\ response[r].status = 500 => /\ Answer(r) = "failed" /\ kind[r] = "valid"
                                        /\ failure[r] = 500 /\ response[r].verdict = "none"
         /\ response[r].status \in {401, 422} =>
              /\ Answer(r) = "rejected" /\ kind[r] # "valid"
              /\ failure[r] = response[r].status /\ response[r].verdict = "none"
<1>1. \/ response[r].status = 503 /\ response[r].verdict = "none" /\ failure[r] = 0
      \/ response[r].status = 200 /\ response[r].verdict = verdict[r] /\ failure[r] = 0
      \/ /\ response[r].status = failure[r] /\ response[r].verdict = "none"
         /\ kind[r] = "valid" /\ failure[r] = 500
      \/ /\ response[r].status = failure[r] /\ response[r].verdict = "none"
         /\ kind[r] # "valid" /\ failure[r] \in {401, 422}
  BY DEF Local, AnswerInv, HttpStatus
<1>2. response[r].status = 200 => verdict[r] \in {"APPROVED", "FLAGGED"}
  BY DEF Local, RequestInv, TypeOK
<1>3. Answer(r) = Meaning(response[r])
  BY Answers, Zenon
<1>4. /\ response[r].status = 200 => Meaning(response[r]) = response[r].verdict
      /\ response[r].status = 503 => Meaning(response[r]) = "unavailable"
      /\ response[r].status = 500 => Meaning(response[r]) = "failed"
      /\ response[r].status \in {401, 422} => Meaning(response[r]) = "rejected"
  BY Meanings
<1>5. CASE response[r].status = 200
  BY <1>1, <1>2, <1>3, <1>4, <1>5
<1>6. CASE response[r].status = 503
  BY <1>1, <1>3, <1>4, <1>6
<1>7. CASE response[r].status = 500 /\ kind[r] = "valid"
  BY <1>1, <1>3, <1>4, <1>7
<1>8. CASE response[r].status \in {401, 422} /\ kind[r] # "valid"
  BY <1>1, <1>3, <1>4, <1>8
<1> QED BY <1>1, <1>5, <1>6, <1>7, <1>8

(* The sets the counters count are the ones the statistics speak of.       *)
LEMMA StatsTold == ASSUME IInv PROVE StatsAgree
<1>1. ASSUME NEW r \in served
      PROVE  /\ Answer(r) = "APPROVED" <=> response[r].verdict = "APPROVED"
             /\ Answer(r) = "FLAGGED" <=> response[r].verdict = "FLAGGED"
  <2>1. r \in Requests /\ pc[r] = "answered" /\ TypeOK /\ Local(r)
    <3>1. r \in Requests
      BY Typed DEF IInv, Shapes
    <3> QED BY <3>1 DEF IInv, Local, AnswerInv
  <2>2. \/ response[r].status = 200 /\ Answer(r) = response[r].verdict
        \/ /\ Answer(r) \in {"unavailable", "failed", "rejected"}
           /\ response[r].verdict = "none"
    BY <2>1, Outcomes
  <2> QED BY <2>2
<1>2. {r \in served : Answer(r) = "APPROVED"} = Gave("APPROVED")
  BY <1>1 DEF Gave
<1>3. {r \in served : Answer(r) = "FLAGGED"} = Gave("FLAGGED")
  BY <1>1 DEF Gave
<1> QED BY <1>2, <1>3, Zenon DEF IInv, StatsInv, StatsAgree

LEMMA MetricsTold == ASSUME IInv PROVE MetricsAgree
<1> DEFINE mine == Active \union {r \in served : Answer(r) # "unavailable"}
           past == {r \in mine : r \in Checked /\ pc[r] # "validated"}
<1>1. ASSUME NEW r \in Requests
      PROVE  TypeOK /\ Local(r) /\ (r \in served => pc[r] = "answered")
  BY DEF IInv, Local, AnswerInv
<1>2. served \subseteq Requests
  BY DEF IInv, TypeOK
<1>3. mine = Ran
  <2>1. ASSUME NEW r \in served
        PROVE  Answer(r) # "unavailable" <=> response[r].status # 503
    <3>1. r \in Requests /\ pc[r] = "answered" /\ TypeOK /\ Local(r)
      BY <1>1, <1>2
    <3> QED BY <3>1, Outcomes
  <2> QED BY <1>2, <2>1 DEF Ran, Active
<1>4. past = Past
  <2>1. ASSUME NEW r \in Ran
        PROVE  r \in Checked /\ pc[r] # "validated"
                 <=> kind[r] = "valid" /\ pc[r] \notin {"received", "validated"}
    <3>1. r \in Requests /\ TypeOK /\ Local(r) /\ (r \in served => pc[r] = "answered")
      BY <1>1 DEF Ran
    <3>2. CASE pc[r] \notin Idle
      <4>1. pc[r] \in Labels
        BY <3>1 DEF TypeOK
      <4>2. response[r].status = 0
        BY <3>1, <3>2 DEF Local, AnswerInv, NoResponse, Idle
      <4> QED BY <3>1, <3>2, <4>1, <4>2
              DEF Labels, Local, RequestInv, Checked, InGates, Idle, HttpStatus
    <3>3. CASE r \in served /\ response[r].status # 503
      BY <3>1, <3>3, Outcomes DEF Checked, InGates
    <3> QED BY <3>2, <3>3 DEF Ran
  <2> QED BY <1>3, <2>1 DEF Past
<1>5. {r \in mine : failure[r] # 0} = RanFailed
  BY <1>3 DEF RanFailed
<1>6. {r \in past : failure[r] = 500} = PastFailed
  <2>1. ASSUME NEW r \in Past
        PROVE  failure[r] = 500 <=> failure[r] # 0
    <3>1. /\ r \in Requests /\ r \in Ran /\ kind[r] = "valid"
          /\ TypeOK /\ Local(r) /\ (r \in served => pc[r] = "answered")
      BY <1>1 DEF Past, Ran
    <3>2. CASE pc[r] \notin Idle
      BY <3>1, <3>2 DEF TypeOK, Labels, Idle, Local, RequestInv, InGates
    <3>3. CASE r \in served
      BY <3>1, <3>3, Outcomes
    <3> QED BY <3>1, <3>2, <3>3 DEF Ran
  <2> QED BY <1>4, <2>1 DEF PastFailed
<1>7. {r \in past : verdict[r] = "FLAGGED" /\ pc[r] # "evaluated"} = PastFlagged
  BY <1>4 DEF PastFlagged
<1> QED BY <1>3, <1>4, <1>5, <1>6, <1>7, Zenon DEF IInv, MetricsInv, MetricsAgree

(* What /stats and /metrics show is true of the requests: see              *)
(* CountersAgree.                                                          *)
THEOREM CountersTrue == Spec => []CountersAgree
<1>1. IInv => CountersAgree
  BY StatsTold, MetricsTold DEF CountersAgree
<1> QED BY <1>1, Invariant, PTL

-----------------------------------------------------------------------------
LEMMA WrittenIs ==
  ASSUME TypeOK, NEW r \in Requests, NEW path \in Seq(Types), Along(r, path)
  PROVE  /\ IsPrefix(Written(r), path)
         /\ Len(rows[r]) = Len(path) => Written(r) = path
<1>1. rows[r] \in Seq([type : Types, stored : BOOLEAN])
  <2>1. rows \in [Requests -> Seq(Row)]
    BY Typed DEF Shapes
  <2> QED BY <2>1, Zenon DEF Row
<1>2. DOMAIN rows[r] = 1 .. Len(rows[r]) /\ Len(rows[r]) \in Nat
  BY <1>1
<1>3. Written(r) = [i \in 1 .. Len(rows[r]) |-> rows[r][i].type]
  BY <1>2, Zenon DEF Written
<1>4. \A i \in 1 .. Len(rows[r]) : rows[r][i].type \in Types /\ rows[r][i].type = path[i]
  BY <1>1, <1>2 DEF Along
<1>5. Written(r) \in Seq(Types) /\ Len(Written(r)) = Len(rows[r])
  BY <1>2, <1>3, <1>4
<1>6. \A i \in 1 .. Len(rows[r]) : Written(r)[i] = path[i]
  BY <1>3, <1>4, Zenon
<1>7. Len(rows[r]) <= Len(path) /\ Len(path) \in Nat
  BY DEF Along
<1>8. ASSUME Len(rows[r]) = Len(path) PROVE Written(r) = path
  BY <1>5, <1>6, <1>8, SeqEqual
<1>9. IsPrefix(Written(r), path)
  <2>1. SubSeq(Written(r), 1, Len(Written(r))) = SubSeq(path, 1, Len(Written(r)))
    BY <1>2, <1>5, <1>6, <1>7
  <2> QED BY <1>5, <1>7, <2>1 DEF IsPrefix
<1> QED BY <1>8, <1>9

(* The database keeps what record() was called for, or less.               *)
LEMMA KeptWritten ==
  ASSUME TypeOK, NEW r \in Requests, NEW type \in Kept(r)
  PROVE  rows[r] # <<>> /\ \E i \in 1 .. Len(rows[r]) : rows[r][i].type = type
<1>1. DOMAIN rows[r] = 1 .. Len(rows[r]) /\ Len(rows[r]) \in Nat
  BY DEF TypeOK
<1>2. PICK i \in DOMAIN rows[r] : rows[r][i].type = type
  BY DEF Kept
<1>3. rows[r] # <<>>
  BY <1>1, <1>2
<1> QED BY <1>1, <1>2, <1>3

(* record() is called for what became of its request, in order; and of     *)
(* these events the database may lose any, but keeps no other: see         *)
(* TrailTellsAnswer.                                                       *)
THEOREM TrailTrue == Spec => []TrailTellsAnswer
<1>1. ASSUME IInv, NEW r \in Requests
      PROVE  /\ Answer(r) = "APPROVED" => Written(r) = Approval
             /\ Answer(r) = "FLAGGED"  => Written(r) = Flagging
             /\ Answer(r) = "rejected" => Written(r) = Rejection
             /\ Answer(r) = "failed"   => Written(r) = Failure
             /\ \E path \in Paths : IsPrefix(Written(r), path)
             /\ Announced(r) <= tried[r] /\ tried[r] <= Announced(r) + 1
             /\ "SECURITY_VALIDATED" \in Kept(r) => kind[r] = "valid"
             /\ "APPROVED" \in Kept(r) =>
                  Answer(r) \in {"APPROVED", "pending", "lost"} /\ tried[r] = 0
             /\ "FLAGGED" \in Kept(r) =>
                  Answer(r) \in {"FLAGGED", "pending", "lost"} /\ tried[r] = Alerts
             /\ "SYSTEM_ERROR" \in Kept(r) =>
                  Answer(r) \in {"rejected", "failed", "pending", "lost"}
  <2>1. TypeOK /\ Local(r)
    BY <1>1 DEF IInv
  <2>2. /\ Approval \in Seq(Types) /\ Flagging \in Seq(Types)
        /\ Rejection \in Seq(Types) /\ Failure \in Seq(Types)
    BY Positions, Zenon
  <2>3. ASSUME NEW path \in Paths
        PROVE  /\ All(r, path) => Written(r) = path
               /\ Along(r, path) => IsPrefix(Written(r), path)
    <3>1. path \in Seq(Types)
      BY <2>2, Zenon DEF Paths
    <3> QED BY <2>1, <3>1, WrittenIs, Zenon DEF All
  <2>4. \E path \in Paths : IsPrefix(Written(r), path)
    BY <2>1, <2>3 DEF Local, TrailInv
  <2>5. ASSUME pc[r] # "answered"
        PROVE  Answer(r) \notin {"APPROVED", "FLAGGED", "rejected", "failed"}
    BY <2>5, Answers DEF Idle
  <2>6. ASSUME pc[r] = "answered"
        PROVE  /\ Answer(r) = "APPROVED" => Written(r) = Approval
               /\ Answer(r) = "FLAGGED"  => Written(r) = Flagging
               /\ Answer(r) = "rejected" => Written(r) = Rejection
               /\ Answer(r) = "failed"   => Written(r) = Failure
    <3>1. CASE response[r].status = 200
      <4>1. /\ All(r, Granted(r)) /\ Answer(r) = verdict[r]
            /\ verdict[r] \in {"APPROVED", "FLAGGED"}
        BY <2>1, <2>6, <3>1, Outcomes DEF Local, TrailInv
      <4>2. Approval \in Paths /\ Flagging \in Paths
        BY DEF Paths
      <4> QED BY <2>3, <4>1, <4>2 DEF Granted
    <3>2. CASE response[r].status = 500
      <4>1. All(r, Refused(r)) /\ Answer(r) = "failed" /\ kind[r] = "valid"
        BY <2>1, <2>6, <3>2, Outcomes DEF Local, TrailInv
      <4>2. Failure \in Paths
        BY DEF Paths
      <4> QED BY <2>3, <4>1, <4>2 DEF Refused
    <3>3. CASE response[r].status \in {401, 422}
      <4>1. All(r, Refused(r)) /\ Answer(r) = "rejected" /\ kind[r] # "valid"
        BY <2>1, <2>6, <3>3, Outcomes DEF Local, TrailInv
      <4>2. Rejection \in Paths
        BY DEF Paths
      <4> QED BY <2>3, <4>1, <4>2 DEF Refused
    <3>4. CASE response[r].status = 503
      BY <2>1, <2>6, <3>4, Outcomes
    <3> QED BY <2>1, <2>6, <3>1, <3>2, <3>3, <3>4, Outcomes
  <2>7. Announced(r) <= tried[r] /\ tried[r] <= Announced(r) + 1
    <3>1. tried[r] = Announced(r) \/ tried[r] = Announced(r) + 1
      BY <2>1 DEF Local, RowsTrue
    <3> QED BY <2>1, <3>1 DEF Local, RowsTrue
  <2>8. \A type \in Kept(r) : RowTrue(r, type) /\ rows[r] # <<>>
    BY <2>1, KeptWritten DEF Local, RowsTrue
  <2>9. /\ "SECURITY_VALIDATED" \in Kept(r) => kind[r] = "valid"
        /\ "APPROVED" \in Kept(r) => verdict[r] = "APPROVED" /\ tried[r] = 0
        /\ "FLAGGED" \in Kept(r) => verdict[r] = "FLAGGED" /\ tried[r] = Alerts
        /\ "SYSTEM_ERROR" \in Kept(r) => failure[r] # 0
    BY <2>8 DEF RowTrue
  <2>10. /\ Answer(r) \in {"pending", "lost"} \/ pc[r] \in {"new", "answered"}
         /\ pc[r] = "new" => rows[r] = <<>>
         /\ failure[r] # 0 => verdict[r] = "none"
         /\ verdict[r] \in {"none", "APPROVED", "FLAGGED"}
    BY <2>1, Answers DEF Local, TrailInv, RequestInv, TypeOK, Idle
  <2>11. ASSUME pc[r] = "answered", rows[r] # <<>>
         PROVE  /\ verdict[r] # "none" => Answer(r) = verdict[r]
                /\ failure[r] # 0 => Answer(r) \in {"rejected", "failed"}
    <3>1. response[r].status # 503
      BY <2>1, <2>11 DEF Local, TrailInv
    <3> QED BY <2>1, <2>10, <2>11, <3>1, Outcomes
  <2>12. ASSUME rows[r] # <<>>
         PROVE  /\ verdict[r] # "none" => Answer(r) \in {verdict[r], "pending", "lost"}
                /\ failure[r] # 0 => Answer(r) \in {"rejected", "failed", "pending", "lost"}
    BY <2>10, <2>11, <2>12
  <2>13. /\ "APPROVED" \in Kept(r) => Answer(r) \in {"APPROVED", "pending", "lost"}
         /\ "FLAGGED" \in Kept(r) => Answer(r) \in {"FLAGGED", "pending", "lost"}
         /\ "SYSTEM_ERROR" \in Kept(r) => Answer(r) \in {"rejected", "failed", "pending", "lost"}
    BY <2>8, <2>9, <2>12
  <2> QED BY <2>4, <2>5, <2>6, <2>7, <2>9, <2>13
<1>2. IInv => TrailTellsAnswer
  BY <1>1 DEF TrailTellsAnswer
<1> QED BY <1>2, Invariant, PTL

-----------------------------------------------------------------------------
(* The same, of the next state.                                            *)
LEMMA AnswersNext ==
  ASSUME NEW r \in Requests
  PROVE  /\ pc'[r] = "new" => Answer(r)' = "none"
         /\ pc'[r] = "lost" => Answer(r)' = "lost"
         /\ pc'[r] \notin Idle => Answer(r)' = "pending"
         /\ pc'[r] = "answered" => Answer(r)' = Meaning(response'[r])
  BY Zenon DEF Answer, Idle

(* The contract's view of the requests, and a step of one of them.         *)
told == [x \in Requests |-> Answer(x)]

LEMMA Told ==
  ASSUME NEW r \in Requests, Framed(r)
  PROVE  /\ told' = [told EXCEPT ![r] = Answer(r)'] /\ told[r] = Answer(r)
         /\ \A x \in Requests \ {r} : x \in Checked' <=> x \in Checked
<1>1. ASSUME NEW x \in Requests \ {r}
      PROVE  Answer(x)' = Answer(x) /\ (x \in Checked' <=> x \in Checked)
  <2>1. /\ pc'[x] = pc[x] /\ response'[x] = response[x] /\ failure'[x] = failure[x]
        /\ kind'[x] = kind[x]
    BY DEF Framed
  <2>2. x \in Checked' <=> x \in Checked
    BY <2>1 DEF Checked
  <2>3. Answer(x)' = Answer(x)
    BY <2>1, Answers, AnswersNext DEF Idle
  <2> QED BY <2>2, <2>3
<1>2. told' = [x \in Requests |-> Answer(x)']
  BY DEF told
<1>3. [x \in Requests |-> Answer(x)'] = [told EXCEPT ![r] = Answer(r)']
  BY <1>1 DEF told
<1>4. told[r] = Answer(r)
  BY DEF told
<1> QED BY <1>1, <1>2, <1>3, <1>4

(* A request among the checked or not, before and after.                   *)
LEMMA CheckedBefore ==
  ASSUME NEW r \in Requests
  PROVE  r \in Checked <=> /\ kind[r] = "valid" /\ pc[r] # "lost"
                           /\ pc[r] \in InGates \/ failure[r] = 500 \/ response[r].status = 200
BY DEF Checked

LEMMA CheckedAfter ==
  ASSUME NEW r \in Requests
  PROVE  r \in Checked' <=> /\ kind'[r] = "valid" /\ pc'[r] # "lost"
                            /\ pc'[r] \in InGates \/ failure'[r] = 500 \/ response'[r].status = 200
BY DEF Checked

LEMMA StepMapped ==
  ASSUME IInv, NEW r \in Requests, NotStarted(r) \/ Submit(r) \/ Step(r)
  PROVE  Contract!Next \/ UNCHANGED Contract!vars
<1>1. TypeOK /\ Local(r) /\ Framed(r) /\ kind' = kind
  BY OwnStep DEF IInv, Framed
<1>2. /\ told' = [told EXCEPT ![r] = Answer(r)'] /\ told[r] = Answer(r)
      /\ \A x \in Requests \ {r} : x \in Checked' <=> x \in Checked
  BY <1>1, Told
<1>3. Checked \subseteq Requests /\ Checked' \subseteq Requests
  BY DEF Checked
<1>4. told' = told /\ Checked' = Checked /\ tried' = tried => UNCHANGED Contract!vars
  BY DEF Contract!vars, told
<1>5. Answer(r)' = Answer(r) => told' = told
  BY <1>2 DEF told
<1>6. (r \in Checked' <=> r \in Checked) => Checked' = Checked
  BY <1>2, <1>3
<1>7. r \in Checked' => Checked' = Checked \union {r}
  BY <1>2, <1>3
<1> USE DEF InGates, Idle, NoResponse
<1>10. CASE NotStarted(r)
  <2>1. /\ pc[r] = "new" /\ pc'[r] = "answered" /\ response'[r].status = 503
        /\ response[r].status = 0 /\ failure[r] = 0 /\ failure'[r] = 0 /\ tried' = tried
    BY <1>1, <1>10 DEF NotStarted, Respond, Goto, TypeOK, Local, AnswerInv, RequestInv, work
  <2>2. Answer(r) = "none" /\ Answer(r)' = "unavailable"
    BY <2>1, Answers, AnswersNext, Meanings
  <2>3. r \notin Checked /\ r \notin Checked'
    BY <2>1, CheckedBefore, CheckedAfter
  <2>4. Contract!Turndown(r)
    BY <1>2, <1>6, <2>1, <2>2, <2>3 DEF Contract!Turndown, told
  <2> QED BY <2>4 DEF Contract!Next
<1>11. CASE Submit(r)
  <2>1. /\ pc[r] = "new" /\ pc'[r] = "received" /\ response' = response
        /\ response[r].status = 0 /\ failure[r] = 0 /\ failure' = failure /\ tried' = tried
    BY <1>1, <1>11 DEF Submit, Goto, TypeOK, Local, AnswerInv, RequestInv, work, front
  <2>2. Answer(r) = "none" /\ Answer(r)' = "pending"
    BY <2>1, Answers, AnswersNext
  <2>3. r \notin Checked /\ r \notin Checked'
    BY <2>1, CheckedBefore, CheckedAfter
  <2>4. Contract!Accept(r)
    BY <1>2, <1>6, <2>1, <2>2, <2>3 DEF Contract!Accept, told
  <2> QED BY <2>4 DEF Contract!Next
<1>12. CASE Received(r)
  <2>1. /\ pc[r] = "received" /\ response' = response /\ response[r].status = 0
        /\ failure[r] = 0 /\ tried' = tried
        /\ pc'[r] = IF kind[r] = "valid" THEN "validated" ELSE "failing"
    BY <1>1, <1>12 DEF Received, Goto, TypeOK, Local, AnswerInv, RequestInv, front
  <2>2. Answer(r) = "pending" /\ Answer(r)' = "pending"
    BY <2>1, Answers, AnswersNext
  <2>3. CASE kind[r] = "valid"
    <3>1. r \in Checked'
      BY <1>1, <2>1, <2>3, CheckedAfter
    <3>2. Contract!Check(r)
      BY <1>2, <1>5, <1>7, <2>1, <2>2, <3>1 DEF Contract!Check, told
    <3> QED BY <3>2 DEF Contract!Next
  <2>4. CASE kind[r] # "valid"
    <3>1. r \notin Checked /\ r \notin Checked'
      BY <1>1, <2>4, CheckedBefore, CheckedAfter
    <3> QED BY <1>4, <1>5, <1>6, <2>1, <2>2, <3>1
  <2> QED BY <2>3, <2>4
<1>13. CASE Validated(r) \/ Evaluate(r) \/ EvaluateFails(r) \/ Evaluated(r) \/ Decide(r)
  <2>1. /\ pc[r] \in {"validated", "evaluating", "evaluated", "deciding"}
        /\ kind[r] = "valid" /\ tried' = tried
        /\ pc'[r] \in InGates \/ (pc'[r] = "failing" /\ failure'[r] = 500)
    BY <1>1, <1>13 DEF Validated, Evaluate, EvaluateFails, Evaluated, Decide, Goto, TypeOK,
                       Local, RequestInv
  <2>2. Answer(r) = "pending" /\ Answer(r)' = "pending"
    BY <2>1, Answers, AnswersNext
  <2>3. r \in Checked /\ r \in Checked'
    BY <1>1, <2>1, CheckedBefore, CheckedAfter
  <2> QED BY <1>4, <1>5, <1>6, <2>1, <2>2, <2>3
<1>14. CASE Dispatch(r)
  <2>1. /\ pc[r] = "notifying" /\ kind[r] = "valid" /\ pc'[r] = "dispatching"
        /\ tried[r] < Alerts /\ tried' = [tried EXCEPT ![r] = tried[r] + 1]
    BY <1>1, <1>14 DEF Dispatch, Goto, TypeOK, Local, RequestInv
  <2>2. Answer(r) = "pending" /\ Answer(r)' = "pending"
    BY <2>1, Answers, AnswersNext
  <2>3. r \in Checked /\ r \in Checked'
    BY <1>1, <2>1, CheckedBefore, CheckedAfter
  <2>4. Contract!Alert(r)
    BY <1>2, <1>5, <1>6, <2>1, <2>2, <2>3 DEF Contract!Alert, told
  <2> QED BY <2>4 DEF Contract!Next
<1>18. CASE Dispatched(r) \/ Announce(r)
  <2>1. /\ pc[r] \in {"dispatching", "announcing"} /\ kind[r] = "valid" /\ tried' = tried
        /\ pc'[r] \in {"announcing", "notifying", "deciding"}
    BY <1>1, <1>18 DEF Dispatched, Announce, Goto, TypeOK, Local, RequestInv, work
  <2>2. Answer(r) = "pending" /\ Answer(r)' = "pending"
    BY <2>1, Answers, AnswersNext
  <2>3. r \in Checked /\ r \in Checked'
    BY <1>1, <2>1, CheckedBefore, CheckedAfter
  <2> QED BY <1>4, <1>5, <1>6, <2>1, <2>2, <2>3
<1>15. CASE Return(r)
  <2>1. /\ pc[r] = "returning" /\ pc'[r] = "answered" /\ kind[r] = "valid"
        /\ response'[r] = [status |-> 200, verdict |-> verdict[r]]
        /\ verdict[r] \in {"APPROVED", "FLAGGED"}
        /\ tried[r] = IF verdict[r] = "FLAGGED" THEN Alerts ELSE 0
        /\ tried' = tried
    BY <1>1, <1>15 DEF Return, Respond, Goto, TypeOK, Local, RequestInv, Deciding, work
  <2>2. response'[r].status = 200 /\ response'[r].verdict = verdict[r]
    BY <2>1
  <2>3. Answer(r) = "pending" /\ Answer(r)' = verdict[r]
    BY <2>1, <2>2, Answers, AnswersNext, Meanings
  <2>4. r \in Checked /\ r \in Checked'
    BY <1>1, <2>1, <2>2, CheckedBefore, CheckedAfter
  <2>5. Contract!Approve(r) \/ Contract!Flag(r)
    <3>1. CASE verdict[r] = "APPROVED"
      BY <1>2, <2>1, <2>3, <2>4, <3>1 DEF Contract!Approve, told
    <3>2. CASE verdict[r] = "FLAGGED"
      BY <1>2, <2>1, <2>3, <2>4, <3>2 DEF Contract!Flag, told
    <3> QED BY <2>1, <3>1, <3>2
  <2>6. Contract!Reply(r)
    BY <1>2, <1>6, <2>1, <2>3, <2>4, <2>5 DEF Contract!Reply, told
  <2> QED BY <2>6 DEF Contract!Next
<1>16. CASE Failing(r)
  <2>1. /\ pc[r] = "failing" /\ pc'[r] = "raising" /\ failure' = failure
        /\ response' = response /\ tried' = tried
    BY <1>1, <1>16 DEF Failing, Goto, TypeOK, front
  <2>2. Answer(r) = "pending" /\ Answer(r)' = "pending"
    BY <2>1, Answers, AnswersNext
  <2>3. r \in Checked <=> r \in Checked'
    BY <1>1, <2>1, CheckedBefore, CheckedAfter
  <2> QED BY <1>4, <1>5, <1>6, <2>1, <2>2, <2>3
<1>17. CASE ReturnError(r)
  <2>1. /\ pc[r] = "raising" /\ pc'[r] = "answered" /\ failure' = failure
        /\ response'[r].status = failure[r] /\ response[r].status = 0
        /\ tried[r] = 0 /\ tried' = tried
        /\ IF kind[r] = "valid" THEN failure[r] = 500 ELSE failure[r] \in {401, 422}
    BY <1>1, <1>17 DEF ReturnError, Respond, Goto, TypeOK, Local, RequestInv, AnswerInv,
                       HttpStatus, work
  <2>2. /\ Answer(r) = "pending"
        /\ Answer(r)' = IF kind[r] = "valid" THEN "failed" ELSE "rejected"
    BY <2>1, Answers, AnswersNext, Meanings
  <2>3. /\ r \in Checked <=> kind[r] = "valid"
        /\ r \in Checked' <=> kind[r] = "valid"
    BY <1>1, <2>1, CheckedBefore, CheckedAfter
  <2>4. Contract!Fail(r) \/ Contract!Reject(r)
    <3>1. CASE kind[r] = "valid"
      BY <1>2, <2>1, <2>2, <2>3, <3>1 DEF Contract!Fail, told
    <3>2. CASE kind[r] # "valid"
      BY <1>2, <2>2, <2>3, <3>2 DEF Contract!Reject, told
    <3> QED BY <3>1, <3>2
  <2>5. Contract!Reply(r)
    BY <1>2, <1>6, <2>1, <2>2, <2>3, <2>4 DEF Contract!Reply, told
  <2> QED BY <2>5 DEF Contract!Next
<1> QED BY <1>10, <1>11, <1>12, <1>13, <1>14, <1>15, <1>16, <1>17, <1>18 DEF Step

LEMMA CrashMapped == ASSUME IInv, Crash PROVE Contract!Crash
<1>1. /\ pc' = [r \in Requests |-> IF r \in Active THEN "lost" ELSE pc[r]]
      /\ UNCHANGED <<kind, work, response>>
  BY DEF Crash, front
<1>2. ASSUME NEW r \in Requests
      PROVE  /\ Answer(r)' = IF Answer(r) = "pending" THEN "lost" ELSE Answer(r)
             /\ r \in Checked' <=> r \in Checked /\ Answer(r) # "pending"
  <2>1. TypeOK /\ Local(r)
    BY DEF IInv
  <2>2. CASE r \in Active
    <3>1. pc[r] \notin Idle /\ pc'[r] = "lost"
      BY <1>1, <2>2 DEF Active
    <3>2. Answer(r) = "pending" /\ Answer(r)' = "lost"
      BY <3>1, Answers, AnswersNext
    <3>3. r \notin Checked'
      BY <3>1, CheckedAfter
    <3> QED BY <3>2, <3>3
  <2>3. CASE r \notin Active
    <3>1. /\ pc[r] \in Idle /\ pc'[r] = pc[r] /\ response'[r] = response[r]
          /\ kind'[r] = kind[r] /\ failure'[r] = failure[r]
      BY <1>1, <2>3 DEF Active, work
    <3>2. Answer(r)' = Answer(r)
      BY <3>1, Answers, AnswersNext DEF Idle
    <3>3. Answer(r) # "pending"
      <4>1. CASE pc[r] = "answered"
        BY <2>1, <4>1, Outcomes
      <4>2. CASE pc[r] # "answered"
        BY <3>1, <4>2, Answers DEF Idle
      <4> QED BY <4>1, <4>2
    <3>4. r \in Checked' <=> r \in Checked
      BY <3>1, CheckedBefore, CheckedAfter
    <3> QED BY <3>2, <3>3, <3>4
  <2> QED BY <2>2, <2>3
<1>3. Checked \subseteq Requests /\ Checked' \subseteq Requests
  BY DEF Checked
<1>4. told' = [r \in Requests |-> IF told[r] = "pending" THEN "lost" ELSE told[r]]
  BY <1>2 DEF told
<1>5. Checked' = {r \in Checked : told[r] # "pending"}
  BY <1>2, <1>3 DEF told
<1> QED BY <1>1, <1>4, <1>5 DEF Contract!Crash, told, work

(* The end of a process keeps what its requests were answered.             *)
LEMMA RestMapped ==
  ASSUME UNCHANGED <<pc, kind, work, response>>
  PROVE  UNCHANGED Contract!vars
<1>1. ASSUME NEW r \in Requests
      PROVE  Answer(r)' = Answer(r)
  BY Answers, AnswersNext DEF Idle
<1>2. told' = told
  BY <1>1 DEF told
<1>3. Checked' = Checked
  BY DEF Checked, work
<1> QED BY <1>2, <1>3 DEF Contract!vars, told, work

(* The service implements ComplianceContract: see KeepsContract.           *)
THEOREM ContractKept == Spec => KeepsContract
<1>1. Init => Contract!Init
  <2> SUFFICES ASSUME Init PROVE Contract!Init
    OBVIOUS
  <2>1. ASSUME NEW r \in Requests
        PROVE  Answer(r) = "none" /\ r \notin Checked
    <3>1. /\ pc[r] = "new" /\ failure[r] = 0 /\ response[r].status = 0
      BY DEF Init, NoResponse
    <3> QED BY <3>1, Answers, CheckedBefore DEF InGates
  <2>2. told = [r \in Requests |-> "none"] /\ Checked = {}
    BY <2>1 DEF told, Checked
  <2> QED BY <2>2 DEF Contract!Init, told, Init
<1>2. IInv /\ [Next]_vars => [Contract!Next]_(Contract!vars)
  <2> SUFFICES ASSUME IInv, [Next]_vars
               PROVE  Contract!Next \/ UNCHANGED Contract!vars
    OBVIOUS
  <2>1. ASSUME NEW r \in Requests, NotStarted(r) \/ Submit(r) \/ Step(r)
        PROVE  Contract!Next \/ UNCHANGED Contract!vars
    BY <2>1, StepMapped
  <2>2. CASE Crash
    BY <2>2, CrashMapped DEF Contract!Next
  <2>3. CASE Startup \/ Shutdown \/ Boot \/ UNCHANGED vars
    <3>1. UNCHANGED <<pc, kind, work, response>>
      BY <2>3 DEF Startup, Shutdown, Boot, vars, front
    <3> QED BY <3>1, RestMapped
  <2> QED BY <2>1, <2>2, <2>3 DEF Next
<1> QED BY <1>1, <1>2, Invariant, PTL DEF Spec, KeepsContract, Contract!Spec
===============================================================================
