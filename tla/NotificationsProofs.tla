------------------------- MODULE NotificationsProofs -------------------------
(***************************************************************************)
(* Theorems about one run of the notifications: for every number of        *)
(* attempts per channel, whatever the channels accept, refuse or leave     *)
(* unanswered, and whichever rows the database stores.                     *)
(***************************************************************************)
EXTENDS Notifications, Integers, FiniteSetTheorems, TLAPS

(* Where run is, by what it has results of.                                *)
PlanInv ==
  /\ \A c \in Channels : results[c] # None => c \in Plan
  /\ channel = "none" => step = "post" /\ \A c \in Plan : results[c] # None
  /\ channel # "none" => (results[channel] # None <=> step = "record")
  /\ channel = "teams" /\ "slack" \in enabled => results["slack"] # None
  /\ channel = "slack" => results["teams"] = None
  /\ channel = "file" => step \in {"post", "record"}

(* The retry loop stays below the channel's limit, and its result counts   *)
(* the attempts made.                                                      *)
LoopInv ==
  channel # "none" =>
    /\ step \in {"post", "backoff"} => attempts < MaxAttempts(channel)
    /\ step \in {"await", "record"} => attempts >= 1
    /\ step = "record" => results[channel].attempts = attempts

\* The attempts made on channel c so far.
Made(c) ==
  IF c = channel THEN attempts
  ELSE IF results[c] # None THEN results[c].attempts
  ELSE 0

(* Every message anywhere belongs to an attempt that was made.             *)
SentInv == \A m \in sent \union accepted : m[2] <= Made(m[1])

(* A row repeats the result of its channel.                                *)
RowsInv ==
  \A row \in rows : results[row.channel] # None
                    /\ results[row.channel].success = row.success

(* A channel without a result has HTTP errors behind it only: one for each  *)
(* attempt made, but the one under way.                                     *)
Underway == IF step = "await" THEN 1 ELSE 0

AnswersInv ==
  \A c \in Channels : results[c] = None =>
    /\ Len(answers[c]) + (IF c = channel THEN Underway ELSE 0) = Made(c)
    /\ \A i \in 1 .. Len(answers[c]) : answers[c][i] = "error"

IInv ==
  TypeOK /\ PlanInv /\ LoopInv /\ SentInv /\ RowsInv /\ AnswersInv /\ ResultTellsAnswers

-----------------------------------------------------------------------------
(* The limits are positive numbers, one for the file.                      *)
LEMMA Limits ==
  /\ \A c \in Channels : MaxAttempts(c) \in Nat /\ MaxAttempts(c) >= 1
  /\ MaxAttempts("file") = 1
  /\ "none" \notin Channels
<1>1. /\ MaxAttempts("slack") = SlackAttempts
      /\ MaxAttempts("teams") = TeamsAttempts
      /\ MaxAttempts("file") = 1
  BY Zenon DEF MaxAttempts
<1> QED BY <1>1, NAssumption DEF Channels

\* Which messages there can be.
LEMMA Messages ==
  ASSUME NEW m
  PROVE  m \in Attempts <=>
           \E c \in Channels : \E n \in 1 .. MaxAttempts(c) : m = <<c, n>>
  BY DEF Attempts

(* A message takes its channel and its number with it.                     *)
LEMMA MessageParts ==
  ASSUME NEW m \in Attempts
  PROVE  m[1] \in Channels /\ m[2] \in 1 .. MaxAttempts(m[1]) /\ m = <<m[1], m[2]>>
  BY Messages

(* At most n messages bear the numbers 1 .. n of one channel.              *)
LEMMA Numbered ==
  ASSUME NEW S \in SUBSET Attempts, NEW c, NEW n \in Nat,
         \A m \in S : m[1] = c /\ m[2] <= n
  PROVE  IsFiniteSet(S) /\ Cardinality(S) <= n
<1> DEFINE number == [m \in S |-> m[2]]
<1>1. number \in Injection(S, 1 .. n)
  <2>1. \A m \in S : m[2] \in 1 .. n
    BY MessageParts, Limits
  <2>2. \A m, k \in S : m[2] = k[2] => m = k
    BY MessageParts
  <2> QED BY <2>1, <2>2 DEF Injection, IsInjective
<1>2. IsFiniteSet(1 .. n) /\ Cardinality(1 .. n) = n
  BY FS_Interval
<1> QED BY <1>1, <1>2, FS_Injection

(* The first channel and the next are in the plan, or there is none.       *)
LEMMA Order ==
  ASSUME enabled \subseteq {"slack", "teams"}
  PROVE  /\ First \in Plan /\ Plan \subseteq Channels
         /\ First = "teams" => "slack" \notin enabled
         /\ \A c \in Plan : After(c) \in Plan \union {"none"}
         /\ After("slack") \in {"teams", "none"}
         /\ After("slack") = "teams" <=> "teams" \in enabled
         /\ After("teams") = "none" /\ After("file") = "none"
  BY DEF First, After, Plan, Channels

-----------------------------------------------------------------------------
(* run begins with the first channel of the plan.                          *)
LEMMA InitIInv == Init => IInv
<1> SUFFICES ASSUME Init PROVE IInv
  OBVIOUS
<1>1. channel \in Plan /\ channel \in Channels /\ channel # "none"
      /\ (channel = "teams" => "slack" \notin enabled)
  BY Order, Limits DEF Init
<1>2. TypeOK
  BY <1>1, Limits DEF Init, TypeOK
<1>3. PlanInv
  BY <1>1 DEF Init, PlanInv, Channels
<1>4. LoopInv
  BY <1>1, Limits DEF Init, LoopInv
<1>5. SentInv /\ RowsInv
  BY DEF Init, SentInv, RowsInv
<1>6. AnswersInv /\ ResultTellsAnswers
  BY <1>1 DEF Init, AnswersInv, ResultTellsAnswers, Made, Underway
<1> QED BY <1>2, <1>3, <1>4, <1>5, <1>6 DEF IInv

-----------------------------------------------------------------------------
(* The answer to an attempt is one more answer of its channel.             *)
LEMMA AnsweredMore ==
  ASSUME TypeOK, channel \in Channels, NEW outcome \in {"ok", "error", "none"},
         Answered(outcome)
  PROVE  /\ answers' \in [Channels -> Seq({"ok", "error", "none"})]
         /\ Len(answers[channel]) \in Nat
         /\ Len(answers'[channel]) = Len(answers[channel]) + 1
         /\ answers'[channel][Len(answers[channel]) + 1] = outcome
         /\ \A i \in 1 .. Len(answers[channel]) : answers'[channel][i] = answers[channel][i]
         /\ \A c \in Channels : c # channel => answers'[c] = answers[c]
<1> DEFINE told == answers[channel]
<1>1. told \in Seq({"ok", "error", "none"}) /\ answers'[channel] = Append(told, outcome)
      /\ \A c \in Channels : c # channel => answers'[c] = answers[c]
  BY DEF TypeOK, Answered
<1>2. Append(told, outcome) \in Seq({"ok", "error", "none"})
  BY <1>1
<1>3. answers' \in [Channels -> Seq({"ok", "error", "none"})]
  BY <1>1, <1>2 DEF TypeOK, Answered
<1> QED BY <1>1, <1>3

(* The dispatch ends with a result, a success when the last answer is 2xx; *)
(* an HTTP error ends it only when no attempt is left.                     *)
LEMMA ResultIInv ==
  ASSUME IInv, NEW success \in BOOLEAN, step = "await", Result(success),
         NEW outcome \in {"ok", "error", "none"}, Answered(outcome),
         success <=> outcome = "ok",
         outcome = "error" => ~(attempts < MaxAttempts(channel)),
         UNCHANGED <<enabled, channel, attempts, rows, sent, accepted>>
  PROVE  IInv'
<1>1. channel \in {"slack", "teams"} /\ channel \in Plan /\ results[channel] = None
      /\ attempts >= 1 /\ attempts \in Nat /\ attempts \in 0 .. MaxAttempts(channel)
  <2>1. channel # "none"
    BY DEF IInv, PlanInv
  <2>2. channel \in Plan /\ Plan \subseteq Channels /\ channel # "file"
    BY <2>1, Order DEF IInv, PlanInv, TypeOK
  <2>3. attempts \in 0 .. MaxAttempts(channel)
    BY <2>1 DEF IInv, TypeOK
  <2> QED BY <2>1, <2>2, <2>3, Limits DEF IInv, PlanInv, LoopInv, Channels
<1>2. /\ results \in [Channels -> [success : BOOLEAN, attempts : Nat] \union {None}]
      /\ results' = [results EXCEPT ![channel] = [success |-> success, attempts |-> attempts]]
      /\ step' = "record"
  BY DEF IInv, TypeOK, Result
<1>3. /\ results' \in [Channels -> [success : BOOLEAN, attempts : Nat] \union {None}]
      /\ results'[channel] = [success |-> success, attempts |-> attempts]
      /\ results'[channel] # None
      /\ \A c \in Channels : c # channel => results'[c] = results[c]
  BY <1>1, <1>2, NAssumption DEF Channels
<1>4. TypeOK'
  <2>1. answers' \in [Channels -> Seq({"ok", "error", "none"})]
    BY <1>1, AnsweredMore DEF IInv, Channels
  <2> QED BY <1>1, <1>2, <1>3, <2>1 DEF IInv, TypeOK, Plan, Attempts
<1>5. PlanInv'
  BY <1>1, <1>2, <1>3 DEF IInv, PlanInv, Plan, Channels
<1>6. LoopInv'
  BY <1>1, <1>2, <1>3 DEF IInv, LoopInv
<1>7. SentInv'
  <2> SUFFICES ASSUME NEW m \in sent \union accepted PROVE m[2] <= Made(m[1])'
    BY DEF SentInv
  <2>1. m[1] \in Channels /\ m[2] <= Made(m[1])
    BY MessageParts DEF IInv, TypeOK, SentInv
  <2> QED BY <1>1, <1>3, <2>1 DEF Made
<1>8. RowsInv'
  BY <1>1, <1>3 DEF IInv, RowsInv, TypeOK
<1>9. /\ Len(answers[channel]) + 1 = attempts /\ Len(answers[channel]) \in Nat
      /\ \A i \in 1 .. Len(answers[channel]) : answers[channel][i] = "error"
      /\ Len(answers'[channel]) = attempts /\ answers'[channel][attempts] = outcome
      /\ \A i \in 1 .. attempts - 1 : answers'[channel][i] = "error"
      /\ \A c \in Channels : c # channel => answers'[c] = answers[c]
  <2>1. channel \in Channels
    BY <1>1 DEF Channels
  <2>2. /\ Len(answers[channel]) + 1 = attempts
        /\ \A i \in 1 .. Len(answers[channel]) : answers[channel][i] = "error"
    BY <1>1, <2>1 DEF IInv, AnswersInv, Underway, Made
  <2>3. TypeOK
    BY DEF IInv
  <2>4. /\ Len(answers[channel]) \in Nat
        /\ Len(answers'[channel]) = Len(answers[channel]) + 1
        /\ answers'[channel][Len(answers[channel]) + 1] = outcome
        /\ \A i \in 1 .. Len(answers[channel]) : answers'[channel][i] = answers[channel][i]
        /\ \A c \in Channels : c # channel => answers'[c] = answers[c]
    BY <2>1, <2>3, AnsweredMore
  <2> QED BY <1>1, <2>2, <2>4
<1>10. AnswersInv'
  <2> SUFFICES ASSUME NEW c \in Channels, results'[c] = None
               PROVE  /\ Len(answers'[c]) + (IF c = channel THEN Underway' ELSE 0) = Made(c)'
                      /\ \A i \in 1 .. Len(answers'[c]) : answers'[c][i] = "error"
    BY DEF AnswersInv
  <2>1. c # channel /\ results[c] = None /\ answers'[c] = answers[c]
    BY <1>3, <1>9
  <2>2. Made(c)' = Made(c)
    BY <1>3, <2>1 DEF Made
  <2>3. /\ Len(answers[c]) + 0 = Made(c)
        /\ \A i \in 1 .. Len(answers[c]) : answers[c][i] = "error"
    BY <2>1 DEF IInv, AnswersInv
  <2> QED BY <2>1, <2>2, <2>3
<1>11. ResultTellsAnswers'
  <2> SUFFICES ASSUME NEW c \in Channels, results'[c] # None
               PROVE  LET n    == results'[c].attempts
                          told == answers'[c]
                      IN  /\ n >= 1 /\ Len(told) = n
                          /\ \A i \in 1 .. n - 1 : told[i] = "error"
                          /\ told[n] = "error" => n = MaxAttempts(c)
                          /\ results'[c].success <=> told[n] = "ok"
    BY DEF ResultTellsAnswers
  <2>1. CASE c = channel
    <3>1. results'[c].attempts = attempts /\ results'[c].success = success
      BY <1>3, <2>1
    <3>2. outcome = "error" => attempts = MaxAttempts(c)
      BY <1>1, <2>1, Limits
    <3> QED BY <1>1, <1>9, <2>1, <3>1, <3>2
  <2>2. CASE c # channel
    BY <1>3, <1>9, <2>2 DEF IInv, ResultTellsAnswers
  <2> QED BY <2>1, <2>2
<1> QED BY <1>4, <1>5, <1>6, <1>7, <1>8, <1>10, <1>11 DEF IInv

(* A new attempt.                                                          *)
LEMMA PostIInv == IInv /\ Post => IInv'
<1> SUFFICES ASSUME IInv, Post PROVE IInv'
  OBVIOUS
<1>1. channel \in {"slack", "teams"} /\ channel \in Channels /\ channel \in Plan
      /\ attempts \in Nat /\ attempts < MaxAttempts(channel) /\ MaxAttempts(channel) \in Nat
      /\ results[channel] = None
  BY Limits DEF IInv, TypeOK, PlanInv, LoopInv, Post, Channels
<1>2. /\ attempts' = attempts + 1 /\ step' = "await"
      /\ sent' = sent \union {<<channel, attempts + 1>>}
      /\ UNCHANGED <<enabled, channel, results, rows, accepted, answers>> /\ step = "post"
  BY DEF Post
<1>3. <<channel, attempts + 1>> \in Attempts
  BY <1>1, Messages
<1>4. TypeOK'
  BY <1>1, <1>2, <1>3 DEF IInv, TypeOK, Plan, Attempts
<1>5. PlanInv' /\ LoopInv'
  BY <1>1, <1>2 DEF IInv, PlanInv, LoopInv, Plan
<1>6. SentInv'
  <2> SUFFICES ASSUME NEW m \in sent' \union accepted' PROVE m[2] <= Made(m[1])'
    BY DEF SentInv
  <2>1. CASE m = <<channel, attempts + 1>>
    BY <1>1, <1>2, <2>1 DEF Made
  <2>2. CASE m \in sent \union accepted
    <3>1. m[2] \in Nat /\ m[2] <= Made(m[1])
      BY <2>2, MessageParts, Limits DEF IInv, TypeOK, SentInv
    <3> QED BY <1>1, <1>2, <3>1 DEF Made
  <2> QED BY <1>2, <2>1, <2>2
<1>7. RowsInv' /\ ResultTellsAnswers'
  BY <1>2 DEF IInv, RowsInv, ResultTellsAnswers
<1>8. AnswersInv'
  <2> SUFFICES ASSUME NEW c \in Channels, results[c] = None
               PROVE  /\ Len(answers[c]) + (IF c = channel THEN Underway' ELSE 0) = Made(c)'
                      /\ \A i \in 1 .. Len(answers[c]) : answers[c][i] = "error"
    BY <1>2 DEF AnswersInv
  <2>1. /\ Len(answers[c]) + (IF c = channel THEN Underway ELSE 0) = Made(c)
        /\ \A i \in 1 .. Len(answers[c]) : answers[c][i] = "error"
    BY DEF IInv, AnswersInv
  <2>2. Underway = 0 /\ Underway' = 1 /\ Len(answers[c]) \in Nat
    BY <1>2 DEF IInv, TypeOK, Underway
  <2>3. Made(c)' = IF c = channel THEN Made(c) + 1 ELSE Made(c)
    BY <1>2 DEF Made
  <2>4. CASE c = channel
    <3>1. Made(c) = attempts
      BY <2>4 DEF Made
    <3> QED BY <1>1, <2>1, <2>2, <2>3, <2>4, <3>1
  <2>5. CASE c # channel
    BY <2>1, <2>2, <2>3, <2>5
  <2> QED BY <2>4, <2>5
<1> QED BY <1>4, <1>5, <1>6, <1>7, <1>8 DEF IInv

(* A message leaves the way to its channel, accepted, refused or lost.     *)
LEMMA ArrivalIInv ==
  ASSUME IInv, NEW m \in sent, Accept(m) \/ Refuse(m)
  PROVE  IInv'
<1>1. /\ sent' \subseteq sent /\ accepted' \subseteq accepted \union {m}
      /\ UNCHANGED <<enabled, channel, step, attempts, results, rows, answers>>
  BY DEF Accept, Refuse
<1>2. TypeOK'
  BY <1>1 DEF IInv, TypeOK, Plan, Attempts
<1>3. PlanInv' /\ LoopInv' /\ RowsInv'
  BY <1>1 DEF IInv, PlanInv, LoopInv, RowsInv, Plan
<1>4. SentInv'
  BY <1>1 DEF IInv, SentInv, Made
<1>5. AnswersInv' /\ ResultTellsAnswers'
  BY <1>1 DEF IInv, AnswersInv, ResultTellsAnswers, Underway, Made
<1> QED BY <1>2, <1>3, <1>4, <1>5 DEF IInv

(* An HTTP error: another attempt after a pause, or the result.            *)
LEMMA HttpErrorIInv == IInv /\ HttpError => IInv'
<1> SUFFICES ASSUME IInv, HttpError PROVE IInv'
  OBVIOUS
<1>1. /\ step = "await" /\ Answered("error")
      /\ UNCHANGED <<enabled, channel, attempts, rows, sent, accepted>>
  BY DEF HttpError, net
<1>2. CASE attempts < MaxAttempts(channel)
  <2>1. step' = "backoff" /\ UNCHANGED results
    BY <1>2 DEF HttpError
  <2>2. channel \in Channels /\ results[channel] = None
    BY <1>1, Order DEF IInv, TypeOK, PlanInv
  <2>3. /\ answers' \in [Channels -> Seq({"ok", "error", "none"})]
        /\ Len(answers[channel]) \in Nat
        /\ Len(answers'[channel]) = Len(answers[channel]) + 1
        /\ answers'[channel][Len(answers[channel]) + 1] = "error"
        /\ \A i \in 1 .. Len(answers[channel]) : answers'[channel][i] = answers[channel][i]
        /\ \A c \in Channels : c # channel => answers'[c] = answers[c]
    BY <1>1, <2>2, AnsweredMore DEF IInv
  <2>4. TypeOK'
    BY <1>1, <2>1, <2>3 DEF IInv, TypeOK, Plan, Attempts
  <2>5. PlanInv' /\ LoopInv'
    BY <1>1, <1>2, <2>1 DEF IInv, PlanInv, LoopInv, Plan
  <2>6. SentInv' /\ RowsInv'
    BY <1>1, <2>1 DEF IInv, SentInv, RowsInv, Made
  <2>7. AnswersInv'
    <3> SUFFICES ASSUME NEW c \in Channels, results[c] = None
                 PROVE  /\ Len(answers'[c]) + (IF c = channel THEN 0 ELSE 0) = Made(c)
                        /\ \A i \in 1 .. Len(answers'[c]) : answers'[c][i] = "error"
      BY <1>1, <2>1 DEF AnswersInv, Underway, Made
    <3>1. /\ Len(answers[c]) + (IF c = channel THEN 1 ELSE 0) = Made(c)
          /\ \A i \in 1 .. Len(answers[c]) : answers[c][i] = "error"
      BY <1>1 DEF IInv, AnswersInv, Underway
    <3>2. CASE c = channel
      BY <2>3, <3>1, <3>2
    <3>3. CASE c # channel
      BY <2>3, <3>1, <3>3
    <3> QED BY <3>2, <3>3
  <2>8. ResultTellsAnswers'
    BY <2>1, <2>2, <2>3 DEF IInv, ResultTellsAnswers
  <2> QED BY <2>4, <2>5, <2>6, <2>7, <2>8 DEF IInv
<1>3. CASE ~(attempts < MaxAttempts(channel))
  BY <1>1, <1>3, ResultIInv DEF HttpError
<1> QED BY <1>2, <1>3

LEMMA BackoffOverIInv == IInv /\ BackoffOver => IInv'
<1> SUFFICES ASSUME IInv, BackoffOver PROVE IInv'
  OBVIOUS
<1>1. /\ step = "backoff" /\ step' = "post"
      /\ UNCHANGED <<enabled, channel, attempts, results, rows, sent, accepted, answers>>
  BY DEF BackoffOver, net
<1>2. TypeOK'
  BY <1>1 DEF IInv, TypeOK, Plan, Attempts
<1>3. PlanInv' /\ LoopInv'
  BY <1>1 DEF IInv, PlanInv, LoopInv, Plan
<1>4. SentInv' /\ RowsInv'
  BY <1>1 DEF IInv, SentInv, RowsInv, Made
<1>5. AnswersInv' /\ ResultTellsAnswers'
  BY <1>1 DEF IInv, AnswersInv, ResultTellsAnswers, Underway, Made
<1> QED BY <1>2, <1>3, <1>4, <1>5 DEF IInv

(* The file, written or not, is done with after one attempt.               *)
LEMMA WriteFileIInv == IInv /\ WriteFile => IInv'
<1> SUFFICES ASSUME IInv, WriteFile PROVE IInv'
  OBVIOUS
<1>1. PICK ok \in BOOLEAN :
        /\ results' = [results EXCEPT !["file"] = [success |-> ok, attempts |-> 1]]
        /\ Answered(IF ok THEN "ok" ELSE "none")
        /\ accepted' = IF ok THEN accepted \union {<<"file", 1>>} ELSE accepted
  BY DEF WriteFile
<1>2. /\ channel = "file" /\ step = "post" /\ attempts' = 1 /\ step' = "record"
      /\ UNCHANGED <<enabled, channel, rows, sent>>
  BY DEF WriteFile
<1>3. /\ "file" \in Channels /\ MaxAttempts("file") = 1 /\ results["file"] = None
      /\ "file" \in Plan /\ <<"file", 1>> \in Attempts
  BY <1>2, Limits, Messages DEF IInv, TypeOK, PlanInv, Channels
<1>4. /\ results' \in [Channels -> [success : BOOLEAN, attempts : Nat] \union {None}]
      /\ results'["file"] = [success |-> ok, attempts |-> 1]
      /\ results'["file"] # None
      /\ \A c \in Channels : c # "file" => results'[c] = results[c]
  BY <1>1, <1>3, NAssumption DEF IInv, TypeOK
<1>5. accepted' \subseteq accepted \union {<<"file", 1>>}
  BY <1>1
<1>11. PICK outcome \in {"ok", "error", "none"} :
         Answered(outcome) /\ (outcome = "ok" <=> ok) /\ outcome # "error"
  BY <1>1
<1>12. /\ Len(answers["file"]) = 0 /\ Len(answers'["file"]) = 1
       /\ answers'["file"][1] = outcome
       /\ answers' \in [Channels -> Seq({"ok", "error", "none"})]
       /\ \A c \in Channels : c # "file" => answers'[c] = answers[c]
  <2>1. Len(answers["file"]) = 0
    <3>1. attempts = 0
      BY <1>2, <1>3 DEF IInv, TypeOK, LoopInv
    <3>2. Len(answers["file"]) + 0 = attempts
      BY <1>2, <1>3 DEF IInv, AnswersInv, Underway, Made
    <3>3. Len(answers["file"]) \in Nat
      BY <1>3 DEF IInv, TypeOK
    <3> QED BY <3>1, <3>2, <3>3
  <2> QED BY <1>2, <1>3, <1>11, <2>1, AnsweredMore DEF IInv
<1>6. TypeOK'
  <2>1. accepted' \subseteq Attempts
    BY <1>3, <1>5 DEF IInv, TypeOK
  <2> QED BY <1>2, <1>3, <1>4, <1>12, <2>1 DEF IInv, TypeOK, Plan, Attempts
<1>7. PlanInv' /\ LoopInv'
  BY <1>2, <1>3, <1>4 DEF IInv, PlanInv, LoopInv, Plan, Channels
<1>8. SentInv'
  <2> SUFFICES ASSUME NEW m \in sent' \union accepted' PROVE m[2] <= Made(m[1])'
    BY DEF SentInv
  <2>1. CASE m = <<"file", 1>>
    BY <1>2, <2>1 DEF Made
  <2>2. CASE m \in sent \union accepted
    <3>1. m[1] \in Channels /\ m[2] \in Nat /\ m[2] >= 1 /\ m[2] <= Made(m[1])
          /\ (m[1] = "file" => m[2] <= 1)
      BY <2>2, MessageParts, Limits DEF IInv, TypeOK, SentInv
    <3> QED BY <1>2, <1>4, <3>1 DEF Made
  <2> QED BY <1>2, <1>5, <2>1, <2>2
<1>9. RowsInv'
  BY <1>2, <1>3, <1>4 DEF IInv, RowsInv, TypeOK
<1>10. AnswersInv'
  BY <1>2, <1>4, <1>12 DEF IInv, AnswersInv, Underway, Made
<1>13. ResultTellsAnswers'
  <2> SUFFICES ASSUME NEW c \in Channels, results'[c] # None
               PROVE  LET n    == results'[c].attempts
                          told == answers'[c]
                      IN  /\ n >= 1 /\ Len(told) = n
                          /\ \A i \in 1 .. n - 1 : told[i] = "error"
                          /\ told[n] = "error" => n = MaxAttempts(c)
                          /\ results'[c].success <=> told[n] = "ok"
    BY DEF ResultTellsAnswers
  <2>1. CASE c = "file"
    <3>1. results'[c].attempts = 1 /\ results'[c].success = ok
      BY <1>4, <2>1
    <3> QED BY <1>3, <1>11, <1>12, <2>1, <3>1
  <2>2. CASE c # "file"
    BY <1>4, <1>12, <2>2 DEF IInv, ResultTellsAnswers
  <2> QED BY <2>1, <2>2
<1> QED BY <1>6, <1>7, <1>8, <1>9, <1>10, <1>13 DEF IInv

(* The row, and on to the next channel of the plan, which has no result.   *)
LEMMA RecordIInv == IInv /\ Record => IInv'
<1> SUFFICES ASSUME IInv, Record PROVE IInv'
  OBVIOUS
<1>1. /\ channel # "none" /\ step = "record" /\ channel' = After(channel)
      /\ step' = "post" /\ attempts' = 0
      /\ rows' \subseteq rows \union
           {[channel |-> channel, success |-> results[channel].success]}
      /\ UNCHANGED <<enabled, results, sent, accepted, answers>>
  BY DEF Record, net
<1>2. /\ channel \in Plan /\ channel \in Channels /\ results[channel] # None
      /\ results[channel] \in [success : BOOLEAN, attempts : Nat]
      /\ results[channel].attempts = attempts
  BY <1>1, Order DEF IInv, TypeOK, PlanInv, LoopInv
<1>3. /\ channel' \in Plan \union {"none"}
      /\ channel' # "none" => channel = "slack" /\ channel' = "teams"
      /\ channel = "slack" /\ "teams" \in enabled => channel' = "teams"
  BY <1>1, <1>2, Order DEF IInv, TypeOK, Channels
<1>4. TypeOK'
  BY <1>1, <1>2, <1>3, Limits DEF IInv, TypeOK, Plan, Attempts, Channels
<1>5. PlanInv'
  <2>1. channel' = "none" => \A c \in Plan : results[c] # None
    BY <1>1, <1>2, <1>3 DEF IInv, TypeOK, PlanInv, Plan
  <2> QED BY <1>1, <1>2, <1>3, <2>1 DEF IInv, PlanInv, Plan
<1>6. LoopInv'
  BY <1>1, <1>3, Limits DEF LoopInv, Channels
<1>7. SentInv'
  <2> SUFFICES ASSUME NEW m \in sent \union accepted PROVE m[2] <= Made(m[1])'
    BY <1>1 DEF SentInv
  <2>1. m[1] \in Channels /\ m[2] <= Made(m[1])
    BY MessageParts DEF IInv, TypeOK, SentInv
  <2>2. m[1] # channel'
    <3>1. CASE m[1] = "teams" /\ channel' = "teams"
      <4>1. results["teams"] = None /\ channel = "slack"
        BY <1>3, <3>1 DEF IInv, PlanInv
      <4> QED BY <2>1, <3>1, <4>1, MessageParts, Limits DEF IInv, TypeOK, Made
    <3> QED BY <1>3, <2>1, <3>1, Limits
  <2> QED BY <1>1, <1>2, <2>1, <2>2 DEF Made
<1>8. RowsInv'
  BY <1>1, <1>2 DEF IInv, RowsInv
<1>9. AnswersInv'
  <2> SUFFICES ASSUME NEW c \in Channels, results[c] = None
               PROVE  /\ Len(answers[c]) = 0
                      /\ \A i \in 1 .. Len(answers[c]) : answers[c][i] = "error"
    BY <1>1, NAssumption DEF AnswersInv, Underway, Made
  <2>1. c # channel
    BY <1>2
  <2> QED BY <2>1 DEF IInv, TypeOK, AnswersInv, Made
<1>10. ResultTellsAnswers'
  BY <1>1 DEF IInv, ResultTellsAnswers
<1> QED BY <1>4, <1>5, <1>6, <1>7, <1>8, <1>9, <1>10 DEF IInv

-----------------------------------------------------------------------------
LEMMA NextIInv == IInv /\ [Next]_vars => IInv'
<1> SUFFICES ASSUME IInv, [Next]_vars PROVE IInv'
  OBVIOUS
<1>1. CASE Post
  BY <1>1, PostIInv
<1>2. CASE AnswerOk
  BY <1>2, ResultIInv DEF AnswerOk, net
<1>3. CASE HttpError
  BY <1>3, HttpErrorIInv
<1>4. CASE PostFails
  BY <1>4, ResultIInv DEF PostFails, net
<1>5. CASE BackoffOver
  BY <1>5, BackoffOverIInv
<1>6. CASE WriteFile
  BY <1>6, WriteFileIInv
<1>7. CASE Record
  BY <1>7, RecordIInv
<1>8. ASSUME NEW m \in sent, Accept(m) \/ Refuse(m) PROVE IInv'
  BY <1>8, ArrivalIInv
<1>9. CASE UNCHANGED vars
  BY <1>9 DEF vars, IInv, TypeOK, PlanInv, LoopInv, SentInv, RowsInv, AnswersInv,
              ResultTellsAnswers, Plan, Attempts, Made, Underway
<1> QED
  BY <1>1, <1>2, <1>3, <1>4, <1>5, <1>6, <1>7, <1>8, <1>9 DEF Next, Step

LEMMA SpecIInv == Spec => []IInv
  BY InitIInv, NextIInv, PTL DEF Spec

(* Channels, attempts, results and messages have their types.              *)
THEOREM TypeCorrect == Spec => []TypeOK
<1>1. IInv => TypeOK
  BY DEF IInv
<1> QED BY <1>1, SpecIInv, PTL

(* No failure of a channel keeps another from its turn, and the trail      *)
(* repeats what run returns.                                               *)
THEOREM ChannelsTried == Spec => []EveryChannelTried
<1>1. IInv => EveryChannelTried
  BY DEF IInv, PlanInv, RowsInv, EveryChannelTried
<1> QED BY <1>1, SpecIInv, PTL

(* What run returns of a channel is the story of its attempts: HTTP errors *)
(* only before the last, all attempts used if it was one too, success      *)
(* exactly when it was a 2xx.                                              *)
THEOREM ResultsTellAnswers == Spec => []ResultTellsAnswers
<1>1. IInv => ResultTellsAnswers
  BY DEF IInv
<1> QED BY <1>1, SpecIInv, PTL

(* A channel never has more messages than its result counts attempts,      *)
(* although each failed attempt may yet be accepted.                       *)
THEOREM DeliveriesCounted == Spec => []DeliveryBudget
<1>1. IInv => DeliveryBudget
  <2> SUFFICES ASSUME IInv, NEW c \in Channels, results[c] # None
               PROVE  Cardinality({m \in sent \union accepted : m[1] = c})
                        <= results[c].attempts
    BY DEF DeliveryBudget
  <2> DEFINE S == {m \in sent \union accepted : m[1] = c}
             n == results[c].attempts
  <2>1. n \in Nat
    BY DEF IInv, TypeOK
  <2>2. Made(c) = n
    BY Limits DEF IInv, PlanInv, LoopInv, Made
  <2>3. S \in SUBSET Attempts /\ \A m \in S : m[1] = c /\ m[2] <= n
    BY <2>2 DEF IInv, TypeOK, SentInv
  <2> QED BY <2>1, <2>3, Numbered
<1> QED BY <1>1, SpecIInv, PTL
=============================================================================
