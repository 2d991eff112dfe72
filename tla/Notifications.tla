---------------------------- MODULE Notifications ----------------------------
(***************************************************************************)
(* agents/resolution_communicator.py: one flagged expense announced on     *)
(* every configured channel, one after the other, each with its own retry  *)
(* loop.                                                                   *)
(*                                                                         *)
(* A message posted to a webhook is accepted or refused before, after or   *)
(* without an answer reaching the service, and the answer need not tell    *)
(* which: Slack reports a refusal with status 200.                         *)
(***************************************************************************)
EXTENDS Naturals, Sequences, FiniteSets

CONSTANTS
  SlackAttempts, TeamsAttempts,   \* _SLACK_MAX_ATTEMPTS, _TEAMS_MAX_ATTEMPTS
  None

ASSUME NAssumption ==
  /\ SlackAttempts \in Nat \ {0} /\ TeamsAttempts \in Nat \ {0}
  /\ None \notin [success : BOOLEAN, attempts : Nat]

Channels == {"slack", "teams", "file"}

MaxAttempts(c) ==
  CASE c = "slack" -> SlackAttempts
    [] c = "teams" -> TeamsAttempts
    [] c = "file"  -> 1

VARIABLES
  enabled,      \* the channels configured: _slack_enabled, _teams_enabled
  channel,      \* the channel being tried, "none" once run is over
  step,         \* "post", "await", "backoff" or "record"
  attempts,     \* attempt_count of the current channel
  results,      \* per channel: None, or its NotificationResult
  rows,         \* NOTIFICATION_SENT rows in the audit trail: [channel, success]
  sent,         \* posts not yet accepted nor refused: <<channel, attempt>>
  accepted,     \* posts the channel accepted (ghost)
  answers       \* per channel, what came back of each attempt (ghost)

vars == <<enabled, channel, step, attempts, results, rows, sent, accepted, answers>>
net == <<sent, accepted>>

Plan == IF enabled = {} THEN {"file"} ELSE enabled

\* Slack, then Teams; the file only when neither is configured.
First == IF enabled = {} THEN "file" ELSE IF "slack" \in enabled THEN "slack" ELSE "teams"
After(c) == IF c = "slack" /\ "teams" \in enabled THEN "teams" ELSE "none"

Init ==
  /\ enabled \in SUBSET {"slack", "teams"}
  /\ channel = First
  /\ step = "post"
  /\ attempts = 0
  /\ results = [c \in Channels |-> None]
  /\ rows = {}
  /\ sent = {} /\ accepted = {}
  /\ answers = [c \in Channels |-> <<>>]

-----------------------------------------------------------------------------
(* The dispatch to the current channel returns a NotificationResult.       *)
Result(success) ==
  /\ results' = [results EXCEPT ![channel] = [success |-> success, attempts |-> attempts]]
  /\ step' = "record"

\* The attempt ends with a 2xx status ("ok"), another status ("error"), or without
\* a usable answer ("none").
Answered(outcome) == answers' = [answers EXCEPT ![channel] = Append(@, outcome)]

\* The attempt is not counted.
PostUncounted ==
  /\ channel \in {"slack", "teams"} /\ step = "post"
  /\ sent' = sent \union {<<channel, attempts>>}
  /\ step' = "await"
  /\ UNCHANGED <<enabled, channel, attempts, results, rows, accepted, answers>>

(* An attempt: the message is posted.                                      *)
Post ==
  /\ channel \in {"slack", "teams"} /\ step = "post"
  /\ attempts' = attempts + 1
  /\ sent' = sent \union {<<channel, attempts'>>}
  /\ step' = "await"
  /\ UNCHANGED <<enabled, channel, results, rows, accepted, answers>>

(* The channel accepts a message, perhaps long after the service gave up.  *)
Accept(m) ==
  /\ sent' = sent \ {m}
  /\ accepted' = accepted \union {m}
  /\ UNCHANGED <<enabled, channel, step, attempts, results, rows, answers>>

(* The channel refuses a message, or the network loses it.                 *)
Refuse(m) ==
  /\ sent' = sent \ {m}
  /\ UNCHANGED <<enabled, channel, step, attempts, results, rows, accepted, answers>>

(* Any 2xx status is a success.  The body is not read: the message may     *)
(* have been refused, or not have been looked at yet.                      *)
AnswerOk ==
  /\ step = "await"
  /\ Answered("ok") /\ Result(TRUE)
  /\ UNCHANGED <<enabled, channel, attempts, rows, net>>

\* raise_for_status is forgotten: any answer counts as a success.
HttpErrorIsSuccess ==
  /\ step = "await"
  /\ Answered("error") /\ Result(TRUE)
  /\ UNCHANGED <<enabled, channel, attempts, rows, net>>

\* An attempt that ends in an HTTP error is not counted, nor its answer told.
HttpErrorForgiven ==
  /\ step = "await"
  /\ attempts' = attempts - 1
  /\ step' = "backoff"
  /\ UNCHANGED <<enabled, channel, results, rows, net, answers>>

(* Another status, HTTPStatusError: this says nothing of the message       *)
(* either; the loop backs off if it has an attempt left.                   *)
HttpError ==
  /\ step = "await"
  /\ Answered("error")
  /\ IF attempts < MaxAttempts(channel)
       THEN step' = "backoff" /\ UNCHANGED results
       ELSE Result(FALSE)
  /\ UNCHANGED <<enabled, channel, attempts, rows, net>>

\* The failure of one channel ends the whole run.
PostFailsRun ==
  /\ step = "await"
  /\ Answered("none")
  /\ channel' = "none"
  /\ UNCHANGED <<enabled, step, attempts, results, rows, net>>

(* Any other exception (timeout, connection lost) is not retried, and the  *)
(* message may still be on its way.                                        *)
PostFails ==
  /\ step = "await"
  /\ Answered("none") /\ Result(FALSE)
  /\ UNCHANGED <<enabled, channel, attempts, rows, net>>

BackoffOver ==
  /\ step = "backoff"
  /\ step' = "post"
  /\ UNCHANGED <<enabled, channel, attempts, results, rows, net, answers>>

(* _dispatch_local_file: the record is appended, or the write fails.       *)
WriteFile ==
  /\ channel = "file" /\ step = "post"
  /\ attempts' = 1
  /\ step' = "record"
  /\ \E ok \in BOOLEAN :
       /\ results' = [results EXCEPT !["file"] = [success |-> ok, attempts |-> 1]]
       /\ Answered(IF ok THEN "ok" ELSE "none")
       /\ accepted' = IF ok THEN accepted \union {<<"file", 1>>} ELSE accepted
  /\ UNCHANGED <<enabled, channel, rows, sent>>

(* _emit_audit writes the channel's row, unless the database refuses it,   *)
(* and run goes on to the next channel or returns.                         *)
Record ==
  /\ channel # "none" /\ step = "record"
  /\ \/ rows' = rows \union {[channel |-> channel, success |-> results[channel].success]}
     \/ UNCHANGED rows
  /\ channel' = After(channel)
  /\ step' = "post"
  /\ attempts' = 0
  /\ UNCHANGED <<enabled, results, net, answers>>

Step ==
  Post \/ AnswerOk \/ HttpError \/ PostFails \/ BackoffOver \/ WriteFile \/ Record

Next == Step \/ \E m \in sent : Accept(m) \/ Refuse(m)

(* Every post has a timeout and every backoff an end; the channels promise *)
(* nothing.                                                                *)
Spec == Init /\ [][Next]_vars /\ WF_vars(Step)

-----------------------------------------------------------------------------
Attempts == UNION {{<<c, n>> : n \in 1 .. MaxAttempts(c)} : c \in Channels}

TypeOK ==
  /\ enabled \subseteq {"slack", "teams"}
  /\ channel \in Plan \union {"none"}
  /\ step \in {"post", "await", "backoff", "record"}
  /\ attempts \in 0 .. (IF channel = "none" THEN 0 ELSE MaxAttempts(channel))
  /\ results \in [Channels -> [success : BOOLEAN, attempts : Nat] \union {None}]
  /\ rows \subseteq [channel : Channels, success : BOOLEAN]
  /\ sent \subseteq Attempts /\ accepted \subseteq Attempts
  /\ answers \in [Channels -> Seq({"ok", "error", "none"})]

(* resolution_communicator.py:113: "Failure on one channel does NOT block  *)
(* the other".  When run returns, every configured channel has a result    *)
(* and no other was touched; a row in the trail repeats a result.          *)
EveryChannelTried ==
  /\ channel = "none" => \A c \in Channels : results[c] # None <=> c \in Plan
  /\ \A row \in rows : results[row.channel] # None
                       /\ results[row.channel].success = row.success

(* What run reports of a channel is the story of its attempts: one answer  *)
(* each, another attempt after an HTTP error only (resending after a 2xx,  *)
(* or a post whose fate is unknown, would repeat the alert), giving up     *)
(* after such an error only with every attempt used, and "success" exactly *)
(* when the last status was 2xx.  Whether anyone was told it does not say. *)
ResultTellsAnswers ==
  \A c \in Channels : results[c] # None =>
    LET n    == results[c].attempts
        told == answers[c]
    IN  /\ n >= 1 /\ Len(told) = n
        /\ \A i \in 1 .. n - 1 : told[i] = "error"
        /\ told[n] = "error" => n = MaxAttempts(c)
        /\ results[c].success <=> told[n] = "ok"

(* The people on a channel read the alert at most as often as its result   *)
(* counts attempts, those still to be accepted included.                   *)
DeliveryBudget ==
  \A c \in Channels : results[c] # None =>
    Cardinality({m \in sent \union accepted : m[1] = c}) <= results[c].attempts

(* run ends, whatever the channels do: the request waits for it.           *)
RunEnds == <>[](channel = "none")
=============================================================================
