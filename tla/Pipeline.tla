------------------------------- MODULE Pipeline -------------------------------
(***************************************************************************)
(* One submission after another through the service: submit_expense        *)
(* (main.py), CompliancePipeline.process (orchestrator/pipeline.py), the   *)
(* supervisor ExpenseAuditorAgent with its two workers under               *)
(* BaseAgent.execute (agents/), and the audit trail (core/audit_trail.py). *)
(* The requests are coroutines of one process: an action is what one of    *)
(* them does from an await to the next.                                    *)
(*                                                                         *)
(* The decision itself is PolicyRules, where its policy comes from is      *)
(* PolicyWorker, what an alert goes through is Notifications.              *)
(***************************************************************************)
EXTENDS Naturals, Sequences, FiniteSets, SequencesExt

CONSTANTS
  Requests,
  Alerts,        \* channels an alert goes to: one NOTIFICATION_SENT row each
  MaxBoots       \* bound: processes started one after the other

ASSUME PAssumption ==
  /\ IsFiniteSet(Requests)
  /\ Alerts \in Nat \ {0} /\ MaxBoots \in Nat \ {0}

Agents == {"supervisor", "policy", "communicator"}

VARIABLES
  process,      \* "new" (not initialized), "up" or "down"
  boots,        \* processes started so far
  pc,           \* per request: where its coroutine is, "answered", or "lost"
  kind,         \* per request: what the payload is like
  verdict,      \* per request: ComplianceStatus, "none" before
  failure,      \* per request: http status of the exception under way, or 0
  rows,         \* per request: its record() calls, [type, stored]
  tried,        \* per request: dispatches of its alert begun, whatever they come to (ghost)
  response,     \* per request: [status, verdict] once answered
  runs, errors, \* per agent: _run_count, _error_count
  stats,        \* _stats: total_requests, approved, flagged, errors
  served        \* requests answered by the running process (ghost)

work == <<verdict, failure, rows, tried>>
counters == <<runs, errors>>
front == <<response, stats, served>>
vars == <<process, boots, pc, kind, work, counters, front>>

NoResponse == [status |-> 0, verdict |-> "none"]
Zero == [a \in Agents |-> 0]
Figures == {"total", "approved", "flagged", "errors"}
NoStats == [f \in Figures |-> 0]

Idle == {"new", "answered", "lost"}
Active == {r \in Requests : pc[r] \notin Idle}

Init ==
  /\ process = "new" /\ boots = 1
  /\ pc = [r \in Requests |-> "new"]
  /\ kind \in [Requests -> {"valid", "blank", "bad_key"}]
  /\ verdict = [r \in Requests |-> "none"]
  /\ failure = [r \in Requests |-> 0]
  /\ rows = [r \in Requests |-> <<>>]
  /\ tried = [r \in Requests |-> 0]
  /\ response = [r \in Requests |-> NoResponse]
  /\ runs = Zero /\ errors = Zero
  /\ stats = NoStats
  /\ served = {}

-----------------------------------------------------------------------------
(* AuditTrailService.record: the row is stored, or the database fails and  *)
(* record returns as if it had been.                                       *)
Record(r, type) ==
  \E stored \in BOOLEAN :
    rows' = [rows EXCEPT ![r] = Append(@, [type |-> type, stored |-> stored])]

Goto(r, label) == pc' = [pc EXCEPT ![r] = label]
Count(counter, as) == [a \in Agents |-> IF a \in as THEN counter[a] + 1 ELSE counter[a]]

(* submit_expense once process() has returned: answer and statistics.      *)
Respond(r, answer, what) ==
  /\ response' = [response EXCEPT ![r] = answer]
  /\ stats' = [stats EXCEPT !["total"] = @ + 1, ![what] = @ + 1]
  /\ served' = served \union {r}
  /\ Goto(r, "answered")

(* process() before startup has finished.                                  *)
NotStarted(r) ==
  /\ process = "new" /\ pc[r] = "new"
  /\ Respond(r, [status |-> 503, verdict |-> "none"], "errors")
  /\ UNCHANGED <<process, boots, kind, work, counters>>

(* process() calls the supervisor's execute.                               *)
Submit(r) ==
  /\ process = "up" /\ pc[r] = "new"
  /\ runs' = Count(runs, {"supervisor"})
  /\ Goto(r, "received")
  /\ UNCHANGED <<process, boots, kind, work, errors, front>>

HttpStatus(k) == IF k = "blank" THEN 422 ELSE 401

\* The security check is left out.
ReceivedUnchecked(r) ==
  /\ pc[r] = "received"
  /\ Record(r, "PAYLOAD_RECEIVED")
  /\ Goto(r, "validated")
  /\ UNCHANGED <<process, boots, kind, verdict, failure, tried, counters, front>>

(* before_run, then _validate_inputs: the security gate.                   *)
Received(r) ==
  /\ pc[r] = "received"
  /\ Record(r, "PAYLOAD_RECEIVED")
  /\ IF kind[r] = "valid"
       THEN Goto(r, "validated") /\ UNCHANGED <<failure, errors>>
       ELSE /\ Goto(r, "failing")
            /\ failure' = [failure EXCEPT ![r] = HttpStatus(kind[r])]
            /\ errors' = Count(errors, {"supervisor"})
  /\ UNCHANGED <<process, boots, kind, verdict, tried, runs, front>>

(* run, gate 1; the policy worker's execute starts.                        *)
Validated(r) ==
  /\ pc[r] = "validated"
  /\ Record(r, "SECURITY_VALIDATED")
  /\ runs' = Count(runs, {"policy"})
  /\ Goto(r, "evaluating")
  /\ UNCHANGED <<process, boots, kind, verdict, failure, tried, errors, front>>

(* The policy worker decides, with the bridge's policy or the local one:   *)
(* no MCPError leaves it, see PolicyWorker.                                *)
Evaluate(r) ==
  /\ pc[r] = "evaluating"
  /\ \E v \in {"APPROVED", "FLAGGED"} : verdict' = [verdict EXCEPT ![r] = v]
  /\ Goto(r, "evaluated")
  /\ UNCHANGED <<process, boots, kind, failure, rows, tried, counters, front>>

\* The supervisor does not count what its worker raised.
EvaluateFailsOnce(r) ==
  /\ pc[r] = "evaluating"
  /\ failure' = [failure EXCEPT ![r] = 500]
  /\ errors' = Count(errors, {"policy"})
  /\ Goto(r, "failing")
  /\ UNCHANGED <<process, boots, kind, verdict, rows, tried, runs, front>>

(* The fetch raises what is no MCPError: both agents count an error.       *)
EvaluateFails(r) ==
  /\ pc[r] = "evaluating"
  /\ failure' = [failure EXCEPT ![r] = 500]
  /\ errors' = Count(errors, {"policy", "supervisor"})
  /\ Goto(r, "failing")
  /\ UNCHANGED <<process, boots, kind, verdict, rows, tried, runs, front>>

\* Gate 3 with the outcomes swapped.
EvaluatedSwapped(r) ==
  /\ pc[r] = "evaluated"
  /\ Record(r, "POLICY_EVALUATED")
  /\ IF verdict[r] = "APPROVED"
       THEN runs' = Count(runs, {"communicator"}) /\ Goto(r, "notifying")
       ELSE Goto(r, "deciding") /\ UNCHANGED runs
  /\ UNCHANGED <<process, boots, kind, verdict, failure, tried, errors, front>>

(* The worker's after_run, then gate 3 of the supervisor.                  *)
Evaluated(r) ==
  /\ pc[r] = "evaluated"
  /\ Record(r, "POLICY_EVALUATED")
  /\ IF verdict[r] = "FLAGGED"
       THEN runs' = Count(runs, {"communicator"}) /\ Goto(r, "notifying")
       ELSE Goto(r, "deciding") /\ UNCHANGED runs
  /\ UNCHANGED <<process, boots, kind, verdict, failure, tried, errors, front>>

\* A run of the communicator for every channel.
DispatchCounted(r) ==
  /\ pc[r] = "notifying"
  /\ tried' = [tried EXCEPT ![r] = @ + 1]
  /\ runs' = Count(runs, {"communicator"})
  /\ Goto(r, "dispatching")
  /\ UNCHANGED <<process, boots, kind, verdict, failure, rows, errors, front>>

(* ResolutionCommunicator.run, one channel after the other: the dispatch   *)
(* begins, and from here on a message may be out.                          *)
Dispatch(r) ==
  /\ pc[r] = "notifying"
  /\ tried' = [tried EXCEPT ![r] = @ + 1]
  /\ Goto(r, "dispatching")
  /\ UNCHANGED <<process, boots, kind, verdict, failure, rows, counters, front>>

(* It returns a result, a success or not: all that depends on it is what   *)
(* the row will say, see Notifications.                                    *)
Dispatched(r) ==
  /\ pc[r] = "dispatching"
  /\ Goto(r, "announcing")
  /\ UNCHANGED <<process, boots, kind, work, counters, front>>

(* The channel's row, and on to the next one.                              *)
Announce(r) ==
  /\ pc[r] = "announcing"
  /\ Record(r, "NOTIFICATION_SENT")
  /\ Goto(r, IF tried[r] = Alerts THEN "deciding" ELSE "notifying")
  /\ UNCHANGED <<process, boots, kind, verdict, failure, tried, counters, front>>

(* Gate 4: the decision's row.                                             *)
Decide(r) ==
  /\ pc[r] = "deciding"
  /\ Record(r, verdict[r])
  /\ Goto(r, "returning")
  /\ UNCHANGED <<process, boots, kind, verdict, failure, tried, counters, front>>

(* execute and process return the ComplianceResponse.                      *)
Return(r) ==
  /\ pc[r] = "returning"
  /\ Respond(r, [status |-> 200, verdict |-> verdict[r]],
             IF verdict[r] = "APPROVED" THEN "approved" ELSE "flagged")
  /\ UNCHANGED <<process, boots, kind, work, counters>>

\* record() lets the database's exception out, and the coroutine dies of it.
FailingUnguarded(r) ==
  /\ pc[r] = "failing"
  /\ Record(r, "SYSTEM_ERROR")
  /\ Goto(r, IF Last(rows'[r]).stored THEN "raising" ELSE "lost")
  /\ UNCHANGED <<process, boots, kind, verdict, failure, tried, counters, front>>

(* on_error of the supervisor.                                             *)
Failing(r) ==
  /\ pc[r] = "failing"
  /\ Record(r, "SYSTEM_ERROR")
  /\ Goto(r, "raising")
  /\ UNCHANGED <<process, boots, kind, verdict, failure, tried, counters, front>>

(* process() turns the exception into an ErrorResponse.                    *)
ReturnError(r) ==
  /\ pc[r] = "raising"
  /\ Respond(r, [status |-> failure[r], verdict |-> "none"], "errors")
  /\ UNCHANGED <<process, boots, kind, work, counters>>

-----------------------------------------------------------------------------
(* startup, the end of the process by accident or by shutdown (which waits *)
(* for the requests under way), and the next process.  What was in memory  *)
(* is gone, the rows stay.                                                 *)
Startup ==
  /\ process = "new"
  /\ process' = "up"
  /\ UNCHANGED <<boots, pc, kind, work, counters, front>>

Shutdown ==
  /\ process = "up" /\ Active = {}
  /\ process' = "down"
  /\ UNCHANGED <<boots, pc, kind, work, counters, front>>

Crash ==
  /\ process \in {"new", "up"}
  /\ process' = "down"
  /\ pc' = [r \in Requests |-> IF r \in Active THEN "lost" ELSE pc[r]]
  /\ UNCHANGED <<boots, kind, work, counters, front>>

Boot ==
  /\ process = "down" /\ boots < MaxBoots
  /\ process' = "new" /\ boots' = boots + 1
  /\ runs' = Zero /\ errors' = Zero
  /\ stats' = NoStats
  /\ served' = {}
  /\ UNCHANGED <<pc, kind, work, response>>

Step(r) ==
  \/ Received(r) \/ Validated(r) \/ Evaluate(r) \/ EvaluateFails(r) \/ Evaluated(r)
  \/ Dispatch(r) \/ Dispatched(r) \/ Announce(r) \/ Decide(r) \/ Return(r)
  \/ Failing(r) \/ ReturnError(r)

Next ==
  \/ \E r \in Requests : NotStarted(r) \/ Submit(r) \/ Step(r)
  \/ Startup \/ Shutdown \/ Crash \/ Boot

(* A coroutine that can run is run, and every await inside has a timeout.  *)
Spec == Init /\ [][Next]_vars /\ \A r \in Requests : WF_vars(Step(r))

-----------------------------------------------------------------------------
Types == {"PAYLOAD_RECEIVED", "SECURITY_VALIDATED", "POLICY_EVALUATED",
          "NOTIFICATION_SENT", "APPROVED", "FLAGGED", "SYSTEM_ERROR"}

Labels == Idle \union {"received", "validated", "evaluating", "evaluated", "notifying",
                       "dispatching", "announcing", "deciding", "returning", "failing",
                       "raising"}

TypeOK ==
  /\ process \in {"new", "up", "down"}
  /\ boots \in 1 .. MaxBoots
  /\ pc \in [Requests -> Labels]
  /\ kind \in [Requests -> {"valid", "blank", "bad_key"}]
  /\ verdict \in [Requests -> {"none", "APPROVED", "FLAGGED"}]
  /\ failure \in [Requests -> {0, 401, 422, 500}]
  /\ rows \in [Requests -> Seq([type : Types, stored : BOOLEAN])]
  /\ tried \in [Requests -> 0 .. Alerts]
  /\ response \in [Requests -> [status : {0, 200, 401, 422, 500, 503},
                                verdict : {"none", "APPROVED", "FLAGGED"}]]
  /\ runs \in [Agents -> 0 .. Cardinality(Requests)]
  /\ errors \in [Agents -> 0 .. Cardinality(Requests)]
  /\ stats \in [Figures -> 0 .. Cardinality(Requests)]
  /\ served \subseteq Requests

-----------------------------------------------------------------------------
InGates == {"validated", "evaluating", "evaluated", "notifying", "dispatching", "announcing",
            "deciding", "returning"}

(* Past the security check, as the requests under way and the answers show. *)
Checked ==
  {r \in Requests : /\ kind[r] = "valid" /\ pc[r] # "lost"
                    /\ pc[r] \in InGates \/ failure[r] = 500 \/ response[r].status = 200}

Meaning(reply) ==
  CASE reply.status = 200          -> reply.verdict
    [] reply.status = 503          -> "unavailable"
    [] reply.status = 500          -> "failed"
    [] reply.status \in {401, 422} -> "rejected"

Answer(r) ==
  CASE pc[r] = "new"      -> "none"
    [] pc[r] = "lost"     -> "lost"
    [] pc[r] = "answered" -> Meaning(response[r])
    [] pc[r] \notin Idle  -> "pending"

Contract == INSTANCE ComplianceContract WITH
  answer <- [r \in Requests |-> Answer(r)], checked <- Checked

(* The service implements its contract, under every interleaving of the    *)
(* requests and through crashes, whatever the database and bridge do.      *)
KeepsContract == Contract!Spec

Repeat(type) == [i \in 1 .. Alerts |-> type]

Approval == <<"PAYLOAD_RECEIVED", "SECURITY_VALIDATED", "POLICY_EVALUATED", "APPROVED">>
Flagging == <<"PAYLOAD_RECEIVED", "SECURITY_VALIDATED", "POLICY_EVALUATED">>
              \o Repeat("NOTIFICATION_SENT") \o <<"FLAGGED">>
Rejection == <<"PAYLOAD_RECEIVED", "SYSTEM_ERROR">>
Failure == <<"PAYLOAD_RECEIVED", "SECURITY_VALIDATED", "SYSTEM_ERROR">>

Written(r) == [i \in DOMAIN rows[r] |-> rows[r][i].type]

Paths == {Approval, Flagging, Rejection, Failure}

Announced(r) == Cardinality({i \in DOMAIN rows[r] : rows[r][i].type = "NOTIFICATION_SENT"})

\* The events of r the database kept.
Kept(r) == {rows[r][i].type : i \in {j \in DOMAIN rows[r] : rows[r][j].stored}}

(* record() is called for exactly the events the answer implies, in their  *)
(* order, and for a beginning of them while the request is under way or    *)
(* when a crash cut it short; no dispatch is announced that was not begun, *)
(* and at most the one under way is missing.  The database may lose any of *)
(* these rows, and so tells less, but what it did keep is true: a rejected *)
(* request never shows as validated, no row contradicts the answer, and a  *)
(* FLAGGED one was written only after every channel was tried.             *)
TrailTellsAnswer ==
  \A r \in Requests :
    /\ Answer(r) = "APPROVED" => Written(r) = Approval
    /\ Answer(r) = "FLAGGED"  => Written(r) = Flagging
    /\ Answer(r) = "rejected" => Written(r) = Rejection
    /\ Answer(r) = "failed"   => Written(r) = Failure
    /\ \E path \in Paths : IsPrefix(Written(r), path)
    /\ Announced(r) <= tried[r] /\ tried[r] <= Announced(r) + 1
    /\ "SECURITY_VALIDATED" \in Kept(r) => kind[r] = "valid"
    /\ "APPROVED" \in Kept(r) => Answer(r) \in {"APPROVED", "pending", "lost"} /\ tried[r] = 0
    /\ "FLAGGED" \in Kept(r) => Answer(r) \in {"FLAGGED", "pending", "lost"} /\ tried[r] = Alerts
    /\ "SYSTEM_ERROR" \in Kept(r) => Answer(r) \in {"rejected", "failed", "pending", "lost"}

(* The statistics of the running process count every answer it gave, once  *)
(* and under the right heading.                                            *)
StatsAgree ==
  LET answered(a) == Cardinality({r \in served : Answer(r) = a}) IN
  /\ stats["total"] = Cardinality(served)
  /\ stats["approved"] = answered("APPROVED")
  /\ stats["flagged"] = answered("FLAGGED")
  /\ stats["errors"] = stats["total"] - stats["approved"] - stats["flagged"]

(* The agents' counters agree with each other and with the requests: whom  *)
(* an agent ran for, and on which of them it failed.                       *)
MetricsAgree ==
  process # "down" =>
    LET mine == Active \union {r \in served : Answer(r) # "unavailable"}
        past == {r \in mine : r \in Checked /\ pc[r] # "validated"}
    IN /\ runs["supervisor"] = Cardinality(mine)
       /\ errors["supervisor"] = Cardinality({r \in mine : failure[r] # 0})
       /\ runs["policy"] = Cardinality(past)
       /\ errors["policy"] = Cardinality({r \in past : failure[r] = 500})
       /\ runs["communicator"] =
            Cardinality({r \in past : verdict[r] = "FLAGGED" /\ pc[r] # "evaluated"})
       /\ errors["communicator"] = 0

(* What /stats and /metrics show is true of the requests, whatever their   *)
(* interleaving and outcomes: neither loses, repeats or misfiles one.      *)
CountersAgree == StatsAgree /\ MetricsAgree

(* A submission is answered unless the process ends, database failures or  *)
(* not: audit_trail.py:102, "Audit failures must NEVER crash the           *)
(* compliance pipeline".                                                   *)
SubmissionsAnswered ==
  \A r \in Requests : pc[r] = "received" ~> (pc[r] = "answered" \/ process = "down")
=============================================================================
