# NexusScale compliance core: TLA+ models, checks and proofs

The service receives an expense, decides in integer cents whether it is within
the policy that applies, alerts a team when it is not, and leaves an audit
trail. This directory models its core: the circuit breaker and the MCP client
in front of the policy bridge, the decision and where its policy comes from,
the notifications, the pipeline that runs a submission through all of it, the
session keys that let a submission in, and the launcher with the API process
and its live log stream.
TLC checks the modules on small instances; TLAPS proves the safety of the
breaker, the MCP client, the decision, the policy cache, the notifications, the
pipeline, the session keys and the log stream for every value of the constants.

`PROJECT.json` maps every definition to the lines it stands for and names, for
every property, a plausible bug that breaks it (the mutants: operators that
stand before the definition they replace).

Contents: [parts of the system](#1-the-system) ·
[modules](#2-the-modules) · [runs](#3-the-runs) · [bounds](#4-bounds) ·
[fairness](#5-fairness) · [proofs](#6-proofs) ·
[divergences](#7-where-the-code-and-its-documents-disagree) ·
[not modelled](#8-what-is-not-modelled) · [plan](#9-plan)

## 1. The system

One asyncio process serves HTTP. Its coroutines interleave at awaits only, so
every action of the models is what one coroutine does from an await to the
next. The bridge is another process; what is between the two can be late, lost
or answered after the client gave up. The audit database outlives the process.

| part | state | operations | talks to |
|---|---|---|---|
| circuit breaker, `core/circuit_breaker.py` | state, failure count, probe successes, time of the last failure | `call` (refuse or admit, then record the outcome), `reset` | wraps one `fn`; no lock is held across the await of it |
| MCP client, `mcp/client.py` | http pool, the breaker | `connect`, `disconnect`, `call_tool` with its retry loop | breaker outside, retries inside, bridge by HTTP |
| MCP tools, `mcp/tools.py` | none | `fetch_corporate_policy` (others unused) | MCP client |
| bridge, `mcp/server.py` (a stub) | policy file | JSON-RPC dispatch, policy lookup | reads `config/policy_rules.json` |
| domain models, `core/models.py` | none | coercion and bounds of the amount, `limit_cents`, `resolve_limit` | used by bridge's consumers and the worker |
| policy worker, `agents/policy_evaluator_worker.py` | policy cache with a TTL | `run`: fetch or fall back, compare | MCP tools, local ruleset |
| communicator, `agents/resolution_communicator.py` | none between runs | `run`: Slack, then Teams, or a local file, each with its retries | webhooks, audit trail |
| supervisor, `agents/expense_auditor_agent.py` over `agents/base_agent.py` | run and error counters per agent | `execute`: hook, guard, gates, hook or `on_error` | both workers, audit trail |
| pipeline, `orchestrator/pipeline.py` | the parts, `_initialized` | `startup`, `process`, `shutdown` | supervisor, MCP client |
| audit trail, `core/audit_trail.py` | rows in a database | `record` (never raises), queries | SQL database |
| security gate, `core/security.py` | the secret, cached per process | preflight, issue and verification of session keys | supervisor's guard, `/generate-session-key`, `start.py --genkey` |
| HTTP API, `main.py` | statistics | `submit_expense`, circuit reset, lifespan, read-only routes | pipeline |
| log broadcaster, `main.py` | queue of 500, websocket clients | `emit`, `broadcast_loop`, the handler of `/ws/logs` | logging, uvicorn's websockets |
| launcher, `start.py` | its list of subprocesses | start, wait, stop on Ctrl-C | bridge and API processes, by signals and a pipe |

What is hard in it, and what should hold:

- **Breaker.** The state is read before the awaited call and written after it.
  Calls admitted in one state end in another. It should open at its threshold,
  stay open for the timeout, let probes through afterwards, and never get stuck
  open.
- **Client.** The retry loop runs *inside* the breaker; a timed-out request
  may still run. A call should count as one failure at most, a tool should run at
  most once per attempt, and a refused call should never reach the bridge.
- **Decision.** `Decimal` on one side, integer cents on the other, a
  truncation between them, and two implementations of the rule lookup. The verdict should be
  the one of exact arithmetic, with the most specific rule of the file.
- **Cache.** Concurrent misses, answers stored in another order than they were
  given in, and entries older than they look. A decision should never use a policy that has been out
  of force for longer than the TTL and one fetch.
- **Notifications.** What an answer says need not be what became of the message. One
  channel should not hinder the other, a result should tell the answers it is made
  of, and duplicates should stay within the attempts it counts.
- **Pipeline.** Interleaved submissions, a database that fails in between, a
  process that ends anywhere. No verdict without the security check, no FLAGGED
  before every channel was tried, a trail whose rows are true whichever of them the
  database loses, and statistics and metrics that agree with the answers.
- **Session keys.** Issued on one host and verified on another, or by a later
  process of the same one, with clocks that differ and are set. A key should be
  accepted for its whole lifetime and not for longer, by its employee only.
- **Log stream.** A round of sends is interleaved with clients that join, leave
  and die. No client should miss, repeat or reorder an entry because of another one.
- **Launcher.** A Ctrl-C may come at any moment, and twice; the children get it too;
  the bridge may be stuck in a write, the API may wait for ever for a handler.
  Nothing should survive but what cannot be reached.

## 2. The modules

| module | models | abstract specification |
|---|---|---|
| `CircuitBreaker` | the breaker under any number of callers | `BreakerContract` |
| `MCCircuitBreaker` | its bounds, fairness, liveness, and a window of recorded outcomes | |
| `CircuitBreakerProofs` | its theorems | |
| `McpClient` | `call_tool` over the breaker (`INSTANCE CircuitBreaker`) and the bridge | the breaker's own `Spec` |
| `McpClientProofs` | its theorems | |
| `PolicyRules` | one decision, from the submitted amount to the verdict | |
| `MCPolicyRules` | files and amounts for TLC | |
| `PolicyRulesProofs` | its theorems | |
| `PolicyWorker` | cache, fetches and fallback over time | `PolicyPromise` |
| `MCPolicyWorker` | symmetry | |
| `PolicyWorkerProofs` | its theorems | |
| `Notifications` | one run of the communicator | |
| `NotificationsProofs` | its theorems | |
| `Pipeline` | submissions end to end, trail, counters, crashes | `ComplianceContract` |
| `PipelineProofs` | its theorems | |
| `SessionKey` | secret, preflight, issue and verification of keys, clocks, restarts | |
| `SessionKeyProofs` | its theorems | |
| `LogStream` | one API process as its log stream sees it | |
| `Launcher` | `start.py`, the bridge's pipe, signals | |
| `Service` | `Launcher` and `LogStream` together | |
| `ServiceProofs` | theorems about both, and about `LogStream` alone | |

How they fit: `Pipeline.Evaluate` is a whole `PolicyWorker` request whose
verdict is `PolicyRules`; a fetch of `PolicyWorker` is a whole `McpClient`
call; what happens between `Dispatch` and `Dispatched` of `Pipeline` is one channel
of `Notifications`; and
`McpClient` drives `CircuitBreaker` by its own actions. Each lower module is
checked for the outcomes the upper one lets happen in one step. `SessionKey`
says what `Pipeline`'s "bad_key" stands for. `Service` is a composition in the
full sense: it shares `api`, the life of the API process, between `Launcher`
(which starts, signals and kills it) and `LogStream` (which says when it is up
and whether it can end).

**CircuitBreaker.** `state`, `failure_count`, `success_count` are the fields
of the class; `age` is the time since `_last_failure_time`, in ticks and cut at
the timeout, all that the comparison can tell. `call[c]` remembers in which
state a caller was admitted. `FastFail`, `Admit`, `ReturnOk`,
`ReturnMcpError`, `ReturnOtherError`, `Reset` are the paths through `call` and
`reset`; only an `MCPError` is counted, so an HTTP error or a
cancellation takes `ReturnOtherError`. `BreakerContract` knows a phase,
a time to wait and a number of confirmations needed, and nothing of counts.

**McpClient.** Per call: `pc`, `attempt`, `result`. The bridge is `transit`
(requests that may still be executed), `replies`, and the ghost `executed`.
`LogRaises` is the log call in `_raw_call` (mcp/client.py:187), whose
`extra={"args": ...}` makes Python's logging raise `KeyError` when the logger is
enabled for INFO; `log_info` says whether it is. `Disconnect` may happen
under calls in flight. `NotConnected`, `Disconnected`, `TransportError`, `Retry`,
`GiveUp` and `Receive` are the outcomes of `_raw_call`.

**PolicyRules.** Money is in mills (a tenth of a cent) where the code has a
`Decimal` and in cents where it has an `int`; `Quantize` is the coercion to two
places, ties to even, and `Cents` is `int(limit * 100)`. `BridgePolicy` is the
bridge's lookup, `ResolveLimit` the service's, and `LoadLocal` the ruleset the
service really builds from the file. Spelling is reduced to `lower`:
whether a rule's category is in lower case, the one thing on which the two lookups
differ.

**PolicyWorker.** `published[k]` is when each version of a policy came into
force at the bridge, `cache[k]` the entry with its timestamp, and per request
where its fetch is and what the bridge answered. `Serve` and `Store` are
separate, since the answer is old by the time it is stored. `PolicyPromise` has no cache: a decision
uses some version that was in force within `Bound`, or the local one after a fault.

**Notifications.** `Post` to `Record` follow `_dispatch_with_retry` for the
channel at hand. `Accept` and `Refuse` are the external webhook, which settles a
message before or after its post is answered, or never, and independently of the
answer: `AnswerOk` is any 2xx, whose body the code does not read (Slack answers a
refusal with 200 and `ok: false`), and a message whose post has timed out or
been answered with an error may be accepted. The ghost `answers` keeps what came
back of each attempt; `accepted` and `sent` count for duplicates only.

**Pipeline.** `pc[r]` is where the coroutine of a submission is; `rows[r]` are
its `record` calls, each stored or not, as `record` swallows the
database's failures. A channel of an alert takes three steps, so that others, and a
crash, can come between: `Dispatch` begins it (the ghost `tried` counts that),
`Dispatched` returns whatever came of it, `Announce` writes its row. `Crash` and `Boot` lose what is in memory (statistics,
counters, coroutines) and keep rows. `ComplianceContract` says what a client
and an auditor may rely on; that an alert reached anyone is not part of it. Trace and correlation ids are left out: `rows[r]` is
one submission's trail.

**SessionKey.** Time is in ticks, `Second` of them in a second, and each host's
clock is off by `offset`, which `Adjust` may change at any time; `Clock` is
`int(time.time())`. A signature is the triple it is computed from: HMAC is taken
as perfect. `Environments` are the values of the three variables
that matter; `HmacSecret` is the chain of fallbacks in `_get_hmac_secret`,
`Preflight` is `enforce_enterprise_secret`, which only `Start` (main.py) runs:
`IssueByCli` is `start.py --genkey`, in an environment of its own.

**LogStream.** An action is what a coroutine does from an await to the next:
`Take` begins a round of `broadcast_loop`, `Send`, `SendInVain` and `SendFails`
are one `send_text` each (to a client that is there, to one whose departure
nobody has noticed, to a closed socket), and the last of them ends the round
and removes the dead. `Emit` may happen between any two of them. `Connect` is the
handler up to its endless sleep; there is no action in which it returns, since
it never receives and thus never sees a `WebSocketDisconnect`. `attached`
is open: whether root still has the broadcaster depends on the logging
configuration (section 7). The ghosts `accepted`, `taken`, `joined` and
`received` say what was queued, how much of it the loop has taken, when a
client joined and what it got.

**Launcher.** `main` is the position in `main()`; `procs` is its list, to which a
process is added only after its launch has slept. `Interrupt(toAll)` is a
Ctrl-C at the terminal (the children are in the same process group) or a SIGINT
for the launcher alone; `Kill` comes after the half second, `InterruptAgain`
during it. `After` is what a uvicorn server makes of a signal. `Write` is the
bridge's output into the pipe that nobody reads.

## 3. The runs

| run | shows |
|---|---|
| `circuit_breaker` | Three callers, clock and resets: the threshold and the state agree (`ThresholdInv`), the circuit opens exactly when failures outnumber successes by the threshold over some run of outcomes (`OpensOnSurplus`), probes are counted afresh (`ProbeInv`), one failed probe reopens (`FailedProbeReopens`) although nothing clears the count, an outage lasts the timeout (`OutageLasts`) and becomes probeable (`OutageEnds`); the breaker refines `BreakerContract` |
| `circuit_breaker_probes` | *violated*: HALF_OPEN admits several calls at once, not "one trial call" |
| `mcp_client` | Two calls, two attempts each: executions stay within attempts (`SendBudget`), results tell what ran (`ResultTellsExecution`), one failure per call (`OneFailurePerCall`), the breaker keeps its own specification (`BreakerUndisturbed`), admitted calls end (`CallsEnd`); no deadlock |
| `mcp_client_logging` | *violated*: at INFO the log call ends a tool call before its post |
| `policy_rules` | Every file of at most two rules, amounts around every limit: `ExactDecision`, `NearestCent`, `BridgeAppliesFile` |
| `policy_rules_fallback` | *violated*: the local ruleset has no rules, so the fallback decides by the default limit |
| `policy_worker` | Three requests, two keys, policies changing: `CacheTrusted`, and refinement of `PolicyPromise` with the bound TTL + Latency |
| `policy_worker_http_error` | *violated*: an HTTP error of the bridge fails the request; it does not fall back |
| `notifications` | All channel configurations and outcomes: `EveryChannelTried`, `DeliveryBudget`, `RunEnds`; a result is the story of its attempts' answers, no more (`ResultTellsAnswers`) |
| `pipeline` | Two interleaved submissions, failing database, crash and restart: `record` is called for what the answer implies, only the dispatch under way is without its row, and the rows that the database kept are true (`TrailTellsAnswer`); statistics and agent counters both true of the answers given (`CountersAgree`), refinement of `ComplianceContract`, `SubmissionsAnswered` |
| `session_key` | One key, every environment, two hosts with clocks off by a tick, restarts: accepted for its lifetime (`KeyHonoured`) and for less than a second longer (`KeyExpires`), never under the built-in literal (`NoFallbackKey`); clocks cost twice their error |
| `service` | Launcher, bridge, API and two log clients: every client gets what was accepted since it joined, gapless and in order (`StreamContiguous`), and gets it eventually (`EntriesDelivered`); dead clients go with the next entry (`DeadRemoved`); a Ctrl-C ends every process but an API that waits for a websocket handler and that no kill() reached (`OnlyHungSurvives`) |

Each passing run also checks the module's `TypeOK`. The *violated* runs check a
sentence of the repository that the code does not keep; see section 7.

Deadlock is checked for the breaker and the client (where the clock, resets and
reconnections go on for ever, so that it only shows that no guard of them blocks).
It is checked for the session keys too, where clocks are always set. The others
end: one decision, one run, a bounded observation, a fixed set of submissions,
a launcher that has left.

## 4. Bounds

| bound | run | why it is enough |
|---|---|---|
| `MaxFailureCount` = 6 | `circuit_breaker` | the count grows without limit in OPEN; three callers can add 3 to a threshold of 3, and above the threshold nothing tells counts apart |
| 3 callers, threshold 3, timeout 2, 2 probes | `circuit_breaker` | a late failure, a late success and a probe at once; the theorems cover all values |
| `MaxWindow` = 6 | `circuit_breaker` | threshold 3: all openings after at most five outcomes, among them those with one success between the failures; a longer history is cut at its old end, of which `OpensOnSurplus` then asks only that nothing later should have opened the circuit |
| 2 calls, 2 attempts, threshold, timeout and probes 1 | `mcp_client` | a call retries while the other opens the circuit, is refused, or probes |
| 2 rules, 2 departments, 1 category and `*` | `policy_rules` | every precedence: exact against wildcard, first against second, either case of spelling, a department without a rule; the theorems cover all files |
| amounts 0 to 95 mills | `policy_rules` | both ties, both sides of every limit and threshold, with and without a fraction of a cent, and both bounds |
| `MaxTime` 3, `MaxVersion` 2, TTL 2, Latency 1 | `policy_worker` | an entry is stored, outlives a publication and expires |
| 3 attempts per webhook | `notifications` | the code's own values (`_SLACK_MAX_ATTEMPTS`, `_TEAMS_MAX_ATTEMPTS`) |
| `MaxTime` 10, `MaxKeys` 1, `Second` 2, `Skew` 1, TTL 1 or 2 | `session_key` | both ends of the lifetime, halves of seconds, clocks a tick ahead and behind; keys do not touch each other, so one shows what many would; the theorems cover all values |
| `MaxEntries` 2, `QueueSize` 1, 2 clients | `service` | the queue overflows; a client joins, leaves or dies in a round of the other; the theorems cover all values |
| `PipeSize` 1 | `service` | the bridge writes, then is stuck |
| 2 submissions, 2 alert channels, `MaxBoots` 2 | `pipeline` | two submissions in every order, a crash in every state, a restart |

`Latency` is an assumption, not a bound: a fetch's attempts each have a
timeout and its backoffs are capped, so a fetch takes at most the sum of them.

Symmetry is used in `policy_worker` alone (requests and categories are
interchangeable, and that run checks no liveness).

## 5. Fairness

- `MCCircuitBreaker`: time passes, and a call in flight returns, since httpx
  gives every request a timeout. Nothing is assumed of callers or of resets.
- `McpClient`: a call that has been admitted takes its next step, for the same
  reason and because a backoff ends. A call that has not started is not forced, and
  neither are bridge, connection, clock and operator.
- `Notifications`: the coroutine's own steps, with a post's timeout among them;
  the channels promise nothing.
- `Pipeline`: the steps of a coroutine, each ended by a return or a
  timeout; no submission is forced, and a crash or a shutdown is never required
  or excluded. `SubmissionsAnswered` allows for a process that is down.
- `Service`: the launcher's sleeps end and its waits return; a bridge that is not
  stuck ends when told, an API without handlers too; the broadcast loop runs, a
  send ends, and a client that left is noticed (uvicorn pings its websockets and
  closes silent ones). Nobody is forced to press Ctrl-C, to connect, to log
  or to write.
- `PolicyRules`, `PolicyWorker`, `SessionKey`: none, and no liveness.

## 6. Proofs

`CircuitBreakerProofs`, for all sets of callers, thresholds >= 1 and timeouts
>= 0 (`CBAssumption`), and for all windows of length >= 1 and bounds on the count
(`MCCBAssumption`):

- The inductive invariant is `TypeOK /\ ThresholdInv /\ ProbeInv`. `TypeOK`
  is not inductive alone: `success_count` keeps its bound because `ProbeInv`
  holds whenever it is incremented; and only `ThresholdInv` makes the one failed probe
  reopen the circuit.
- From it: `TypeCorrect`, `ThresholdHolds`, `ProbesCountedAfresh`, the action
  properties `FailedProbe` and `OutageLastsTimeout`, and `BreakerKeepsContract`, the refinement of
  `BreakerContract` (initial states map, and every step maps to a step or a
  stutter).
- `OpensExactly` is about `MCSpec`, the breaker with its window of outcomes. `OpensOnSurplus`
  is not inductive: it says nothing of a count below the threshold.
  `WindowInv` does: in CLOSED no run of outcomes has a larger surplus than the
  count, and one has that surplus, unless the window was cut. The count is thus the largest
  surplus of failures over any run up to the last outcome, or 0, which is what makes
  the decay by one per success exact. `RecordedMore` and `RecordedTail` say what appending and
  cutting do to the counts, the latter by a bijection.

`PolicyRulesProofs`, for all departments, categories, amounts and files with
limits of at most three decimals (`PRAssumption`):

- The inductive invariant is `DecisionInv`: the decision is `Evaluate` of the
  quantized amount under a policy that one of the two lookups returns.
- `EvaluateExact` rests on `CentsComparison`: for whole cents `c`, comparing
  `c` with a limit cut to cents is the same as comparing `10 c` with the limit.
  `QuantizeNearest` gives `AmountsNearest`, and with `QuantizeGrows` it gives
  `VerdictsGrow`, which no run checks: it follows from the exactness of the decision.
- `FirstPosition` and `FirstOfRule` say what the "first rule that matches" is,
  with which both lookups are unfolded in `BridgeFollowsFile`.

`PolicyWorkerProofs`, for all sets of requests, departments and categories, all
TTLs >= 1 and latencies (`PWAssumption`); `MaxTime` and `MaxVersion` are any
natural numbers there:

- `CacheTrusted` is not inductive: what will be stored next comes from a fetch.
  `IInv` adds `Timeline` (no version comes into force in the future), `FetchInv` (a
  fetch is no older than `Latency`, and what the bridge answered it was in force since it
  began) and `IdleInv`. It was checked with TLC on the instance of `policy_worker`.
- `PublishKeepsInForce` is the fact about time that it rests on: a version
  published now cannot end an earlier one in the past.
- From it: `TypeCorrect`, `CacheCanBeTrusted` and `WorkerKeepsPromise`, the
  refinement of `PolicyPromise`: a hit is within TTL of an entry that was within
  `Latency` of the truth, and a stored answer within `Latency`.

`SessionKeyProofs`, for all secrets, lifetimes, clock errors and lengths of a
second (`SKAssumption`):

- The inductive invariant adds to `TypeOK` that an API that is up has passed the
  preflight and that every key is `Stamped`: its timestamp is the second its
  issuer's clock showed, within `Skew` of the true time at issue. What
  the clocks did since does not matter, and that is why no property needs a
  history of offsets.
- `Floor`, `AgeWithin` and `AgeReal` are the arithmetic of whole seconds: they bound
  the age that is computed by the true one, from both sides, and give
  `KeysHonoured` and `KeysExpire`. `FallbackKeysRefused` rests on the preflight.

`ServiceProofs`, for all sets of clients, queue sizes and pipe sizes
(`LSAssumption`, `SAssumption`):

- `StreamContiguous` is not inductive. `IInv` adds `QueueInv` (the queue is the
  end of what was accepted), `RoundInv` (the entry being sent is the one taken
  last) and `SocketInv` (whoever is there is registered, and only closed sockets
  are counted dead, so that the removal after a round takes no one who is there).
- One lemma per action. `SkipIInv` serves both sends that reach nobody, and
  `OutsideIInv` everything that only happens to the process, so that the
  same lemmas give `StreamIsContiguous` for `LogStream` alone and
  `ServiceStreamContiguous` for the composition.

`McpClientProofs`, for all sets of calls, numbers of attempts >= 1 and settings of
the breaker (`MCAssumption`):

- The breaker's own proofs are used, not repeated: `CBP` is `CircuitBreakerProofs`
  over this module's variables, its `IInv` is a conjunct of the invariant, and
  `NextBreaker` maps every step of the client to a step of the breaker or to none,
  which is `BreakerOwnSteps`.
- `SendBudget` is not inductive: a call about to post has made an attempt
  that is not in transit yet. `SendInv` counts that one too, and `CallInv` ties
  `pc`, `attempt`, `result` and the breaker's slot together. It gives
  `SendsWithinBudget`; with `ReplyInv` (an answer in the air was preceded by an
  execution) it gives `ResultsTellExecution`.
- `FailedInv` counts the failed calls; that a retry is no failure of its own is
  `FailuresPerCall`.

`NotificationsProofs`, for all numbers of attempts >= 1 (`NAssumption`):

- `PlanInv` says which channels have a result by now, `LoopInv` where the retry
  loop of the present one is, and `SentInv` that every message anywhere
  bears the number of an attempt made.
- `DeliveryBudget` counts messages: `Numbered` bounds them by the attempts, and
  `SentInv` says that their numbers are among those. `ChannelsTried` follows from
  `PlanInv` and `RowsInv`.
- `ResultTellsAnswers` is not inductive: it says nothing before the result. `AnswersInv`
  does: every attempt but the one under way has its answer, and all answers before
  the result were HTTP errors. `AnsweredMore` is the step that adds the last one.

`PipelineProofs`, for all finite sets of submissions, numbers of alerts and of
restarts >= 1 (`PAssumption`), in every interleaving:

- What is known of one submission is `Local(r)`: how far its trail is by where its
  coroutine is (`TrailInv`), what it has decided, tried and failed with by then
  (`RequestInv`), that it was answered with just that (`AnswerInv`), and that each of its
  rows is true, stored or not, and announces a dispatch that was begun (`RowsTrue`).
  The last gives the conjuncts of `TrailTellsAnswer` about stored rows; which rows
  are stored is the database's choice, and nothing is proved of it.
- `CountersAgree` is not inductive, and its sets are defined by what the answers
  mean. `StatsInv` and `MetricsInv` count sets defined by `pc`, `kind` and
  `failure` alone (`Ran`, `Past`, `Gave` and their parts), each of which gains at most one
  submission per step; `StatsTold` and `MetricsTold` lead back.
- One pair of lemmas per action: it keeps `Local` of its own submission, and
  adds to each counter what it adds to the set counted. `OthersKept` and
  `SetsKept` are the rest, once for all actions.
- From it: `TypeCorrect`, `TrailTrue`, `CountersTrue`, and `ContractKept`, the
  refinement of `ComplianceContract`: `StepMapped`, `CrashMapped` and `RestMapped`
  say for each action which step of the contract it is, or that it is none.

Each inductive invariant was checked with TLC on the instance of its run before
it was proved.

Every safety property of every run is proved. Only model-checked is liveness
(`OutageEnds`, `CallsEnd`, `RunEnds`, `SubmissionsAnswered`, `EntriesDelivered`,
`DeadRemoved`, `OnlyHungSurvives`), which the prover does not reach. No module
uses a recursive operator, and no theorem needs induction over data.

## 7. Where the code and its documents disagree

With a run that shows it (quotes in `PROJECT.json`, "findings"):

1. HALF_OPEN admits any number of trial calls (`circuit_breaker_probes`).
2. The client's request log raises `KeyError` at INFO, the default level: no
   tool call gets out (`mcp_client_logging`).
3. The local fallback has no rules and never escalates (`policy_rules_fallback`).
4. A bridge that answers 4xx or 5xx fails the request (`policy_worker_http_error`).

Seen while modelling; read off the code, with no run of their own:

- orchestrator/pipeline.py:107 says that without an MCP client the local policy
  is used; every request then ends in an `AttributeError` and a 500
  (`NoClient` in `PolicyWorker`).
- agents/expense_auditor_agent.py:76 has an invalid session key cause "no DB
  write"; `before_run` has written PAYLOAD_RECEIVED by then and `on_error`
  writes SYSTEM_ERROR (`Rejection` in `Pipeline`).
- README.md:407 shows a "Live WebSocket log stream". main.py:105 attaches the
  broadcaster to the root logger, then `dictConfig` (main.py:124) replaces
  root's handlers by those of config/logging_config.yaml, and no record reaches
  it. When that file is missing, `basicConfig` (main.py:132) does nothing,
  because root already has a handler: the stream works and the console does not.
- The handler of `/ws/logs` (main.py:499) never receives, so its
  `except WebSocketDisconnect` is never reached and the connection's task
  never ends: once one client has connected, uvicorn's graceful shutdown waits
  for ever, and `_pipeline.shutdown()` is not reached (`Exit` in `LogStream`).
- start.py:267 prints "All services stopped." A process whose launch was
  interrupted is not registered yet and is not stopped by the launcher.
- README.md:257 calls the failures that open the circuit "consecutive"; a success
  takes one off the count (core/circuit_breaker.py:160).
- docs/MCP.md:151 has `MCPDisconnectError` retried; only timeouts are (mcp/client.py:159).
- docs/SECURITY.md:50 has amounts below 0.01 rejected; 0.006 is rounded up
  first and accepted (core/models.py:139).
- docs/CORE.md:399 has a notification's `success` say "Whether dispatch succeeded"; it
  is true of any 2xx (agents/resolution_communicator.py:254), also of the 200 with
  `ok: false` by which Slack refuses a message (a bad token, an unknown channel), and
  the trail's row then says "Slack dispatch succeeded" (`AnswerOk` and `Refuse` in
  `Notifications`).
- docs/CORE.md:446 has `notification_dispatched` say "Whether notification was
  sent"; it is true when every dispatch failed or was refused
  (agents/expense_auditor_agent.py:201).
- docs/CORE.md:129 names an event SECURITY_REJECTED, which nothing emits.
- docs/ARCHITECTURE.md:51 has an open circuit answered with 503: the worker
  catches every `MCPError`, so that branch of `process` and its
  `_safe_rollback` are never reached; and :55 has the audit trail record the
  fallback, which is only logged.
- docs/API_REFERENCE.md:360 looks up the trail by the id answered; an error
  answers another id (orchestrator/pipeline.py:185). Clients may send
  the same `trace_id` twice (core/models.py:109).
- The configured bridge URL ends in `/mcp`, to which the client adds `/rpc`; the
  stub serves `/rpc`, so the default configuration gets a 404.
- `/audit/{trace_id}` is declared before `/audit/recent` and shadows it.
- The documented variable MCP_CIRCUIT_RECOVERY_SECONDS is not the one the code
  reads, MCP_CIRCUIT_BREAKER_RECOVERY_SECONDS.

## 8. What is not modelled

- Validation of payload fields other than the amount, and the string checks of
  the security gate (a blank department, a key's form): `Pipeline` takes their
  outcome as given.
- HMAC and its constant-time comparison: a signature is what it is computed from.
- `check_environment` and the rest of the launcher's console output; the list of
  recent requests in `/stats`.
- The wording of notifications, log records, response headers, CORS.
- Read-only routes and queries: they change nothing.
- `write_audit_event_remote`, `fetch_employee_profile`: nothing calls them.
  `McpClient` covers what a non-idempotent tool would meet.
- The 503 branch of `process` (unreachable, see section 7).
- The cache's size: the code has no limit to state.
- Dashboard: it displays what it polls. Configuration: data.

## 9. Plan

Done, in this order: breaker with contract and proofs; client over the breaker;
decision with proofs; worker's cache with its promise and proofs;
notifications; pipeline with its contract; session keys with proofs; log stream,
launcher and their composition with proofs; proofs of notifications, client and
pipeline.

Next: trace and correlation ids in `Pipeline`, where submissions may share a trail.
