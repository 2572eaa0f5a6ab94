# AutoSRE and Rivulet: a TLA+ verification of the agent's control and of the order pipeline

The repository holds two programs. **AutoSRE** (`agents/`, Python) is an SRE
agent: an alert becomes an incident, a LangGraph state machine walks it through
triage, investigation, proposal, approval, execution and verification, and every
remediation is meant to pass one gate, `SafeExecutor`. **Rivulet** (`rivulet/`,
Java, Go, SQL) is the shop the agent watches: a gateway puts orders on a Valkey
stream and Go workers book them in PostgreSQL.

The specifications follow the code. Where code and documentation disagree the
module says what the code does, and a run shows the disagreement.

## 1. Inventory

### 1.1 Components

| Component | Source | State it keeps | Operations |
|---|---|---|---|
| Incident graph | `core/graph.py`, `graph_nodes.py`, `graph_helpers.py`, `state.py` | `AgentState`, checkpointed after each node | eight nodes, seven routers |
| SafeExecutor | `safety/executor.py` | one `ExecutionResult` per call | `execute`: classify, gate, snapshot, dispatch, verify, roll back, audit |
| Policy engine | `safety/policy.py` | none (rules, allowlist) | `classify` |
| Incident runner | `api/runner.py` | set of background tasks; checkpoints in PostgreSQL | `schedule_incident`, `approve_incident`, `shutdown` |
| HTTP API | `api/routes.py`, `main.py`, `middleware.py` | fingerprint index, paused flag | alert webhook, approval, status, admin, `lifespan` |
| LLM router | `core/router.py`, `cost.py` | usage counters, failure windows, `RunMetrics` per run | `acompletion` and its rotation |
| Tools and registry | `tools/*.py` | none of their own; `terminate_backend` a transaction | `register`, `execute`, the tool bodies |
| Context, code actions | `core/context.py`, `codeact.py` | none across incidents | prompt assembly, sandboxed snippets |
| Gateway checkout | `service/*.java`, `OrderController`, stream producer | idempotency keys in Valkey | `checkAndSet`, `release`, `processCheckout`, `produce` |
| Worker consumer | `internal/queue/stream.go` | consumer group's pending list, channel | read loop, reclaim loop, dead-lettering, ack |
| Worker processor | `internal/processor/*.go`, `cmd/worker/main.go` | one transaction | `process`, `handleEvent`, drain |
| Tables | `V1__init_schema.sql` | `inventory`, `orders` | constraints |
| The rest | UI, frontend, evaluation, chaos, telemetry, configuration, Kubernetes, Terraform | | |

`PROJECT.json` lists every component with its status.

### 1.2 How they interact

* The runner drives the graph as an asyncio task. A node awaits the language
  model through the router, a tool through the registry, or the executor.
  `approve_node` calls `interrupt()`: the run returns, and a later HTTP request
  makes the runner resume it with the human's decision.
* `execute_node` calls `SafeExecutor.execute`, which calls `PolicyEngine.classify`
  and then the injected handlers and the registry. `investigate_node` calls the
  registry *without* the executor.
* The gateway and the workers share nothing but Valkey and PostgreSQL. A key set
  with SETNX guards against a client's retry; the stream and its consumer group
  deliver at least once; the unique `orders.event_id`, in one transaction with the
  conditional UPDATE of the stock, makes the effect happen once.

### 1.3 What is hard, and what makes each part correct

* **Graph.** The language model may answer anything; loops (investigate and
  hypothesize; propose, execute and verify) must end; a decision a human took must
  not be forgotten or reused; the verdict must agree with what was done. Correct
  when: forbidden tools never reach the executor, a mutating tool runs once, retries
  and iterations are bounded, a denial is final, a pause can be answered, a closed
  incident tells the truth.
* **Executor.** Five awaits, each of which may fail, hang or be cancelled. Correct
  when: nothing is dispatched before the gate and a captured snapshot, a rollback
  runs exactly when due and is reported truthfully, also for a call cancelled in its
  dispatch, and no outcome goes unaudited but that of a call cancelled elsewhere.
* **Pipeline.** Ambiguous publishes, lost acknowledgements, pods that die with
  messages in memory, two pods on one entry, retry counts read and used at different
  times. Correct when: one key makes one entry, an entry is booked at most once and
  takes its quantity exactly then, none disappears, all are settled.
* **Runner and API.** The wall clock, the drain and the death of the process cut a
  run where it stands; checkpoints are persisted while the next node already runs;
  two approvals race between the read of a checkpoint and the new task. Correct
  when: one alert has one investigation, an action that needs consent has it
  whichever checkpoint a run started from, attempts stay capped across restarts,
  an incident is stranded only by a cut, the checkpointer, the pools and the clients
  outlive every task and handler that may need them.
* **Router.** Quotas, circuits and the per-incident budget are looked at before the
  provider is asked and written after it answered. Correct when: the overrun is
  bounded by the calls in flight, no call sleeps beyond the cap and its jitter or goes
  on for ever, no model is lost for good.
* **terminate_backend.** Sessions move between its statements, a PID is reused, a
  statement that fails takes the transaction with it. Correct when: success is
  reported only of what is gone.

`PROJECT.json` lists the hazards at their lines with the properties that cover them.

## 2. Modules

```
RemediationTables   IncidentTicket      ExecutorContract     PolicyEngine
        |                 ^ implements        |   ^ meets          |
        |           IncidentGraph ------------+   +--------- SafeExecutor
        |            |    |    |                                |    |
        +---- MCIncidentGraph  |  IncidentGraphProofs  MCSafeExecutor  SafeExecutorProofs
                               v walks as
                          IncidentWalk <--- IncidentRunner
                                             |         |
                               MCIncidentRunner   IncidentRunnerProofs <- IncidentAttemptsProofs

LLMRouter -- MCLLMRouter, LLMRouterProofs
TerminateBackend -- MCTerminateBackend, TerminateBackendProofs

OrderStore <- Checkout        -+
           <- IngestionWorker -+- OrderPipeline -- implements --> OrderBook
                                   |         |
                         MCOrderPipeline   OrderPipelineProofs
```

**RemediationTables** holds the static tables (fallback actions, forbidden tools,
mutating tools, registered tiers) as the code has them. The other modules take
tables as CONSTANTS, so their theorems hold for any.

**IncidentGraph** is one incident. A step is one node with its routing edge: the
node's whole state update, then the router's choice from the updated state.
`node` is the LangGraph position; `waiting` is a run paused in `interrupt()`, `end`
the END node, `aborted` a run that an exception left. `phase`, `status`,
`attempts`, `proposal`, `needsHuman`, `granted`, `requested` and `executed` are
fields of `AgentState`; `budget`, `iters`, `lastConf` and `stagnation` are the
investigation loop's. Hypotheses are reduced to "there are some" and the top
confidence in percent. Arguments are values of a small set told apart by what the
guards test: do they validate, do they change under the namespace clamp, do they
hold a wildcard. `approved`, `direct` and the `ran` and `tier` fields of a record
are history. Details the model keeps because the properties turn on them: the
router after `hypothesize` ignores the phase and reads a budget of 0 as 3; the
duplicate check precedes the namespace clamp; the edge from `execute` to `verify`
is unconditional; `complete` derives the status afresh.

**IncidentTicket** is what the agent promises about an incident: asked once at most,
tried a bounded number of times and never after a refusal, closed with an outcome
that agrees with the tries. IncidentGraph implements it.

**ExecutorContract** is the set of results the graph may see from the executor. The
graph is checked against the contract, the executor is checked to meet it, which is
how the two compose without multiplying their states.

**PolicyEngine** is `classify` as an operator: the hard checks, then the first
matching rule, then the tier that came in. **SafeExecutor** is one `execute` call,
cut at its awaits. Steps 1 to 6 give up control only for audits before an exception,
so `Decide` is one action. `effect` records what the call did to the managed system
and is invisible to the code; it is what the truthfulness of `rolledBack` is
measured against. A cancellation, which the runner's timeout causes, may hit every
await; only the dispatch catches it. Which tools have a snapshot, a verification or a
rollback handler, and whether there is an audit hook, are constants, because the
executor takes them as parameters. `main.py:302` builds it with none of them: the
deployed agent takes only the paths without handlers, and what the module says of
snapshots, rollbacks and audits is what `executor.py` promises whoever injects them.

**IncidentWalk** is what the runner can tell of a checkpoint: the next node, whether
consent is needed, what was answered, whether it was asked for, how many attempts
are used; and which checkpoint may follow which. `IncidentGraph` maps its state to
that record (`Checkpoint`) and is checked, and proved, to walk so
(`WalksAsRunnerAssumes`). **IncidentRunner** uses the walk in place of the graph,
which is how the two compose.

**IncidentRunner** is one process with its requests and tasks. A handler is cut at
its awaits: an alert is `admitted` until its body is there, an approval is `checked`
from the read of the checkpoint to the new task. A task (`run`) steps from node to
node; each step appends a checkpoint to `unsaved`, and `Persist` writes it to
PostgreSQL (`saved`) in order, while the next node runs. An action on the managed
system (`Act`) precedes the checkpoint that counts it. A run ends by returning,
raising, its wall clock (`TimesOut`), the drain (`Cancelled`) or the death of the
process, and only the first is not a cut. `acted`, `consented` and `cut` are history.
The end of the process is that of `lifespan`: `ExitStack` holds the callbacks in the
order in which it pushes them, `Close` calls the topmost left (`open` counts them), and
the one called "runner" is `LangGraphRunner.shutdown`, which looks once at its set of
tasks (`pending`), waits for those, cancels what is left when its time is up, and knows
nothing of a task made since. A start-up that fails halfway, and the unwinding of what
it had opened, are not modelled: no request has been taken by then.
The statements `execute_node` makes after its action are part of the step, so a cut
between action and checkpoint is possible, as it is in the code. Time is a clock
that a due timer stops: ages of runs, of reservations and of the drain.

**LLMRouter** is every call of the language model in one process. A step runs from
an answer, or from the end of a backoff, to the next request or to the end of the
call, because nothing else suspends it. `usage` and `failures` are the shared
counters; a window is the number of failures in it, and its oldest may leave at any
time. `spent` is `RunMetrics.llm_call_count`; a run resumed by an approval has no
metrics (it is not in `Metered`), and its calls pass the budget unchecked. Errors are
classified as the code does it, in its order, on the status and on the words the
message holds.

**TerminateBackend** is the one tool that works through several statements in one
transaction. The server's sessions are PIDs with their `backend_start` (`born`), role
and state; `hit` is a signal not acted on yet. A call selects, signals one session after the
other, sleeps, looks again and reports, and the server moves between any two. A
statement that raises makes the transaction fail from then on (`aborted`), because
the pool of `main.py` opens one per connection block. The second look may be
answered from what the transaction saw first: PostgreSQL keeps the statistics
snapshot until the transaction ends.

**OrderStore** is the shared state: stream, cursor, pending list with owner and
delivery count, dead-letter copies, tables and row locks. Valkey and PostgreSQL are
external; the operators are the commands the code sends. **Checkout** is
`processCheckout` per attempt, cut at its remote calls; every call may fail before
or after it took effect. **IngestionWorker** is the pods: read loop, reclaim loop,
a channel, one processor, the drain and death of a pod. XPENDING and XCLAIM are one
step when prompt, because XCLAIM's MinIdle rejects an entry claimed meanwhile;
`ListLate` and `ClaimLate` are the case where the loop is held up between the two
for longer than `reclaimIdle` and the count it read is outdated. A message carries
the consumer's context, so a draining pod's processor fails whatever it does next.
**OrderPipeline** composes them; **OrderBook** is the abstract specification: an
order is booked once, after it was published, if the shelf holds it.

## 3. Runs

| Run | Checks | Distinct states |
|---|---|---|
| `graph` | all walks of one incident, seven alerts, ten model answers | 48 thousand |
| `executor` | one call, every handler combination and fault | 5.9 thousand |
| `incidents` | a doubled alert, or two operators on one incident; a stop, a crash, a restart | 1.6 million |
| `run_ends` | the wall clock ends every run, liveness | 158 thousand |
| `router` | two runs on two models, quotas, circuits, a new day; safety and liveness | 140 thousand |
| `tools` | two calls of `terminate_backend` among sessions that move | 2.3 million |
| `pipeline` | three checkouts, two pods and a replacement, safety and refinement | 676 thousand |
| `settles` | one checkout and one foreign entry, liveness | 248 thousand |

**`graph`** (`MCIncidentGraph`). The alerts take every path through the tables: no
action, Tier 1, Tier 2 with and without a forbidden set, an unknown category, an
alert that names no service, one outside the namespace allowlist. The answers are
chosen for the guards: an honest call, an understated tier, an impossible tier,
drifted arguments, an unregistered tool, a wildcard, arguments that do not validate.
Budgets and thresholds are the defaults of `GraphContext` (budget 3, stagnation 2, two
attempts, 0.55, 0.80, 0.05), and the confidence levels 20, 52, 85 fall on each side of
every threshold. What a deployment runs with may differ: `main.py:316-325` passes the
three confidence thresholds of the settings, of which the staging secret
(`eso_setup.sh:108`) lowers the first to 0.35, but not `max_action_attempts`, whose
default in `config.py` is 1, so that `GraphContext`'s 2 is in force. The thresholds
decide which way the loop goes, which the levels cover, and the proofs hold for any. Two attempts are enough for each interaction of a first attempt with a
second; a third repeats it, and the proofs hold for any number.

**`executor`** (`MCSafeExecutor`). Six tools so that each combination of snapshot,
verifier and rollback handler that matters occurs; an allowlist that wrongly holds
a system namespace, so that the rule order matters. The two properties on what a call
leaves behind speak of cancelled calls too: `RollbackExactlyWhenDue` without exception,
`NeverSilent` with the one the code makes, a call cut in its snapshot, its verifier or
its rollback handler, which no `except` clause sees.

**`incidents`**, **`run_ends`** and **`restart_resumes`** (`MCIncidentRunner`). The
hazards are races of two, so a workload is two deliveries under one fingerprint
(`d1`, `d2`), or an incident without a fingerprint and two operators who answer it
(`d3`, `p1`, `p2`); deliveries under different fingerprints share nothing but the
process. The process is stopped or crashes once (`MaxRestarts`). One attempt and one
checkpoint on its way (`MaxUnsaved`) already let a restart find the checkpoint from
before an action; every limit of time is one tick, so each timer can be due before,
with or after any other. `run_ends` has one operator in place of two.
`ResourcesOutliveTheirUsers` is about three places of the code at once: the order of the
callbacks in `lifespan`, uvicorn's wait for its handlers before it leaves the `yield`, and
the single look of `shutdown` at its tasks. It fails if the runner is made before the
checkpointer is entered, or if a handler may still schedule when that look is taken.

**`router`** (`MCLLMRouter`). Two callers, one metered and one resumed, are enough for
a look and a write to interleave; two models make a rotation, and the fallback list
names one by its alias and repeats the other. Quotas are 2 and 1, the circuit opens
at 2 failures, one retry, a budget of 3 calls, one new day (`MaxDays`) that may fall
between any look and its write. `MaxFailures` (6) is above the bound
`BreakerBoundsHammering` states, so that it does not hold by the cap. How long a sleep
lasts makes no difference to what the run checks, so all of them are cut to one length
(the cap of 4); the bound on sleeps is proved, for every setting (`SleepsCapped`).

**`tools`** and **`batch_aborted`** (`MCTerminateBackend`). Two calls with the backends
of their own connections, so that each can select the other's; two sessions of any
role; each PID is used at most twice (`MaxBorn`), which is one reuse between
selection and signal or between signal and second look.

**`pipeline`** and **`settles`** (`MCOrderPipeline`). Attempts `a1` and `a2` are a
client and its retry under one key, `b1` another client without a key; the shelf
holds two units, the clients want one and two, so they compete, and an entry delivered
again after its order was booked finds enough stock to be deducted once more and is
stopped by the primary key alone. Two pods run and one may replace a lost pod. The
budgets are one failed or ambiguous command (`MaxFaults`), one pod stopped or killed
(`MaxRestarts`) and one stall past `reclaimIdle` (`MaxDelays`). `MaxDeliveryAttempts`
is 2 in place of 5: a first delivery, one retry, then the dead-letter stream, which
is every case of the comparison. The channel holds one message in place of a batch
and 100 slots. The first two pods are symmetric; that symmetry is used for safety
only. `settles` keeps the same budgets on one order and one unreadable entry.

Deadlock is checked in every run but `tools` and `batch_aborted`: there calls finish and
sessions are bounded, so the instance really stops. Elsewhere either the system has
no end (time passes, callers come back), or a finished system stutters by an explicit
action that is enabled only when it is really finished.

### Fairness

* Graph: weak fairness of the graph's steps (the runner's task drives them) and of
  the operator's answer. `Terminates` needs the second: an unanswered request waits
  for ever. The runner's wall-clock timeout, which can end the task earlier, is in
  `IncidentRunner`.
* Runner: time passes, PostgreSQL answers, the deployment restarts the pod, and a
  cancellation that is due is delivered. `Step` is *not* fair: a node may never
  return, and `EveryRunEnds` holds by the clock alone.
* Router: weak fairness of each call's next event and of the expiry of failures. That
  LiteLLM answers or raises is LiteLLM's own request timeout: the router sets none. No
  call needs to begin.
* Executor: weak fairness of the three steps `asyncio.wait_for` bounds, and nothing
  else. The tool call and the audit hook are not bounded by the executor, so
  `HandlersReturn` speaks of the handlers only.
* Pipeline: weak fairness of each goroutine (read, reclaim, dead-letter, processor),
  of the deployment starting a replacement and of the drain deadline. A pod does not
  reclaim its own entries, so `EverySettles` rests on the two replicas the manifest
  keeps. Nothing forces faults, stalls or pod losses.

### Disagreements with the documentation

Each of the four is a run that TLC must refute; `PROJECT.json` quotes the lines.

* `tier2_pauses`: a Tier-2 tool the model declares as Tier 1 runs without a human.
* `bypass`: investigation can run a mutating tool past the executor.
* `restart_resumes`: a pod that dies mid-investigation leaves the incident at its last
  checkpoint; nothing resumes it, and the approval endpoint refuses it.
* `batch_aborted`: a session PostgreSQL refuses to kill fails the transaction of the
  whole batch, the recheck fails with it, finds nothing still there, and the tool
  reports that verification passed.

Observations without a run of their own, each visible in a definition:

* One approval serves later calls of the incident too (`ApproveSettled`); a tool's
  own `verification_passed = false` does not keep an incident from closing as resolved
  (`Verify`); an impossible tier raises out of the graph and skips `complete_node`
  (`aborted`).
* The executor's docstring promises an approval error above the autonomous tier; a
  proposal that asks for none is dispatched (`Decide`).
* The backoff's jitter is added after the cap, so a sleep exceeds the "hard ceiling"
  of `config.py` by up to a tenth: `SleepBounded` states the bound that does hold, and
  `SleepsCapped` proves it.
* The budget called hard in `router.py` is not checked for runs that an approval
  resumed (`OverBudget`, `Metered`).
* Nothing sets the `application_name` that `terminate_backend` filters by, so the
  agent's other connections are among its candidates (`Candidates`); the signal goes to
  whoever has the PID by then (`Signals`).
* A message may be tried more often than `MaxDeliveryAttempts`, once for each claim
  made under an outdated count: `TriesCapped` states the bound that does hold.
* A booked order whose acknowledgement was lost is retried against its own unique
  `event_id` until it lands on the dead-letter stream: neither lost nor booked twice,
  but reported as a failure. `rivulet/README.md:83-85` describes `ON CONFLICT (event_id)
  DO NOTHING` followed by `XACK`, which would end it as booked; the INSERT of the code has
  no such clause (`Conflict`). Permanent errors are acknowledged and dropped, not
  dead-lettered, and SIGTERM cancels the transaction in hand instead of completing it.
* `rivulet/api-gateway/README.md:260` warns that a partition between the publish and the
  release of the claim "could theoretically allow a duplicate". Within the life of the
  claim the code does not: it keeps the claim whenever a publish is ambiguous, and
  `OneEntryPerKey` holds. The price is a key refused although nothing was published, when
  a gateway dies between the two (`GatewayDies`).

### Hazards no property covers

`PROJECT.json` says why at each. A tier that does not validate ends a run mid-graph, a
refused idempotency key stays refused, and a booked order whose acknowledgement was lost
is never acknowledged: that is what the code does, so the modules do it and no property
forbids it. That the duplicate check, the scheduling and the reservation of an alert are
one step is read off the code and built into `Schedule`; `OneInvestigationPerAlert` would
not notice an await put between them. That the wall clock is no longer than the TTL of a
fingerprint is an assumption (`WallClockAssumption`), and without it that property fails.
The backoff is arithmetic and the budget of metered runs one guard: both have theorems in
place of runs.

## 4. Proofs

`IncidentGraphProofs` proves, for every value of the constants (any alerts, tables,
model answers, thresholds and budgets that meet `TablesAssumption`,
`ModelAssumption` and `ThresholdAssumption`), each state invariant of the run
`graph`, the action property `DeniedNeverExecutes` and the refinement
`ImplementsTicket`, and that it walks as the runner assumes (`WalksAsAssumed`).

The argument. The invariants the run checks are not inductive: that a mutating tool
runs once depends on what a proposal in flight has passed; that a Tier-2 call has a
grant depends on which nodes can be reached with a decision on record. `IInv`
(in `IncidentGraph`) adds what is missing, in four parts:

* `StageInv`: what the node about to run may rely on. A grant is on record wherever
  an approval was asked for and the incident is past the pause; a denial is only ever
  found on the way out; attempts are left wherever a proposal is alive.
* `LoopInv`: the budget is a function of the iterations, so the router's odd reading
  of an exhausted budget still bounds them by `MaxInvestigations`.
* `ProposalInv`: a proposal on its way to the executor passed every guard.
* `NoActionInv`: a no-action alert leaves triage only for the end.

`InitInv` and the step lemmas (`TypeStep`, `LoopStep`, `StageStep`, `ExecutedStep`,
`ProposalStep`, `NoActionStep`, `CompletedStep`), one per part and each by cases on the
actions, give `Invariance`; the invariants follow. `ExecutedGrows` and `GrantedStays`
are the two facts about steps that carry history forward. `TicketStep` maps every step
of the graph to a step of `IncidentTicket` or a stutter, and `Refinement` concludes.
`WalkStep` does the same for the checkpoints and `IncidentWalk`.

Beyond the invariants, five more results:

* `StepsRunOut`: `StepsLeft` weighs the attempts and investigations left and the place of
  the node in the graph; it starts at a number fixed by the two budgets and every step
  lowers it. So no cycle of the graph goes on for ever; `Terminates` adds only that
  steps are taken.
* `AskedOnce`: one decision on one call is all the consent an incident gets.
* `HonestTiersPause`, `HonestTiersUnaskedBounded` and `ReadOnlyPicksNoBypass` say what is
  true of the two documented claims that TLC refutes (`tier2_pauses`, `bypass`) under
  exactly what the code fails to enforce: that no declared tier understates the
  registered one, and that the tools offered to the investigation are read-only. With
  honest tiers every Tier-2 call runs in an incident a human said yes to, but one consent
  serves later calls; fewer than `max_action_attempts` of them run without a question of
  their own, which is at most one with the two attempts in force (`AnsweredInv`:
  consent is first spent on the call it was given for). The two conditions are
  hypotheses of the theorems, not assumptions of the module.

`SafeExecutorProofs` proves, for any registry, handlers, allowlist, autonomous
threshold and proposals that meet `PolicyAssumption` and `ExecutorAssumption`, every
state invariant of the run `executor`. None is inductive alone: that a rollback
happened exactly when due depends on the capture, on the status and on where the call
stands. `EInv` (in `SafeExecutor`) adds what is missing:

* `DecisionInv`: the recorded decision is the policy's on the higher tier, and past
  the gate it allows the call and the proposal asked for no approval.
* `CaptureInv`: nothing is dispatched, changed or rolled back without its pre-state.
* `DebtInv`: what the call still owes, its rollback and then its audit, at each place; a
  cancellation outside the dispatch strikes where no rollback is due or one was called.
* `ResultInv`: the fields of the result agree with each other on every path.

`DecisionStep`, `CaptureStep`, `DebtStep`, `ResultStep` and `TypeStep` preserve one
part each. `FirstRule` and `SystemNamespaceProhibited` are the facts about the ordered
rule list. `ContractMet` is one half of the composition: it shows that what
`IncidentGraph` assumes of the executor holds for every registry.

Three more: `HardLimitsHold` (the checks before the rule list cannot be passed by any
tier, flag or rule), `StatusTrue` (the reported status agrees with the managed system,
which the executor cannot see; `EffectInv` carries it) and `NeverGoesBack` (a call only
moves forward, the safety half of `HandlersReturn`).

`IncidentRunnerProofs` proves, for any deliveries, approvals, fingerprints, limits and
number of restarts that meet `RunnerAssumption`, the types and four of the five safety
invariants of `incidents`; `IncidentAttemptsProofs` proves the fifth.
`OneInvestigationPerAlert` also needs
`WallClockAssumption`: the wall clock of a first run is no longer than the TTL of a
fingerprint. The defaults (600 and 1800 seconds) meet it and `config.py` does not
check it. `RInv` (in `IncidentRunner`) is:

* `OwnerInv`: a task has the request that created it. `ServerInv`: what may be alive at
  each callback of the exit stack. Every task alive, and every checkpoint underway, is
  that of a task the drain waits for, because no handler is left to make another; that is
  what `DrainBeforeClose` (`ResourcesOutliveTheirUsers`) rests on.
* `IndexInv`: the reservation of a first run at work is its own and no older than the
  run, so it cannot expire while the run is within its limit.
* `AnswerInv` and `ConsentInv`: every checkpoint, whether a run stands on it, it is
  underway or it is saved, carries consent only if it was given, and reaches `execute`
  with a need for consent only with it. That is what makes stale checkpoints and
  racing approvals harmless.
* `CourseInv`: as long as no run of an incident was cut, its newest checkpoint is
  where a run stands, the end, or a pause.

`CrashNeverResumes` settles the disagreement of `restart_resumes` for all constants: an
incident in the middle of its investigation when the process goes down is `Stranded`
(no run, nothing on its way to PostgreSQL, nothing saved that asks, no handler that read
otherwise), and `StrandedStep` shows that no step of any handler, run or restart ends
that. It is a nested box, proved from an inductive state predicate.

`IncidentAttemptsProofs` proves `AttemptCapPerDecision`. The cap is not inductive, because
a crash loses the checkpoints that counted an action, and an approval resumes from whatever
was saved last. `CapInv` (in `IncidentRunner`) separates what comes before the first
question to a human from what comes after:

* `PlaceInv`: consent is open at `approve` and nowhere else, and an attempt underway was
  there to be made.
* `BeforeAsked`: nobody could have answered yet, so the first run alone acts; its own
  counter is at least what was done, and so is that of every checkpoint from a pause on.
* `OnceAsked`: the first run rests in its pause, and there is a number `t` of attempts
  such that every run and every checkpoint, saved or on its way, counts at least `t`, and
  what was done is within `t` plus the attempts past `t` that the resumed runs may have
  made (`Used`, a set of pairs of an approval and an attempt).

`IncidentMoves` says which steps concern an incident at all; `RestingStep` and the lemmas
`BeforeAct`, `BeforeStep`, `BeforePersist` and `BeforeLeft` carry each half over them.
Approvals are finitely many (in `RunnerAssumption`), which is what counting them needs.

`LLMRouterProofs` proves, for any callers, models, quotas and limits that meet
`RouterAssumption`, the safety invariants of `router` and the bound on sleeps. Neither bound is inductive: usage
may be at its bound while a call is still to be counted. `QuotaInv` therefore counts
usage together with the calls engaged with the model, `BreakerInv` failures together
with those that each engaged call may still cause, one for each attempt it has left, as
a set of pairs. A call joins either set only below the quota or the threshold. The
growing backoff is 2^attempt, of which the provers know only that it is an integer;
the cap is what bounds a sleep.

`CallsRunOut` gives each call a measure, the requests and sleeps that its attempts and the
rest of its rotation still allow: it is zero exactly when the call is idle and every step
of the call lowers it, whatever other calls do to the quotas and breakers they share.
`MeteredRequestsPaid` is the bound the budget does give: each request of a metered run
takes one from its budget, and only a new run refills it.

`OrderPipelineProofs` proves, for any attempts, entries, stock keeping units, pods and
budgets that meet `StoreAssumption`, `CheckoutAssumption`, `WorkerAssumption` and
`BudgetAssumption`, the types, `OneEntryPerKey`, `NothingLost`, `TriesCapped` and the
refinement `ImplementsOrderBook`. `PInv` (in `OrderPipeline`) is:

* `ClaimInv`: an idempotency claim in force has one holder, from SETNX to the entry.
* `StreamInv`: an entry has one place in the stream and only what was read is pending.
* `InHandInv`: what a pod holds came from the stream.
* `BookingInv`: from the deduction to the commit a transaction keeps the row it read,
  and the order it is about to commit is not there; an acknowledgement waits for the
  commit or the dead-letter copy it acknowledges.
* `TriesInv`: a try has a delivery, a delivery past the cap a late claim.

Each has its step lemma; `LostStep` gives `NothingLost` from the outcome an
acknowledgement waits for, and `BookStep` maps a commit to `Book` in `OrderBook` and
everything else to an offer or a stutter.

From the same invariant: `NeverOversold` (through `BookStep`: only a commit touches the
stock, and it takes no more than is there), `SettledForGood` (an entry handed out and no
longer pending never comes back), `LostAckNeverRepaired` (where a booked order whose
acknowledgement was lost can end: dead-lettered, or dropped for lack of stock) and
`NoLockLeaks` (`LockInv`: a row is held from the deduction to the commit by a transaction
of a running pod, and by nothing else).

`TerminateBackendProofs` proves the types and `VerifiedIsTrue` for any sessions, calls and
roles that meet `BackendAssumption`. Only the second look can report success on what was
selected, and in a sound transaction it looked.
`FalseOnlyInAbortedBatch` is the converse, and all there is to `batch_aborted`: an untrue
success comes only from a call without a PID whose transaction failed or whose connection
is lost. `BatchBounded`: a call signals at most `MaxKills` PIDs, never its own.

Only model-checked: all liveness (`Terminates`, `HandlersReturn`, `EveryRunEnds`,
`CallsEnd`, `ModelsComeBack`, `EverySettles`), which the prover does not handle under
fairness. For `Terminates`, `HandlersReturn` and `CallsEnd` the safety half is proved
(`StepsRunOut`, `NeverGoesBack`, `CallsRunOut`): what is left to TLC is that enabled steps
are taken. The others have no such measure: that a run ends is the timer's doing alone,
a breaker may trip again, and an entry may be reclaimed as long as pods die. No module uses RECURSIVE operators, so
that every one of them can be proved about.

## 5. Not modelled

* Agent: prompts, tokens, costs and timing metrics; context assembly and the sandboxed
  snippets of `codeact.py`. Tool bodies other than `terminate_backend`: they read, or
  read and make one change in Kubernetes, PostgreSQL or Valkey, and the graph takes their
  results as arbitrary. `run_incident`, the blocking twin of `schedule_incident` that only the
  evaluation calls. Status and query endpoints and the middleware, which change
  nothing; signature, payload, rate limit and pause checks are a free choice between
  refusing and going on. The router with its circuit breaker disabled, which no
  deployment does.
* Pipeline: expiry of idempotency claims (a day). A payload that is JSON but not an
  order, which takes the path of insufficient inventory. The chaos server's stop of the
  consumer without its process. Trimming of streams, which the code does not use.
* Schema migration, telemetry, UI, frontend, and infrastructure beyond the replica
  count and the pool settings quoted above.

## 6. Plan

Done: `IncidentGraph` with `IncidentTicket` and `IncidentWalk`; `SafeExecutor` with
`PolicyEngine` and `ExecutorContract`; `IncidentRunner`; `LLMRouter`; `TerminateBackend`;
the order pipeline with `OrderBook`; the runs for the disagreements; proofs of every
safety property the passing runs check, of the measures behind three of the liveness
properties, and of what is true instead of each of the four refuted claims.

Left, in order:

1. `run_incident`, and the worker's chaos stop of the consumer.
2. Tool bodies that read before or after their change (`flush_all` counting keys while
   clients write, `scale_deployment` patching what it read), on the pattern of
   `TerminateBackend`.
3. The expiry of idempotency claims, against a client that retries after a day.
