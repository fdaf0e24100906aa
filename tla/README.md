# TLA+ models of the organization and its decision kernel

The repository is an organization of software agents around a *decision
kernel*: every change to the organization's work (stories, tasks, executions,
reviews, budgets, releases) is a command that a pure evaluator decides and a
store commits, with the events it produces and the intents that ask workers to
do something outside. Around the kernel, a daemon plans features, runs their
tasks with agents, reviews what they produce and delivers it. This directory
holds the specifications kept beside that code, the TLC runs that check them on
small instances, and the TLAPS proofs of what matters most for every instance.

## The system

### Components

| Component | Source | State | Operations | What makes it correct |
|---|---|---|---|---|
| Work lifecycle and ownership | `kernel/lifecycle.go`, `kernel/evaluator.go` | story or task: phase, condition, owner, ownership version, epoch, scope, counters | ten lifecycle commands, four ownership commands, reopen, successor, correction, approval | terminal work stays as it is; every owner has a version of its own |
| Event fold | `kernel/fold.go` | the same, rebuilt from events | fold, replay, verify | agrees with the stored state after every history |
| Evaluator | `kernel/evaluator.go`, `kernel/budget.go`, `kernel/authorization.go` | none: a function of command and snapshot | Evaluate | decides from the snapshot alone and attaches the guards that keep the decision valid |
| Application handler | `application/handler.go` | one call | lookup, load, evaluate, commit, look up again | a command is decided once whatever the retries; every caller gets the same receipt |
| Stores | `adapters/memory`, `adapters/mongo/store.go` | receipts, scopes, aggregates, executions, attempt budgets, policy | lookup, load, commit, install policy | a commit is atomic and checks all guards against the present state |
| Outbox, feed and execution worker | `adapters/mongo/outbox.go`, `adapters/executionruntime/worker.go` | intent documents, change stream, resume tokens, deliveries | acquire, extend, resolve, yield, sweep, open, poll, checkpoint | no intent is lost; what is settled stays settled |
| Work budgets and invocations | `kernel/work_invocation.go`, `kernel/phase4_policy.go` | accounts, task bindings, invocations | amend, bind, authorize, claim, start, finish, cancel, expire | an authorization is debited once; attempts form a line |
| Operational execution coordinator, OpenHands boundary | `application/operational_execution_coordinator.go`, `adapters/openhands/client.go` | one call; a conversation on a server | claim, start or reconcile, inspect, cancel, supersede, finish | a brief is submitted once; what is recorded is how the conversation ended |
| Completion review | `kernel/coordination.go`, `validation.go`, `completion.go` | reviews, branch results, adjudications | open, report, adjudicate, time out, join, finalize | work completes only on a verdict about its last results |
| Escalation, variant groups | `kernel/escalation.go`, `kernel/variant.go` | escalations; candidates and comparisons | open, resolve; submit, compare, select | a condition is escalated once; a selection is of what was compared |
| Release | `kernel/release.go`, `application/release_coordinator.go`, `adapters/gitprovider` | plan, provider outcomes, a branch | create, qualify, request, merge, record, reconcile | the plan says what the branch holds, after any lost answer |
| Human interaction | `kernel/human_interaction.go`, `human_participant.go` | profiles, a question, deliveries, answers | bind, revoke, open, deliver, answer, close, expire | a question is closed on answers that count |
| Execution control | `application/execution_coordinator.go` | control records, an engine | reserve, authorize, claim, start, stop, reconcile | a running execution holds its capacity |
| Team and host continuity | `kernel/continuity.go`, `application/continuity_*.go`, `adapters/*/runtime_continuity.go` | control state and power epoch; sessions and suspension windows | quiesce, suspend, resume; heartbeat, start, stop, amend | suspended teams commit next to nothing more; a sleep the heartbeat sees is not charged to work |
| Workflow instances | `kernel/workflow.go`, `organization/workflow_admission_coordinator.go` | nodes, messages, admissions | bind, admit, expand, transition | no node starts before what it follows |
| Messages | `organization/message.go`, `adapters/mongo/message_store.go` | messages, threads, claims | send, fan out, claim, renew, yield, resolve, readdress, repair, sweep | one live holder; the work is handed over along the thread |
| Federation | `organization/federation*.go`, `adapters/federationhttp` | threads of two deployments, receipts, calls in flight | send by alias, post, verify, import | both deployments agree on the thread |
| Feature planning and delivery | `adapters/operationalruntime/feature_*.go`, `organization/feature_coordinator.go` | feature, stages, plan, stories, tasks | specify, design, plan, correct, replan, retry, revalidate, accept | what is planned is what was specified; delivered whole |
| Task runtime | `adapters/operationalruntime/task_*.go`, `candidate_workspace.go` | tasks, invocations, reviews, workspaces | admit, authorize, retry, repair, revalidate, complete, recover | a task completes on verdicts about its own output |
| Projections | `adapters/mongo/projection_*.go` | documents, checkpoints | apply, rebuild | a document shows the state as it is |
| Native agent | `agentruntime`, `agenttools`, `adapters/nativeagent` | lease, turn journal, effect ledger, workspace | claim, turn, bind, reserve, perform, complete, cancel | an effect happens once and is what is recorded |
| Role host | `organization/host.go`, `role_execution_registry.go` | role, process, execution registry | ensure, start, stop, restart, reconcile | a stopped role has no process; a role can be started again |

`PROJECT.json` lists every part, with the modules that model it or the reason
it is not modelled.

### How the parts interact

A transport or a coordinator builds a command and calls the handler. The handler
makes up to four calls of the store (look up a receipt, load a snapshot, commit
a decision, look up again) with nothing held between them. A commit writes the
receipt, the events, the new aggregate state, the projections and the intents
in one transaction. Workers learn of intents through a change stream and a scan
of the backlog, hold them under leases, and answer with new commands; a sweeper
returns expired leases to the backlog. Executions (an actor's running agent) are
registered in the same store and fence the commands attributed to them.

The daemon's loops pass over features, tasks, roles, reviews, suspensions and
projections again and again. A pass reads what is durable, decides what is
missing and writes it, one command or document after the other, with identities
derived from the subject: a pass that stopped anywhere is continued by the next,
because what was already done answers as before. Operators act on the same
state at any time. Nothing is locked across a pass; revisions are the only
guard.

### What is hard

* Handlers run concurrently, in several processes, and interleave between any
  two store calls; retries come with the same or a new command id.
* A crash, or a lost acknowledgement, after the commit and before the answer.
* A snapshot that is stale, or with Mongo torn, when it is used; transactions
  that only read what they depend on.
* Leases that run out while their holder still works, and a sweeper that
  updates documents it read earlier.
* A change stream whose history is gone, a checkpoint saved before the work is
  done, calls that time out with and without effect.
* A conversation, an engine, a Git branch or another deployment: a request
  without an answer, an effect that arrives late, an end that races a
  cancellation or a deadline.
* A pass of many writes that stops between any two, or is overtaken by an
  operator or by a pass of the next daemon.
* Effects on a file system, recorded before and after in separate steps.
* A host that sleeps between two reads of the clock.
* Two implementations of each transition (`evolveState` and `foldEvent`).


## The modules

```
WorkLifecycle        <-- WorkProofs, MCWorkLifecycle
KernelDecision       <-- AtomicKernel
                     <-- DecisionKernel (implements AtomicKernel)
                              <-- DecisionKernelProofs, MCDecisionKernel
                     <-- MongoDecisionStore
                              <-- MongoDecisionStoreProofs, MCMongoDecisionStore
IntentDelivery       <-- IntentDeliveryProofs
OperationalExecution <-- OperationalExecutionProofs
WorkAuthorization    <-- WorkAuthorizationProofs, MCWorkAuthorization
Governance           <-- GovernanceProofs, MCGovernance
  instances CompletionReview, ReleasePlan, Escalation, VariantGroup,
            HumanInteraction, ExecutionControl, TeamContinuity, RuntimeContinuity
Organization         <-- OrganizationProofs, MCOrganization
  instances FeatureStage, FeatureDelivery, CandidateWorkspace, TaskReview,
            WorkflowInstance, MessageBus, Federation, Projections
Agents               <-- WorkProofs, MCAgents
  instances NativeAgent, RoleHost, TaskRuntime
Federation           <-- MCFederation
```

`A <-- B` reads "B extends A". The components of `Governance`, `Organization`
and `Agents` share no state, so a behaviour of the composition is a behaviour
of any one of them: `subject` (`agent` in `Agents`) says of which. The three
take the constants and the variables of their components as their own, so that
their theorems hold for every value; `MCGovernance`, `MCOrganization` and
`MCAgents` give the constants small ones. A variable name that two components of
`Governance` or `Organization` have stands for the one at work; in `Agents` every
component has its own, `Nil` while another is at work. `IntentDelivery`,
`OperationalExecution` and `RoleHost` are run as they are.

### WorkLifecycle

One story or task. `stored` is the aggregate state the store keeps, advanced by
`EvolveState` (`evolveState`, `applyLifecycleAction`, `applyOwnership`,
`reopenScope` and the command policy in the evaluator's order); `folded` is what
`FoldEvent` (`foldEvent`) makes of the same events; `log` is the event stream.
`LifecycleTransition` is the table of `lifecycle.go`. One action per command
type. A command that is rejected writes no event, so it is not a step here.
Payload fields that a rule reads (owner, expected ownership version, scope
revision, carry-forward flag, corrected event) are fields of the command; the
rest is left out. The commands that only bump a task's revision (binding a
profile, a budget, an operational scope, authorizing an assignment, dispatch)
are one action, `BindTask`.

### KernelDecision, AtomicKernel, DecisionKernel

`KernelDecision` has the data and functions both stores share: `Outcome` is
`Evaluate` with its checks in their order, `GuardsHold` the guards a decision
carries, `CommitDecision` what a commit writes. `Fingerprint` and `ScopeOf` are
tuples of the fields the code hashes; a hash is taken to be injective. A command
is a record of the fields that decide its fate. Envelope and payload validation
is the flag `valid`; authorization is the set of types granted, and the set of
types whose results may be disclosed, at each policy revision.

`AtomicKernel` is the abstract specification: one step looks at the store as it
is, decides a command that is not decided yet and writes everything.

`DecisionKernel` is the handler and the in-process store: one step per store
call, so everything may happen between two calls. `Crash` may happen to a
handler anywhere; `CommitWrite(h, FALSE)` is a commit whose acknowledgement is
lost (fault point `AfterCommit`), `CommitFault` one that fails before anything is
written. `store` is the same variable in the abstract specification, so the
refinement mapping is the identity on it and hides the handlers.

### MongoDecisionStore

The same handler over collections. `LoadTarget` and `LoadRest` are separate
because `loadSnapshot` reads outside a transaction; the transaction takes its
snapshot at `TransactionBegin`, and `TransactionCommit` succeeds unless a document
it *writes* was written since (`WriteConflict`), in which case `TransactionRetry`
starts it again, as the driver's `WithTransaction` does. Unique indexes are
checked on the present collections. A commit whose result is unknown is a plain
error to the caller, as the code makes it, so a crash covers it.

### IntentDelivery

An intent document (`outbox`), the change stream, each worker's feed (tokens,
backlog, the set of keys already delivered), the jobs a worker runs, the sweeper
with the documents it has read. A delivered key carries the document's epoch, as
in the code. `Process` resolves, fails retryably, defers or loses its lease;
`TimesOut` is a call that exceeds the lease operation timeout with or without
effect; `Crash` takes feed and jobs with it and keeps the saved token. Mongo
itself and its change stream are external and modelled from their use.

### OperationalExecution

One authorized invocation from its intent to its terminal record. `inv` is the
invocation (state, revision, cancellation request, request digest of the started
checkpoint), `intent` its outbox document, `conv` the conversation on the
server, `prompts` how often the brief was submitted to it and `posts` the
submissions a client gave up on that may still arrive. `call[c]` is a call of
`ProcessOne`, with what `Process` has read: a place (`pc`), the revision, the
brief's digest, the flags it computed from clock and invocation, the observation
to record. Two calls overlap when the first outlives its lease.

Every call `Process` makes on the kernel or on the boundary is a step: `Load`
reads invocation, brief and clock and takes the branch of the state; `Expire`,
`Claim`, `RecordStarted` and `RecordTerminal` are commands decided on the
revision that was loaded (`Apply`: accepted, rejected, lost, or failed with or
without effect). Before `RecordTerminal` comes `RecordEvidence`, a command of its
own: what was observed is registered under an identity that is the same at every
try, with the invocation's last event in its fingerprint; `evidence` keeps, per
outcome, the revision it was registered at, and at another revision the command
is a reuse of its id (`Reused`), on which the call yields. `Start`, `Submit`, `Poll` and `Reconcile` are the boundary's
start, cut where another caller or a crash may come between; `Inspect`,
`Cancel` and `Supersede` are the other boundary calls, with the interrupts,
corrections and checkpoints they send. `ProcessOne`'s loop is `Acquire`, `Wait`,
`Resolve`, `Yield`. `Converse` is the agent at work.

Whether the authority is current, the deadlines and the brief change by steps
of the environment, once, and only while `Process` reads them. Which events make
a result acceptable, a violation of policy or an incomplete answer is the
environment's choice of `verdict`; Inspect's reaction to each is modelled. The
server is taken to pause a conversation before it answers an interrupt. `past`
is a history variable: the kinds of fault that properties make an exception for.

### WorkAuthorization

Budget accounts, the bindings of tasks to them, profiles, assignments, scopes
and invocations (`kernel/work_invocation.go`, `kernel/phase4_policy.go`,
`applyAuthorizationDebit` of the stores). A handler decides on what it loaded
and commits in a second step, under the guards the decision carries; the debit
of an authorization is applied to the account and the binding by the commit.
Executions are replaced and deadlines pass meanwhile.

### Governance: reviews, releases, escalations, variants, humans, control, continuity

* `CompletionReview`: `Open`, `RecordResult`, `Adjudicate`, `TimeOut`, `Finalize`,
  completion and reopening of the work, for both policies. The join is
  computed on every record (`kernel/coordination.go`), the finalization checks
  it again (`kernel/completion.go`).
* `ReleasePlan`: plan and its operations (`kernel/release.go`), the coordinator
  that persists its intent to merge, asks the provider and records the answer
  or `UNKNOWN`, and the base branch, to which others push.
* `Escalation`, `VariantGroup`, `HumanInteraction`: one aggregate each with
  every command on it.
* `ExecutionControl`: the control records of `execution_coordinator.go` and an
  engine that starts and stops on its own time; two callers.
* `TeamContinuity`: configuration, quiescence, suspension, outage and resumption
  of a team and a coordination (the assignment of a task) checked against the
  power fence before each of its commands. A configuration sets the epoch its
  payload names, an earlier one too; `back` counts those a coordination met.
* `RuntimeContinuity`: the host's heartbeat, suspension windows, and what they
  add to the deadlines of started work and to a feature's budget. Sleeps are of
  any length; one after which the heartbeat is within its threshold records
  nothing, and its time is kept with the invocation that pays for it.

### The organization: planning, delivery, workspaces, reviews, workflows, messages, federation, projections

* `FeatureStage`, `FeatureDelivery`: the passes of the feature loop: from a
  request through its workflow stages to a plan; from the plan to stories and
  tasks, their completion, a replan and the acceptance. A pass is cut between
  any two writes. In the second the reconciler's pass reads the tasks one after
  another (`sweep`) and acts on what it read; meanwhile an operator's retry, which
  looked at the feature once (`retry`), or a pass that finds a validator's
  candidate changed, reopens completed tasks. A submitter completes a story on
  the revisions of its tasks. `late` notes tasks reopened after that.
* `CandidateWorkspace`: the views a validator or the promotion gets of
  candidates, the gates they passed and the tasks bound to them.
* `TaskReview`: the review on which a finished attempt completes its task, with
  the receipts that identify its successors.
* `WorkflowInstance`: binding, admission, expansion and transitions of a
  workflow's nodes. The nodes of an expansion follow whatever the caller says, as
  far as `Validate` and `ValidateDAG` allow.
* `MessageBus`: messages, threads, claims and the roles that restart under them.
* `Federation`: two deployments, each with its clock and configuration.
* `Projections`: the projector's pass and the rebuild.

### The agents

* `NativeAgent`: one invocation of the native agent: leases, the journal of
  turns, the ledger of effects and the workspace they change.
* `RoleHost`: the host of one role over its durable state, the process and the
  execution registry.
* `TaskRuntime`: the reconciler of a plan's tasks and an operator who recovers
  them, with the commands of a job one by one.
* `Agents`: their composition.

## The runs

| Run | Question | Result |
|---|---|---|
| `work_lifecycle` | Do the fold and the stored state agree, is terminal work frozen, is every owner versioned? | holds |
| `decision_idempotency` | Is each command decided once, with one receipt for every caller, through retries, reuse of ids and keys, a policy change, crashes and lost acknowledgements? | holds |
| `decision_fencing` | Are revisions, preconditions, executions and attempt budgets checked against the state at the commit, i.e. is the handler with its store an atomic kernel? | holds |
| `mongo_store` | What do guards promise under torn loads and snapshot isolation? | they held together at one moment |
| `intent_delivery` | Is an intent never forgotten, untouched by late holders, and settled in the end? | holds |
| `operational_execution` | Is the brief submitted once, does the record say how the conversation ended, is an unfinished invocation given up only for a stated reason, is every intent resolved in the end, or for ever in one of two known places, through overlapping calls, crashes, failed and delayed calls, cancellation and deadlines? | holds |
| `work_authorization` | Is each authorization debited once, do attempts form a line, is a late authorization unused? | holds |
| `governance` | Reviews, releases, escalations, variants, humans, capacity, suspension: one property or two for each component | holds |
| `organization` | Planning, delivery, workspaces, reviews, workflows, messages, federation, projections: one property or two for each component | holds |
| `agents` | Does a task complete on verdicts about its own output, one attempt at a time; is an effect what is recorded; has a stopped role no process? | holds |
| `role_locked_out` | Can a role always be started again? | violated (1) |
| `federation_ingress` | Does a deployment accept an authorized, timely message? | violated (2) |

The comment above each property says what it means and where in the code it is
decided. Deadlock is checked in the decision and Mongo runs, where a caller can
always submit again. It is off where the system may stop: all intents settled,
a history at its last event, a plan delivered, a bound reached.

### Disagreements found

1. `registerExecution` refuses an execution whose fencing epoch is not the
   registered one plus one (`adapters/operationalruntime/task_admission.go:287`).
   `Host.Start` takes the next epoch before it starts the runtime
   (`organization/host.go:138-180`), and a start that fails is not registered:
   the next is two epochs ahead, is refused, and so is every start of the
   daemon. The comment at `role_execution_registry.go:44-46` says that epochs
   remain contiguous.
2. The federation handler passes on the context of the request
   (`adapters/federationhttp/handler.go:76`), which the daemon's server gives no
   deadline (`cmd/tekrood/main.go:83-87`), and the Mongo store demands one
   (`requireDeadline`, `adapters/mongo/store.go:1472`): every message is refused.

### Other properties the code does not have

Modelling met these as well. Each is a definition of its module that no run
checks, because it is false; a configuration with the property as an invariant
shows how.

| Definition | What happens |
|---|---|
| `WorkLifecycle!FoldAlwaysReproducesState` | reopening without carry-forward clears the owner in `evolveState` (`kernel/evaluator.go:596`), while `foldEvent` keeps it (`kernel/fold.go:118-128`) |
| `DecisionKernel!ConflictOnlyAfterChange` | a rejection carries the preconditions that made it a rejection as guards of its own commit (`kernel/evaluator.go:873`) and cannot be committed (commands: `MCDecisionKernel!PreconditionCommands`) |
| `MongoDecisionStore!FencedAfterReplacement` | guards a transaction only reads (`adapters/mongo/store.go:885`) do not conflict with a concurrent writer (commands: `MCMongoDecisionStore!SkewCommands`) |
| `IntentDelivery!AtLeastOnce` | an `Acquire` that times out without effect leaves the intent pending after the feed ticked it off, until a restart (`adapters/executionruntime/worker.go:246`) |
| `OperationalExecution!StartFailureIsKnown` | a claimed invocation whose authority no longer validates is recorded as `START_FAILED` without reconciling (`application/operational_execution_coordinator.go:131`) |
| `OperationalExecution!SupersededIsClosed` | `ReconcileSuperseded` interrupts only an active conversation (`adapters/openhands/client.go:1080`); a paused one is observed as running for ever |
| `RuntimeContinuity!EveryWindowCompensated` | a window found while an invocation runs is passed over and not looked at again by the same daemon; the comment at `adapters/operationalruntime/runtime_continuity.go:127` says it is amended afterwards |
| `TaskRuntime!ReviewedOnlyAsInspected` | the condition of a retry after a failed attempt is not compared with the candidate, and the workspace it ran in may hold an earlier one (`task_completion.go:577-583`, `candidate_workspace.go:1226-1242`) |
| `CandidateWorkspace!ViewsAreReadOnly` | a crash between the rename and `makeTreeReadOnly` leaves a writable view |
| `TaskReview!FinishedWorkIsCompleted` | every review of a candidate has the deadline of its attempts (`task_completion.go:1129`); an outage past it leaves finished work that no review can pass, which the comment at 1125-1128 rules out |
| `FeatureStage!SuccessorDesignIsUsed` | the design of a successor scope is answered with the message of the earlier one (`message_store.go:102-140`; `feature_workflow.go:86-96` says otherwise) |
| `TeamContinuity!EpochAdvances` | `configure-continuity` takes the epoch of its payload (`kernel/continuity.go:131-148`, checked at `kernel/operator_human_continuity_policy.go:28-37`), which may be an earlier one; `docs/architecture/022:317` has the power epoch monotonic |
| `FeatureDelivery!AcceptedIsFinished` | `RetryFailedTask` checks once that the feature is planned (`task_recovery.go:43`) and reopens a completed task later (113-117), after the feature was recommended on states read before, or accepted. A feature that awaits acceptance then is not looked at by the reconciler, so its reopened task is not worked on and the submitter is refused |
| `FeatureDelivery!RetiredWhole` | a task that waits for an answer is passed over (`feature_replan.go:152`), and the answer lifts its block |
| `NativeAgent!ErrorMeansNotDone` | a call executed again after a crash may answer an error before it looks at the ledger (`effects.go:62-65`, comment at 17-19) |

Weaknesses that appear as exceptions in properties that hold: `SubmittedOnce`
excepts overrun leases and submissions that arrive after their client gave up;
`AbandonedOnlyIf` names a cancellation request that overtakes the record of the
end, which leaves a `STARTED` invocation that no worker looks at again;
`SuspensionExcluded` excepts a host that falls asleep inside the deadline check
and one that is stopped cleanly after it slept, and counts a sleep that leaves
the heartbeat within its threshold (ten seconds by default,
`adapters/operationalruntime/production.go:597`) as the invocation's own time
(`adapters/mongo/runtime_continuity.go:129,263-264`), where
`docs/operations/005-local-production-deployment.md:100-104` excludes every gap
caused by host sleep.

`EventuallySettled` of `OperationalExecution` excepts a `STARTED` invocation that
every later call yields on (`Wedged`): one whose brief changed under a paused
conversation, as in `SupersededIsClosed`, and one whose end was registered as
evidence and not recorded before a cancellation moved its last event: from then
on `evidence.register` is answered `COMMAND_ID_REUSE`
(`application/execution_evidence_recorder.go:94-113`, `kernel/idempotency.go:55`).
`docs/architecture/112-phase-4-step-5-operational-execution-coordination.md:59-60`
says that after a failure of the evidence store "a later pass inspects the same
conversation and completes without starting again". Either exception is needed:
without one of them TLC finds the other's behaviour.

`AtMostOneLateCommand` allows one more command for each configuration that set
the epoch back. `NodesInOrder` is about the graph of nodes and not about the
order of stages: `ExpandWorkflowNode` takes any predecessors
(`kernel/workflow.go:586-596`), and an expansion that leaves out the stages its
own one depends on lets it run before them. `DeliveredWhole` allows a task that
was reopened after its story was completed to be open.

### Bounds

* `work_lifecycle`: two actors, `MaxRevision = 8` events, `MaxScope = 3`. Eight
  events let a task be acquired, activated, completed, reopened and acquired
  again by the other actor; three scopes let work be reopened twice. The view
  `LogView` forgets the parts of log entries that no action and no property
  reads, and actors are symmetric (only compared with each other).
* `decision_*`, `mongo_store`: two handlers, because each property is about what
  *another* handler does between two steps of one. The commands of a run are
  chosen so that every pair of interest overlaps: same id and other content, same
  key and other id, two changes of one revision, a precondition on an aggregate
  that changes, an execution registered and replaced under an attributed change,
  one attempt beyond the limit. The journal is bounded by the number of commands,
  since each is decided once. `ActiveView` forgets the command and the answer of
  an idle handler, which no action and none of that run's properties reads.
* `intent_delivery`: one intent (intents never touch each other's documents; the
  feed's position is per worker), two workers, `MaxAttempts = 2`,
  `MaxReconciliations = 2`, one job per worker, one transient failure, one fault.
  `MaxFaults` bounds stops, lost history and timeouts together: a system that is
  interrupted for ever settles nothing. No symmetry is used because the run
  checks liveness.
* `operational_execution`: two callers, because a third only repeats what a second
  does to the first, and two faults, so that a failed start can be followed by a
  failed reconciliation or a crash. An overrun lease is the only fault of its
  behaviour. A new call takes the first free place, which is a symmetry
  reduction that liveness allows. Briefs are two, before and after an upgrade.
* `work_authorization`: one task, two purposes, two invocations, two handlers,
  seven task revisions. It starts where a single handler has prepared the task,
  or where nothing was prepared yet, so that the races begin at once. The view
  drops decisions that are out of date and can only be refused.
* `governance`: two reviews of two branches (a second review for supersession
  and reopening, `MaxEpoch = 2`); two merges by two callers, so that the second
  merge depends on a first whose answer was lost; two escalation conditions;
  three candidates of which two are compared and one replaced; two humans; three
  control records for one place and two callers; two coordinators in three power
  epochs, each of which meets one set-back (`MaxSetBacks`), so that an admission
  ends, comes back and ends again; host time up to 5 with a threshold of 1 and
  sleeps of 1 and 2, the one unseen, the other seen.
* `organization`: workflows `1`, `2` and `2.1` with eight hops and two rounds; two
  stories with a task each, the second of which validates the first
  (`Validates`), one replan and three calls, questions or repairs
  (`MaxOperatorCalls`), enough for a retry and a repair beside an acceptance; plans
  of one and two tasks with two commits; two validators with two receipts; three
  stages (an optional one, a repair), three messages (`StageFor`: one per stage),
  one expansion into two nodes with any edges (`Expansions`) and seven revisions
  of the instance; three roles, two threads and two messages of two hops and two
  attempts that live two ticks under leases of one (`Life`, `Leases`), so that a
  message is claimed again while the first holder still has its claim; three actors at two deployments, two calls and a stop
  with clocks that differ by 1; two events of eight aggregates, or of four with a
  rebuild. `Representative` keeps one of several bus messages that differ by
  a renaming of roles, threads and reports, `RepresentativeNodes` one of two
  expansions that differ by a renaming of the new nodes.
* `agents`: two workers with the tools that write and submit (two turns) or use
  Git, tests and reads (one turn); two fencing epochs of a role; plans of two and
  three tasks with four invocations and two disturbances. `View` forgets how
  earlier attempts ended; `Bounded` keeps the fourth attempt and the second
  disturbance to the small plan and, in the large one, disturbances to the first
  two attempts. The theorems about the agents have no such bounds.

### Fairness

`IntentDelivery` and `OperationalExecution` state fairness. In the first, weak
fairness of the jobs' steps, of opening and polling feeds, and of the sweeper:
each is a loop of a live process (`Worker.Run`, the outbox feed's polling, the
recovery loop of the production service), restarted by its supervisor. Leases
expire because time passes. Commits, stops, timeouts and lost history have no
fairness: they need not happen.

In the second, weak fairness of each call's next step (a call of `ProcessOne` goes
on until it returns; its contexts have timeouts), of acquiring a pending intent
(what `IntentDelivery` shows of feed and workers), of the sweeper, and of the two
deadlines, which pass because time does. The agent has none: it may work for
ever, and the deadline is what ends it.


## Proofs

TLAPS checks these for every value of the constants that the named assumptions
allow. Each proof module states an inductive invariant, proves that it holds at
first and that every action keeps it, one lemma per action, and reads the
property off it. TLC checked each of these invariants on the small instances
before it was proved.

### WorkProofs, the lifecycle

From `ActorsAssumption` and `BoundsAssumption`.

* `TypeCorrect`: with the strengthening that the fold has started once the
  aggregate exists.
* `FoldReproduces`: `FoldAgrees` shows, transition by transition, that
  `FoldEvent` applied to the event of a command is `EvolveState` applied to the
  command, unless the command reopens without carry-forward. The invariant is
  inductive because histories only grow: if no reopening so far dropped an
  owner, none had before the step.
* `TerminalWorkFrozen`, `OwnershipVersioned`: action properties, from one lemma
  on `EvolveState` each.

### WorkProofs, the agents

From `NilAssumption`, `LimitsAssumption` (the tools there are, a number of turns)
and `TaskPlansAssumption`. The last says what `FeaturePlan.Validate`
(`organization/feature.go:455-545`) demands of a plan: dependencies are in the
plan, and tasks that validate others depend on them; and what the planner adds
(`feature_stage_runtime.go:2101-2332`): what is validated is implementation. An
invariant per component (`HostInv`, `TaskInv`, `NativeInv`).

* `RolesStop`: who changes the process holds the host's mutex. Who inspected it
  without knows it to be gone as long as the role is at the revision the
  inspection read, since a process is recorded with the next revision, and the
  role is recorded as stopped only at that revision (`HostCallOK`).
* `OneAttemptAtATime`: attempts of a task are ordered by their place, and one is
  under way only if it is the last of its task (`AttemptOK`); an authorization
  is admitted only with no attempt under way, whatever the job that asks for it
  read before.
* `ReviewsComplete`: a completed task names its output and the verdicts it was
  completed on (`DoneOK`); what a job has still to do is justified by what it
  read (`JobOK`), and stays so because outputs bound to an attempt never change
  and successors are authorized for outputs no older (`Succeeds`, `Covers`,
  `Binds`). A verdict then is either about the output or a retry's, which the code
  takes on its lineage alone.
* `EffectsHappenOnce`: a call is known by its place in the journal, which only
  grows, and calls have different numbers (`Numbers`). Only the worker that created
  the reservation performs the call, and nobody else is to report a failure of it
  meanwhile (`Apart`): until then it is reserved and has not happened
  (`WorkerKnows`). Who finds a reservation enters success only when the workspace
  shows the call, and then it has happened (`CallOK`). Neither the lease nor the
  lock is needed for this.

### DecisionKernelProofs

From `CommandsAssumption` and `PolicyAssumption`.

* `TypeCorrect`, and `DecisionsAreImmutable` (no step rewrites a binding, a
  receipt or an event).
* `SnapshotsStayCurrent`: where the snapshot of a handler about to commit and the
  store agree on the revision of an aggregate, they agree on its phase and its
  attempt budget. The refinement needs it: guards compare revisions, while the
  evaluator read the rest. It is inductive because revisions only grow and
  nothing of an aggregate changes without its revision.
* `Refinement`: the handlers with the in-process store implement `AtomicKernel`.
  A `CommitWrite` maps to `Apply` or `Reject` on the present store, by the
  guards and `SnapshotsStayCurrent`; every other step leaves the store alone or
  installs a policy.
* `Fencing`: `FencedAfterReplacement` is not inductive. The strengthening says
  that the registry is never behind an execution the journal has installed, so
  that a command whose guard matches the registry is not behind one either.
* `Idempotency`: a command in the journal has its receipt and its scope bound,
  so none is decided a second time, under its own id or another.
* `CanonicalAnswers`: an answer a handler holds is the stored receipt, which
  nothing rewrites.

### MongoDecisionStoreProofs

From `CommandsAssumption` and `PolicyAssumption`.

* `TypeCorrect`, `GuardsOfOneMoment`. The invariant ties the collections to the
  journal (`Journalled`: the revision of an aggregate is the number of its events,
  an execution the last one registered) and a transaction's snapshot to a prefix
  of it (`TransactionsRead`). A transaction that commits finds the revision of
  its target as in its snapshot, so no event of the target was written since,
  and the guards its snapshot satisfied held together after the target's
  previous event.

### IntentDeliveryProofs

From `BoundsAssumption`.

* `TypeCorrect`, `NothingForgotten`, `SupersededAreInert`. The invariant says of
  every key a feed has ticked off or has to return that it is of a past epoch,
  or of the current one while the intent is not claimed (`KeysPast`): the key of
  the next epoch is new to every feed. It adds that a claimed intent has an epoch
  (`EpochFits`), that the stream only tells of intents that exist
  (`EventsCommitted`), that a closed feed holds nothing (`ClosedForgets`) and that
  every worker is still told of each pending intent or about to acquire it
  (`AllReached`).

### OperationalExecutionProofs

From `BoundsAssumption`.

* `TypeCorrect` and `StartsAreSubmitted` share one invariant. It adds what each
  caller knows where it stands (`Knows`): a brief while it starts, a conversation
  once it may submit, a submission to the conversation of its own brief once it
  may record the start. Other callers cannot take that away because a
  conversation keeps its tag and submissions only grow (`Grows`).
* `AtMostOneSubmission`: without an overrun lease or a submission adrift, every
  call at work holds the intent, so there is one at most, and it stands before
  the submission only while there was none (`Serial`).
* `AbandonedForAReason`, `OutcomesAreShown`: what a call is about to record was
  true when it was observed and, the conversation being over, stays true. The
  registration of evidence touches neither; it only orders the calls.

### WorkAuthorizationProofs

From the assumptions on purposes, budgets and bounds of `WorkAuthorization`.

* `TypeCorrect`, `DebitsCount`, `AttemptsFormALine`, `LateIsNeverClaimed`. An
  authorization is decided on one state and committed on another. For each one
  in flight the invariant keeps that, if the account has not been debited since,
  the attempt it retries is still the last one and over (`DecisionsStand`), and of
  a late one that its execution is over (`LateIsStale`).

### GovernanceProofs

From `ResultsAssumption`, `NumbersAssumption`, `HumansAssumption` and
`NoneAssumption`; an invariant per component, which only steps of that component
can disturb.

* `CompletionIsEarned`, `VerdictsAreJoins`: the join is of the last results at
  every record, and a finalized review is never recorded to again. That the
  join is the worst of the results is a lemma over the five severities.
* `ReleasesFollow`: an operation is of a merge the plan has reached, receipts are
  of past revisions, and the branch only grows.
* `EscalationsAreUnique`; `SelectionsAreCompared`: once compared, what is
  submitted is what was compared; `InteractionsAreAnswered`: answers are of humans
  that were selected and reached.
* `CapacityHolds`: a caller has the record it saw or the record has moved on; a
  start is asked for a claimed record only, once; a record is `STOPPED` only
  after the engine was.
* `SuspensionBites`: a team closes only under a new epoch, so an admission that
  has ended comes back only by a configuration that sets the epoch back, and such
  configurations are counted; a coordination that is up to date knows whom the
  task is authorized for.
* `NoTimeIsAddedTwice`: a window begins at the session's last heartbeat or stop
  and ends at the heartbeat it is recorded with, and every window of the ledger
  ends by then.

### OrganizationProofs

From `StageAssumption` (the workflow versions, a round to design again),
`PlanAssumption`, `WorkspaceAssumption`, `WorkflowAssumption` (what
`WorkflowDefinition.Validate`, `kernel/workflow.go:192-237`, demands of a
definition), `ReviewAssumption`, `BusAssumption`, `FederationAssumption` (two
deployments), `SourcesAssumption` and `NoneAssumption`; again an invariant per component.

* `PlansAreAsSpecified`: the invariant says what a pass knows at each of its
  places (`PassKnows`). Revisions only grow, so a write at the revision that was
  read is a write on what was read; and while a pass is over a feature only a
  correction can move it, which leaves its status and hop. Rounds are started by
  the pass alone, before it takes a task on, so the task it carries to the end is
  of the latest round (`TakenOn`); the message it answers is admitted and, from
  the node on, its stage completed, and neither is undone (`StageStays`). A
  correction is for at most the round after the latest, so the round a pass
  desires is never before it (`TaskOfPass`). The proof also shows that a corrected
  feature has no design (`DesignLatest`): its scope is not the thread's any more,
  and the architect's message is refused. So under versions 2 and 2.1 the clauses
  on a correction hold because planning stops there (`SuccessorDesignIsUsed`
  above); under version 1 the plan is made of the corrected round.
* `DeliveriesAreWhole`: a submitter completes a story only while its tasks are at
  the revisions it read, at which all of them were completed, and whoever reopens
  one later is noted (`WorkDone`); accepted stories stay so (`StoriesAccepted`);
  the stories an acceptance has behind it are accepted and not the one it stands
  at, and it writes the feature only at the revision, hence the plan, it began
  with (`Accepting`).
* `BindingsAreGated`: worktrees only grow, so one that is found unmoved after the
  gates was unmoved under them; receipts are of directories in place and, for
  tasks, of gated candidates.
* `ReviewsSucceed`: a review that policy closed has a timed-out branch and never
  passes later; a new one is opened only when all before it are closed with a
  receipt.
* `WorkFollows`: edges are between nodes of the instance (`Wired`), and whatever
  is no longer pending has all it follows over (`Ordered`), which is closed: what
  is over was itself no longer pending. Nodes that are over never change, and a node is expanded only
  while it is open, so that nothing behind it has begun, whatever its successors
  are wired to.
* `HoldersAreUnique`, `ThreadsHandOver`: an unexpired claim is the one its message
  is held under, and epochs tell claims apart; the record of a thread is of its
  last message, and no hop of a thread is taken twice.
* `ThreadsStayInAgreement`: what one deployment has of a thread beyond the other
  it wrote itself (`Logs`), so the turn is never with both. An envelope is posted
  only once its message is in the sender's thread (`CallsRecorded`,
  `RequestsRecorded`), so what the receiver appends is what the sender has at
  that place; a receipt is of a message in the thread, so the message that comes
  next has none yet (`ReceiptsKept`, `ReceivedOnce`).
* `DocumentsStayCurrent`: a document differs from what would be made of the state
  as it is only in what comes of a source with events that are not projected
  (`Matches`, `Stale`): a decision makes its source stale, and an event that is
  applied is routed to every document its source has a part in (`NotRouted`),
  whichever tasks are bound by then. A rebuild nothing overtook puts back the
  documents it found (`PutsBack`); one that was overtaken the property excepts.

### Only model-checked

* Liveness (`EventuallySettled` of intents and of invocations): out of the
  prover's reach.
* `SuspensionExcluded` of `RuntimeContinuity`: it sums windows and extends a
  deadline with folds, and what a fold computes needs an induction the prover
  cannot do. Its part that no fold is in, `WindowsApart`, is proved.

## Not modelled

* Payload schemas, digests, formatting and logging; a hash is its arguments.
* Steps taken together. Reads before any write: the rest of a Mongo load
  (`MongoDecisionStore!LoadRest`, after the target's own read), the reads a
  projection makes (`Projections!Materialize`), a role's record and its process
  (`RoleHost!Reconcile`), the receipt and its disclosure
  (`LookupAnswer`, `LookupHit`, with the record of an identity conflict, which no
  one reads). Commands of one caller with derived identities that the next pass
  repeats: the three of a story's activation (`FeatureDelivery!MaterializeFeaturePlan`),
  a validator's reopening, rebinding and authorization
  (`reconcileValidationRounds`), the unblocking and authorization of a planning
  retry (`FeatureStage!RetryCancelledFeaturePlanning`), which also looks at the
  feature again, the request, load and claim of a superseded native invocation
  (`NativeAgent!ReconcileSuperseded`).
* Ways of failing that end like one that is modelled: a refused write of a
  stopped role (`RoleHost!Stopped`), the duplicate key of a federated message,
  after which its receipt is read again, a failed write of a receipt with the
  daemon up (`CandidateWorkspace!Abandon`; the crash leaves the same file), the
  second look at the source of an assembly (`Recheck`).
* Validators' verdicts that change while a review is open, and reviews of some of
  the validators only (`TaskReview!Init`, `TaskRuntime!ByReview`): repair and
  revalidation by an operator are in `TaskRuntime`.
* Model turns with several calls or none, and tool calls that change nothing
  because what they ask for is there already (`NativeAgent!ModelTurn`, `Applied`).
* Grant scopes and delegation chains of the authorization policy.
* In `IntentDelivery`: pausing a worker and its counters, the backlog limit error
  (it ends a worker, as `Abort` does), kinds of intent no worker executes, and
  `ReaddressIntent`, which has no caller.
* Branches of the code that no input reaches: `RETRY_CONDITION_UNCHANGED` (the
  fingerprint includes the expected revision), a human actor with an execution.
* Evidence, provenance and the causal graph, the model capability registry, the
  contract catalogue: construction, validation and lookup of immutable data.
* Transports, file-system tools, commands and start-up composition: I/O without
  state of its own. The condenser and the wire format of the agent's model calls.

## Plan

Every safety property of the runs that is within the prover's reach is proved.
What is left is breadth:

1. the grant scopes and delegation chains of the authorization policy;
2. the recovery paths of the OpenHands client that end in an operator's hands;
3. the conditions under which the false properties above would hold, as
   properties of their own once the code settles them.
