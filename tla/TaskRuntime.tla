---------------------------- MODULE TaskRuntime ----------------------------
(***************************************************************************)
(* The execution of a planned feature (adapters/operationalruntime:         *)
(* feature_work_recovery.go, task_admission.go, task_completion.go,         *)
(* task_recovery.go, task_retry.go, task_glitch_retry.go).  A reconciler    *)
(* loads the tasks of a plan with their latest invocations, decides in a    *)
(* fixed order what the plan needs next, and submits the commands for it    *)
(* one by one; an operator may recover a task at any time.  Neither holds a *)
(* lock: a command carries the revision of its task, and an authorization   *)
(* that of the budget account, as they were loaded.  Every command is       *)
(* durable by itself, so that a crash leaves any prefix of a job behind.    *)
(*                                                                          *)
(* The output of the n-th invocation is n.  A condition digest is what it   *)
(* digests: the profile, the outputs that were bound and what was added to  *)
(* them (the output of a predecessor, or an operator's private evidence).   *)
(* `saw' is the candidate in the workspace the invocation ran in.           *)
(***************************************************************************)
EXTENDS Integers, Sequences, FiniteSets

CONSTANTS Plans,            \* the plans, as sets of tasks
          Purpose(_),       \* IMPLEMENTATION, VALIDATION or PROMOTION
          Validates(_), DependsOn(_), Owner(_),
          AttemptLimit, ReviewRoundLimit,
          None,             \* nothing there
          MaxInvocations, MaxProfile, MaxDisturbances   \* bounds

VARIABLES plan,         \* the tasks of the plan
          task,         \* per task: phase, condition, lifecycle, profile and scope
          invocations,  \* in the order of their debits
          job,          \* per process: the commands it is about to submit, or None
          recommended,  \* the candidate the product owner recommended, or None
          disturbances  \* how often an operator stepped in or a job was cut off

vars == <<plan, task, invocations, job, recommended, disturbances>>

Processes == {"reconciler", "operator"}
Private == 0 - 1
Planned == [phase |-> "PLANNED", blocked |-> None, unblocked |-> 0, gen |-> 1, profGen |-> 1, prof |-> 1, scope |-> {}, done |-> None]

-----------------------------------------------------------------------------
(* What the snapshot says.                                                  *)

Indices == 1..Len(invocations)
Of(t) == {i \in Indices : invocations[i].task = t}
latestTaskInvocation(t) == IF Of(t) = {} THEN 0 ELSE CHOOSE i \in Of(t) : \A j \in Of(t) : j <= i
Terminal(i) == invocations[i].state /= "RUNNING"
Succeeded(i) == i /= 0 /\ invocations[i].state = "SUCCEEDED"
Failed(i) == i /= 0 /\ invocations[i].state = "FAILED"
Runnable(t) == task[t].phase = "ACTIVE" /\ task[t].blocked = None
Output(t) == latestTaskInvocation(t)
Outputs(t) == {Output(d) : d \in DependsOn(t)}
OutputsReady(t) == \A d \in DependsOn(t) : Succeeded(Output(d))
Condition(t, outs, extra) == [prof |-> task[t].prof, outs |-> outs, extra |-> extra]

Validator(t) == Purpose(t) = "VALIDATION" /\ Validates(t) /= {}
Implementations == {t \in plan : Purpose(t) = "IMPLEMENTATION"}

(* wholeFeatureValidationTaskID: the validation the promotion depends on    *)
(* whose candidate is every implementation.                                 *)
FeatureValidators == {t \in plan : /\ Validator(t) /\ DependsOn(t) \cap Implementations = Implementations
                                   /\ \E p \in plan : Purpose(p) = "PROMOTION" /\ t \in DependsOn(p)}
wholeFeatureValidationTaskID == IF Cardinality(FeatureValidators) = 1 THEN CHOOSE t \in FeatureValidators : TRUE ELSE None
TaskValidators(target) == {t \in plan : target \in Validates(t) /\ t /= wholeFeatureValidationTaskID}

(* plannedDependencyReady: an unaccepted candidate is for its validator.    *)
plannedDependencyReady(t, d) ==
  IF d \in Validates(t) THEN Succeeded(Output(d))
  ELSE /\ task[d].phase = "COMPLETED"
       /\ Purpose(t) = "VALIDATION" => Succeeded(Output(d))

actorHasActiveInvocation(t) ==
  \E i \in Indices : Owner(invocations[i].task) = Owner(t) /\ ~Terminal(i)

repeatedTerminalOutput(i) == invocations[i].class = "repeated"
recoverableTaskTerminal(i) == invocations[i].state \in {"FAILED", "TIMED_OUT"}

(* validatorRecoveryLineageBindsCandidate: some attempt in the line of      *)
(* predecessors was authorized for exactly these outputs.                   *)
Lineage(i) ==
  {j \in Indices : \A S \in SUBSET Indices :
     (i \in S /\ \A k \in S : invocations[k].prior /= 0 => invocations[k].prior \in S) => j \in S}
validatorRecoveryLineageBindsCandidate(i, outs) ==
  \E j \in Lineage(i) : invocations[j].cond.outs = outs /\ invocations[j].cond.extra = 0

(* Mutated: any condition of the retried attempt will do.                   *)
ConditionOfLineage(i, outs) == TRUE

(* validatorConditionMatches: what the invocation was authorized for is     *)
(* what the dependencies have now put out.  A retry of a failed attempt is  *)
(* taken on its lineage alone.                                              *)
validatorConditionMatches(i, outs) ==
  LET inv == invocations[i] p == inv.prior IN
  \/ inv.cond.outs = outs /\ inv.cond.extra = 0
  \/ /\ p /= 0 /\ Succeeded(p)
     /\ \/ inv.cond.outs = outs /\ inv.cond.extra = p
        \/ inv.prof = invocations[p].prof + 1 /\ validatorRecoveryLineageBindsCandidate(p, outs)
  \/ p /= 0 /\ recoverableTaskTerminal(p)

(* reconcileValidationRounds also wants the profile to be of this lifecycle.*)
StaleValidation(t) ==
  LET i == Output(t) IN
  /\ Validates(t) /= {} /\ task[t].phase \in {"ACTIVE", "COMPLETED"} /\ Succeeded(i) /\ OutputsReady(t)
  /\ \A d \in DependsOn(t) \ Validates(t) : task[d].phase = "COMPLETED"
  /\ ~(invocations[i].gen = task[t].profGen /\ validatorConditionMatches(i, Outputs(t)))

-----------------------------------------------------------------------------
(* Jobs: commands in their order.  A task stays `fresh' until the other     *)
(* process changes it: the commands carry its revision.                     *)

Command(op, t, arg) == <<[op |-> op, task |-> t, arg |-> arg]>>
If(cond, cmds) == IF cond THEN cmds ELSE <<>>
Job(t, cmds) == [fresh |-> plan, cmds |-> cmds]
Block(t, i, why) == Job(t, Command("block", t, [by |-> i, why |-> why]))

(* An authorization names its purpose, its attempt and its predecessor.     *)
Authorization(t, purpose, prior, outs, extra) ==
  [purpose |-> purpose, prior |-> prior, attempt |-> IF prior = 0 THEN 1 ELSE invocations[prior].attempt + 1,
   outs |-> outs, extra |-> extra]
Authorize(t, purpose, prior, outs, extra) == Command("authorize", t, Authorization(t, purpose, prior, outs, extra))

LastRepair(t) ==
  LET S == {i \in Of(t) : invocations[i].purpose = "REPAIR"} IN
  IF S = {} THEN 0 ELSE CHOOSE i \in S : \A j \in S : j <= i

(* The candidate prepareCandidateConsumerWorkspace assembles: the promotion *)
(* takes the one of the whole-feature validator.                            *)
Candidate(t) ==
  IF Purpose(t) = "PROMOTION" /\ wholeFeatureValidationTaskID /= None THEN task[wholeFeatureValidationTaskID].scope
  ELSE {Output(d) : d \in DependsOn(t) \cap Implementations}

(* The time a feature may spend on validation may be used up at any time.   *)
Ceiling(t) == Block(t, Output(t), "ceiling")

(* reconcileValidationRounds, for a validator whose candidate has changed.  *)
Revalidate(t) ==
  {Ceiling(t), Job(t, If(task[t].phase = "COMPLETED", Command("reopen", t, None) \o Command("profile", t, 1))
              \o Command("scope", t, Candidate(t)) \o If(task[t].blocked /= None, Command("unblock", t, 0))
              \o Authorize(t, Purpose(t), Output(t), Outputs(t), 0))}

(* classifyTaskRecovery.                                                    *)
Recoverable(t) == Purpose(t) = "IMPLEMENTATION" \/ Validator(t)
operatorRevalidatableTaskTerminal(t, i) == Validator(t) /\ Succeeded(i)
operatorRepairableTaskTerminal(t, i) == Purpose(t) = "IMPLEMENTATION" /\ Succeeded(i)
BlockedFor(t, i, whys) == task[t].blocked /= None /\ task[t].blocked.by = i /\ task[t].blocked.why \in whys
classifyTaskRecovery(t, i) ==
  CASE Recoverable(t) /\ task[t].blocked = None /\ (recoverableTaskTerminal(i) \/ operatorRevalidatableTaskTerminal(t, i)) -> "terminal"
    [] Recoverable(t) /\ Failed(i) /\ BlockedFor(t, i, {"escalated"}) -> "escalation"
    [] task[t].phase \in {"ACTIVE", "COMPLETED"} /\ task[t].blocked = None /\ operatorRepairableTaskTerminal(t, i) -> "repair"
    [] Purpose(t) /= "IMPLEMENTATION" /\ Succeeded(i) /\ BlockedFor(t, i, {"invalid", "verdict"}) -> "invalid"
    [] Purpose(t) = "PROMOTION" /\ Succeeded(i) /\ Runnable(t) /\ task[t].unblocked = i -> "invalid"
    [] OTHER -> None

(* RetryFailedTask, of the latest attempt: reopen a completed task, unblock *)
(* it (the role is started meanwhile, or restarted if it is the one that    *)
(* failed), read the task again, bind the successor profile unless a prior  *)
(* recovery did, bind the workspace, authorize.                             *)
RetryFailedTask(t, bound) ==
  LET i == Output(t)  kind == classifyTaskRecovery(t, i)
      again == operatorRevalidatableTaskTerminal(t, i)
      reopened == task[t].phase = "COMPLETED" /\ (kind = "repair" \/ again)
  IN
  Job(t, If(reopened, Command("reopen", t, None))
         \o If(kind \in {"invalid", "escalation"} /\ task[t].blocked /= None, Command("unblock", t, i))
         \o Command("reread", t, None)
         \o If(~bound, Command("profile", t, IF reopened THEN 1 ELSE 0))
         \o If(kind = "invalid" \/ again, Command("scope", t, Candidate(t)))
         \o CASE kind = "repair" -> Authorize(t, "REPAIR", LastRepair(t), {i}, Private)
               [] kind = "invalid" -> Authorize(t, Purpose(t), i, Outputs(t), i)
               [] kind \notin {"repair", "invalid"} /\ Validator(t) -> Authorize(t, Purpose(t), i, Outputs(t), Private)
               [] OTHER -> Authorize(t, invocations[i].purpose, i, {}, Private))

(* The profile is already bound if it has moved on since the attempt, or if *)
(* the evidence is that of an earlier continuation.                         *)
MayBeBound(t) ==
  LET i == Output(t) IN
  /\ task[t].phase /= "COMPLETED" /\ task[t].profGen = task[t].gen
  /\ \/ task[t].prof /= invocations[i].prof
     \/ classifyTaskRecovery(t, i) = "repair" \/ operatorRevalidatableTaskTerminal(t, i)
Retried(t, bound) ==
  LET i == Output(t) IN
  /\ i /= 0 /\ Terminal(i) /\ classifyTaskRecovery(t, i) /= None
  /\ bound => MayBeBound(t)
  /\ Purpose(t) /= "IMPLEMENTATION" => OutputsReady(t)

(* ordinaryRetryableTerminalEligible.                                       *)
RetryLimit(i) == IF invocations[i].purpose = "REPAIR" THEN ReviewRoundLimit ELSE AttemptLimit
ordinaryRetryableTerminalEligible(t) ==
  LET i == Output(t) IN
  /\ i /= 0 /\ Runnable(t) /\ recoverableTaskTerminal(i) /\ invocations[i].class = "retryable"
  /\ invocations[i].attempt < RetryLimit(i) /\ ~repeatedTerminalOutput(i)

(* classifyFailedTaskDisposition.                                           *)
classifyFailedTaskDisposition(t) ==
  LET i == Output(t) IN
  IF task[t].phase = "COMPLETED" \/ ~Failed(i) THEN "none"
  ELSE IF invocations[i].attempt < AttemptLimit /\ ~repeatedTerminalOutput(i) /\ invocations[i].class \in {"retryable", "glitch"}
  THEN "recover" ELSE "escalate"
Glitched(t) ==
  \/ classifyFailedTaskDisposition(t) = "escalate" /\ task[t].blocked = None
  \/ classifyFailedTaskDisposition(t) = "recover" /\ ~invocations[Output(t)].late

(* handleInvalidStructuredTaskOutput.                                       *)
structuredOutputGlitchRetryAllowed(t) ==
  LET i == Output(t) IN invocations[i].attempt < AttemptLimit /\ ~repeatedTerminalOutput(i) /\ OutputsReady(t)
handleInvalidStructuredTaskOutput(t) ==
  {Ceiling(t), IF structuredOutputGlitchRetryAllowed(t)
               THEN Job(t, Command("scope", t, Candidate(t)) \o Authorize(t, Purpose(t), Output(t), Outputs(t), Output(t)))
               ELSE Block(t, Output(t), "invalid")}

Verdict(t) == invocations[Output(t)].verdict
Finished(t) == Runnable(t) /\ Succeeded(Output(t))
Complete(t, by) == Command("complete", t, [cand |-> Output(t), by |-> by])
Judged(t) == Succeeded(Output(t)) /\ OutputsReady(t) /\ validatorConditionMatches(Output(t), Outputs(t))

(* reconcileTaskCompletions: the validators of a target with a verdict on   *)
(* what it has put out; a failure needs no second opinion.                  *)
Validators(target) == {t \in TaskValidators(target) : Judged(t) /\ Verdict(t) \in {"PASS", "FAIL"}}
FailedReview(target) == \E t \in Validators(target) : Verdict(t) = "FAIL"
Reviewable(target) ==
  /\ Finished(target) /\ Validators(target) /= {}
  /\ Validators(target) = TaskValidators(target) \/ FailedReview(target)

(* nextReviewRepairRound: a repair of this candidate and these verdicts is  *)
(* authorized once.                                                         *)
RepairCondition(target) == {Output(t) : t \in Validators(target) \cup {target}}
AlreadyAuthorized(target) ==
  \E i \in Of(target) : /\ invocations[i].purpose = "REPAIR"
                        /\ invocations[i].cond = Condition(target, RepairCondition(target), 0)
nextReviewRepairRound(target) == IF LastRepair(target) = 0 THEN 1 ELSE invocations[LastRepair(target)].attempt + 1
authorizeRepairAfterFailedReview(target) ==
  IF nextReviewRepairRound(target) > ReviewRoundLimit
  THEN Job(target, Command("block", target, [by |-> 0, why |-> "exhausted"]))
  ELSE Job(target, Authorize(target, "REPAIR", LastRepair(target), RepairCondition(target), 0))

-----------------------------------------------------------------------------
(* One reconciliation: the first of these that has something to do.         *)

Reported == {t \in plan : Finished(t) /\ Verdict(t) = "REPORTED"}
Promotions == {t \in plan : Finished(t) /\ Purpose(t) = "PROMOTION"}
Evidenced == {t \in Implementations : Finished(t) /\ TaskValidators(t) = {}}
Unreadable == {t \in plan : /\ Validator(t) /\ t /= wholeFeatureValidationTaskID /\ Judged(t) /\ Verdict(t) = "INVALID"}
Reviewed == {t \in Implementations : Reviewable(t) /\ ~(FailedReview(t) /\ AlreadyAuthorized(t))}
Trailing == {t \in plan : /\ Finished(t) /\ Verdict(t) = "PASS"
                          /\ \E c \in Validates(t) : task[c].phase = "COMPLETED" /\ t \in Validators(c)}
FeatureJudged == {t \in plan : t = wholeFeatureValidationTaskID /\ Finished(t) /\ Judged(t)}

reconcilePromotionCompletion(t) ==
  CASE Verdict(t) = "INVALID" -> handleInvalidStructuredTaskOutput(t)
    [] Verdict(t) = "FAIL" -> {Block(t, Output(t), "verdict")}
    [] OTHER -> {Job(t, Complete(t, {}))}

(* finalizeTaskReview passes the target, then its validators are completed. *)
ByReview(target) == {Output(t) : t \in Validators(target)}
FinalizeReview(target) ==
  IF FailedReview(target) THEN {authorizeRepairAfterFailedReview(target)}
  ELSE {Job(target, Complete(target, ByReview(target)) \o Complete(t, {})) : t \in Validators(target)}

(* reconcileTaskCompletions: what it does in one pass.                      *)
Completions ==
  IF Reported /= {} THEN {Block(t, Output(t), "reported") : t \in Reported}
  ELSE IF Promotions /= {} THEN UNION {reconcilePromotionCompletion(t) : t \in Promotions}
  ELSE IF Evidenced /= {} THEN {Job(t, Complete(t, {})) : t \in Evidenced}
  ELSE IF Unreadable /= {} THEN UNION {handleInvalidStructuredTaskOutput(t) : t \in Unreadable}
  ELSE IF Reviewed \cup Trailing /= {}
       THEN (UNION {FinalizeReview(t) : t \in Reviewed}) \cup {Job(t, Complete(t, {})) : t \in Trailing}
  ELSE UNION {reconcilePromotionCompletion(t) : t \in FeatureJudged}

(* The activation of a planned task: ready, owned, active, budget and scope *)
(* bound, and the first attempt authorized.                                 *)
Activatable(t) ==
  /\ task[t].blocked = None /\ (task[t].phase = "ACTIVE" => Output(t) = 0) /\ task[t].phase /= "COMPLETED"
  /\ \A d \in DependsOn(t) : plannedDependencyReady(t, d)
  /\ ~actorHasActiveInvocation(t)
activateTask(t) ==
  Job(t, If(task[t].phase = "PLANNED", Command("activate", t, None))
         \o If(Purpose(t) /= "IMPLEMENTATION", Command("scope", t, Candidate(t)))
         \o Authorize(t, Purpose(t), 0, IF Purpose(t) = "VALIDATION" THEN Outputs(t) ELSE {}, 0))

(* reconcileFeatureProfileDeadlines: a profile no attempt is bound to       *)
(* follows the deadline of the feature.                                     *)
Extendable(t) == task[t].phase /= "COMPLETED" /\ (Output(t) /= 0 => invocations[Output(t)].prof /= task[t].prof)
ExtendDeadline(t) == Job(t, Command("profile", t, 0))

Retries(S) == {RetryFailedTask(r[1], r[2]) : r \in {q \in S \X BOOLEAN : Retried(q[1], q[2])}}

(* A retryable attempt whose deadline has passed makes the pass fail.       *)
Jobs ==
  LET stale == {t \in plan : StaleValidation(t)}
      retryable == {t \in plan : ordinaryRetryableTerminalEligible(t)}
      glitched == {t \in plan : Glitched(t)}
      escalated == {t \in glitched : classifyFailedTaskDisposition(t) = "escalate"}
  IN
  IF stale /= {} THEN UNION {Revalidate(t) : t \in stale}
  ELSE IF retryable /= {}
       THEN Retries({t \in retryable : ~invocations[Output(t)].late})
  ELSE IF glitched /= {}
       THEN {Job(t, Command("block", t, [by |-> Output(t), why |-> "escalated"])) : t \in escalated}
            \cup Retries(glitched \ escalated)
  ELSE IF Completions /= {} THEN Completions
  ELSE {activateTask(t) : t \in {u \in plan : Activatable(u)}}

reconcileFeaturePlan ==
  \E j \in Jobs \cup {ExtendDeadline(t) : t \in {u \in plan : Extendable(u)}} :
    /\ job["reconciler"] = None
    /\ job' = [job EXCEPT !["reconciler"] = j]
    /\ UNCHANGED <<plan, task, invocations, recommended, disturbances>>

Disturb == disturbances < MaxDisturbances /\ disturbances' = disturbances + 1

(* The operator asks for the recovery of a terminal attempt.                *)
OperatorRecovers(t) ==
  \E bound \in BOOLEAN :
    /\ job["operator"] = None /\ Retried(t, bound)
    /\ job' = [job EXCEPT !["operator"] = RetryFailedTask(t, bound)]
    /\ Disturb
    /\ UNCHANGED <<plan, task, invocations, recommended>>

-----------------------------------------------------------------------------
(* The kernel's answer to a command.                                        *)

Attempts(t, purpose) == {i \in Of(t) : invocations[i].purpose = purpose}

(* Mutated: an attempt that runs for the purpose does not stand in the way. *)
AdmittedBesideActive(t, a) == Runnable(t)

(* WorkAuthorization: the attempts for a purpose are linear, a failure is   *)
(* followed on a new profile, a success on a new condition.                 *)
Admitted(t, a) ==
  /\ Runnable(t) /\ task[t].profGen = task[t].gen
  /\ \A i \in Attempts(t, a.purpose) : Terminal(i) /\ i <= a.prior
  /\ (a.prior /= 0 /\ recoverableTaskTerminal(a.prior)) => task[t].prof > invocations[a.prior].prof
  /\ (a.prior /= 0 /\ Succeeded(a.prior)) => Condition(t, a.outs, a.extra) /= invocations[a.prior].cond

Accepts(c) ==
  LET t == c.task IN
  CASE c.op = "reopen" -> task[t].phase = "COMPLETED"
    [] c.op = "profile" -> task[t].profGen + c.arg = task[t].gen
    [] c.op = "unblock" -> task[t].blocked /= None
    [] c.op = "block" -> Runnable(t)
    [] c.op = "activate" -> task[t].phase = "PLANNED"
    [] c.op = "complete" -> Runnable(t) /\ task[t].profGen = task[t].gen
    [] c.op = "authorize" -> Admitted(t, c.arg)
    [] c.op = "reread" -> Runnable(t)
    [] OTHER -> TRUE

Changed(c) ==
  LET was == task[c.task] IN
  CASE c.op = "reopen" -> [was EXCEPT !.phase = "ACTIVE", !.gen = @ + 1]
    [] c.op = "profile" -> [was EXCEPT !.prof = @ + 1, !.profGen = was.gen]
    [] c.op = "scope" -> [was EXCEPT !.scope = c.arg]
    [] c.op = "unblock" -> [was EXCEPT !.blocked = None, !.unblocked = c.arg]
    [] c.op = "block" -> [was EXCEPT !.blocked = [by |-> c.arg.by, why |-> c.arg.why]]
    [] c.op = "activate" -> [was EXCEPT !.phase = "ACTIVE"]
    [] c.op = "complete" -> [was EXCEPT !.phase = "COMPLETED", !.done = c.arg]
    [] OTHER -> was

Invocation(t, a) ==
  [task |-> t, purpose |-> a.purpose, attempt |-> a.attempt, prior |-> a.prior, cond |-> Condition(t, a.outs, a.extra),
   prof |-> task[t].prof, gen |-> task[t].gen, saw |-> task[t].scope,
   state |-> "RUNNING", verdict |-> None, class |-> None, late |-> FALSE]

TaskCommands == {"reopen", "profile", "scope", "unblock", "block", "activate", "complete"}
Rest(p, c) ==
  IF Len(job[p].cmds) = 1 THEN None
  ELSE [fresh |-> IF c.op = "reread" THEN job[p].fresh \cup {c.task} ELSE job[p].fresh, cmds |-> Tail(job[p].cmds)]
Guarded(c) == c.op \in TaskCommands \cup {"authorize"}

(* The other job, whose next command is now bound to be refused if it is    *)
(* one for the same task.                                                   *)
Overtaken(q, c) ==
  CASE job[q] = None \/ c.op \notin TaskCommands -> job[q]
    [] job[q] /= None /\ c.op \in TaskCommands /\ Guarded(Head(job[q].cmds)) /\ Head(job[q].cmds).task = c.task -> None
    [] OTHER -> [job[q] EXCEPT !.fresh = @ \ {c.task}]

(* The next command of a job; a refusal ends the job.                       *)
Submit(p) ==
  /\ job[p] /= None
  /\ LET c == Head(job[p].cmds)
         mine == Accepts(c) /\ (Guarded(c) => c.task \in job[p].fresh)
     IN
     /\ (mine /\ c.op = "profile") => task[c.task].prof < MaxProfile
     /\ (mine /\ c.op = "authorize") => Len(invocations) < MaxInvocations
     /\ job' = [q \in Processes |-> IF q = p THEN (IF mine THEN Rest(p, c) ELSE None)
                                     ELSE IF mine THEN Overtaken(q, c) ELSE job[q]]
     /\ task' = IF mine /\ c.op \in TaskCommands THEN [task EXCEPT ![c.task] = Changed(c)] ELSE task
     /\ invocations' = IF mine /\ c.op = "authorize" THEN Append(invocations, Invocation(c.task, c.arg)) ELSE invocations
     /\ UNCHANGED <<plan, recommended, disturbances>>

(* A job ends early: the daemon stops, the role is not idle, or a command   *)
(* is refused that was attributed to an execution replaced since.           *)
Abandon(p) ==
  /\ job[p] /= None /\ job' = [job EXCEPT ![p] = None] /\ Disturb
  /\ UNCHANGED <<plan, task, invocations, recommended>>

-----------------------------------------------------------------------------
(* An attempt ends.                                                         *)

Report(i, state, verdict, class, late) ==
  /\ ~Terminal(i)
  /\ invocations' = [invocations EXCEPT ![i] = [@ EXCEPT !.state = state, !.verdict = verdict, !.class = class, !.late = late]]
  /\ UNCHANGED <<plan, task, job, recommended, disturbances>>

Verdicts(t) == IF Purpose(t) = "IMPLEMENTATION" THEN {"PASS", "REPORTED"} ELSE {"PASS", "FAIL", "INVALID", "REPORTED"}
Succeed(i) == \E v \in Verdicts(invocations[i].task), c \in {None, "repeated"} :
  /\ c = "repeated" => v = "INVALID" /\ \E j \in Of(invocations[i].task) : j < i
  /\ Report(i, "SUCCEEDED", v, c, FALSE)

(* A failure may be one of those that are tried again, unless its output    *)
(* repeats an earlier one ("fatal" as well), and it may be recovered too    *)
(* late: after its deadline.                                                *)
Fail(i) == \E c \in {"retryable", "glitch", "fatal"}, late \in BOOLEAN :
  /\ c = "fatal" => ~late
  /\ Report(i, "FAILED", None, c, late)
TimeOut(i) == \E c \in {"retryable", "fatal"} : Report(i, "TIMED_OUT", None, c, FALSE)

(* recordFeatureAcceptanceRecommendation.                                   *)
Recommendable(p) ==
  /\ \A t \in plan : task[t].phase = "COMPLETED"
  /\ \A t \in plan : (t = p \/ Validates(t) /= {}) => Succeeded(Output(t)) /\ Verdict(t) = "PASS"
  /\ wholeFeatureValidationTaskID /= None =>
       invocations[Output(wholeFeatureValidationTaskID)].saw = invocations[Output(p)].saw
Recommend(p) ==
  /\ recommended = None /\ Purpose(p) = "PROMOTION" /\ job["reconciler"] = None /\ Recommendable(p)
  /\ recommended' = invocations[Output(p)].saw
  /\ UNCHANGED <<plan, task, invocations, job, disturbances>>

Init ==
  /\ plan \in Plans /\ task = [t \in plan |-> Planned] /\ invocations = <<>>
  /\ job = [p \in Processes |-> None] /\ recommended = None /\ disturbances = 0

Next ==
  \/ reconcileFeaturePlan
  \/ \E p \in Processes : Submit(p) \/ Abandon(p)
  \/ \E t \in plan : OperatorRecovers(t) \/ Recommend(t)
  \/ \E i \in Indices : Succeed(i) \/ Fail(i) \/ TimeOut(i)

Spec == Init /\ [][Next]_vars

-----------------------------------------------------------------------------
(* A task that has validators of its own is completed on a review of its    *)
(* output by all of them, each in a workspace that held this very output.   *)
Inspected(i, cand) == cand \in invocations[i].saw /\ invocations[i].verdict = "PASS"
ReviewedOnlyAsInspected ==
  \A t \in plan : (task[t].phase = "COMPLETED" /\ TaskValidators(t) /= {}) =>
    /\ {invocations[i].task : i \in task[t].done.by} = TaskValidators(t)
    /\ \A i \in task[t].done.by : Inspected(i, task[t].done.cand)

(* The same, except for a retry of a failed attempt, whose condition is not *)
(* compared with the candidate.                                             *)
CompletedOnVerdicts ==
  \A t \in plan : (task[t].phase = "COMPLETED" /\ TaskValidators(t) /= {}) =>
    /\ {invocations[i].task : i \in task[t].done.by} = TaskValidators(t)
    /\ \A i \in task[t].done.by :
         \/ Inspected(i, task[t].done.cand)
         \/ /\ invocations[i].verdict = "PASS" /\ invocations[i].prior /= 0
            /\ recoverableTaskTerminal(invocations[i].prior)

(* At no time do two attempts run for one task.                             *)
OneAttemptPerTask == \A i, j \in Indices : (invocations[i].task = invocations[j].task /\ ~Terminal(i) /\ ~Terminal(j)) => i = j
=============================================================================
