---------------------------- MODULE FeatureStage ----------------------------
(***************************************************************************)
(* The planning of one feature (operationalruntime/feature_stage_runtime.go *)
(* and feature_workflow.go, organization/feature_coordinator.go): product   *)
(* owner, project manager and architect refine, specify, design and         *)
(* finalize it in turn.  Each stage is a kernel task, a node of a workflow  *)
(* and the message that hands the feature over; the reconciler moves all    *)
(* three and then the feature, one durable write after the other, on the    *)
(* revision of the feature it listed.  Operators answer questions, correct  *)
(* the specification, retry a stage and request a new plan meanwhile.       *)
(*                                                                          *)
(* A message is named by its hop.  A task is named by its stage and, for    *)
(* the architect's and the plan's, by the round.  The commands of a pass on *)
(* a task carry the task's revision, so that reading it and commanding it   *)
(* are one step.  The nodes of a workflow follow one another.               *)
(***************************************************************************)
EXTENDS Integers, Sequences, FiniteSets

CONSTANTS Workflows,    \* versions of the software-development workflow
          MaximumHops, MaxRound, MaxAttempt, None

VARIABLES workflow,  \* the version the feature was submitted under
          feature,   \* the stored record
          inbox,     \* the messages of its thread, by hop
          nodes,     \* per stage of the workflow: its node's state
          tasks,     \* per planning task: phase, block and last invocation
          pass,      \* the reconciler: [pc, f, t], or None
          op         \* the feature as an operator's correction read it

vars == <<workflow, feature, inbox, nodes, tasks, pass, op>>

Tasks == {<<"refinement", 0>>, <<"specification", 0>>} \cup ({"architecture", "finalization"} \X (0..MaxRound))
NoTask == [phase |-> None, blocked |-> None, attempt |-> 0, inv |-> None, output |-> None, root |-> None, current |-> TRUE]
Chain == CASE workflow = "1" -> <<"refine", "specify", "design">>
           [] workflow = "2" -> <<"refine", "specify", "design", "finalize-plan">>
           [] workflow = "2.1" -> <<"refine", "specify", "design", "finalize-plan", "revise-design", "finalize-plan-revised">>
Done(s) == nodes[s] \in {"COMPLETED", "SKIPPED"}
Ready(s) == nodes[s] = "OPEN" /\ \A i \in 2..Len(Chain) : Chain[i] = s => Done(Chain[i - 1])

planningStage(status) ==
  CASE status = "SUBMITTED" -> "refinement" [] status = "READY_FOR_PLANNING" -> "specification"
    [] status = "SPECIFIED" -> "architecture" [] status = "DESIGNED" -> "finalization" [] OTHER -> None

(* One revision the project manager asks for has nodes of its own.          *)
activePMDesignRevision(f) == f.revised /\ f.plan = 0 /\ f.supersession = None
workflowStageForFeature(f) ==
  CASE f.status = "SUBMITTED" -> "refine" [] f.status = "READY_FOR_PLANNING" -> "specify"
    [] f.status = "SPECIFIED" -> IF activePMDesignRevision(f) /\ workflow = "2.1" THEN "revise-design" ELSE "design"
    [] f.status = "DESIGNED" -> IF activePMDesignRevision(f) /\ workflow = "2.1" THEN "finalize-plan-revised" ELSE "finalize-plan"
    [] OTHER -> None

Rounds == {r \in 0..MaxRound : tasks[<<"architecture", r>>].phase /= None}
latestArchitecturePlanRound == IF Rounds = {} THEN 0 ELSE CHOOSE r \in Rounds : \A q \in Rounds : q <= r

(* The architect's plan is no longer reviewed, so a round is succeeded only *)
(* by a revision, a replan or a correction.                                 *)
desiredArchitecturePlanRound(f) ==
  LET r == latestArchitecturePlanRound IN
  IF f.revised /\ r = 0 THEN 1
  ELSE IF f.supersession /= None /\ r < f.supersession THEN f.supersession
  ELSE IF f.correction /= None /\ r < f.correction THEN f.correction ELSE r

Completed(t) == tasks[t].phase = "COMPLETED"
PlanningTask(f) ==
  CASE f.status = "SPECIFIED" -> <<"architecture", desiredArchitecturePlanRound(f)>>
    [] f.status = "DESIGNED" -> <<"finalization", latestArchitecturePlanRound>>
    [] OTHER -> <<planningStage(f.status), 0>>

(* What a task of the stage must follow.                                    *)
Follows(f, t) ==
  CASE t[1] = "specification" -> Completed(<<"refinement", 0>>)
    [] t[1] = "architecture" ->
         /\ Completed(<<"specification", 0>>)
         /\ t[2] > 0 =>
              LET before == <<"architecture", t[2] - 1>> IN
              /\ Completed(before) \/ (f.correction = t[2] /\ tasks[before].blocked /= None)
              /\ f.supersession = t[2] \/ f.correction = t[2] \/ (f.revised /\ t[2] = 1 /\ Completed(<<"finalization", 0>>))
    [] t[1] = "finalization" -> f.design = t[2] /\ Completed(<<"architecture", t[2]>>)
    [] OTHER -> TRUE

(* The thread of a feature takes the next hop of the same scope, sent by    *)
(* the last recipient.                                                      *)
advanceMessageThread(f, sender) ==
  /\ f.hop + 1 <= MaximumHops
  /\ f.scope = inbox[1].scope /\ inbox[Len(inbox)].to = sender
Message(f, to) == [to |-> to, scope |-> f.scope, node |-> None, admission |-> None]

At(pc) == pass /= None /\ pass.pc = pc
Goto(pc) == pass' = [pass EXCEPT !.pc = pc]
Stop == pass' = None
Linked(f) == inbox[f.hop]

-----------------------------------------------------------------------------
(* A pass over a feature that is being planned.                             *)
Begin ==
  /\ pass = None /\ planningStage(feature.status) /= None
  /\ pass' = [pc |-> "bind", f |-> feature, t |-> None]
  /\ UNCHANGED <<workflow, feature, inbox, nodes, tasks, op>>

(* bindCurrentFeatureWorkflowStage and BindMessageToWorkflow: a node the    *)
(* message can be bound to must still be untouched.                         *)
bindCurrentFeatureWorkflowStage ==
  /\ \/ /\ At("bind")
        /\ LET f == pass.f IN
           IF Linked(f).node /= None THEN Goto("task") /\ UNCHANGED inbox
           ELSE IF nodes[workflowStageForFeature(f)] = "OPEN"
                THEN inbox' = [inbox EXCEPT ![f.hop].node = workflowStageForFeature(f)] /\ Goto("task")
                ELSE Stop /\ UNCHANGED inbox
     \/ /\ At("bindnext")
        /\ LET s == workflowStageForFeature(feature) IN
           inbox' = IF Linked(feature).node = None /\ s /= None /\ nodes[s] = "OPEN"
                    THEN [inbox EXCEPT ![feature.hop].node = s] ELSE inbox
        /\ Stop
  /\ UNCHANGED <<workflow, feature, nodes, tasks, op>>

(* The worker of the recipient has the message admitted                     *)
(* (AdmitWorkflowMessage): the node is its own from then on and the message *)
(* resolved, as it is by a refusal.                                         *)
Admit(h) ==
  /\ inbox[h].node /= None /\ inbox[h].admission = None
  /\ \/ /\ Ready(inbox[h].node)
        /\ inbox' = [inbox EXCEPT ![h].admission = "ADMITTED"]
        /\ nodes' = [nodes EXCEPT ![inbox[h].node] = "ADMITTED"]
     \/ inbox' = [inbox EXCEPT ![h].admission = "REJECTED"] /\ UNCHANGED nodes
  /\ UNCHANGED <<workflow, feature, tasks, pass, op>>

(* ensureFeaturePlanningTask: the task is created, then given its first     *)
(* attempt, which is the admitted one unless an earlier round has used it.  *)
ensureFeaturePlanningTask ==
  /\ At("task")
  /\ LET f == pass.f
         t == PlanningTask(f)
         used == \E u \in Tasks : tasks[u].root = f.hop
     IN IF Linked(f).admission /= "ADMITTED" \/ ~Follows(f, t)
        THEN Stop /\ UNCHANGED tasks
        ELSE CASE tasks[t].phase = None -> tasks' = [tasks EXCEPT ![t].phase = "READY"] /\ UNCHANGED pass
               [] tasks[t].phase = "READY" ->
                    /\ tasks' = [tasks EXCEPT ![t] = [@ EXCEPT !.phase = "ACTIVE", !.attempt = 1, !.inv = "AUTHORIZED",
                                                       !.root = IF used THEN None ELSE f.hop]]
                    /\ UNCHANGED pass
               [] OTHER -> pass' = [pass EXCEPT !.pc = "start", !.t = t] /\ UNCHANGED tasks
  /\ UNCHANGED <<workflow, feature, inbox, nodes, op>>

workflowStageInvocationAccepted(f, t) ==
  \/ tasks[t].root = f.hop
  \/ /\ f.supersession /= None \/ f.correction /= None
     /\ tasks[t].attempt = 1
     /\ IF f.status = "DESIGNED" /\ f.supersession /= None THEN t = <<"finalization", f.supersession>>
        ELSE t[1] = "architecture" /\ t[2] > 0
startFeatureWorkflowStage ==
  /\ At("start")
  /\ LET n == Linked(pass.f).node IN
     IF ~workflowStageInvocationAccepted(pass.f, pass.t) \/ nodes[n] \notin {"ADMITTED", "RUNNING", "COMPLETED"}
     THEN Stop /\ UNCHANGED nodes
     ELSE /\ nodes' = [nodes EXCEPT ![n] = IF @ = "ADMITTED" THEN "RUNNING" ELSE @]
          /\ IF tasks[pass.t].inv = "SUCCEEDED" THEN Goto("settle") ELSE Stop
  /\ UNCHANGED <<workflow, feature, inbox, tasks, op>>

(* mayRoutePMDesignRevision and featureDesignRevisionEnabled.               *)
RevisionRequested(f, t) ==
  /\ t[1] = "finalization" /\ tasks[t].output = "needs_decision" /\ ~f.revised
  /\ f.hop + 2 <= MaximumHops /\ workflow = "2.1"

(* The output settles the task; a block for an invalid output is lifted     *)
(* when the deployed decoder accepts it after all.                          *)
settleFeatureStage ==
  /\ At("settle")
  /\ LET t == pass.t
         k == tasks[t]
         rev == RevisionRequested(pass.f, t)
     IN CASE ~k.current \/ k.inv /= "SUCCEEDED" -> Stop /\ UNCHANGED tasks
          [] k.blocked /= None /\ k.current /\ k.inv = "SUCCEEDED" ->
               IF k.blocked = "invalid" /\ k.output /= "invalid"
               THEN tasks' = [tasks EXCEPT ![t].blocked = None] /\ UNCHANGED pass ELSE Stop /\ UNCHANGED tasks
          [] OTHER ->
               IF k.phase = "COMPLETED" THEN Goto("node") /\ UNCHANGED tasks
               ELSE IF k.output = "needs_decision" /\ ~rev THEN tasks' = [tasks EXCEPT ![t].blocked = "decision"] /\ Stop
               ELSE IF k.output = "invalid" THEN tasks' = [tasks EXCEPT ![t].blocked = "invalid"] /\ Stop
               ELSE tasks' = [tasks EXCEPT ![t].phase = "COMPLETED"] /\ Goto("node")
  /\ UNCHANGED <<workflow, feature, inbox, nodes, op>>

completeFeatureWorkflowStage ==
  /\ At("node")
  /\ LET n == Linked(pass.f).node IN
     IF nodes[n] \notin {"RUNNING", "COMPLETED"} THEN Stop /\ UNCHANGED nodes
     ELSE /\ nodes' = [nodes EXCEPT ![n] = "COMPLETED"]
          /\ Goto(IF pass.t[1] = "finalization" /\ ~pass.f.revised /\ ~RevisionRequested(pass.f, pass.t) /\ workflow = "2.1"
                  THEN "skip" ELSE "apply")
  /\ UNCHANGED <<workflow, feature, inbox, tasks, op>>

(* skipUnusedFeatureRevision: one node after the other.                     *)
skipUnusedFeatureRevision ==
  /\ At("skip")
  /\ LET s == IF nodes["revise-design"] = "SKIPPED" THEN "finalize-plan-revised" ELSE "revise-design" IN
     CASE Ready(s) -> nodes' = [nodes EXCEPT ![s] = "SKIPPED"] /\ UNCHANGED pass
       [] nodes[s] = "SKIPPED" -> Goto("apply") /\ UNCHANGED nodes
       [] OTHER -> Stop /\ UNCHANGED nodes
  /\ UNCHANGED <<workflow, feature, inbox, tasks, op>>

-----------------------------------------------------------------------------
(* The feature's store: a write carries the revision that was read.         *)
(* Mutated: the last writer wins.                                           *)
Overwrite(f) == TRUE
Unchanged(f) == feature.revision = f.revision
AdvanceFeature(f, next) == Unchanged(f) /\ feature' = [next EXCEPT !.revision = f.revision + 1] /\ UNCHANGED inbox
AdvanceWithMessage(f, next, sender, to) ==
  /\ Unchanged(f) /\ advanceMessageThread(f, sender)
  /\ inbox' = Append(inbox, Message(f, to))
  /\ feature' = [next EXCEPT !.revision = f.revision + 1, !.hop = f.hop + 1]

Refine(f, output) ==
  IF output = "questions" THEN AdvanceFeature(f, [f EXCEPT !.status = "CLARIFICATION_REQUIRED"])
  ELSE AdvanceWithMessage(f, [f EXCEPT !.status = "READY_FOR_PLANNING"], "product-owner", "project-manager")
Specify(f) == AdvanceWithMessage(f, [f EXCEPT !.status = "SPECIFIED"], "project-manager", "architect")
RecordDesign(f, r) == AdvanceWithMessage(f, [f EXCEPT !.status = "DESIGNED", !.design = r], "architect", "project-manager")
RequestDesignRevision(f) ==
  AdvanceWithMessage(f, [f EXCEPT !.status = "SPECIFIED", !.design = None, !.revised = TRUE], "project-manager", "architect")

(* The plan's tasks are materialized before (FeatureDelivery).              *)
ApplyPlan(f, r) ==
  AdvanceFeature(f, [f EXCEPT !.status = "PLANNED", !.plan = @ + 1, !.supersession = None, !.source = r])

Apply(f, t) ==
  CASE t[1] = "refinement" -> Refine(f, tasks[t].output)
    [] t[1] = "specification" -> Specify(f)
    [] t[1] = "architecture" -> IF workflow = "1" THEN ApplyPlan(f, t[2]) ELSE RecordDesign(f, t[2])
    [] t[1] = "finalization" -> IF RevisionRequested(f, t) THEN RequestDesignRevision(f) ELSE ApplyPlan(f, t[2])

(* Otherwise the write is refused and the pass fails.                       *)
Applicable(f, t) ==
  /\ Unchanged(f)
  /\ CASE t[1] = "refinement" -> tasks[t].output /= "questions" => advanceMessageThread(f, "product-owner")
       [] t[1] = "specification" -> advanceMessageThread(f, "project-manager")
       [] t[1] = "architecture" -> workflow /= "1" => advanceMessageThread(f, "architect")
       [] t[1] = "finalization" -> RevisionRequested(f, t) => f.plan = 0 /\ advanceMessageThread(f, "project-manager")
applyFeatureStageOutput ==
  /\ At("apply")
  /\ IF Applicable(pass.f, pass.t) THEN Apply(pass.f, pass.t) /\ Goto("bindnext")
     ELSE Stop /\ UNCHANGED <<feature, inbox>>
  /\ UNCHANGED <<workflow, nodes, tasks, op>>

-----------------------------------------------------------------------------
(* The operator.                                                            *)
RespondToClarification ==
  /\ feature.status = "CLARIFICATION_REQUIRED"
  /\ AdvanceWithMessage(feature, [feature EXCEPT !.status = "READY_FOR_PLANNING"], "product-owner", "project-manager")
  /\ UNCHANGED <<workflow, nodes, tasks, pass, op>>

(* CorrectFeatureSpecification: once, before there is a plan, while the     *)
(* architect's task is blocked.                                             *)
ReadSpecification ==
  /\ op = None /\ feature.status = "SPECIFIED" /\ feature.plan = 0 /\ feature.correction = None
  /\ latestArchitecturePlanRound < MaxRound
  /\ LET t == <<"architecture", latestArchitecturePlanRound>> IN tasks[t].blocked /= None /\ tasks[t].inv \in {"SUCCEEDED", "FAILED"}
  /\ op' = [f |-> feature, round |-> latestArchitecturePlanRound + 1]
  /\ UNCHANGED <<workflow, feature, inbox, nodes, tasks, pass>>
CorrectSpecification ==
  /\ op /= None /\ op' = None
  /\ \/ AdvanceFeature(op.f, [op.f EXCEPT !.scope = @ + 1, !.correction = op.round])
     \/ UNCHANGED <<feature, inbox>>
  /\ UNCHANGED <<workflow, nodes, tasks, pass>>

(* RequestFeatureReplan, once the plan's tasks are retired (FeatureDelivery).*)
RequestReplan ==
  /\ feature.status = "PLANNED" /\ latestArchitecturePlanRound < MaxRound
  /\ AdvanceFeature(feature, [feature EXCEPT !.status = "SPECIFIED", !.design = None, !.scope = @ + 1,
                                             !.supersession = latestArchitecturePlanRound + 1])
  /\ UNCHANGED <<workflow, nodes, tasks, pass, op>>

(* RetryCancelledFeaturePlanning: the profile first, the attempt last.      *)
planningFeatureForTask(t) ==
  planningStage(feature.status) = t[1] /\ (t[1] /= "architecture" => t[2] = 0)
recoverablePlanningInvocation(t) == tasks[t].inv = "FAILED" \/ (tasks[t].inv = "SUCCEEDED" /\ tasks[t].blocked = "invalid")
BindRecoveryProfile(t) ==
  /\ planningFeatureForTask(t) /\ recoverablePlanningInvocation(t) /\ tasks[t].current /\ tasks[t].attempt < MaxAttempt
  /\ tasks' = [tasks EXCEPT ![t].current = FALSE]
  /\ UNCHANGED <<workflow, feature, inbox, nodes, pass, op>>
RetryCancelledFeaturePlanning(t) ==
  /\ planningFeatureForTask(t) /\ ~tasks[t].current
  /\ tasks' = [tasks EXCEPT ![t] = [@ EXCEPT !.current = TRUE, !.blocked = None, !.attempt = tasks[t].attempt + 1, !.inv = "AUTHORIZED", !.output = None]]
  /\ UNCHANGED <<workflow, feature, inbox, nodes, pass, op>>

(* The agent; and a deployment that decodes what it put out.                *)
Outputs(t) == {"valid", "invalid"} \cup (CASE t[1] = "refinement" -> {"questions"} [] t[1] = "finalization" -> {"needs_decision"} [] OTHER -> {})
Execute(t) ==
  /\ tasks[t].inv = "AUTHORIZED"
  /\ \/ \E o \in Outputs(t) : tasks' = [tasks EXCEPT ![t] = [@ EXCEPT !.inv = "SUCCEEDED", !.output = o]]
     \/ tasks' = [tasks EXCEPT ![t].inv = "FAILED"]
  /\ UNCHANGED <<workflow, feature, inbox, nodes, pass, op>>
Redeploy(t) ==
  /\ tasks[t].blocked = "invalid" /\ tasks[t].output = "invalid"
  /\ tasks' = [tasks EXCEPT ![t].output = "valid"]
  /\ UNCHANGED <<workflow, feature, inbox, nodes, pass, op>>

Crash == pass /= None /\ Stop /\ UNCHANGED <<workflow, feature, inbox, nodes, tasks, op>>

(* Submitted, its message not yet bound.                                    *)
Init ==
  /\ workflow \in Workflows
  /\ feature = [status |-> "SUBMITTED", revision |-> 1, hop |-> 1, scope |-> 1, design |-> None, revised |-> FALSE,
                plan |-> 0, source |-> None, supersession |-> None, correction |-> None]
  /\ inbox = <<[to |-> "product-owner", scope |-> 1, node |-> None, admission |-> None]>>
  /\ nodes = [s \in {Chain[i] : i \in DOMAIN Chain} |-> "OPEN"]
  /\ tasks = [t \in Tasks |-> NoTask]
  /\ pass = None /\ op = None

Pass ==
  \/ Begin \/ bindCurrentFeatureWorkflowStage \/ ensureFeaturePlanningTask \/ startFeatureWorkflowStage
  \/ settleFeatureStage \/ completeFeatureWorkflowStage \/ skipUnusedFeatureRevision \/ applyFeatureStageOutput
Operator ==
  \/ RespondToClarification \/ ReadSpecification \/ CorrectSpecification \/ RequestReplan
  \/ \E t \in Tasks : BindRecoveryProfile(t) \/ RetryCancelledFeaturePlanning(t) \/ Redeploy(t)
Others == (\E h \in DOMAIN inbox : Admit(h)) \/ (\E t \in Tasks : Execute(t))
Next == Pass \/ Operator \/ Others \/ Crash
Spec == Init /\ [][Next]_vars

(* The loop of the service passes over the features again and again.        *)
FairSpec == Init /\ [][Pass \/ Operator \/ Others]_vars /\ WF_vars(Pass)

-----------------------------------------------------------------------------
(* A feature is handed over only once its stage is done, and what it is     *)
(* planned from is the design the architect made for the specification as   *)
(* it was last corrected, whatever the operator did while a pass was        *)
(* applying an earlier one.                                                 *)
PlannedAsSpecified ==
  /\ Len(inbox) = feature.hop
  /\ \A h \in DOMAIN inbox : h < feature.hop => inbox[h].admission = "ADMITTED" /\ nodes[inbox[h].node] = "COMPLETED"
  /\ feature.design /= None => feature.design = latestArchitecturePlanRound /\ Completed(<<"architecture", feature.design>>)
  /\ feature.correction /= None =>
       /\ feature.scope > 1
       /\ feature.design /= None => feature.design >= feature.correction
       /\ feature.source /= None => feature.source >= feature.correction
  /\ feature.status = "PLANNED" => Completed(<<IF workflow = "1" THEN "architecture" ELSE "finalization", feature.source>>)

(* A design that succeeds an earlier one is used: the feature moves on once *)
(* the architect's task of a later round is completed.                      *)
SuccessorDesignIsUsed ==
  \A r \in 1..MaxRound :
    (feature.status = "SPECIFIED" /\ desiredArchitecturePlanRound(feature) = r /\ Completed(<<"architecture", r>>)) ~> (feature.status /= "SPECIFIED")
=============================================================================
