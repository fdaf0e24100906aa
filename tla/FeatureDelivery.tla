--------------------------- MODULE FeatureDelivery ---------------------------
(***************************************************************************)
(* A planned feature from its plan to its acceptance (operationalruntime/   *)
(* feature_planning.go, feature_replan.go and feature_acceptance.go).  The  *)
(* plan's stories and tasks are created one command at a time before the    *)
(* feature is stored as planned.  While the tasks are worked on, an         *)
(* operator may ask for a new plan, which retires the old one's work, or    *)
(* have a task done again that was completed.  When a pass over the tasks   *)
(* finds all of them completed, the submitter accepts: each story is        *)
(* completed, approved, released and accepted in turn, and the feature      *)
(* last.                                                                    *)
(*                                                                          *)
(* The calls of an operator are many commands, each on the revision the     *)
(* call read; they stop where one is refused or the daemon dies.  The       *)
(* commands carry keys derived from their subject: repeated, they answer as *)
(* before.  A task's revision is what the commands on it change: its phase  *)
(* and its block, not the invocation that runs for it.                      *)
(***************************************************************************)
EXTENDS Integers, Sequences, FiniteSets

CONSTANTS Stories, Tasks,  \* sequences: of a plan's stories, and of its tasks
          StoryOf,         \* per task: its story
          Validates,       \* per task: the tasks it validates
          None, MaxVersion, MaxCalls

VARIABLES feature,  \* the stored record
          tasks,    \* per version and task: phase, block and revision
          stories,  \* per version and story: stage, block and revision
          pass,     \* the reconciler materializing a plan, or None
          sweep,    \* the reconciler's pass over a planned feature, or None
          stale,    \* the validators whose last result is of an earlier candidate
          retry,    \* an operator's retry of a task under way, or None
          late,     \* the tasks taken up again after their story was completed
          replan,   \* an operator's replan under way, or None
          accept,   \* a submitter's acceptance under way, or None
          calls     \* operators' calls, questions to humans and repairs so far

workVars == <<sweep, stale, retry, late>>
vars == <<feature, tasks, stories, pass, sweep, stale, retry, late, replan, accept, calls>>

Versions == 1..MaxVersion
T == {Tasks[i] : i \in DOMAIN Tasks}
S == {Stories[i] : i \in DOMAIN Stories}
Absent == [phase |-> None, blocked |-> None, rev |-> 0]
Created(phase) == [phase |-> phase, blocked |-> None, rev |-> 1]

(* A command on a revision, and what it leaves.                             *)
Fresh(at, read) == at.rev = read.rev
Moved(w, phase) == [w EXCEPT !.phase = phase, !.rev = @ + 1]
Blocked(w, why) == [w EXCEPT !.blocked = why, !.rev = @ + 1]

currentFeature(rev, status) == feature.rev = rev /\ feature.status = status

-----------------------------------------------------------------------------
(* Planning.                                                                *)

Begin ==
  /\ pass = None /\ feature.status = "DESIGNED" /\ feature.version < MaxVersion
  /\ pass' = [rev |-> feature.rev, version |-> feature.version + 1]
  /\ UNCHANGED <<workVars, feature, tasks, stories, replan, accept, calls>>

(* Stories, then tasks, then the stories' activation; what is there already *)
(* is left as it is.                                                        *)
MaterializeFeaturePlan ==
  /\ pass /= None
  /\ LET v == pass.version
         story == {s \in S : stories[v][s].phase = None}
         task == {t \in T : tasks[v][t].phase = None}
         idle == {s \in S : stories[v][s].phase = "CREATED"}
     IN \/ \E s \in story : stories' = [stories EXCEPT ![v][s] = Created("CREATED")] /\ UNCHANGED tasks
        \/ story = {} /\ \E t \in task : tasks' = [tasks EXCEPT ![v][t] = Created("PROPOSED")] /\ UNCHANGED stories
        \/ story \cup task = {} /\ \E s \in idle : stories' = [stories EXCEPT ![v][s] = Moved(@, "ACTIVE")] /\ UNCHANGED tasks
  /\ UNCHANGED <<workVars, feature, pass, replan, accept, calls>>

ApplyPlan ==
  /\ pass /= None
  /\ \A s \in S : stories[pass.version][s].phase \notin {None, "CREATED"}
  /\ \A t \in T : tasks[pass.version][t].phase /= None
  /\ feature' = IF currentFeature(pass.rev, "DESIGNED")
                THEN [feature EXCEPT !.status = "PLANNED", !.rev = @ + 1, !.version = pass.version] ELSE feature
  /\ pass' = None
  /\ UNCHANGED <<workVars, tasks, stories, replan, accept, calls>>

-----------------------------------------------------------------------------
(* The work.                                                                *)

Working(t) == feature.status = "PLANNED" /\ tasks[feature.version][t].phase \in {"PROPOSED", "IN_PROGRESS"}
Work(t) ==
  /\ Working(t) /\ tasks[feature.version][t].blocked = None
  /\ tasks' = [tasks EXCEPT ![feature.version][t] = Moved(@, IF @.phase = "PROPOSED" THEN "IN_PROGRESS" ELSE "COMPLETED")]
  /\ UNCHANGED <<workVars, feature, stories, pass, replan, accept, calls>>

(* A repair makes another candidate: what was found about the last one by   *)
(* the task's validators is stale.                                          *)
RepairCandidate(t) ==
  /\ Working(t) /\ tasks[feature.version][t].phase = "IN_PROGRESS" /\ calls < MaxCalls
  /\ stale' = stale \cup {<<feature.version, u>> : u \in {u \in T : t \in Validates[u]}} /\ calls' = calls + 1
  /\ UNCHANGED <<feature, tasks, stories, pass, sweep, retry, late, replan, accept>>

(* The work stops on a question to a human, or on a failure an operator or  *)
(* the runtime itself later retries.                                        *)
Wait(t) ==
  /\ Working(t) /\ tasks[feature.version][t].blocked = None /\ calls < MaxCalls
  /\ tasks' = [tasks EXCEPT ![feature.version][t] = Blocked(@, "waiting")] /\ calls' = calls + 1
  /\ UNCHANGED <<workVars, feature, stories, pass, replan, accept>>

(* The answer lifts the block it set, whatever became of the feature.       *)
Answer(v, t) ==
  /\ tasks[v][t].blocked = "waiting"
  /\ tasks' = [tasks EXCEPT ![v][t] = Blocked(@, None)]
  /\ UNCHANGED <<workVars, feature, stories, pass, replan, accept, calls>>

(* A task is taken up again, whatever it was blocked for.  A task may be    *)
(* so after its story was completed: that is noted.                         *)
Past == {"COMPLETED", "APPROVED", "RELEASING", "QUALIFIED", "MERGED", "RELEASED", "ACCEPTED"}
Resumed(w) == [w EXCEPT !.phase = "IN_PROGRESS", !.blocked = None, !.rev = @ + 1]
Reopen(v, t, rev) ==
  IF tasks[v][t].rev = rev
  THEN /\ tasks' = [tasks EXCEPT ![v][t] = Resumed(@)]
       /\ stale' = stale \ {<<v, t>>}
       /\ late' = IF stories[v][StoryOf[t]].phase \in Past THEN late \cup {<<v, t>>} ELSE late
  ELSE UNCHANGED <<tasks, stale, late>>

(* An operator retries a task: one that is completed, or one the runtime    *)
(* gave up; not a retired one.  The feature is planned when the call reads  *)
(* it, and is not read again before the task is reopened.                   *)
classifyTaskRecovery(w) == <<w.phase, w.blocked>> \in {<<"COMPLETED", None>>, <<"IN_PROGRESS", "waiting">>}
RetryFailedTask(t) ==
  /\ retry = None /\ feature.status = "PLANNED" /\ classifyTaskRecovery(tasks[feature.version][t])
  /\ calls < MaxCalls /\ calls' = calls + 1
  /\ retry' = [version |-> feature.version, task |-> t, rev |-> tasks[feature.version][t].rev]
  /\ UNCHANGED <<feature, tasks, stories, pass, sweep, stale, late, replan, accept>>

reopenCompletedTaskForRecovery ==
  /\ retry /= None /\ Reopen(retry.version, retry.task, retry.rev)
  /\ retry' = None
  /\ UNCHANGED <<feature, stories, pass, sweep, replan, accept, calls>>

(* A pass over a planned feature reads its tasks one after another, and     *)
(* acts on what it read.                                                    *)
BeginSweep ==
  /\ sweep = None /\ feature.status = "PLANNED"
  /\ sweep' = [rev |-> feature.rev, version |-> feature.version, seen |-> <<>>]
  /\ UNCHANGED <<feature, tasks, stories, pass, stale, retry, late, replan, accept, calls>>

AllSeen == Len(sweep.seen) >= Len(Tasks)
reconcileFeaturePlan ==
  /\ sweep /= None /\ ~AllSeen
  /\ sweep' = [sweep EXCEPT !.seen = Append(@, tasks[sweep.version][Tasks[Len(@) + 1]])]
  /\ UNCHANGED <<feature, tasks, stories, pass, stale, retry, late, replan, accept, calls>>

(* A validator whose candidate has changed validates again, although it was *)
(* completed or blocked.                                                    *)
reconcileValidationRounds(i) ==
  /\ sweep /= None /\ AllSeen
  /\ <<sweep.version, Tasks[i]>> \in stale /\ sweep.seen[i].phase \in {"IN_PROGRESS", "COMPLETED"}
  /\ Reopen(sweep.version, Tasks[i], sweep.seen[i].rev)
  /\ sweep' = None
  /\ UNCHANGED <<feature, stories, pass, retry, replan, accept, calls>>

AllCompleted == \A i \in DOMAIN sweep.seen : sweep.seen[i].phase = "COMPLETED"
RecordAcceptanceRecommendation ==
  /\ sweep /= None /\ AllSeen
  /\ feature' = IF AllCompleted /\ currentFeature(sweep.rev, "PLANNED")
                THEN [feature EXCEPT !.status = "AWAITING_ACCEPTANCE", !.rev = @ + 1] ELSE feature
  /\ sweep' = None
  /\ UNCHANGED <<tasks, stories, pass, stale, retry, late, replan, accept, calls>>

-----------------------------------------------------------------------------
(* A new plan.                                                              *)

(* Everything is read first; completed work refuses the call.               *)
RequestFeatureReplan ==
  LET v == feature.version IN
  /\ replan = None /\ feature.status = "PLANNED"
  /\ calls < MaxCalls /\ calls' = calls + 1
  /\ \A t \in T : tasks[v][t].phase /= "COMPLETED"
  /\ \A s \in S : stories[v][s].phase = "ACTIVE"
  /\ replan' = [rev |-> feature.rev, version |-> v, tasks |-> tasks[v], stories |-> stories[v], at |-> 1]
  /\ UNCHANGED <<workVars, feature, tasks, stories, pass, accept>>

Retirable(w) == w.blocked = None

(* The next task, then the next story: blocked on the revision read, or     *)
(* passed over if it was blocked then.                                      *)
Retire ==
  LET v == replan.version
      task == replan.at <= Len(Tasks)
      x == IF task THEN Tasks[replan.at] ELSE Stories[replan.at - Len(Tasks)]
      read == IF task THEN replan.tasks[x] ELSE replan.stories[x]
      now == IF task THEN tasks[v][x] ELSE stories[v][x]
  IN
  /\ replan /= None /\ replan.at <= Len(Tasks) + Len(Stories)
  /\ replan' = IF Retirable(read) /\ ~Fresh(now, read) THEN None ELSE [replan EXCEPT !.at = @ + 1]
  /\ IF Retirable(read) /\ Fresh(now, read)
     THEN IF task THEN tasks' = [tasks EXCEPT ![v][x] = Blocked(@, "retired")] /\ UNCHANGED stories
                  ELSE stories' = [stories EXCEPT ![v][x] = Blocked(@, "retired")] /\ UNCHANGED tasks
     ELSE UNCHANGED <<tasks, stories>>
  /\ UNCHANGED <<workVars, feature, pass, accept, calls>>

(* The feature goes back to architecture, and from there to a new plan.     *)
RequestReplan ==
  /\ replan /= None /\ replan.at > Len(Tasks) + Len(Stories)
  /\ feature' = IF currentFeature(replan.rev, "PLANNED")
                THEN [feature EXCEPT !.status = "DESIGNED", !.rev = @ + 1] ELSE feature
  /\ replan' = None
  /\ UNCHANGED <<workVars, tasks, stories, pass, accept, calls>>

-----------------------------------------------------------------------------
(* Acceptance.                                                              *)

NoRevs == [t \in T |-> 0]
AcceptFeatureWithRelease(code) ==
  /\ accept = None /\ feature.status = "AWAITING_ACCEPTANCE"
  /\ calls < MaxCalls /\ calls' = calls + 1
  /\ accept' = [rev |-> feature.rev, version |-> feature.version, code |-> code, at |-> 1, next |-> "read", story |-> None,
              revs |-> NoRevs]
  /\ UNCHANGED <<workVars, feature, tasks, stories, pass, replan>>

TasksCompleted(v, s) == \A t \in T : StoryOf[t] = s => tasks[v][t].phase = "COMPLETED"

(* The story must be active when the call comes to it, and its tasks        *)
(* completed; they must be at the revisions read when the story is.         *)
completeAndAcceptFeatureStory ==
  /\ accept /= None /\ accept.next = "read" /\ accept.at <= Len(Stories)
  /\ LET story == stories[accept.version][Stories[accept.at]] IN
     accept' = IF story.phase = "ACTIVE" /\ TasksCompleted(accept.version, Stories[accept.at])
               THEN [accept EXCEPT !.next = "COMPLETED", !.story = story, !.revs = [t \in T |-> tasks[accept.version][t].rev]]
               ELSE None
  /\ UNCHANGED <<workVars, feature, tasks, stories, pass, replan, calls>>

(* Mutated: the tasks' revisions are not preconditions of the completion.   *)
TasksUnchecked(s) == TRUE

TasksUnmoved(s) == \A t \in T : StoryOf[t] = s => tasks[accept.version][t].rev = accept.revs[t]

(* The phases that follow one another, each one command on the story or on  *)
(* its release plan.                                                        *)
After(phase) ==
  CASE phase = "COMPLETED" -> "APPROVED" [] phase = "APPROVED" -> "RELEASING"
    [] phase = "RELEASING" -> IF accept.code THEN "QUALIFIED" ELSE "RELEASED"
    [] phase = "QUALIFIED" -> "MERGED" [] phase = "MERGED" -> "RELEASED"
    [] phase = "RELEASED" -> "ACCEPTED" [] OTHER -> "read"

(* The merge may fail, and then the call does.                              *)
AcceptStep(ok) ==
  /\ accept /= None /\ accept.next /= "read"
  /\ accept.next /= "MERGED" => ok
  /\ LET s == Stories[accept.at]
         story == stories[accept.version][s]
         applies == /\ ok /\ Fresh(story, accept.story) /\ story.blocked = None
                    /\ accept.next = "COMPLETED" => TasksUnmoved(s)
         next == Moved(story, accept.next)
     IN /\ stories' = IF applies THEN [stories EXCEPT ![accept.version][s] = next] ELSE stories
        /\ accept' = IF ~applies THEN None
                     ELSE [accept EXCEPT !.next = After(accept.next), !.story = next, !.revs = NoRevs,
                                         !.at = IF accept.next = "ACCEPTED" THEN @ + 1 ELSE @]
  /\ UNCHANGED <<workVars, feature, tasks, pass, replan, calls>>

AllStories == accept.at > Len(Stories)
Accept ==
  /\ accept /= None /\ accept.next = "read" /\ AllStories
  /\ feature' = IF currentFeature(accept.rev, "AWAITING_ACCEPTANCE")
                THEN [feature EXCEPT !.status = "ACCEPTED", !.rev = @ + 1] ELSE feature
  /\ accept' = None
  /\ UNCHANGED <<workVars, tasks, stories, pass, replan, calls>>

(* The daemon dies: every call in progress is gone.                         *)
Crash ==
  /\ <<pass, sweep, retry, replan, accept>> /= <<None, None, None, None, None>>
  /\ pass' = None /\ sweep' = None /\ retry' = None /\ replan' = None /\ accept' = None
  /\ UNCHANGED <<feature, tasks, stories, stale, late, calls>>

Init ==
  /\ feature = [status |-> "DESIGNED", rev |-> 1, version |-> 0]
  /\ tasks = [v \in Versions |-> [t \in T |-> Absent]]
  /\ stories = [v \in Versions |-> [s \in S |-> Absent]]
  /\ pass = None /\ sweep = None /\ retry = None /\ replan = None /\ accept = None
  /\ stale = {} /\ late = {} /\ calls = 0

Next ==
  \/ Begin \/ MaterializeFeaturePlan \/ ApplyPlan
  \/ \E t \in T : Work(t) \/ RepairCandidate(t) \/ Wait(t) \/ RetryFailedTask(t)
  \/ \E v \in Versions, t \in T : Answer(v, t)
  \/ reopenCompletedTaskForRecovery
  \/ BeginSweep \/ reconcileFeaturePlan \/ RecordAcceptanceRecommendation
  \/ \E i \in DOMAIN Tasks : reconcileValidationRounds(i)
  \/ RequestFeatureReplan \/ Retire \/ RequestReplan
  \/ \E code \in BOOLEAN : AcceptFeatureWithRelease(code)
  \/ completeAndAcceptFeatureStory \/ (\E ok \in BOOLEAN : AcceptStep(ok)) \/ Accept
  \/ Crash

Spec == Init /\ [][Next]_vars

(* What is delivered is whole: a story was completed when all its tasks     *)
(* were, at one moment, although tasks are reopened while the submitter     *)
(* accepts, on a pass that read them earlier, and replans and acceptances   *)
(* run into one another and die half way; only a task reopened afterwards   *)
(* may be open.  And of an accepted feature every story of the plan in      *)
(* force is released and accepted (completeAndAcceptFeatureStory,           *)
(* RetryFailedTask, RecordAcceptanceRecommendation).  The code does not     *)
(* promise more: an accepted feature may have an open task.                 *)
DeliveredWhole ==
  /\ \A v \in Versions, t \in T :
       stories[v][StoryOf[t]].phase \in Past => tasks[v][t].phase = "COMPLETED" \/ <<v, t>> \in late
  /\ feature.status = "ACCEPTED" => \A s \in S : stories[feature.version][s].phase = "ACCEPTED"

(* An accepted feature has no open task.  It does not hold: a retry reads   *)
(* that the feature is planned and reopens the task after it was accepted.  *)
AcceptedIsFinished ==
  feature.status = "ACCEPTED" => \A t \in T : tasks[feature.version][t].phase = "COMPLETED"

(* "RequestFeatureReplan retires only an uncompleted materialized task      *)
(* graph": once it has returned the feature to architecture, the plan's     *)
(* work is retired.  It does not hold of a task that waits for an answer.   *)
RetiredWhole ==
  feature.status = "DESIGNED" /\ feature.version > 0 =>
    \A t \in T : tasks[feature.version][t].blocked /= None
=============================================================================
