--------------------------- MODULE TeamContinuity ---------------------------
(***************************************************************************)
(* Suspending a team and the work coordinated meanwhile.  The system        *)
(* aggregate holds the control state and the power epoch                    *)
(* (kernel/continuity.go); a coordination is admitted under an epoch and    *)
(* every command it issues is checked against the fence again               *)
(* (application/continuity_ports.go, continuity_coordinator.go).  The       *)
(* coordination is the assignment of a task: ready, authorize, dispatch     *)
(* (kernel/assignment.go, application/assignment_coordinator.go).           *)
(*                                                                          *)
(* The fence reads the system aggregate and the command commits to another  *)
(* aggregate: the team may be suspended in between.                         *)
(***************************************************************************)
EXTENDS Integers, FiniteSets

CONSTANTS Coordinators, Executions, Actors,
          Cost(_),      \* reported cost of a candidate, by actor
          None,
          MaxEpoch, MaxSetBacks     \* bounds

VARIABLES team,     \* control state, power epoch, admission, executions in flight and unresolved
          dep,      \* the phase of the task's dependency
          task,     \* phase, revision, the actor authorized and dispatched to
          op,       \* per coordinator: the coordination in progress, or None
          late,     \* per coordinator: commands it committed after its epoch ended
          back      \* per coordinator: configurations that set the epoch back meanwhile

vars == <<team, dep, task, op, late, back>>

-----------------------------------------------------------------------------
(* The team.  Every event advances the revision the command named, so a     *)
(* transition is one step.                                                  *)

(* Only an active team is configured again (kernel/operator_human_          *)
(* continuity_policy.go:35); the epoch is the payload's, and one that sets  *)
(* it back is accepted too.                                                 *)
ConfigureContinuity(epoch) ==
  /\ team.state = "ACTIVE"
  /\ \A c \in Coordinators : op[c] /= None /\ epoch < team.epoch => back[c] < MaxSetBacks
  /\ team' = [team EXCEPT !.epoch = epoch, !.inflight = {}, !.unresolved = {}]
  /\ back' = [c \in Coordinators |-> IF epoch < team.epoch /\ op[c] /= None THEN back[c] + 1 ELSE back[c]]
  /\ UNCHANGED <<dep, task, op, late>>

RequestQuiescence(inflight) ==
  /\ team.state = "ACTIVE" /\ team.epoch < MaxEpoch
  /\ team' = [state |-> "QUIESCING", epoch |-> team.epoch + 1, open |-> FALSE, inflight |-> inflight, unresolved |-> {}]
  /\ UNCHANGED <<dep, task, op, late, back>>

(* The records name exactly the executions in flight; the detached and the  *)
(* unknown ones stay unresolved.                                            *)
RecordSuspended(recorded, unresolved) ==
  /\ team.state = "QUIESCING" /\ recorded = team.inflight /\ unresolved \subseteq recorded
  /\ team' = [team EXCEPT !.state = "SUSPENDED", !.unresolved = unresolved]
  /\ UNCHANGED <<dep, task, op, late, back>>

BeginReconciliation(unresolved) ==
  /\ team.state = "SUSPENDED" /\ unresolved = team.unresolved
  /\ team' = [team EXCEPT !.state = "RECONCILING"]
  /\ UNCHANGED <<dep, task, op, late, back>>

(* An outage is recorded in any state; what it names replaces what was      *)
(* unresolved before.                                                       *)
RecordUnexpectedOutage(inflight) ==
  /\ team.epoch < MaxEpoch
  /\ team' = [state |-> "RECONCILING", epoch |-> team.epoch + 1, open |-> FALSE, inflight |-> inflight, unresolved |-> inflight]
  /\ UNCHANGED <<dep, task, op, late, back>>

sameUUIDSet(reconciled, unresolved) == reconciled = unresolved

Resume(reconciled) ==
  /\ team.state = "RECONCILING" /\ sameUUIDSet(reconciled, team.unresolved)
  /\ team' = [team EXCEPT !.state = "ACTIVE", !.open = TRUE, !.inflight = {}, !.unresolved = @ \ reconciled]
  /\ UNCHANGED <<dep, task, op, late, back>>

-----------------------------------------------------------------------------
(* The coordination of an assignment.                                       *)

EvaluateContinuityAdmission(epoch) == epoch = team.epoch /\ team.open

(* Of the eligible candidates the cheapest, then the first by name.         *)
Chosen(eligible) == CHOOSE a \in eligible : \A b \in eligible : Cost(a) <= Cost(b)

(* An unowned runnable task whose dependency is in the phase required; a    *)
(* task that is ready already needs no readiness.                           *)
PlanAssignment(eligible) ==
  /\ task.authorized = None /\ task.phase \in {"PLANNED", "READY"}
  /\ dep = "COMPLETED" /\ eligible /= {}

Coordinate(c, eligible) ==
  /\ op[c] = None /\ PlanAssignment(eligible)
  /\ EvaluateContinuityAdmission(team.epoch)
  /\ op' = [op EXCEPT ![c] = [step |-> IF task.phase = "PLANNED" THEN "ready" ELSE "authorize", fenced |-> FALSE,
                              epoch |-> team.epoch, rev |-> task.rev, actor |-> Chosen(eligible)]]
  /\ late' = [late EXCEPT ![c] = 0] /\ back' = [back EXCEPT ![c] = 0]
  /\ UNCHANGED <<team, dep, task>>

(* Mutated: only the first command of a coordination is checked.            *)
RequireFirst(c) ==
  /\ op[c] /= None
  /\ ~ op[c].fenced
  /\ op' = [op EXCEPT ![c] = IF EvaluateContinuityAdmission(op[c].epoch) \/ op[c].rev /= 1
                             THEN [op[c] EXCEPT !.fenced = TRUE] ELSE None]
  /\ UNCHANGED <<team, dep, task, late, back>>

(* PowerFence.Require before each command; a refusal ends the coordination. *)
Require(c) ==
  /\ op[c] /= None
  /\ ~ op[c].fenced
  /\ op' = [op EXCEPT ![c] = IF EvaluateContinuityAdmission(op[c].epoch) THEN [op[c] EXCEPT !.fenced = TRUE] ELSE None]
  /\ UNCHANGED <<team, dep, task, late, back>>

Applied(step, actor) ==
  CASE step = "ready" -> [task EXCEPT !.phase = "READY", !.rev = @ + 1]
    [] step = "authorize" -> [task EXCEPT !.authorized = actor, !.rev = @ + 1]
    [] step = "dispatch" -> [task EXCEPT !.phase = "DISPATCHED", !.dispatched = actor, !.rev = @ + 1]

Following(step) == CASE step = "ready" -> "authorize" [] step = "authorize" -> "dispatch" [] step = "dispatch" -> "done"

(* The command is decided on the revision its plan or its predecessor left; *)
(* anything but APPLIED ends the coordination.                              *)
Handle(c) ==
  /\ op[c] /= None
  /\ op[c].fenced
  /\ IF task.rev = op[c].rev
     THEN /\ task' = Applied(op[c].step, op[c].actor)
          /\ late' = [late EXCEPT ![c] = IF EvaluateContinuityAdmission(op[c].epoch) THEN @ ELSE @ + 1]
          /\ op' = [op EXCEPT ![c] = IF Following(op[c].step) = "done" THEN None
                                     ELSE [op[c] EXCEPT !.step = Following(@), !.fenced = FALSE, !.rev = @ + 1]]
     ELSE op' = [op EXCEPT ![c] = None] /\ UNCHANGED <<task, late>>
  /\ UNCHANGED <<team, dep, back>>

(* The caller gives up; its assignment is not taken back here.              *)
Abandon(c) == op[c] /= None /\ op' = [op EXCEPT ![c] = None] /\ UNCHANGED <<team, dep, task, late, back>>

MoveDependency ==
  /\ dep' = IF dep = "COMPLETED" THEN "ACTIVE" ELSE "COMPLETED"
  /\ UNCHANGED <<team, task, op, late, back>>

Init ==
  /\ team = [state |-> "ACTIVE", epoch |-> 1, open |-> TRUE, inflight |-> {}, unresolved |-> {}]
  /\ dep = "ACTIVE" /\ task = [phase |-> "PLANNED", rev |-> 1, authorized |-> None, dispatched |-> None]
  /\ op = [c \in Coordinators |-> None] /\ late = [c \in Coordinators |-> 0] /\ back = [c \in Coordinators |-> 0]

Next ==
  \/ \E epoch \in 1 .. MaxEpoch : ConfigureContinuity(epoch)
  \/ \E x \in SUBSET Executions : RequestQuiescence(x) \/ BeginReconciliation(x) \/ RecordUnexpectedOutage(x) \/ Resume(x)
  \/ \E x, y \in SUBSET Executions : RecordSuspended(x, y)
  \/ \E c \in Coordinators, eligible \in SUBSET Actors : Coordinate(c, eligible)
  \/ \E c \in Coordinators : Require(c) \/ Handle(c) \/ Abandon(c)
  \/ MoveDependency

Spec == Init /\ [][Next]_vars

-----------------------------------------------------------------------------
(* Once the team is suspended, a coordination admitted before gets at most  *)
(* the one command through whose check was already done; every              *)
(* configuration that sets the epoch back, which nothing refuses, can       *)
(* revive the admission and let one more through.  The task is dispatched   *)
(* to nobody but the actor authorized for it, and the team is active again  *)
(* only when nothing is unresolved (PowerFencedCommandService.Handle,       *)
(* ApplyContinuityEvent).                                                   *)
AtMostOneLateCommand ==
  /\ \A c \in Coordinators : late[c] <= 1 + back[c]
  /\ task.dispatched /= None => task.dispatched = task.authorized
  /\ team.open <=> (team.state = "ACTIVE")
  /\ team.open => team.unresolved = {}

(* docs/architecture/022: a suspension "advances a monotonic `power_epoch`".*)
(* It does not hold: configure-continuity sets the epoch to any value.      *)
EpochAdvances == [][team'.epoch >= team.epoch]_vars
=============================================================================
