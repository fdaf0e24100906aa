-------------------------- MODULE WorkflowInstance --------------------------
(***************************************************************************)
(* A workflow instance and the messages that bring it work                  *)
(* (kernel/workflow.go and workflow_admission.go, stored by                 *)
(* adapters/mongo/workflow_store.go, driven by                              *)
(* organization/workflow_admission_coordinator.go).  An instance starts     *)
(* with one node per stage of its definition.  A message is bound to the    *)
(* stage it asks for, which renames the stage's open node after it; the     *)
(* host then admits or rejects it; the work moves the node on.  Every write *)
(* replaces the whole instance on its revision and is validated as a whole. *)
(*                                                                          *)
(* Each store operation reads and replaces the instance in one transaction  *)
(* guarded by its revision, so it is one step.  A transition carries the    *)
(* revision its caller read before; the answer to a repeated event is the   *)
(* stored instance, so a repetition changes nothing.                        *)
(***************************************************************************)
EXTENDS Integers, FiniteSets

CONSTANTS Stages, DependsOn,  \* the definition: stages, and those each one follows
          Optional, Repair,   \* stages that may be skipped, and that follow a failure
          Messages, StageOf,  \* messages, and the stage each is for
          Expansions,         \* sets of identifiers for the nodes of an expansion
          None, MaxRevision

VARIABLES instance,   \* the stored instance, or None
          messages,   \* per message: PENDING, BOUND (and pending) or RESOLVED
          admissions, \* per message: the recorded outcome, or None
          request     \* a transition on its way, with the revision it was built on

vars == <<instance, messages, admissions, request>>

terminal(i) == i.state \in {"COMPLETED", "FAILED", "CANCELLED"}
Node(stage, preds, state) == [stage |-> stage, preds |-> preds, state |-> state, from |-> None, for |-> None, attempt |-> 0]
Finished == {"COMPLETED", "SKIPPED"}

SkippedCounts(i, n) ==
  LET states == {i.nodes[p].state : p \in i.nodes[n].preds} IN
  IF i.nodes[n].stage \notin Repair THEN states \subseteq Finished
  ELSE "FAILED" \in states /\ states \subseteq {"COMPLETED", "FAILED"}
predecessorsSatisfied(i, n) ==
  LET states == {i.nodes[p].state : p \in i.nodes[n].preds} IN
  IF i.nodes[n].stage \in Optional THEN states \subseteq Finished
  ELSE IF i.nodes[n].stage \notin Repair THEN states \subseteq {"COMPLETED"}
  ELSE "FAILED" \in states /\ states \subseteq {"COMPLETED", "FAILED"}

(* The nodes that follow none are taken away, as often as there are nodes:  *)
(* none is left unless there is a cycle.                                    *)
ValidateDAG(nodes) ==
  LET count == Cardinality(DOMAIN nodes)
      left[k \in 0 .. count] ==
        IF k = 0 THEN DOMAIN nodes ELSE LET before == left[k - 1] IN {n \in before : nodes[n].preds \cap before /= {}}
  IN left[count] = {}

(* What every write must leave behind.  A node may follow nodes of its own  *)
(* stage and of the stages before it; it need not follow all of them.       *)
Validate(i) ==
  /\ \A n \in DOMAIN i.nodes :
       LET node == i.nodes[n] IN
       /\ node.preds \subseteq DOMAIN i.nodes \ {n}
       /\ \A p \in node.preds : i.nodes[p].stage \in DependsOn[node.stage] \cup {node.stage}
       /\ (node.state = "BLOCKED") = (node.from /= None)
       /\ node.state \in {"ADMITTED", "RUNNING", "COMPLETED", "FAILED"} => node.attempt > 0
       /\ node.state \in {"PENDING", "READY", "SKIPPED"} => node.attempt = 0
       /\ node.state = "READY" => predecessorsSatisfied(i, n)
       /\ node.state = "PENDING" => ~predecessorsSatisfied(i, n)
  /\ ValidateDAG(i.nodes)
  /\ LET in(S) == {n \in DOMAIN i.nodes : i.nodes[n].state \in S} IN
     /\ (i.state = "COMPLETED") = (in(Finished) = DOMAIN i.nodes)
     /\ i.state = "FAILED" => in({"FAILED"}) /= {}
     /\ i.state = "CANCELLED" => in({"COMPLETED", "CANCELLED"}) = DOMAIN i.nodes
     /\ i.state = "BLOCKED" => in({"BLOCKED"}) /= {}

refreshWorkflowReadiness(i) ==
  [i EXCEPT !.nodes = [n \in DOMAIN i.nodes |->
                         IF i.nodes[n].state = "PENDING" /\ predecessorsSatisfied(i, n)
                         THEN [i.nodes[n] EXCEPT !.state = "READY"] ELSE i.nodes[n]],
            !.state = IF \A n \in DOMAIN i.nodes : i.nodes[n].state \in Finished THEN "COMPLETED" ELSE @]

NewWorkflowInstance ==
  [state |-> "ACTIVE", revision |-> 1, proposed |-> {},
   nodes |-> [s \in Stages |-> Node(s, DependsOn[s], IF DependsOn[s] = {} THEN "READY" ELSE "PENDING")]]

(* The nodes `new' take the place of an open one, and of its edges.         *)
ExpandWorkflowNode(i, placeholder, new) ==
  LET rewired(n) == [i.nodes[n] EXCEPT !.preds = IF placeholder \in @ THEN (@ \ {placeholder}) \cup DOMAIN new ELSE @]
      nodes == [n \in (DOMAIN i.nodes \ {placeholder}) \cup DOMAIN new |-> IF n \in DOMAIN new THEN new[n] ELSE rewired(n)]
      j == [i EXCEPT !.nodes = nodes]
  IN [j EXCEPT !.nodes = refreshWorkflowReadiness(j).nodes, !.revision = @ + 1]

workflowNodeForStage(i, stage) == {n \in DOMAIN i.nodes : i.nodes[n].stage = stage /\ i.nodes[n].state \in {"PENDING", "READY"}}

Write(i) == Validate(i) /\ i.revision <= MaxRevision /\ instance' = i

(* The node is named after the message.  The first message brings the       *)
(* instance with it.                                                        *)
BindMessageToWorkflow(m) ==
  /\ messages[m] = "PENDING"
  /\ messages' = [messages EXCEPT ![m] = "BOUND"]
  /\ LET i == IF instance = None THEN [NewWorkflowInstance EXCEPT !.revision = 0] ELSE instance
         stage == StageOf[m]
     IN
     /\ instance = None => DependsOn[stage] = {}
     /\ \E n \in workflowNodeForStage(i, stage) :
          Write(ExpandWorkflowNode(i, n, [x \in {m} |-> Node(stage, i.nodes[n].preds, "PENDING")]))
  /\ UNCHANGED <<admissions, request>>

(* New nodes for one, each following any nodes of the result.               *)
Expand(stage, ids) ==
  /\ instance /= None /\ instance.revision < MaxRevision
  /\ ids /= {} /\ ids \cap DOMAIN instance.nodes = {}
  /\ \E n \in workflowNodeForStage(instance, stage) :
       \E wiring \in [ids -> SUBSET {p \in (DOMAIN instance.nodes \ {n}) \cup ids :
                                      p \in ids \/ instance.nodes[p].stage \in DependsOn[stage] \cup {stage}}] :
         Write(ExpandWorkflowNode(instance, n, [k \in ids |-> Node(stage, wiring[k], "PENDING")]))
  /\ UNCHANGED <<messages, admissions, request>>

workflowAdmissionReason(i, m, facts) ==
  CASE terminal(i) -> "WORKFLOW_TERMINAL"
    [] m \in i.proposed -> "DUPLICATE_NODE"
    [] m \notin DOMAIN i.nodes -> "UNDECLARED_TRANSITION"
    [] i.nodes[m].state = "PENDING" -> "PREDECESSOR_INCOMPLETE"
    [] i.nodes[m].state /= "READY" -> "DUPLICATE_NODE"
    [] ~facts.valid -> "INELIGIBLE"    \* causation, actor and budget, in this order
    [] StageOf[m] \in Repair /\ ~facts.changed
       /\ (\E p \in i.nodes[m].preds : i.nodes[p].state = "FAILED") -> "NO_PROGRESS"
    [] OTHER -> "ADMITTED"

Admitted(i, n, by) == [i EXCEPT !.nodes[n].state = "ADMITTED", !.nodes[n].attempt = @ + 1, !.nodes[n].for = by]

(* The message is resolved whether it is admitted or rejected, and the      *)
(* outcome answers every later call.                                        *)
Admit(m, facts) ==
  /\ messages[m] = "BOUND" /\ admissions[m] = None
  /\ LET reason == workflowAdmissionReason(instance, m, facts)
         next == IF reason = "ADMITTED" THEN Admitted(instance, m, m) ELSE instance
     IN /\ Write([next EXCEPT !.proposed = @ \cup {m}, !.revision = @ + 1])
        /\ admissions' = [admissions EXCEPT ![m] = reason]
  /\ messages' = [messages EXCEPT ![m] = "RESOLVED"]
  /\ UNCHANGED request

(* One transition of one node, `for' the invocation it was admitted under.  *)
applyWorkflowTransition(i, kind, n, for) ==
  LET node == i.nodes[n]
      mine == node.for = for
      to(state) == [i EXCEPT !.nodes[n].state = state]
  IN
  IF terminal(i) THEN None ELSE
  CASE kind = "CANCEL" -> [i EXCEPT !.state = "CANCELLED",
                                    !.nodes = [k \in DOMAIN i.nodes |-> IF i.nodes[k].state = "COMPLETED" THEN i.nodes[k]
                                                                        ELSE [i.nodes[k] EXCEPT !.state = "CANCELLED"]]]
    [] kind = "START" /\ node.state = "ADMITTED" /\ mine -> to("RUNNING")
    [] kind = "COMPLETE" /\ node.state = "RUNNING" /\ mine -> refreshWorkflowReadiness(to("COMPLETED"))
    [] kind = "SKIP" /\ node.state = "READY" /\ node.stage \in Optional -> refreshWorkflowReadiness(to("SKIPPED"))
    [] kind = "FAIL" /\ node.state = "RUNNING" /\ mine -> refreshWorkflowReadiness(to("FAILED"))
    [] kind = "TERMINAL" /\ node.state = "RUNNING" /\ mine -> [to("FAILED") EXCEPT !.state = "FAILED"]
    [] kind = "BLOCK" /\ node.state \in {"READY", "ADMITTED", "RUNNING"} ->
         [to("BLOCKED") EXCEPT !.nodes[n].from = node.state, !.state = "BLOCKED"]
    [] kind = "READY" /\ node.state = "BLOCKED" /\ predecessorsSatisfied(i, n) ->
         [to(node.from) EXCEPT !.nodes[n].from = None, !.state = "ACTIVE"]
    [] kind = "CHECKPOINT" /\ node.state \in {"ADMITTED", "RUNNING", "BLOCKED"} -> i  \* its checkpoint apart
    [] OTHER -> None

Kinds == {"CANCEL", "START", "COMPLETE", "SKIP", "FAIL", "TERMINAL", "BLOCK", "READY", "CHECKPOINT"}

(* The caller reads the instance and decides on what it finds.              *)
ReadWorkflowInstance(kind, n) ==
  /\ request = None /\ instance /= None /\ n \in DOMAIN instance.nodes
  /\ applyWorkflowTransition(instance, kind, n, instance.nodes[n].for) /= None
  /\ request' = [kind |-> kind, node |-> n, for |-> instance.nodes[n].for, revision |-> instance.revision]
  /\ UNCHANGED <<instance, messages, admissions>>

ApplyWorkflowTransition ==
  /\ request /= None
  /\ request' = None
  /\ LET next == IF request.revision /= instance.revision \/ request.node \notin DOMAIN instance.nodes THEN None
                 ELSE applyWorkflowTransition(instance, request.kind, request.node, request.for)
     IN IF next /= None /\ instance.revision < MaxRevision /\ Validate(next)
        THEN instance' = [next EXCEPT !.revision = @ + 1]
        ELSE UNCHANGED instance
  /\ UNCHANGED <<messages, admissions>>

Init ==
  /\ instance = None /\ request = None
  /\ messages = [m \in Messages |-> "PENDING"] /\ admissions = [m \in Messages |-> None]

Next ==
  \/ \E m \in Messages : BindMessageToWorkflow(m)
  \/ \E m \in Messages, valid, changed \in BOOLEAN : Admit(m, [valid |-> valid, changed |-> changed])
  \/ \E s \in Stages, ids \in Expansions : Expand(s, ids)
  \/ \E kind \in Kinds, n \in Stages \cup Messages \cup UNION Expansions : ReadWorkflowInstance(kind, n)
  \/ ApplyWorkflowTransition

Spec == Init /\ [][Next]_vars

(* The work is done in the order of the graph: what a node follows was      *)
(* completed when the node was given out or skipped (was skipped, before an *)
(* optional stage; completed or failed, before a repair), and all that      *)
(* those follow was over too, however nodes were renamed, expanded, blocked *)
(* and rewired meanwhile (predecessorsSatisfied, ExpandWorkflowNode,        *)
(* BindMessageToWorkflow).  The graph need not keep the order of the        *)
(* stages: an expansion may leave out the stages its own one depends on.    *)
NodesInOrder ==
  instance /= None /\ instance.state /= "CANCELLED" =>
    \A n \in DOMAIN instance.nodes :
      LET node == instance.nodes[n] IN
      node.attempt > 0 \/ node.state = "SKIPPED" =>
        /\ \A p \in node.preds :
             instance.nodes[p].state \in {"COMPLETED"} \cup (IF node.stage \in Optional THEN {"SKIPPED"} ELSE {})
                                                     \cup (IF node.stage \in Repair THEN {"FAILED"} ELSE {})
        /\ \E over \in SUBSET {p \in DOMAIN instance.nodes : instance.nodes[p].state \in Finished \cup {"FAILED"}} :
             node.preds \subseteq over /\ \A p \in over : instance.nodes[p].preds \subseteq over
=============================================================================
