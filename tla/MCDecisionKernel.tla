-------------------------- MODULE MCDecisionKernel --------------------------
(***************************************************************************)
(* Scenarios for the decision path: small sets of commands chosen so that   *)
(* the interesting conflicts can happen between two handlers.               *)
(***************************************************************************)
EXTENDS DecisionKernel, TLC

CONSTANTS A, B, X,        \* two work aggregates and an execution registry entry
          worker,         \* an actor
          h1, h2          \* handlers

Base == [id |-> 1, key |-> "k1", type |-> "create", target |-> A, expect |-> 0, pre |-> {},
         actor |-> worker, exec |-> 0, policy |-> 1, valid |-> TRUE, body |-> "b1"]
Change(id, key, expect, exec) ==
  [Base EXCEPT !.id = id, !.key = key, !.type = "change", !.expect = expect, !.exec = exec]
CreateB(id, revision) ==
  [Base EXCEPT !.id = id, !.key = "kb", !.target = B, !.pre = {[agg |-> A, revision |-> revision]}]
RegisterX == [Base EXCEPT !.id = 4, !.type = "register", !.target = X, !.exec = 1]
ReplaceX == [RegisterX EXCEPT !.id = 5, !.key = "k2", !.type = "replace", !.expect = 1, !.exec = 2]

(* Retries with the same and with a new id, reuse of an id and of a key     *)
(* with another content, a command for the next policy, a malformed one.    *)
IdempotencyCommands ==
  {Base, [Base EXCEPT !.id = 2], [Base EXCEPT !.body = "b2"], [Base EXCEPT !.id = 3, !.body = "b2"],
   [Base EXCEPT !.id = 4, !.key = "k2", !.policy = 2],
   [Base EXCEPT !.id = 5, !.key = "k3", !.valid = FALSE]}

(* An execution is registered, changes an aggregate and is replaced, in     *)
(* competition with a change by nobody's execution and one attempt beyond   *)
(* the limit; the replacement depends on the aggregate's revision.          *)
FencingCommands ==
  {Base, RegisterX, [ReplaceX EXCEPT !.pre = {[agg |-> A, revision |-> 1]}],
   Change(6, "k1", 1, 1), Change(7, "k2", 1, 0), Change(8, "k3", 2, 0)}

(* A command whose precondition never holds.                                *)
PreconditionCommands == {Base, CreateB(8, 2)}

AllTypes == [p \in Policies |-> Types]
CreateHiddenLater == [p \in Policies |-> IF p = 1 THEN Types ELSE Types \ {"create"}]

(* No action reads an answer, an audit or the command of an idle handler:   *)
(* states that differ only there behave alike.                              *)
ActiveView == <<store, pc, snap, [h \in {g \in Handlers : pc[g] # "idle"} |-> cmd[h]]>>
HandlerSymmetry == Permutations(Handlers)
=============================================================================
