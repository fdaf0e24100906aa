------------------------ MODULE MCWorkAuthorization ------------------------
(* Two handlers at work on the account of one story: from the moment its    *)
(* task has been prepared by one of them alone (CreateBudget, BindBudget,   *)
(* BindProfile, AuthorizeAssignment, BindScope), where the races begin; and *)
(* from a task that was blocked and unblocked before there is an account.   *)
EXTENDS WorkAuthorization, TLC

Symmetry == Permutations(Handlers) \cup Permutations(Invocations)

Full == [p \in Purposes |-> 2]
MCBudgets == {[limit |-> 1, purpose |-> [p \in Purposes |-> 1]], [limit |-> 2, purpose |-> Full]}
Prepared ==
  /\ account = [rev |-> 1, policy |-> 1, limit |-> 2, purpose |-> Full,
                used |-> 0, purposeUsed |-> Zero, deadline |-> 2]
  /\ task = [t \in Tasks |->
       [rev |-> 5, gen |-> 1, runnable |-> TRUE,
        binding |-> [gen |-> 1, limit |-> 2, purpose |-> Full, used |-> 0, purposeUsed |-> Zero],
        scope |-> [gen |-> 1, execution |-> 1],
        profile |-> [rev |-> 1, gen |-> 1, deadline |-> 1, cites |-> {}],
        assignment |-> [profile |-> 1, execution |-> 1]]]
  /\ invocation = [i \in Invocations |-> None]
  /\ execution = 1 /\ now = 0
  /\ decided = [h \in Handlers |-> None]

Unprepared ==
  /\ account = None
  /\ task = [t \in Tasks |-> [rev |-> 5, gen |-> 1, runnable |-> TRUE, binding |-> None,
                              scope |-> None, profile |-> None, assignment |-> None]]
  /\ invocation = [i \in Invocations |-> None]
  /\ execution = 1 /\ now = 0
  /\ decided = [h \in Handlers |-> None]

(* Revisions only grow: a decision that is out of date stays so.            *)
View == <<account, task, invocation, execution, now,
          [h \in Handlers |-> IF Free(h) THEN None ELSE decided[h]]>>

MCSpec == (Prepared \/ Unprepared) /\ [][Next]_vars
=============================================================================
