------------------------------ MODULE MCAgents ------------------------------
(* Small instances of the agents.                                           *)
EXTENDS Agents, TLC

CONSTANTS w1, w2

TwoWorkers == {w1, w2}

(* One effect after another, so that a worker can come back to the first    *)
(* when the second is under way; or the other tools, one call.              *)
Briefs == {[tools |-> {"write", "submit_result"}, submissions |-> 2, turns |-> 2],
           [tools |-> {"git", "test", "read", "submit_result"}, submissions |-> 1, turns |-> 1]}

(* An implementation, its validation and a promotion that waits for it.     *)
PurposeOfTask(t) == CASE t = "a" -> "IMPLEMENTATION" [] t = "v" -> "VALIDATION" [] OTHER -> "PROMOTION"
Targets(t) == IF t = "v" THEN {"a"} ELSE {}
Dependencies(t) == CASE t = "a" -> {} [] t = "v" -> {"a"} [] OTHER -> {"v"}
Self(t) == t

Symmetry == Permutations(TwoWorkers)

(* How an attempt ended matters while it is its task's last.                *)
Forgotten(i) ==
  IF i = Task!Output(invocations[i].task) THEN invocations[i] ELSE [invocations[i] EXCEPT !.class = Nil, !.late = FALSE]
View ==
  <<agent, nativeVars, hostVars,
    IF agent = "task"
    THEN <<plan, task, [i \in DOMAIN invocations |-> Forgotten(i)], job, recommended, disturbances>> ELSE taskVars>>

(* A fourth attempt only in the small plan after three that did not fail; a *)
(* disturbance in the large plan, or a second one, before the third attempt.*)
Unsuccessful == {i \in DOMAIN invocations : invocations[i].state \in {"FAILED", "TIMED_OUT"}}
Bounded ==
  agent = "task" =>
    /\ Len(invocations) > 3 => Unsuccessful = {} /\ "p" \notin plan
    /\ disturbances > 0 => "p" \notin plan \/ Len(invocations) <= 2
    /\ disturbances > 1 => "p" \notin plan /\ Len(invocations) <= 2
=============================================================================
