--------------------------- MODULE MCOrganization ---------------------------
(* Small instances of the organization's work.  Of the two deployments, one *)
(* has one actor and a clock that is ahead.                                 *)
EXTENDS Organization

StoryOfTask == [t \in {"t1", "t2"} |-> IF t = "t1" THEN "s1" ELSE "s2"]
StoriesInOrder == <<"s1", "s2">>
ValidatedBy == [t \in {"t1", "t2"} |-> IF t = "t1" THEN {} ELSE {"t1"}]
TasksInOrder == <<"t1", "t2">>

StageBefore == [s \in {"design", "build", "fix"} |-> IF s = "design" THEN {} ELSE {"design"}]
StageFor == [m1 |-> "design", m2 |-> "build", m3 |-> "fix"]

HomeOf == [a |-> "here", b |-> "there", c |-> "there"]
OpenerOf == [t |-> "a"]
Ahead == [here |-> 1, there |-> 0]

FewSources == {<<"s", "t1", "b", "i">>}
Sources == FewSources \cup {<<"r1", "r2", "e", "s", "t1", "t2", "b", "i">>}
Kinds == [r1 |-> "completion-review", r2 |-> "completion-review", e |-> "escalation", s |-> "story",
          t1 |-> "task", t2 |-> "task", b |-> "work-budget", i |-> "work-invocation"]
About == [r1 |-> "t1", r2 |-> "t1", e |-> "s", t1 |-> "s", t2 |-> "s", i |-> "t1"]

(* The two nodes of an expansion may be exchanged for each other: the       *)
(* second follows the first or has no fewer edges.                          *)
RepresentativeNodes ==
  subject = "workflow" /\ instance /= None /\ {"x", "y"} \subseteq DOMAIN instance.nodes =>
    LET x == instance.nodes["x"].preds
        y == instance.nodes["y"].preds
    IN "y" \notin x /\ ("x" \in y \/ Cardinality(x) <= Cardinality(y))

(* Of the roles, the third only receives messages.  The other two, the      *)
(* threads and the reports of progress may be exchanged for each other, so  *)
(* the first message stands for all.                                        *)
Representative ==
  subject = "bus" =>
    /\ roles["a3"] = 1 /\ \A r \in loaded : r[1] /= "a3"
    /\ messages /= <<>> => messages[1].sender = "a1" /\ messages[1].thread = "t1" /\ messages[1].progress = "p1"
=============================================================================
