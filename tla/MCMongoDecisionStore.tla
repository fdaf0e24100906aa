------------------------ MODULE MCMongoDecisionStore ------------------------
(* Two handlers over the Mongo store, with the commands whose documents     *)
(* overlap: a creation and a stale one under the same key, an execution     *)
(* registered and replaced while it changes an aggregate, another change.   *)
EXTENDS MongoDecisionStore, TLC

CONSTANTS A, X,    \* a work aggregate and an execution registry entry
          worker, h1, h2

CreateA == [id |-> 1, key |-> <<"k", 1>>, type |-> "create", target |-> A, expect |-> 0, pre |-> {},
            actor |-> worker, exec |-> 0, policy |-> 1, valid |-> TRUE, body |-> "b1"]
ChangeA(id, exec) ==
  [CreateA EXCEPT !.id = id, !.key = <<"k", id>>, !.type = "change", !.expect = 1, !.exec = exec]
RegisterX == [CreateA EXCEPT !.id = 3, !.type = "register", !.target = X, !.exec = 1]
ReplaceX == [RegisterX EXCEPT !.id = 4, !.type = "replace", !.expect = 1, !.exec = 2]

MCCommands ==
  {CreateA, [CreateA EXCEPT !.id = 2, !.policy = 2], RegisterX,
   [ReplaceX EXCEPT !.pre = {[agg |-> A, revision |-> 1]}],
   ChangeA(5, 1), ChangeA(6, 0)}
SkewCommands == {CreateA, RegisterX, ReplaceX, ChangeA(5, 1)}

AllTypes == [p \in Policies |-> Types]
HandlerSymmetry == Permutations(Handlers)
=============================================================================
