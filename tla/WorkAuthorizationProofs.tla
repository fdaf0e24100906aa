----------------------- MODULE WorkAuthorizationProofs -----------------------
(***************************************************************************)
(* Proofs about WorkAuthorization, for any number of tasks, purposes,       *)
(* handlers and invocations and any budgets: the counters count, attempts   *)
(* form a line, and a late authorization is never used.                     *)
(*                                                                          *)
(* A decision waits between its snapshot and its commit.  The invariant     *)
(* says of each waiting decision what it still knows: limits, as long as    *)
(* the revisions it read have not moved; the line of attempts, as long as   *)
(* the account's counter has not.  The commit compares exactly these.       *)
(***************************************************************************)
EXTENDS WorkAuthorization, FiniteSetTheorems, TLAPS

(***************************************************************************)
(* The inductive invariant.                                                 *)
(***************************************************************************)
ProfileType == [rev : Nat, gen : Nat, deadline : Nat, cites : SUBSET Invocations]
TaskType ==
  [rev : Nat, gen : Nat, runnable : BOOLEAN, binding : BindingType \cup {None},
   scope : [gen : Nat, execution : Nat] \cup {None}, profile : ProfileType \cup {None},
   assignment : [profile : Nat, execution : Nat] \cup {None}]

TypeOK ==
  /\ account \in AccountType \cup {None}
  /\ task \in [Tasks -> TaskType]
  /\ invocation \in [Invocations -> InvocationType \cup {None}]
  /\ execution \in Nat /\ now \in Nat
  /\ decided = [h \in Handlers |-> decided[h]]

(* What a decision that waits for its commit has in it.                     *)
DecisionType(d) ==
  /\ d.taskRev \in Nat /\ d.accountRev \in Nat
  /\ d.kind \in {"create", "amend", "binding", "authorize"}
  /\ d.kind = "create" =>
       d.value \in AccountType /\ d.value.used = 0 /\ d.value.purposeUsed = Zero
  /\ d.kind = "amend" => d.value.budget \in Budgets /\ d.value.deadline \in Nat
  /\ d.kind = "binding" =>
       /\ d.task \in Tasks /\ d.value \in BindingType
       /\ d.value.used = 0 /\ d.value.purposeUsed = Zero
  /\ d.kind = "authorize" =>
       /\ d.task \in Tasks /\ d.id \in Invocations
       /\ d.value \in InvocationType /\ d.value.task = d.task
       /\ d.value.state = "AUTHORIZED"

DecisionsType == \A h \in Handlers : decided[h] /= None => DecisionType(decided[h])

(* The counters.                                                            *)
OfTask(t) == {i \in Authorized : invocation[i].task = t}

AccountCounts ==
  /\ IsFiniteSet(Authorized)
  /\ account = None => Authorized = {}
  /\ account /= None =>
       /\ account.used = Cardinality(Authorized) /\ account.used <= account.limit
       /\ {invocation[i].ordinal : i \in Authorized} = 1..account.used
       /\ \A p \in Purposes : /\ account.purposeUsed[p] = Cardinality(AuthorizedFor(p))
                              /\ account.purposeUsed[p] <= account.purpose[p]
BindingCounts ==
  \A t \in Tasks :
    /\ task[t].binding = None => OfTask(t) = {}
    /\ task[t].binding /= None =>
         /\ task[t].binding.used = Cardinality(OfTask(t))
         /\ task[t].binding.used <= task[t].binding.limit

(* What a decision to authorize read still holds where the revisions and    *)
(* the counters have not moved since; and they only grow.                   *)
BudgetStands(d) ==
  /\ d.taskRev <= task[d.task].rev /\ task[d.task].binding /= None
  /\ d.taskRev = task[d.task].rev => d.value.taskUsed <= task[d.task].binding.limit
  /\ account /= None /\ d.accountRev <= account.rev
  /\ d.accountRev = account.rev => d.value.purposeOrdinal <= account.purpose[d.value.purpose]
  /\ d.value.ordinal <= account.used + 1
  /\ d.value.execution <= execution

AttemptFollows(v) ==
  /\ v.attempt = Cardinality(Of(v.task, v.purpose)) + 1
  /\ IF v.attempt = 1 THEN v.retryOf = None
     ELSE /\ v.retryOf \in Of(v.task, v.purpose)
          /\ invocation[v.retryOf].attempt = v.attempt - 1
          /\ invocation[v.retryOf].state \in Terminal \ {"EXPIRED"}

DecisionsStand ==
  \A h \in Handlers : decided[h] /= None =>
    /\ decided[h].kind = "amend" => account /= None
    /\ decided[h].kind = "authorize" =>
         /\ BudgetStands(decided[h])
         /\ account.used + 1 = decided[h].value.ordinal => AttemptFollows(decided[h].value)

(* A late authorization names an execution that is over.                    *)
LateIsStale ==
  \A i \in Authorized : invocation[i].late =>
    invocation[i].execution < execution /\ invocation[i].state \in {"AUTHORIZED", "EXPIRED"}

Counts == AccountCounts /\ BindingCounts
Types == TypeOK /\ DecisionsType
Inv == Types /\ Counts /\ DecisionsStand /\ AttemptsAreLinear /\ LateIsStale

-----------------------------------------------------------------------------
(* Frames.                                                                  *)

(* The sets of invocations depend on who exists, for which task and purpose.*)
LEMMA SetsKept ==
  ASSUME \A i \in Invocations :
           /\ Exists(i)' <=> Exists(i)
           /\ Exists(i) => /\ invocation'[i].task = invocation[i].task
                           /\ invocation'[i].purpose = invocation[i].purpose
  PROVE  /\ Authorized' = Authorized
         /\ \A p : AuthorizedFor(p)' = AuthorizedFor(p)
         /\ \A t : OfTask(t)' = OfTask(t)
         /\ \A t, p : Of(t, p)' = Of(t, p)
<1>1. Authorized' = Authorized
  BY DEF Authorized
<1>2. \A p : AuthorizedFor(p)' = AuthorizedFor(p)
  BY <1>1 DEF AuthorizedFor, Authorized
<1>3. \A t : OfTask(t)' = OfTask(t)
  BY <1>1 DEF OfTask, Authorized
<1>4. \A t, p : Of(t, p)' = Of(t, p)
  BY DEF Of
<1> QED BY <1>1, <1>2, <1>3, <1>4

LEMMA InvocationsUnchanged ==
  ASSUME UNCHANGED invocation
  PROVE  /\ Authorized' = Authorized
         /\ \A p : AuthorizedFor(p)' = AuthorizedFor(p)
         /\ \A t : OfTask(t)' = OfTask(t)
         /\ \A t, p : Of(t, p)' = Of(t, p)
<1>1. \A i \in Invocations :
           /\ Exists(i)' <=> Exists(i)
           /\ Exists(i) => /\ invocation'[i].task = invocation[i].task
                           /\ invocation'[i].purpose = invocation[i].purpose
  BY DEF Exists
<1> QED BY <1>1, SetsKept

LEMMA AttemptFollowsKept ==
  ASSUME UNCHANGED invocation, NEW v
  PROVE  AttemptFollows(v)' <=> AttemptFollows(v)
BY InvocationsUnchanged DEF AttemptFollows

LEMMA LinesKept ==
  ASSUME UNCHANGED invocation, AttemptsAreLinear
  PROVE  AttemptsAreLinear'
BY InvocationsUnchanged DEF AttemptsAreLinear

(* Decide: only the handler's decision changes.                             *)
LEMMA DecideStep ==
  ASSUME Inv, NEW h \in Handlers, NEW d, Decide(h, d), DecisionType(d),
         d.kind = "amend" => account /= None,
         d.kind = "authorize" =>
           BudgetStands(d) /\ (account.used + 1 = d.value.ordinal => AttemptFollows(d.value))
  PROVE  Inv'
<1>1. UNCHANGED <<account, task, invocation, execution, now>> /\ decided' = [decided EXCEPT ![h] = d]
  BY DEF Decide
<1>2. decided'[h] = d /\ (\A k \in Handlers : k /= h => decided'[k] = decided[k])
      /\ decided' = [k \in Handlers |-> decided'[k]]
  BY <1>1 DEF Inv, Types, TypeOK
<1>3. TypeOK'
  BY <1>1, <1>2 DEF Inv, Types, TypeOK
<1>4. \A x : DecisionType(x)' <=> DecisionType(x)
  BY <1>1 DEF DecisionType
<1>5. DecisionsType'
  BY <1>2, <1>4 DEF Inv, Types, DecisionsType
<1>6. Counts'
  BY <1>1, InvocationsUnchanged DEF Inv, Counts, AccountCounts, BindingCounts
<1>7. \A x : BudgetStands(x)' <=> BudgetStands(x)
  BY <1>1 DEF BudgetStands
<1>8. \A x : AttemptFollows(x)' <=> AttemptFollows(x)
  BY <1>1, AttemptFollowsKept
<1>9. DecisionsStand'
  BY <1>1, <1>2, <1>7, <1>8 DEF Inv, DecisionsStand
<1>10. AttemptsAreLinear'
  BY <1>1, LinesKept DEF Inv
<1>11. LateIsStale'
  BY <1>1, InvocationsUnchanged DEF Inv, LateIsStale
<1> QED BY <1>3, <1>5, <1>6, <1>9, <1>10, <1>11 DEF Inv, Types

(* SetTask: the bindings and the invocations stay.                          *)
LEMMA SetTaskStep ==
  ASSUME Inv, NEW t \in Tasks, NEW new \in TaskType, SetTask(t, new),
         new.rev = task[t].rev, new.binding = task[t].binding
  PROVE  Inv'
<1> DEFINE after == [new EXCEPT !.rev = @ + 1]
<1>1. /\ UNCHANGED <<account, invocation, execution, now, decided>>
      /\ task' = [task EXCEPT ![t] = after]
  BY DEF SetTask
<1>2. after \in TaskType /\ after.rev = task[t].rev + 1 /\ after.binding = task[t].binding
  BY DEF TaskType
<1> HIDE DEF after
<1>3. task' \in [Tasks -> TaskType] /\ task'[t] = after /\ \A u \in Tasks \ {t} : task'[u] = task[u]
  BY <1>1, <1>2 DEF Inv, Types, TypeOK
<1>4. \A u \in Tasks : task'[u].binding = task[u].binding /\ task[u].rev \in Nat
                       /\ task'[u].rev \in {task[u].rev, task[u].rev + 1}
  BY <1>2, <1>3 DEF Inv, Types, TypeOK, TaskType
<1>5. Types'
  BY <1>1, <1>3 DEF Inv, Types, TypeOK, DecisionsType, DecisionType
<1>6. Counts'
  BY <1>1, <1>4, InvocationsUnchanged DEF Inv, Counts, AccountCounts, BindingCounts
<1>7. ASSUME NEW k \in Handlers, decided[k] /= None, decided[k].kind = "authorize" PROVE BudgetStands(decided[k])'
  <2>1. decided[k].task \in Tasks /\ decided[k].taskRev \in Nat /\ BudgetStands(decided[k])
    BY <1>7 DEF Inv, Types, DecisionsType, DecisionType, DecisionsStand
  <2> QED BY <1>1, <1>4, <2>1 DEF BudgetStands
<1>8. \A x : AttemptFollows(x)' <=> AttemptFollows(x)
  BY <1>1, AttemptFollowsKept
<1>9. DecisionsStand'
  BY <1>1, <1>7, <1>8 DEF Inv, DecisionsStand
<1>10. AttemptsAreLinear'
  BY <1>1, LinesKept DEF Inv
<1>11. LateIsStale'
  BY <1>1, InvocationsUnchanged DEF Inv, LateIsStale
<1> QED BY <1>5, <1>6, <1>9, <1>10, <1>11 DEF Inv

(* Move: an invocation that has not ended gets another state.               *)
LEMMA MoveStep ==
  ASSUME Inv, NEW i \in Invocations, Exists(i), NEW next \in InvocationType, Move(i, next),
         next.task = invocation[i].task, next.purpose = invocation[i].purpose,
         next.attempt = invocation[i].attempt, next.retryOf = invocation[i].retryOf,
         next.ordinal = invocation[i].ordinal, next.late = invocation[i].late,
         next.execution = invocation[i].execution, invocation[i].state \notin Terminal,
         next.late => next.state \in {"AUTHORIZED", "EXPIRED"}
  PROVE  Inv'
<1> DEFINE after == [next EXCEPT !.rev = @ + 1]
<1>1. /\ UNCHANGED <<account, task, execution, now, decided>>
      /\ invocation' = [invocation EXCEPT ![i] = after]
  BY DEF Move
<1>2. /\ after \in InvocationType /\ after.task = next.task /\ after.purpose = next.purpose
      /\ after.attempt = next.attempt /\ after.retryOf = next.retryOf /\ after.ordinal = next.ordinal
      /\ after.late = next.late /\ after.execution = next.execution /\ after.state = next.state
  BY DEF InvocationType
<1> HIDE DEF after
<1>3. /\ invocation' \in [Invocations -> InvocationType \cup {None}] /\ invocation'[i] = after
      /\ \A k \in Invocations \ {i} : invocation'[k] = invocation[k]
  BY <1>1, <1>2 DEF Inv, Types, TypeOK
<1>4. \A k \in Invocations : Exists(k)' <=> Exists(k)
  BY <1>2, <1>3, NoneAssumption DEF Exists
<1>5. \A k \in Invocations : Exists(k) =>
         /\ invocation'[k].task = invocation[k].task /\ invocation'[k].purpose = invocation[k].purpose
         /\ invocation'[k].attempt = invocation[k].attempt /\ invocation'[k].retryOf = invocation[k].retryOf
         /\ invocation'[k].ordinal = invocation[k].ordinal /\ invocation'[k].late = invocation[k].late
         /\ invocation'[k].execution = invocation[k].execution
         /\ invocation[k].state \in Terminal => invocation'[k].state = invocation[k].state
  BY <1>2, <1>3
<1>6. /\ Authorized' = Authorized
      /\ \A p : AuthorizedFor(p)' = AuthorizedFor(p)
      /\ \A t : OfTask(t)' = OfTask(t)
      /\ \A t, p : Of(t, p)' = Of(t, p)
  BY <1>4, <1>5, SetsKept
<1>7. Types'
  BY <1>1, <1>3 DEF Inv, Types, TypeOK, DecisionsType, DecisionType
<1>8. {invocation'[k].ordinal : k \in Authorized'} = {invocation[k].ordinal : k \in Authorized}
  BY <1>5, <1>6 DEF Authorized
<1>9. Counts'
  BY <1>1, <1>6, <1>8 DEF Inv, Counts, AccountCounts, BindingCounts
<1>10. \A x : BudgetStands(x)' <=> BudgetStands(x)
  BY <1>1 DEF BudgetStands
<1>11. ASSUME NEW x, AttemptFollows(x) PROVE AttemptFollows(x)'
  <2>1. \A k \in Of(x.task, x.purpose) : k \in Invocations /\ Exists(k)
    BY DEF Of
  <2> QED BY <1>5, <1>6, <1>11, <2>1 DEF AttemptFollows
<1>12. DecisionsStand'
  BY <1>1, <1>10, <1>11 DEF Inv, DecisionsStand
<1>13. AttemptsAreLinear'
  <2>1. \A t, p : \A k \in Of(t, p) : k \in Invocations /\ Exists(k)
    BY DEF Of
  <2>2. ASSUME NEW t \in Tasks, NEW p \in Purposes
        PROVE  {invocation'[k].attempt : k \in Of(t, p)'} = {invocation[k].attempt : k \in Of(t, p)}
    BY <1>5, <1>6, <2>1
  <2>3. ASSUME NEW t \in Tasks, NEW p \in Purposes, NEW k \in Of(t, p)
        PROVE  IF invocation'[k].attempt = 1 THEN invocation'[k].retryOf = None
               ELSE LET prior == invocation'[k].retryOf IN
                    /\ prior \in Of(t, p)' /\ invocation'[prior].attempt = invocation'[k].attempt - 1
                    /\ invocation'[prior].state \in Terminal \ {"EXPIRED"}
    <3>1. invocation'[k].attempt = invocation[k].attempt /\ invocation'[k].retryOf = invocation[k].retryOf
      BY <1>5, <2>1
    <3>2. CASE invocation[k].attempt /= 1
      <4>1. /\ invocation[k].retryOf \in Of(t, p)
            /\ invocation[invocation[k].retryOf].attempt = invocation[k].attempt - 1
            /\ invocation[invocation[k].retryOf].state \in Terminal \ {"EXPIRED"}
        BY <3>2 DEF Inv, AttemptsAreLinear
      <4> QED BY <1>5, <1>6, <2>1, <3>1, <3>2, <4>1
    <3>3. CASE invocation[k].attempt = 1
      BY <3>1, <3>3 DEF Inv, AttemptsAreLinear
    <3> QED BY <3>2, <3>3
  <2> QED BY <1>6, <2>2, <2>3 DEF AttemptsAreLinear, Inv
<1>14. LateIsStale'
  <2> SUFFICES ASSUME NEW k \in Authorized', invocation'[k].late
               PROVE  invocation'[k].execution < execution' /\ invocation'[k].state \in {"AUTHORIZED", "EXPIRED"}
    BY DEF LateIsStale
  <2>1. k \in Invocations /\ Exists(k) /\ k \in Authorized
    BY <1>6 DEF Authorized
  <2>2. CASE k = i
    BY <1>1, <1>2, <1>3, <1>5, <2>1, <2>2 DEF Inv, LateIsStale
  <2>3. CASE k /= i
    BY <1>1, <1>3, <2>1, <2>3 DEF Inv, LateIsStale
  <2> QED BY <2>2, <2>3
<1> QED BY <1>7, <1>9, <1>12, <1>13, <1>14 DEF Inv

-----------------------------------------------------------------------------
(* The decisions.                                                           *)

LEMMA BudgetTypes ==
  ASSUME NEW b \in Budgets
  PROVE  b.limit \in Nat /\ b.purpose \in [Purposes -> Nat]
BY BudgetsAssumption

LEMMA CreateStep == ASSUME Inv, NEW h \in Handlers, CreateBudget(h) PROVE Inv'
<1>1. PICK b \in Budgets, e \in (now + 1)..MaxDeadline :
        Decide(h, Decision("create", None, None,
          [rev |-> 1, policy |-> 1, limit |-> b.limit, purpose |-> b.purpose,
           used |-> 0, purposeUsed |-> Zero, deadline |-> e]))
        /\ account = None
  BY DEF CreateBudget
<1> DEFINE v == [rev |-> 1, policy |-> 1, limit |-> b.limit, purpose |-> b.purpose,
                 used |-> 0, purposeUsed |-> Zero, deadline |-> e]
           d == Decision("create", None, None, v)
<1>2. e \in Nat
  BY BoundsAssumption DEF Inv, Types, TypeOK
<1>3. v \in AccountType /\ v.used = 0 /\ v.purposeUsed = Zero
  BY <1>2, BudgetTypes DEF AccountType, Zero
<1> HIDE DEF v
<1>4. d.kind = "create" /\ d.value = v /\ d.taskRev = 0 /\ d.accountRev = 0
  BY <1>1 DEF Decision
<1>5. Decide(h, d)
  BY <1>1 DEF v
<1> HIDE DEF d
<1>6. DecisionType(d)
  BY <1>3, <1>4 DEF DecisionType
<1> QED BY <1>4, <1>5, <1>6, DecideStep

LEMMA AmendStep == ASSUME Inv, NEW h \in Handlers, AmendBudget(h) PROVE Inv'
<1>1. PICK b \in Budgets, e \in 1..MaxDeadline :
        account /= None /\ Decide(h, Decision("amend", None, None, [budget |-> b, deadline |-> e]))
  BY DEF AmendBudget
<1> DEFINE v == [budget |-> b, deadline |-> e]
           d == Decision("amend", None, None, v)
<1>2. e \in Nat /\ account.rev \in Nat
  BY <1>1, BoundsAssumption DEF Inv, Types, TypeOK, AccountType
<1>3. v.budget \in Budgets /\ v.deadline \in Nat
  BY <1>2
<1> HIDE DEF v
<1>4. d.kind = "amend" /\ d.value = v /\ d.taskRev = 0 /\ d.accountRev = account.rev
  BY <1>1 DEF Decision
<1>5. Decide(h, d)
  BY <1>1 DEF v
<1> HIDE DEF d
<1>6. DecisionType(d)
  BY <1>2, <1>3, <1>4 DEF DecisionType
<1> QED BY <1>1, <1>4, <1>5, <1>6, DecideStep

LEMMA BindBudgetStep == ASSUME Inv, NEW h \in Handlers, NEW t \in Tasks, BindBudget(h, t) PROVE Inv'
<1>1. PICK b \in Budgets :
        account /= None /\ Decide(h, Decision("binding", t, None,
          [gen |-> task[t].gen, limit |-> b.limit, purpose |-> b.purpose, used |-> 0, purposeUsed |-> Zero]))
  BY DEF BindBudget
<1> DEFINE v == [gen |-> task[t].gen, limit |-> b.limit, purpose |-> b.purpose, used |-> 0, purposeUsed |-> Zero]
           d == Decision("binding", t, None, v)
<1>2. account.rev \in Nat /\ task[t].rev \in Nat /\ task[t].gen \in Nat /\ t /= None
  BY <1>1, NoneAssumption DEF Inv, Types, TypeOK, AccountType, TaskType
<1>3. v \in BindingType /\ v.used = 0 /\ v.purposeUsed = Zero
  BY <1>2, BudgetTypes DEF BindingType, Zero
<1> HIDE DEF v
<1>4. d.kind = "binding" /\ d.task = t /\ d.value = v /\ d.taskRev = task[t].rev /\ d.accountRev = account.rev
  BY <1>1, <1>2 DEF Decision
<1>5. Decide(h, d)
  BY <1>1 DEF v
<1> HIDE DEF d
<1>6. DecisionType(d)
  BY <1>2, <1>3, <1>4 DEF DecisionType
<1> QED BY <1>4, <1>5, <1>6, DecideStep

(* The sets of invocations are finite.                                      *)
LEMMA FiniteSets ==
  ASSUME IsFiniteSet(Authorized)
  PROVE  /\ \A t, p : IsFiniteSet(Of(t, p)) /\ Cardinality(Of(t, p)) \in Nat
         /\ \A t : IsFiniteSet(OfTask(t)) /\ Cardinality(OfTask(t)) \in Nat
         /\ \A p : IsFiniteSet(AuthorizedFor(p)) /\ Cardinality(AuthorizedFor(p)) \in Nat
<1>1. /\ \A t, p : Of(t, p) \subseteq Authorized
      /\ \A t : OfTask(t) \subseteq Authorized /\ \A p : AuthorizedFor(p) \subseteq Authorized
  BY DEF Of, OfTask, AuthorizedFor, Authorized
<1>2. \A S : S \subseteq Authorized => IsFiniteSet(S)
  BY FS_Subset
<1>3. \A S : S \subseteq Authorized => Cardinality(S) \in Nat
  BY <1>2, FS_CardinalityType
<1> QED BY <1>1, <1>2, <1>3

(* The latest attempt is the one that counts them all.                      *)
LEMMA LatestAttempt ==
  ASSUME Inv, NEW t \in Tasks, NEW p \in Purposes, Of(t, p) /= {}
  PROVE  /\ Latest(Of(t, p)) \in Of(t, p)
         /\ invocation[Latest(Of(t, p))].attempt = Cardinality(Of(t, p))
         /\ Cardinality(Of(t, p)) >= 1
<1> DEFINE S == Of(t, p)
           n == Cardinality(S)
<1>1. n \in Nat
  BY FiniteSets DEF Inv, Counts, AccountCounts
<1>2. {invocation[i].attempt : i \in S} = 1..n
  BY DEF Inv, AttemptsAreLinear
<1>3. S /= {}
  OBVIOUS
<1> HIDE DEF n, S
<1>4. n >= 1
  BY <1>1, <1>2, <1>3
<1>5. \A i \in S : invocation[i].attempt \in 1..n
  BY <1>2
<1>6. \E i \in S : invocation[i].attempt = n
  BY <1>1, <1>2, <1>4
<1>7. \E i \in S : \A j \in S : invocation[j].attempt <= invocation[i].attempt
  BY <1>1, <1>5, <1>6
<1>8. Latest(S) \in S /\ \A j \in S : invocation[j].attempt <= invocation[Latest(S)].attempt
  BY <1>7 DEF Latest
<1>9. invocation[Latest(S)].attempt = n
  BY <1>1, <1>5, <1>6, <1>8
<1> QED BY <1>4, <1>8, <1>9 DEF n, S

LEMMA AuthorizeStep ==
  ASSUME Inv, NEW h \in Handlers, NEW t \in Tasks, NEW i \in Invocations, Authorize(h, t, i)
  PROVE  Inv'
<1> DEFINE prior(p) == IF Of(t, p) = {} THEN None ELSE Latest(Of(t, p))
           v(p) == [state |-> "AUTHORIZED", rev |-> 1, task |-> t, purpose |-> p, cancel |-> FALSE,
                    attempt |-> IF prior(p) = None THEN 1 ELSE invocation[prior(p)].attempt + 1,
                    retryOf |-> prior(p),
                    policy |-> account.policy, profile |-> task[t].profile.rev, gen |-> task[t].gen,
                    execution |-> execution, deadline |-> task[t].profile.deadline, taskRev |-> task[t].rev,
                    ordinal |-> account.used + 1, purposeOrdinal |-> account.purposeUsed[p] + 1,
                    taskUsed |-> task[t].binding.used + 1,
                    taskPurposeUsed |-> task[t].binding.purposeUsed[p] + 1,
                    remaining |-> account.limit - account.used - 1, late |-> FALSE]
           d(p) == Decision("authorize", t, i, v(p))
<1>1. PICK p \in Purposes :
        /\ account /= None /\ BoundTo(t) /\ WithinBudget(t, p) /\ Admitted(t, p)
        /\ Decide(h, d(p))
  BY DEF Authorize
<1>2. account \in AccountType /\ task[t] \in TaskType /\ t /= None /\ execution \in Nat
  BY <1>1, NoneAssumption DEF Inv, Types, TypeOK
<1>3. task[t].binding \in BindingType /\ task[t].profile \in ProfileType /\ task[t].binding /= None
  BY <1>1, <1>2 DEF BoundTo, TaskType
<1>4. /\ account.used \in Nat /\ account.limit \in Nat /\ account.policy \in Nat /\ account.rev \in Nat
      /\ account.purposeUsed[p] \in Nat /\ account.purpose[p] \in Nat
      /\ task[t].rev \in Nat /\ task[t].gen \in Nat
      /\ task[t].binding.used \in Nat /\ task[t].binding.limit \in Nat
      /\ task[t].binding.purposeUsed[p] \in Nat
      /\ task[t].profile.rev \in Nat /\ task[t].profile.deadline \in Nat
  BY <1>2, <1>3 DEF AccountType, TaskType, BindingType, ProfileType
<1>5. /\ account.used < account.limit /\ task[t].binding.used < task[t].binding.limit
      /\ account.purposeUsed[p] < account.purpose[p]
  BY <1>1 DEF WithinBudget
<1>6. /\ prior(p) \in Invocations \cup {None}
      /\ Of(t, p) = {} => prior(p) = None
      /\ Of(t, p) /= {} => /\ prior(p) /= None /\ prior(p) \in Of(t, p)
                           /\ invocation[prior(p)].attempt = Cardinality(Of(t, p))
                           /\ Cardinality(Of(t, p)) >= 1
                           /\ invocation[prior(p)].state \in Terminal \ {"EXPIRED"}
  <2>1. CASE Of(t, p) = {}
    BY <2>1
  <2>2. CASE Of(t, p) /= {}
    <3>1. prior(p) = Latest(Of(t, p)) /\ prior(p) \in Of(t, p)
          /\ invocation[prior(p)].attempt = Cardinality(Of(t, p)) /\ Cardinality(Of(t, p)) >= 1
      BY <2>2, LatestAttempt
    <3>2. prior(p) \in Invocations /\ prior(p) /= None
      BY <3>1, NoneAssumption DEF Of
    <3>3. invocation[prior(p)].state \in Terminal \ {"EXPIRED"}
      BY <1>1, <2>2, <3>1 DEF Admitted, Continuation, Revalidation, Terminal
    <3> QED BY <2>2, <3>1, <3>2, <3>3
  <2> QED BY <2>1, <2>2
<1>7. Cardinality(Of(t, p)) \in Nat /\ (Of(t, p) = {} => Cardinality(Of(t, p)) = 0)
  BY FiniteSets, FS_EmptySet DEF Inv, Counts, AccountCounts
<1> HIDE DEF prior
<1>8. /\ v(p).task = t /\ v(p).purpose = p /\ v(p).state = "AUTHORIZED" /\ v(p).retryOf = prior(p)
      /\ v(p).attempt = Cardinality(Of(t, p)) + 1 /\ v(p).execution = execution
      /\ v(p).ordinal = account.used + 1 /\ v(p).purposeOrdinal = account.purposeUsed[p] + 1
      /\ v(p).taskUsed = task[t].binding.used + 1
  BY <1>6, <1>7
<1>9. v(p) \in InvocationType
  <2>1. (IF prior(p) = None THEN 1 ELSE invocation[prior(p)].attempt + 1) \in Nat \ {0}
    BY <1>6, <1>7
  <2>2. account.limit - account.used - 1 \in Nat
    BY <1>4, <1>5
  <2> QED BY <1>2, <1>4, <1>6, <2>1, <2>2 DEF InvocationType
<1>10. PICK w : w = v(p)
  OBVIOUS
<1> HIDE DEF v
<1>11. PICK e : e = d(p)
  OBVIOUS
<1>12. /\ e.kind = "authorize" /\ e.task = t /\ e.id = i /\ e.value = w
       /\ e.taskRev = task[t].rev /\ e.accountRev = account.rev
  BY <1>1, <1>2, <1>10, <1>11 DEF Decision
<1> HIDE DEF d
<1>13. DecisionType(e)
  BY <1>4, <1>8, <1>9, <1>10, <1>12 DEF DecisionType
<1>14. BudgetStands(e)
  BY <1>1, <1>2, <1>3, <1>4, <1>5, <1>8, <1>10, <1>12 DEF BudgetStands
<1>15. AttemptFollows(w)
  BY <1>6, <1>7, <1>8, <1>10 DEF AttemptFollows
<1> QED BY <1>1, <1>11, <1>12, <1>13, <1>14, <1>15, DecideStep

-----------------------------------------------------------------------------
(* The invocation's own transitions, and the rest of the kernel.            *)

LEMMA StateSet ==
  ASSUME NEW r \in InvocationType, NEW s \in Terminal \cup {"AUTHORIZED", "CLAIMED", "STARTED"}
  PROVE  LET n == [r EXCEPT !.state = s] IN
         /\ n \in InvocationType /\ n.task = r.task /\ n.purpose = r.purpose /\ n.attempt = r.attempt
         /\ n.retryOf = r.retryOf /\ n.ordinal = r.ordinal /\ n.late = r.late
         /\ n.execution = r.execution /\ n.state = s
BY DEF InvocationType

LEMMA InvocationSteps ==
  ASSUME Inv, NEW i \in Invocations,
         Claim(i) \/ Start(i) \/ RecordTerminal(i) \/ RequestCancellation(i) \/ Expire(i)
  PROVE  Inv'
<1>1. Exists(i) /\ invocation[i] \in InvocationType /\ i \in Authorized
  BY DEF Claim, Start, RecordTerminal, RequestCancellation, Expire, Inv, Types, TypeOK, Exists, Authorized
<1>2. invocation[i].late => invocation[i].execution < execution /\ invocation[i].state \in {"AUTHORIZED", "EXPIRED"}
  BY <1>1 DEF Inv, LateIsStale
<1>3. execution \in Nat /\ invocation[i].execution \in Nat
  BY <1>1 DEF Inv, Types, TypeOK, InvocationType
<1>4. ASSUME NEW s \in Terminal \cup {"AUTHORIZED", "CLAIMED", "STARTED"},
             Move(i, [invocation[i] EXCEPT !.state = s]), invocation[i].state \notin Terminal,
             invocation[i].late => s \in {"AUTHORIZED", "EXPIRED"}
      PROVE  Inv'
  <2> DEFINE n == [invocation[i] EXCEPT !.state = s]
  <2>1. /\ n \in InvocationType /\ n.task = invocation[i].task /\ n.purpose = invocation[i].purpose
        /\ n.attempt = invocation[i].attempt /\ n.retryOf = invocation[i].retryOf
        /\ n.ordinal = invocation[i].ordinal /\ n.late = invocation[i].late
        /\ n.execution = invocation[i].execution /\ n.state = s
    BY <1>1, StateSet
  <2>2. Move(i, n)
    BY <1>4
  <2> HIDE DEF n
  <2> QED BY <1>1, <1>4, <2>1, <2>2, MoveStep
<1>5. CASE Claim(i)
  <2>1. execution = invocation[i].execution
    BY <1>5 DEF Claim, Validate
  <2>2. ~invocation[i].late
    BY <1>2, <1>3, <2>1
  <2> QED BY <1>4, <1>5, <2>2 DEF Claim, Terminal
<1>6. CASE Start(i)
  BY <1>2, <1>4, <1>6 DEF Start, Terminal
<1>7. CASE RecordTerminal(i)
  <2>1. PICK outcome \in Allowed : Move(i, [invocation[i] EXCEPT !.state = outcome])
                                  /\ invocation[i].state \in {"STARTED", "CLAIMED"}
    BY <1>7 DEF RecordTerminal
  <2> QED BY <1>2, <1>4, <2>1, AllowedAssumption DEF Terminal
<1>8. CASE RequestCancellation(i)
  <2> DEFINE n == [invocation[i] EXCEPT !.cancel = TRUE]
  <2>1. /\ n \in InvocationType /\ n.task = invocation[i].task /\ n.purpose = invocation[i].purpose
        /\ n.attempt = invocation[i].attempt /\ n.retryOf = invocation[i].retryOf
        /\ n.ordinal = invocation[i].ordinal /\ n.late = invocation[i].late
        /\ n.execution = invocation[i].execution /\ n.state = invocation[i].state
    BY <1>1 DEF InvocationType
  <2>2. Move(i, n) /\ invocation[i].state = "STARTED"
    BY <1>8 DEF RequestCancellation
  <2> HIDE DEF n
  <2> QED BY <1>1, <1>2, <2>1, <2>2, MoveStep DEF Terminal
<1>9. CASE Expire(i)
  BY <1>4, <1>9 DEF Expire, Terminal
<1> QED BY <1>5, <1>6, <1>7, <1>8, <1>9

LEMMA TaskSteps ==
  ASSUME Inv, NEW t \in Tasks, MoveTask(t) \/ BindProfile(t) \/ AuthorizeAssignment(t) \/ BindScope(t)
  PROVE  Inv'
<1>1. task[t] \in TaskType /\ execution \in Nat
  BY DEF Inv, Types, TypeOK
<1>2. task[t].gen \in Nat /\ task[t].runnable \in BOOLEAN
  BY <1>1 DEF TaskType
<1>3. CASE MoveTask(t)
  <2>1. PICK n : SetTask(t, n) /\ n \in {[task[t] EXCEPT !.runnable = ~@], [task[t] EXCEPT !.gen = @ + 1]}
    BY <1>3 DEF MoveTask
  <2>2. ASSUME NEW b \in BOOLEAN, n = [task[t] EXCEPT !.runnable = b]
        PROVE  n \in TaskType /\ n.rev = task[t].rev /\ n.binding = task[t].binding
    BY <1>1, <2>2 DEF TaskType
  <2>3. ASSUME NEW g \in Nat, n = [task[t] EXCEPT !.gen = g]
        PROVE  n \in TaskType /\ n.rev = task[t].rev /\ n.binding = task[t].binding
    BY <1>1, <2>3 DEF TaskType
  <2>4. (~task[t].runnable) \in BOOLEAN /\ task[t].gen + 1 \in Nat
    BY <1>2
  <2>5. n \in TaskType /\ n.rev = task[t].rev /\ n.binding = task[t].binding
    BY <2>1, <2>2, <2>3, <2>4
  <2> QED BY <2>1, <2>5, SetTaskStep
<1>4. CASE BindProfile(t)
  <2>1. PICK e \in 1..MaxDeadline, cites \in {{}} \cup {{i} : i \in Invocations} :
          SetTask(t, [task[t] EXCEPT !.profile =
            [rev |-> IF @ = None THEN 1 ELSE @.rev + 1, gen |-> task[t].gen, deadline |-> e, cites |-> cites]])
    BY <1>4 DEF BindProfile
  <2> DEFINE new == [rev |-> IF task[t].profile = None THEN 1 ELSE task[t].profile.rev + 1,
                     gen |-> task[t].gen, deadline |-> e, cites |-> cites]
             n == [task[t] EXCEPT !.profile = new]
  <2>2. task[t].profile \in ProfileType \cup {None}
    BY <1>1 DEF TaskType
  <2>3. (IF task[t].profile = None THEN 1 ELSE task[t].profile.rev + 1) \in Nat
    BY <2>2 DEF ProfileType
  <2>4. e \in Nat /\ cites \in SUBSET Invocations
    BY BoundsAssumption
  <2>5. new \in ProfileType
    BY <1>2, <2>3, <2>4 DEF ProfileType
  <2>6. SetTask(t, n)
    BY <2>1
  <2> HIDE DEF new
  <2>7. n \in TaskType /\ n.rev = task[t].rev /\ n.binding = task[t].binding
    BY <1>1, <2>5 DEF TaskType
  <2> HIDE DEF n
  <2> QED BY <2>6, <2>7, SetTaskStep
<1>5. CASE AuthorizeAssignment(t)
  <2> DEFINE new == [profile |-> task[t].profile.rev, execution |-> execution]
             n == [task[t] EXCEPT !.assignment = new]
  <2>1. task[t].profile \in ProfileType /\ SetTask(t, n)
    BY <1>1, <1>5 DEF AuthorizeAssignment, TaskType
  <2>2. new \in [profile : Nat, execution : Nat]
    BY <1>1, <2>1 DEF ProfileType
  <2> HIDE DEF new
  <2>3. n \in TaskType /\ n.rev = task[t].rev /\ n.binding = task[t].binding
    BY <1>1, <2>2 DEF TaskType
  <2> HIDE DEF n
  <2> QED BY <2>1, <2>3, SetTaskStep
<1>6. CASE BindScope(t)
  <2> DEFINE new == [gen |-> task[t].gen, execution |-> execution]
             n == [task[t] EXCEPT !.scope = new]
  <2>1. SetTask(t, n)
    BY <1>6 DEF BindScope
  <2>2. new \in [gen : Nat, execution : Nat]
    BY <1>1, <1>2
  <2> HIDE DEF new
  <2>3. n \in TaskType /\ n.rev = task[t].rev /\ n.binding = task[t].binding
    BY <1>1, <2>2 DEF TaskType
  <2> HIDE DEF n
  <2> QED BY <2>1, <2>3, SetTaskStep
<1> QED BY <1>3, <1>4, <1>5, <1>6

LEMMA RegistrySteps ==
  ASSUME Inv, ReplaceExecution \/ Tick
  PROVE  Inv'
<1>1. UNCHANGED <<account, task, invocation, decided>>
  BY DEF ReplaceExecution, Tick
<1>2. execution \in Nat /\ execution' \in Nat /\ execution' >= execution /\ now' \in Nat
  BY DEF ReplaceExecution, Tick, Inv, Types, TypeOK
<1>3. Types'
  BY <1>1, <1>2 DEF Inv, Types, TypeOK, DecisionsType, DecisionType
<1>4. Counts'
  BY <1>1, InvocationsUnchanged DEF Inv, Counts, AccountCounts, BindingCounts
<1>5. ASSUME NEW k \in Handlers, decided[k] /= None, decided[k].kind = "authorize" PROVE BudgetStands(decided[k])'
  <2>1. decided[k].value.execution \in Nat /\ BudgetStands(decided[k])
    BY <1>5 DEF Inv, Types, DecisionsType, DecisionType, DecisionsStand, InvocationType
  <2> QED BY <1>1, <1>2, <2>1 DEF BudgetStands
<1>6. \A x : AttemptFollows(x)' <=> AttemptFollows(x)
  BY <1>1, AttemptFollowsKept
<1>7. DecisionsStand'
  BY <1>1, <1>5, <1>6 DEF Inv, DecisionsStand
<1>8. AttemptsAreLinear'
  BY <1>1, LinesKept DEF Inv
<1>9. LateIsStale'
  <2>1. \A i \in Authorized : invocation[i].execution \in Nat
    BY DEF Inv, Types, TypeOK, Authorized, Exists, InvocationType
  <2> QED BY <1>1, <1>2, <2>1, InvocationsUnchanged DEF Inv, LateIsStale
<1> QED BY <1>3, <1>4, <1>7, <1>8, <1>9 DEF Inv

-----------------------------------------------------------------------------
(* The commits.                                                             *)

(* The other decisions stay as they are.                                    *)
LEMMA Committed ==
  ASSUME Inv, NEW h \in Handlers, decided' = [decided EXCEPT ![h] = None]
  PROVE  /\ decided' = [k \in Handlers |-> decided'[k]]
         /\ \A k \in Handlers : decided'[k] /= None => k /= h /\ decided'[k] = decided[k] /\ decided[k] /= None
         /\ DecisionsType'
<1>1. decided = [k \in Handlers |-> decided[k]]
  BY DEF Inv, Types, TypeOK
<1>2. /\ decided' = [k \in Handlers |-> decided'[k]]
      /\ \A k \in Handlers : decided'[k] /= None => k /= h /\ decided'[k] = decided[k] /\ decided[k] /= None
  BY <1>1
<1>3. \A x : DecisionType(x)' <=> DecisionType(x)
  BY DEF DecisionType
<1> QED BY <1>2, <1>3 DEF Inv, Types, DecisionsType

LEMMA DropStep == ASSUME Inv, NEW h \in Handlers, Drop(h) PROVE Inv'
<1>1. UNCHANGED <<account, task, invocation, execution, now>> /\ decided' = [decided EXCEPT ![h] = None]
  BY DEF Drop
<1>2. /\ decided' = [k \in Handlers |-> decided'[k]]
      /\ \A k \in Handlers : decided'[k] /= None => k /= h /\ decided'[k] = decided[k] /\ decided[k] /= None
      /\ DecisionsType'
  BY <1>1, Committed
<1>3. Types'
  BY <1>1, <1>2 DEF Inv, Types, TypeOK
<1>4. Counts'
  BY <1>1, InvocationsUnchanged DEF Inv, Counts, AccountCounts, BindingCounts
<1>5. \A x : (BudgetStands(x)' <=> BudgetStands(x)) /\ (AttemptFollows(x)' <=> AttemptFollows(x))
  BY <1>1, AttemptFollowsKept DEF BudgetStands
<1>6. DecisionsStand'
  BY <1>1, <1>2, <1>5 DEF Inv, DecisionsStand
<1>7. AttemptsAreLinear' /\ LateIsStale'
  BY <1>1, LinesKept, InvocationsUnchanged DEF Inv, LateIsStale
<1> QED BY <1>3, <1>4, <1>6, <1>7 DEF Inv

LEMMA CommitCreate ==
  ASSUME Inv, NEW h \in Handlers, Commit(h), decided[h].kind = "create"
  PROVE  Inv'
<1> DEFINE d == decided[h]
<1>1. /\ UNCHANGED <<task, invocation, execution, now>> /\ decided' = [decided EXCEPT ![h] = None]
      /\ account = None /\ account' = d.value
  BY DEF Commit, Project
<1>2. d.value \in AccountType /\ d.value.used = 0 /\ d.value.purposeUsed = Zero
  BY DEF Inv, Types, DecisionsType, DecisionType, Commit
<1>3. /\ decided' = [k \in Handlers |-> decided'[k]]
      /\ \A k \in Handlers : decided'[k] /= None => k /= h /\ decided'[k] = decided[k] /\ decided[k] /= None
      /\ DecisionsType'
  BY <1>1, Committed
<1> HIDE DEF d
<1>4. Types'
  BY <1>1, <1>2, <1>3 DEF Inv, Types, TypeOK
<1>5. Authorized = {} /\ \A p : AuthorizedFor(p) = {}
  BY <1>1 DEF Inv, Counts, AccountCounts, AuthorizedFor
<1>6. account'.used = 0 /\ account'.limit \in Nat /\ account'.purpose \in [Purposes -> Nat]
      /\ \A p \in Purposes : account'.purposeUsed[p] = 0
  BY <1>1, <1>2 DEF AccountType, Zero
<1>7. {invocation'[i].ordinal : i \in Authorized'} = 1..account'.used
  BY <1>1, <1>5, <1>6, InvocationsUnchanged
<1>8. \A p \in Purposes : /\ account'.purposeUsed[p] = Cardinality(AuthorizedFor(p)')
                          /\ account'.purposeUsed[p] <= account'.purpose[p]
  BY <1>1, <1>5, <1>6, InvocationsUnchanged, FS_EmptySet
<1>9. AccountCounts'
  BY <1>1, <1>5, <1>6, <1>7, <1>8, InvocationsUnchanged, FS_EmptySet DEF AccountCounts
<1>10. BindingCounts'
  BY <1>1, InvocationsUnchanged DEF Inv, Counts, BindingCounts
<1>11. \A k \in Handlers : decided[k] /= None => decided[k].kind \notin {"amend", "authorize"}
  BY <1>1 DEF Inv, DecisionsStand, BudgetStands
<1>12. DecisionsStand'
  BY <1>3, <1>11 DEF DecisionsStand
<1>13. AttemptsAreLinear' /\ LateIsStale'
  BY <1>1, LinesKept, InvocationsUnchanged DEF Inv, LateIsStale
<1> QED BY <1>4, <1>9, <1>10, <1>12, <1>13 DEF Inv, Counts

LEMMA AmendedFields ==
  ASSUME NEW a \in AccountType, NEW b, b.limit \in Nat, b.purpose \in [Purposes -> Nat], NEW e \in Nat
  PROVE  /\ Amended(a, b, e) \in AccountType /\ a.rev \in Nat /\ Amended(a, b, e).rev = a.rev + 1
         /\ Amended(a, b, e).limit = b.limit /\ Amended(a, b, e).purpose = b.purpose
         /\ Amended(a, b, e).used = a.used /\ Amended(a, b, e).purposeUsed = a.purposeUsed
<1>1. a.rev \in Nat /\ a.policy \in Nat
  BY DEF AccountType
<1>2. PICK m \in Nat, n \in Nat : m = a.rev + 1 /\ n = a.policy + 1
  BY <1>1
<1> DEFINE one == [a EXCEPT !.rev = m, !.policy = n]
<1>4. one \in AccountType /\ one.rev = m /\ one.used = a.used /\ one.purposeUsed = a.purposeUsed
  BY DEF AccountType
<1>3. Amended(a, b, e) = [one EXCEPT !.limit = b.limit, !.purpose = b.purpose, !.deadline = e]
  BY <1>2 DEF Amended
<1> HIDE DEF one
<1> QED BY <1>1, <1>2, <1>3, <1>4 DEF AccountType

LEMMA CommitAmend ==
  ASSUME Inv, NEW h \in Handlers, Commit(h), decided[h].kind = "amend"
  PROVE  Inv'
<1>1. /\ UNCHANGED <<task, invocation, execution, now>> /\ decided' = [decided EXCEPT ![h] = None]
      /\ Amendable(account, decided[h].value.budget, decided[h].value.deadline)
      /\ account' = Amended(account, decided[h].value.budget, decided[h].value.deadline)
  BY DEF Commit, Project
<1>2. PICK b \in Budgets, e \in Nat : b = decided[h].value.budget /\ e = decided[h].value.deadline
  BY DEF Inv, Types, DecisionsType, DecisionType, Commit
<1>3. account \in AccountType /\ account /= None
  BY DEF Inv, DecisionsStand, Types, TypeOK, Commit
<1>4. /\ decided' = [k \in Handlers |-> decided'[k]]
      /\ \A k \in Handlers : decided'[k] /= None => k /= h /\ decided'[k] = decided[k] /\ decided[k] /= None
      /\ DecisionsType'
  BY <1>1, Committed
<1>5. /\ account' \in AccountType /\ account'.rev = account.rev + 1 /\ account.rev \in Nat
      /\ account'.limit = b.limit /\ account'.purpose = b.purpose
      /\ account'.used = account.used /\ account'.purposeUsed = account.purposeUsed
  <2>1. account' = Amended(account, b, e) /\ b.limit \in Nat /\ b.purpose \in [Purposes -> Nat]
    BY <1>1, <1>2, BudgetTypes
  <2> QED BY <1>3, <2>1, AmendedFields
<1>6. account' /= None
  BY <1>5, NoneAssumption
<1>7. account.used <= b.limit /\ \A p \in Purposes : account.purposeUsed[p] <= b.purpose[p]
  <2>1. b.limit >= account.used /\ \A p \in Purposes : b.purpose[p] >= account.purposeUsed[p]
    BY <1>1, <1>2 DEF Amendable
  <2> QED BY <2>1
<1>8. Types'
  BY <1>1, <1>4, <1>5 DEF Inv, Types, TypeOK
<1>9. Counts'
  BY <1>1, <1>3, <1>5, <1>6, <1>7, InvocationsUnchanged DEF Inv, Counts, AccountCounts, BindingCounts
<1>10. ASSUME NEW k \in Handlers, decided[k] /= None, decided[k].kind = "authorize", NEW x, x = decided[k]
       PROVE  BudgetStands(x)'
  <2>1. x.accountRev \in Nat /\ BudgetStands(x)
    BY <1>10 DEF Inv, Types, DecisionsType, DecisionType, DecisionsStand
  <2> QED BY <1>1, <1>5, <1>6, <2>1 DEF BudgetStands
<1>11. \A x : AttemptFollows(x)' <=> AttemptFollows(x)
  BY <1>1, AttemptFollowsKept
<1>12. DecisionsStand'
  BY <1>4, <1>5, <1>6, <1>10, <1>11 DEF Inv, DecisionsStand
<1>13. AttemptsAreLinear' /\ LateIsStale'
  BY <1>1, LinesKept, InvocationsUnchanged DEF Inv, LateIsStale
<1> QED BY <1>8, <1>9, <1>12, <1>13 DEF Inv

LEMMA CommitBinding ==
  ASSUME Inv, NEW h \in Handlers, Commit(h), decided[h].kind = "binding"
  PROVE  Inv'
<1>1. PICK t, v : t = decided[h].task /\ v = decided[h].value
  OBVIOUS
<1>2. /\ UNCHANGED <<account, invocation, execution, now>> /\ decided' = [decided EXCEPT ![h] = None]
      /\ Rebindable(v, task[t].binding)
      /\ task' = [task EXCEPT ![t].rev = @ + 1, ![t].binding = Inherited(v, @)]
  BY <1>1 DEF Commit, Project
<1>3. t \in Tasks /\ v \in BindingType /\ v.used = 0 /\ v.purposeUsed = Zero
  BY <1>1 DEF Inv, Types, DecisionsType, DecisionType, Commit
<1>4. /\ decided' = [k \in Handlers |-> decided'[k]]
      /\ \A k \in Handlers : decided'[k] /= None => k /= h /\ decided'[k] = decided[k] /\ decided[k] /= None
      /\ DecisionsType'
  BY <1>2, Committed
<1>5. task[t] \in TaskType /\ task[t].binding \in BindingType \cup {None} /\ task[t].rev \in Nat
  BY <1>3 DEF Inv, Types, TypeOK, TaskType
<1> DEFINE b == Inherited(v, task[t].binding)
           after == [[task[t] EXCEPT !.rev = @ + 1] EXCEPT !.binding = b]
<1>6. b \in BindingType /\ b.limit = v.limit /\ b.used = IF task[t].binding = None THEN 0 ELSE task[t].binding.used
  BY <1>3, <1>5 DEF Inherited, BindingType
<1>7. b /= None /\ b.used <= b.limit
  BY <1>2, <1>3, <1>6, NoneAssumption DEF Rebindable, BindingType
<1>8. task' = [task EXCEPT ![t] = after]
  BY <1>2, <1>3 DEF Inv, Types, TypeOK
<1> HIDE DEF b
<1>9. after \in TaskType /\ after.rev = task[t].rev + 1 /\ after.binding = b
  <2> DEFINE one == [task[t] EXCEPT !.rev = @ + 1]
  <2>1. one \in TaskType /\ one.rev = task[t].rev + 1
    BY <1>5 DEF TaskType
  <2>2. after = [one EXCEPT !.binding = b]
    OBVIOUS
  <2> HIDE DEF one, after
  <2> QED BY <1>6, <2>1, <2>2 DEF TaskType
<1> HIDE DEF after
<1>10. task' \in [Tasks -> TaskType] /\ task'[t] = after /\ \A u \in Tasks \ {t} : task'[u] = task[u]
  BY <1>3, <1>8, <1>9 DEF Inv, Types, TypeOK
<1>11. Types'
  BY <1>2, <1>4, <1>10 DEF Inv, Types, TypeOK
<1>12. AccountCounts'
  BY <1>2, InvocationsUnchanged DEF Inv, Counts, AccountCounts
<1>13. BindingCounts'
  <2> SUFFICES ASSUME NEW u \in Tasks
               PROVE  /\ task'[u].binding = None => OfTask(u)' = {}
                      /\ task'[u].binding /= None =>
                           /\ task'[u].binding.used = Cardinality(OfTask(u)')
                           /\ task'[u].binding.used <= task'[u].binding.limit
    BY DEF BindingCounts
  <2>1. OfTask(u)' = OfTask(u)
    BY <1>2, InvocationsUnchanged
  <2>2. CASE u /= t
    BY <1>10, <2>1, <2>2 DEF Inv, Counts, BindingCounts
  <2>3. CASE u = t
    <3>1. task'[u].binding = b
      BY <1>9, <1>10, <2>3
    <3>2. b.used = Cardinality(OfTask(t))
      <4>1. CASE task[t].binding = None
        BY <1>3, <1>6, <4>1, FS_EmptySet DEF Inv, Counts, BindingCounts
      <4>2. CASE task[t].binding /= None
        BY <1>3, <1>6, <4>2 DEF Inv, Counts, BindingCounts
      <4> QED BY <4>1, <4>2
    <3> QED BY <1>7, <2>1, <2>3, <3>1, <3>2
  <2> QED BY <2>2, <2>3
<1>14. ASSUME NEW k \in Handlers, decided[k] /= None, decided[k].kind = "authorize", NEW x, x = decided[k]
       PROVE  BudgetStands(x)'
  <2>1. x.task \in Tasks /\ x.taskRev \in Nat /\ BudgetStands(x)
    BY <1>14 DEF Inv, Types, DecisionsType, DecisionType, DecisionsStand
  <2>2. CASE x.task = t
    <3>1. task'[t].rev = task[t].rev + 1 /\ task'[t].binding /= None
      BY <1>7, <1>9, <1>10
    <3>2. x.taskRev <= task'[t].rev /\ x.taskRev /= task'[t].rev
      BY <1>5, <2>1, <2>2, <3>1 DEF BudgetStands
    <3> QED BY <1>2, <2>1, <2>2, <3>1, <3>2 DEF BudgetStands
  <2>3. CASE x.task /= t
    BY <1>2, <1>10, <2>1, <2>3 DEF BudgetStands
  <2> QED BY <2>2, <2>3
<1>15. \A x : AttemptFollows(x)' <=> AttemptFollows(x)
  BY <1>2, AttemptFollowsKept
<1>16. DecisionsStand'
  BY <1>2, <1>4, <1>14, <1>15 DEF Inv, DecisionsStand
<1>17. AttemptsAreLinear' /\ LateIsStale'
  BY <1>2, LinesKept, InvocationsUnchanged DEF Inv, LateIsStale
<1> QED BY <1>11, <1>12, <1>13, <1>16, <1>17 DEF Inv, Counts

(* The sets of invocations once one more is authorized.                     *)
LEMMA SetsGrow ==
  ASSUME NEW i \in Invocations, ~Exists(i), NEW n, n /= None,
         invocation \in [Invocations -> InvocationType \cup {None}], invocation' = [invocation EXCEPT ![i] = n]
  PROVE  /\ Authorized' = Authorized \cup {i} /\ i \notin Authorized
         /\ \A k \in Authorized : invocation'[k] = invocation[k]
<1>1. invocation'[i] = n /\ \A k \in Invocations \ {i} : invocation'[k] = invocation[k]
  OBVIOUS
<1>2. Authorized' = Authorized \cup {i} /\ i \notin Authorized
  BY <1>1 DEF Authorized, Exists
<1>3. \A k \in Authorized : invocation'[k] = invocation[k]
  BY <1>1, <1>2 DEF Authorized
<1> QED BY <1>2, <1>3

LEMMA OneMore ==
  ASSUME NEW S, IsFiniteSet(S), NEW i, i \notin S
  PROVE  IsFiniteSet(S \cup {i}) /\ Cardinality(S \cup {i}) = Cardinality(S) + 1 /\ Cardinality(S) \in Nat
BY FS_AddElement, FS_CardinalityType

LEMMA UpTo ==
  ASSUME NEW n \in Nat
  PROVE  (1..n) \cup {n + 1} = 1..(n + 1)
OBVIOUS

LEMMA CommitAuthorize ==
  ASSUME Inv, NEW h \in Handlers, Commit(h), decided[h].kind = "authorize"
  PROVE  Inv'
<1>1. PICK d : d = decided[h]
  OBVIOUS
<1>2. PICK v : v = d.value
  OBVIOUS
<1>3. PICK t \in Tasks, i \in Invocations, p \in Purposes : t = d.task /\ i = d.id /\ p = v.purpose
  BY <1>1, <1>2 DEF Inv, Types, DecisionsType, DecisionType, Commit, InvocationType
<1>4. t /= None /\ i /= None
  BY NoneAssumption
<1>5. v \in InvocationType /\ v.task = t /\ v.state = "AUTHORIZED"
  BY <1>1, <1>2, <1>3 DEF Inv, Types, DecisionsType, DecisionType, Commit
<1>6. PICK n : n = [v EXCEPT !.late = execution /= v.execution]
  OBVIOUS
<1>7. /\ UNCHANGED <<execution, now>> /\ decided' = [decided EXCEPT ![h] = None]
      /\ invocation' = [invocation EXCEPT ![i] = n]
      /\ DebitHolds(v) /\ Debit(v)
  BY <1>1, <1>2, <1>3, <1>6 DEF Commit, Project
<1>8. BudgetStands(d) /\ (account.used + 1 = v.ordinal => AttemptFollows(v))
  BY <1>1, <1>2 DEF Inv, DecisionsStand, Commit
<1>9. ~Exists(i) /\ d.taskRev = task[t].rev /\ d.accountRev = account.rev /\ account /= None
  BY <1>1, <1>3, <1>4, <1>8 DEF Commit, RevisionsHold, BudgetStands
<1>10. account \in AccountType /\ task[t] \in TaskType /\ task[t].binding \in BindingType /\ execution \in Nat
  BY <1>3, <1>8, <1>9 DEF BudgetStands, Inv, Types, TypeOK, TaskType
<1>11. /\ v.ordinal \in Nat /\ v.purposeOrdinal \in Nat /\ v.taskUsed \in Nat /\ v.taskPurposeUsed \in Nat
       /\ v.execution \in Nat /\ v.attempt \in Nat \ {0} /\ v.remaining \in Nat
  BY <1>5 DEF InvocationType
<1>12. /\ n \in InvocationType /\ n.task = t /\ n.purpose = p /\ n.state = "AUTHORIZED"
       /\ n.attempt = v.attempt /\ n.retryOf = v.retryOf /\ n.ordinal = v.ordinal
       /\ n.execution = v.execution /\ (n.late => execution /= v.execution)
  BY <1>3, <1>5, <1>6 DEF InvocationType
<1>13. account.used \in Nat /\ account.purposeUsed[p] \in Nat /\ task[t].binding.used \in Nat /\ account.limit \in Nat
  BY <1>10 DEF AccountType, BindingType
<1>14. /\ v.ordinal = account.used + 1 /\ v.purposeOrdinal = account.purposeUsed[p] + 1
       /\ v.taskUsed = task[t].binding.used + 1 /\ v.remaining = account.limit - v.ordinal
  BY <1>3, <1>5, <1>7, <1>11, <1>13 DEF DebitHolds
<1>15. /\ account' \in AccountType /\ account'.rev = account.rev /\ account'.limit = account.limit
       /\ account'.purpose = account.purpose /\ account'.used = v.ordinal /\ account'.purposeUsed[p] = v.purposeOrdinal
       /\ \A q \in Purposes \ {p} : account'.purposeUsed[q] = account.purposeUsed[q]
  <2>1. PICK f : f = [account.purposeUsed EXCEPT ![p] = v.purposeOrdinal]
    OBVIOUS
  <2>2. f \in [Purposes -> Nat] /\ f[p] = v.purposeOrdinal /\ \A q \in Purposes \ {p} : f[q] = account.purposeUsed[q]
    BY <1>10, <1>11, <2>1 DEF AccountType
  <2>3. account' = [account EXCEPT !.used = v.ordinal, !.purposeUsed = f]
    BY <1>3, <1>7, <1>10, <2>1 DEF Debit, AccountType
  <2>4. /\ account' \in AccountType /\ account'.rev = account.rev /\ account'.limit = account.limit
        /\ account'.purpose = account.purpose /\ account'.used = v.ordinal /\ account'.purposeUsed = f
    BY <1>10, <1>11, <2>2, <2>3 DEF AccountType
  <2> QED BY <2>2, <2>4
<1>16. PICK f : f = [task[t].binding.purposeUsed EXCEPT ![p] = v.taskPurposeUsed]
  OBVIOUS
<1>16a. PICK b : b = [task[t].binding EXCEPT !.used = v.taskUsed, !.purposeUsed = f]
  OBVIOUS
<1>17. b \in BindingType /\ b.limit = task[t].binding.limit /\ b.used = v.taskUsed
  <2>1. f \in [Purposes -> Nat]
    BY <1>10, <1>11, <1>16 DEF BindingType
  <2> QED BY <1>10, <1>11, <1>16a, <2>1 DEF BindingType
<1>18. PICK after : after = [task[t] EXCEPT !.binding = b]
  OBVIOUS
<1>19. after \in TaskType /\ after.rev = task[t].rev /\ after.binding = b
  BY <1>10, <1>17, <1>18 DEF TaskType
<1>20. task' = [task EXCEPT ![t] = after]
  <2>1. task' = [task EXCEPT ![t].binding =
                   [@ EXCEPT !.used = v.taskUsed, !.purposeUsed[p] = v.taskPurposeUsed]]
    BY <1>3, <1>5, <1>7 DEF Debit
  <2>2. [task[t].binding EXCEPT !.used = v.taskUsed, !.purposeUsed[p] = v.taskPurposeUsed] = b
    BY <1>10, <1>16, <1>16a DEF BindingType
  <2>3. task' = [task EXCEPT ![t].binding = b]
    BY <2>1, <2>2
  <2> QED BY <1>18, <2>3
<1>21. task' \in [Tasks -> TaskType] /\ task'[t] = after /\ \A u \in Tasks \ {t} : task'[u] = task[u]
  BY <1>19, <1>20 DEF Inv, Types, TypeOK
<1>22. account' /= None /\ b /= None /\ n /= None
  BY <1>12, <1>15, <1>17, NoneAssumption
<1>23. /\ invocation' \in [Invocations -> InvocationType \cup {None}] /\ invocation'[i] = n
       /\ invocation \in [Invocations -> InvocationType \cup {None}]
  BY <1>7, <1>12 DEF Inv, Types, TypeOK
<1>24. /\ decided' = [k \in Handlers |-> decided'[k]]
       /\ \A k \in Handlers : decided'[k] /= None => k /= h /\ decided'[k] = decided[k] /\ decided[k] /= None
       /\ DecisionsType'
  BY <1>7, Committed
<1>25. Types'
  BY <1>7, <1>15, <1>21, <1>23, <1>24 DEF Inv, Types, TypeOK
<1>26. /\ Authorized' = Authorized \cup {i} /\ i \notin Authorized
       /\ \A k \in Authorized : invocation'[k] = invocation[k]
       /\ \A q : AuthorizedFor(q)' = AuthorizedFor(q) \cup (IF n.purpose = q THEN {i} ELSE {})
       /\ \A u : OfTask(u)' = OfTask(u) \cup (IF n.task = u THEN {i} ELSE {})
       /\ \A u, q : Of(u, q)' = Of(u, q) \cup (IF n.task = u /\ n.purpose = q THEN {i} ELSE {})
  <2>1. /\ Authorized' = Authorized \cup {i} /\ i \notin Authorized
        /\ \A k \in Authorized : invocation'[k] = invocation[k]
    BY <1>7, <1>9, <1>22, <1>23, SetsGrow
  <2>0. invocation'[i] = n /\ \A k \in Invocations \ {i} : invocation'[k] = invocation[k]
    BY <1>7, <1>23
  <2>2. \A q : AuthorizedFor(q)' = AuthorizedFor(q) \cup (IF n.purpose = q THEN {i} ELSE {})
    BY <2>0, <2>1 DEF AuthorizedFor
  <2>3. \A u : OfTask(u)' = OfTask(u) \cup (IF n.task = u THEN {i} ELSE {})
    BY <2>0, <2>1 DEF OfTask
  <2>4. \A u, q : Of(u, q)' = Of(u, q) \cup (IF n.task = u /\ n.purpose = q THEN {i} ELSE {})
    BY <1>9, <1>22, <2>0 DEF Of, Exists
  <2> QED BY <2>1, <2>2, <2>3, <2>4
<1>27. IsFiniteSet(Authorized)
  BY DEF Inv, Counts, AccountCounts
<1>28. /\ \A u, q : IsFiniteSet(Of(u, q)) /\ i \notin Of(u, q)
       /\ \A u : IsFiniteSet(OfTask(u)) /\ i \notin OfTask(u)
       /\ \A q : IsFiniteSet(AuthorizedFor(q)) /\ i \notin AuthorizedFor(q)
  <2>1. i \notin Authorized
    BY <1>26
  <2>2. /\ \A u, q : i \notin Of(u, q)
        /\ \A u : i \notin OfTask(u) /\ \A q : i \notin AuthorizedFor(q)
    BY <2>1 DEF Of, OfTask, AuthorizedFor, Authorized
  <2>3. /\ \A u, q : IsFiniteSet(Of(u, q))
        /\ \A u : IsFiniteSet(OfTask(u))
        /\ \A q : IsFiniteSet(AuthorizedFor(q))
    BY <1>27, FiniteSets
  <2> QED BY <2>2, <2>3
<1>29. AccountCounts'
  <2>1. IsFiniteSet(Authorized') /\ account'.used = Cardinality(Authorized')
    BY <1>9, <1>14, <1>15, <1>26, <1>27, OneMore DEF Inv, Counts, AccountCounts
  <2>2. account'.used <= account'.limit
    BY <1>11, <1>13, <1>14, <1>15
  <2>3. {invocation'[k].ordinal : k \in Authorized'} = 1..account'.used
    <3>1. {invocation'[k].ordinal : k \in Authorized'} = {invocation[k].ordinal : k \in Authorized} \cup {v.ordinal}
      BY <1>12, <1>23, <1>26
    <3>2. {invocation[k].ordinal : k \in Authorized} = 1..account.used
      BY <1>9 DEF Inv, Counts, AccountCounts
    <3> QED BY <1>13, <1>14, <1>15, <3>1, <3>2, UpTo
  <2>4. ASSUME NEW q \in Purposes
        PROVE  account'.purposeUsed[q] = Cardinality(AuthorizedFor(q)') /\ account'.purposeUsed[q] <= account'.purpose[q]
    <3>1. account.purposeUsed[q] = Cardinality(AuthorizedFor(q)) /\ account.purposeUsed[q] <= account.purpose[q]
      BY <1>9 DEF Inv, Counts, AccountCounts
    <3>2. CASE q = p
      <4>1. AuthorizedFor(q)' = AuthorizedFor(q) \cup {i}
        BY <1>12, <1>26, <3>2
      <4>2. v.purposeOrdinal <= account.purpose[p]
        BY <1>2, <1>3, <1>8, <1>9 DEF BudgetStands
      <4> QED BY <1>14, <1>15, <1>28, <3>1, <3>2, <4>1, <4>2, OneMore
    <3>3. CASE q /= p
      <4>1. AuthorizedFor(q)' = AuthorizedFor(q)
        BY <1>12, <1>26, <3>3
      <4> QED BY <1>15, <3>1, <3>3, <4>1
    <3> QED BY <3>2, <3>3
  <2> QED BY <1>22, <2>1, <2>2, <2>3, <2>4 DEF AccountCounts
<1>30. BindingCounts'
  <2> SUFFICES ASSUME NEW u \in Tasks
               PROVE  /\ task'[u].binding = None => OfTask(u)' = {}
                      /\ task'[u].binding /= None =>
                           /\ task'[u].binding.used = Cardinality(OfTask(u)')
                           /\ task'[u].binding.used <= task'[u].binding.limit
    BY DEF BindingCounts
  <2>1. CASE u = t
    <3>1. OfTask(u)' = OfTask(u) \cup {i}
      BY <1>12, <1>26, <2>1
    <3>2. task[t].binding /= None /\ v.taskUsed <= task[t].binding.limit
      BY <1>2, <1>3, <1>8, <1>9 DEF BudgetStands
    <3>3. task[t].binding.used = Cardinality(OfTask(t))
      BY <3>2 DEF Inv, Counts, BindingCounts
    <3>4. Cardinality(OfTask(u)') = Cardinality(OfTask(t)) + 1
      BY <1>28, <2>1, <3>1, OneMore
    <3>5. task'[u].binding = b
      BY <1>19, <1>21, <2>1
    <3> QED BY <1>14, <1>17, <1>22, <3>2, <3>3, <3>4, <3>5
  <2>2. CASE u /= t
    <3>1. OfTask(u)' = OfTask(u)
      BY <1>12, <1>26, <2>2
    <3> QED BY <1>21, <2>2, <3>1 DEF Inv, Counts, BindingCounts
  <2> QED BY <2>1, <2>2
<1>31. ASSUME NEW k \in Handlers, decided[k] /= None, decided[k].kind = "authorize", NEW x, x = decided[k]
       PROVE  BudgetStands(x)' /\ account'.used + 1 /= x.value.ordinal
  <2>1. x.task \in Tasks /\ BudgetStands(x) /\ x.value.ordinal \in Nat
    BY <1>31 DEF Inv, Types, DecisionsType, DecisionType, DecisionsStand, InvocationType
  <2>2. task'[x.task].rev = task[x.task].rev /\ task'[x.task].binding /= None
        /\ task'[x.task].binding.limit = task[x.task].binding.limit
    BY <1>17, <1>19, <1>21, <1>22, <2>1 DEF BudgetStands
  <2>3. x.value.ordinal <= account'.used
    BY <1>13, <1>14, <1>15, <2>1 DEF BudgetStands
  <2> QED BY <1>7, <1>11, <1>15, <1>22, <2>1, <2>2, <2>3 DEF BudgetStands
<1>32. DecisionsStand'
  BY <1>22, <1>24, <1>31 DEF DecisionsStand
<1>33. AttemptsAreLinear'
  <2> SUFFICES ASSUME NEW u \in Tasks, NEW q \in Purposes
               PROVE  /\ {invocation'[k].attempt : k \in Of(u, q)'} = 1..Cardinality(Of(u, q)')
                      /\ \A k \in Of(u, q)' :
                           IF invocation'[k].attempt = 1 THEN invocation'[k].retryOf = None
                           ELSE LET prior == invocation'[k].retryOf IN
                                /\ prior \in Of(u, q)' /\ invocation'[prior].attempt = invocation'[k].attempt - 1
                                /\ invocation'[prior].state \in Terminal \ {"EXPIRED"}
    BY DEF AttemptsAreLinear
  <2>1. Of(u, q) \subseteq Authorized /\ \A k \in Of(u, q) : invocation'[k] = invocation[k]
    BY <1>26 DEF Of, Authorized
  <2>2. {invocation[k].attempt : k \in Of(u, q)} = 1..Cardinality(Of(u, q))
    BY DEF Inv, AttemptsAreLinear
  <2>3. ASSUME NEW k \in Of(u, q)
        PROVE  IF invocation'[k].attempt = 1 THEN invocation'[k].retryOf = None
               ELSE LET prior == invocation'[k].retryOf IN
                    /\ prior \in Of(u, q) /\ invocation'[prior].attempt = invocation'[k].attempt - 1
                    /\ invocation'[prior].state \in Terminal \ {"EXPIRED"}
    <3>1. invocation'[k] = invocation[k]
      BY <2>1
    <3>2. CASE invocation[k].attempt = 1
      BY <3>1, <3>2 DEF Inv, AttemptsAreLinear
    <3>3. CASE invocation[k].attempt /= 1
      <4>1. /\ invocation[k].retryOf \in Of(u, q)
            /\ invocation[invocation[k].retryOf].attempt = invocation[k].attempt - 1
            /\ invocation[invocation[k].retryOf].state \in Terminal \ {"EXPIRED"}
        BY <3>3 DEF Inv, AttemptsAreLinear
      <4> QED BY <2>1, <3>1, <3>3, <4>1
    <3> QED BY <3>2, <3>3
  <2>4. CASE u = t /\ q = p
    <3>1. Of(u, q)' = Of(u, q) \cup {i}
      BY <1>12, <1>26, <2>4
    <3>2. AttemptFollows(v)
      BY <1>8, <1>14
    <3>3. v.attempt = Cardinality(Of(u, q)) + 1 /\ Cardinality(Of(u, q)) \in Nat
          /\ Cardinality(Of(u, q)') = Cardinality(Of(u, q)) + 1
      <4>1. Cardinality(Of(u, q)') = Cardinality(Of(u, q)) + 1 /\ Cardinality(Of(u, q)) \in Nat
        BY <1>28, <3>1, OneMore
      <4> QED BY <1>3, <1>5, <2>4, <3>2, <4>1 DEF AttemptFollows
    <3>4. {invocation'[k].attempt : k \in Of(u, q)'} = {invocation[k].attempt : k \in Of(u, q)} \cup {v.attempt}
      BY <1>12, <1>23, <2>1, <3>1
    <3>5. {invocation'[k].attempt : k \in Of(u, q)'} = 1..Cardinality(Of(u, q)')
      BY <2>2, <3>3, <3>4, UpTo
    <3>6. IF v.attempt = 1 THEN v.retryOf = None
          ELSE /\ v.retryOf \in Of(u, q) /\ invocation'[v.retryOf].attempt = v.attempt - 1
               /\ invocation'[v.retryOf].state \in Terminal \ {"EXPIRED"}
      BY <1>3, <1>5, <2>1, <2>4, <3>2 DEF AttemptFollows
    <3> QED BY <1>12, <1>23, <2>3, <3>1, <3>5, <3>6
  <2>5. CASE ~(u = t /\ q = p)
    <3>1. Of(u, q)' = Of(u, q)
      BY <1>12, <1>26, <2>5
    <3>2. {invocation'[k].attempt : k \in Of(u, q)'} = {invocation[k].attempt : k \in Of(u, q)}
      BY <2>1, <3>1
    <3> QED BY <2>2, <2>3, <3>1, <3>2
  <2> QED BY <2>4, <2>5
<1>34. LateIsStale'
  <2> SUFFICES ASSUME NEW k \in Authorized', invocation'[k].late
               PROVE  invocation'[k].execution < execution' /\ invocation'[k].state \in {"AUTHORIZED", "EXPIRED"}
    BY DEF LateIsStale
  <2>1. CASE k = i
    <3>1. v.execution <= execution
      BY <1>2, <1>8 DEF BudgetStands
    <3> QED BY <1>7, <1>10, <1>11, <1>12, <1>23, <2>1, <3>1
  <2>2. CASE k /= i
    BY <1>7, <1>26, <2>2 DEF Inv, LateIsStale
  <2> QED BY <2>1, <2>2
<1> QED BY <1>25, <1>29, <1>30, <1>32, <1>33, <1>34 DEF Inv, Counts

-----------------------------------------------------------------------------
LEMMA InitInv == Init => Inv
<1> SUFFICES ASSUME Init PROVE Inv
  OBVIOUS
<1>1. Types
  BY DEF Init, Types, TypeOK, DecisionsType, TaskType
<1>2. Authorized = {} /\ (\A t : OfTask(t) = {}) /\ \A t, p : Of(t, p) = {}
  BY DEF Init, Authorized, OfTask, Of, Exists
<1>3. Counts
  BY <1>2, FS_EmptySet DEF Init, Counts, AccountCounts, BindingCounts
<1>4. AttemptsAreLinear
  BY <1>2, FS_EmptySet DEF AttemptsAreLinear
<1> QED BY <1>1, <1>2, <1>3, <1>4 DEF Inv, Init, DecisionsStand, LateIsStale

LEMMA NextInv == Inv /\ [Next]_vars => Inv'
<1> SUFFICES ASSUME Inv, [Next]_vars PROVE Inv'
  OBVIOUS
<1>1. CASE UNCHANGED vars
  <2>1. UNCHANGED <<account, task, invocation, execution, now, decided>>
    BY <1>1 DEF vars
  <2>2. Types' /\ Counts'
    BY <2>1, InvocationsUnchanged
       DEF Inv, Types, TypeOK, DecisionsType, DecisionType, Counts, AccountCounts, BindingCounts
  <2>3. \A x : (BudgetStands(x)' <=> BudgetStands(x)) /\ (AttemptFollows(x)' <=> AttemptFollows(x))
    BY <2>1, AttemptFollowsKept DEF BudgetStands
  <2>4. DecisionsStand' /\ AttemptsAreLinear' /\ LateIsStale'
    BY <2>1, <2>3, LinesKept, InvocationsUnchanged DEF Inv, DecisionsStand, LateIsStale
  <2> QED BY <2>2, <2>4 DEF Inv
<1>2. ASSUME NEW h \in Handlers, Commit(h) PROVE Inv'
  <2>1. decided[h].kind \in {"create", "amend", "binding", "authorize"}
    BY <1>2 DEF Commit, Project
  <2> QED BY <1>2, <2>1, CommitCreate, CommitAmend, CommitBinding, CommitAuthorize
<1> QED BY <1>1, <1>2, CreateStep, AmendStep, BindBudgetStep, AuthorizeStep, DropStep, InvocationSteps,
           TaskSteps, RegistrySteps DEF Next

(* The stored records keep their types.                                     *)
THEOREM TypeCorrect == Spec => []TypeOK
BY InitInv, NextInv, PTL DEF Spec, Inv, Types

(* The counters of the account and of each binding count the invocations    *)
(* authorized against them and stay within their limits, whichever          *)
(* decisions raced.                                                         *)
THEOREM DebitsCount == Spec => []DebitsAreCounted
<1>1. Inv => DebitsAreCounted
  <2> SUFFICES ASSUME Inv PROVE DebitsAreCounted
    OBVIOUS
  <2>1. \A t \in Tasks : UNION {Of(t, p) : p \in Purposes} = OfTask(t)
    <3> SUFFICES ASSUME NEW t \in Tasks PROVE UNION {Of(t, p) : p \in Purposes} = OfTask(t)
      OBVIOUS
    <3>1. \A i \in Authorized : invocation[i].purpose \in Purposes
      BY DEF Inv, Types, TypeOK, Authorized, Exists, InvocationType
    <3> QED BY <3>1 DEF Of, OfTask, Authorized
  <2> QED BY <2>1 DEF Inv, Counts, AccountCounts, BindingCounts, DebitsAreCounted
<1> QED BY <1>1, InitInv, NextInv, PTL DEF Spec

(* The attempts of one task for one purpose form a line, each the retry of  *)
(* the one before, which had ended.                                         *)
THEOREM AttemptsFormALine == Spec => []AttemptsAreLinear
<1>1. Inv => AttemptsAreLinear
  BY DEF Inv
<1> QED BY <1>1, InitInv, NextInv, PTL DEF Spec

(* An authorization that reached the store after the actor's execution had  *)
(* been replaced is never claimed.                                          *)
THEOREM LateIsNeverClaimed == Spec => []LateAuthorizationUnused
<1>1. Inv => LateAuthorizationUnused
  BY DEF Inv, LateIsStale, LateAuthorizationUnused
<1> QED BY <1>1, InitInv, NextInv, PTL DEF Spec
==============================================================================
