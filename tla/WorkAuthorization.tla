------------------------- MODULE WorkAuthorization -------------------------
(***************************************************************************)
(* Who may call a model, and how often: the work budget account of a story, *)
(* the budget, profile, assignment and scope bound to its tasks, and the    *)
(* invocations authorized against them (kernel/work_invocation.go,          *)
(* phase4_policy.go, work_profile.go, qualification.go), with the stores'   *)
(* commit of such a decision (adapters/memory/phase4.go, mongo/phase4.go).  *)
(*                                                                          *)
(* A handler loads a snapshot and decides, and commits later; two of them   *)
(* work on the same account.  A decision that lost a race is dropped.  One  *)
(* actor works on all tasks; an execution is its fencing epoch.  `gen'      *)
(* stands for the lifecycle epoch and the scope revision of a task, which a *)
(* reopening moves together (WorkLifecycle).  Digests, identities and the   *)
(* evidence a payload repeats are inputs the evaluator compares; only those *)
(* that differ between two attempts are kept.                               *)
(***************************************************************************)
EXTENDS Integers, FiniteSets

CONSTANTS Tasks, Purposes, Handlers,
          Revalidated,    \* the purposes a succeeded attempt may be repeated for
          Invocations,    \* invocation identities
          Allowed,        \* the terminal outcomes an invocation allows
          Budgets,        \* the limits an account or a binding may be given
          None,           \* nothing there
          MaxAccountRev, MaxTaskRev, MaxExecution, MaxTime, MaxDeadline   \* bounds

ASSUME RevalidatedAssumption == Revalidated \subseteq Purposes

(* WorkBudgetAccount.Valid: no purpose has more than the whole.             *)
ASSUME BudgetsAssumption ==
  \A b \in Budgets : /\ b.limit \in Nat \ {0} /\ b.purpose \in [Purposes -> Nat]
                     /\ \A p \in Purposes : b.purpose[p] <= b.limit

ASSUME BoundsAssumption ==
  /\ MaxAccountRev \in Nat /\ MaxTaskRev \in Nat /\ MaxExecution \in Nat
  /\ MaxTime \in Nat /\ MaxDeadline \in Nat

(* A terminal record has one of the terminal outcomes.                      *)
Terminal == {"START_FAILED", "SUCCEEDED", "FAILED", "TIMED_OUT", "CANCELLED", "EXPIRED"}
ASSUME AllowedAssumption == Allowed \subseteq Terminal

(* What is stored.                                                          *)
AccountType ==
  [rev : Nat, policy : Nat, limit : Nat, purpose : [Purposes -> Nat],
   used : Nat, purposeUsed : [Purposes -> Nat], deadline : Nat]
BindingType ==
  [gen : Nat, limit : Nat, purpose : [Purposes -> Nat], used : Nat, purposeUsed : [Purposes -> Nat]]
InvocationType ==
  [state : Terminal \cup {"AUTHORIZED", "CLAIMED", "STARTED"}, rev : Nat, task : Tasks,
   purpose : Purposes, cancel : BOOLEAN, attempt : Nat \ {0}, retryOf : Invocations \cup {None},
   policy : Nat, profile : Nat, gen : Nat, execution : Nat, deadline : Nat, taskRev : Nat,
   ordinal : Nat, purposeOrdinal : Nat, taskUsed : Nat, taskPurposeUsed : Nat, remaining : Nat,
   late : BOOLEAN]

ASSUME NoneAssumption ==
  None \notin Tasks \cup Invocations \cup AccountType \cup BindingType \cup InvocationType

VARIABLES account,     \* the work budget account, or None
          task,        \* per task: revision, generation, runnable and what is bound to it
          invocation,  \* per identity: the invocation, or None
          execution,   \* the actor's current execution
          now,         \* the clock
          decided      \* per handler: the decision it is about to commit, or None

vars == <<account, task, invocation, execution, now, decided>>

Exists(i) == invocation[i] /= None
Of(t, p) == {i \in Invocations : Exists(i) /\ invocation[i].task = t /\ invocation[i].purpose = p}
Zero == [p \in Purposes |-> 0]

Init ==
  /\ account = None
  /\ task = [t \in Tasks |-> [rev |-> 1, gen |-> 1, runnable |-> TRUE, binding |-> None,
                              scope |-> None, profile |-> None, assignment |-> None]]
  /\ invocation = [i \in Invocations |-> None]
  /\ execution = 1 /\ now = 0
  /\ decided = [h \in Handlers |-> None]

-----------------------------------------------------------------------------
(* Decisions.  A decision carries the revisions of the task and the account *)
(* that the commit compares (0 where there is none), and what it will write.*)

Decision(kind, t, i, value) ==
  [kind |-> kind, task |-> t, id |-> i, value |-> value,
   taskRev |-> IF t = None THEN 0 ELSE task[t].rev,
   accountRev |-> IF account = None THEN 0 ELSE account.rev]

RevisionsHold(d) ==
  /\ d.taskRev = IF d.task = None THEN 0 ELSE task[d.task].rev
  /\ d.accountRev = IF account = None THEN 0 ELSE account.rev
  /\ d.id /= None => ~Exists(d.id)

(* A decision whose revisions no longer hold will be refused; its handler   *)
(* is as good as free.                                                      *)
Free(h) == decided[h] /= None => ~RevisionsHold(decided[h])

Decide(h, d) ==
  /\ Free(h)
  /\ decided' = [decided EXCEPT ![h] = d]
  /\ UNCHANGED <<account, task, invocation, execution, now>>

(* A decision on a task that reads the task and the registry only: the      *)
(* commit compares the task's revision, so that committing it late is       *)
(* committing it at once and replacing the execution later.  One step.      *)
SetTask(t, new) ==
  /\ task[t].rev < MaxTaskRev /\ task' = [task EXCEPT ![t] = [new EXCEPT !.rev = @ + 1]]
  /\ UNCHANGED <<account, invocation, execution, now, decided>>

CreateBudget(h) ==
  \E b \in Budgets, d \in (now + 1)..MaxDeadline :
    /\ account = None
    /\ Decide(h, Decision("create", None, None,
         [rev |-> 1, policy |-> 1, limit |-> b.limit, purpose |-> b.purpose,
          used |-> 0, purposeUsed |-> Zero, deadline |-> d]))

(* ApplyWorkBudgetAmendment: no limit goes below what is used and the       *)
(* deadline does not go back; what is used stays used.                      *)
Amendable(a, b, d) ==
  /\ b.limit >= a.used /\ \A p \in Purposes : b.purpose[p] >= a.purposeUsed[p]
  /\ d >= a.deadline
Amended(a, b, d) ==
  [a EXCEPT !.rev = @ + 1, !.policy = @ + 1, !.limit = b.limit, !.purpose = b.purpose, !.deadline = d]

AmendBudget(h) ==
  \E b \in Budgets, d \in 1..MaxDeadline :
    /\ account /= None /\ account.rev < MaxAccountRev /\ Amendable(account, b, d)
    /\ Decide(h, Decision("amend", None, None, [budget |-> b, deadline |-> d]))

(* PlanWorkProfileBinding: the next revision, of the task as it is now, and *)
(* the terminal attempts its evidence is taken from.                        *)
BindProfile(t) ==
  \E d \in 1..MaxDeadline, cites \in {{}} \cup {{i} : i \in Invocations} :
    /\ \A i \in cites : Exists(i) /\ invocation[i].state \in Terminal
    /\ SetTask(t, [task[t] EXCEPT !.profile =
         [rev |-> IF @ = None THEN 1 ELSE @.rev + 1, gen |-> task[t].gen, deadline |-> d, cites |-> cites]])

(* authorize-qualified-assignment: of the current profile to the execution  *)
(* that is current in the snapshot.                                         *)
AuthorizeAssignment(t) ==
  /\ task[t].profile /= None /\ task[t].profile.gen = task[t].gen
  /\ SetTask(t, [task[t] EXCEPT !.assignment = [profile |-> task[t].profile.rev, execution |-> execution]])

BindScope(t) == SetTask(t, [task[t] EXCEPT !.scope = [gen |-> task[t].gen, execution |-> execution]])

(* A task keeps its account, and no limit goes below what it has used.      *)
Rebindable(b, old) ==
  old /= None => (old.used <= b.limit /\ \A p \in Purposes : old.purposeUsed[p] <= b.purpose[p])

(* A new binding inherits what the old one used.                            *)
Inherited(b, old) ==
  IF old = None THEN b ELSE [b EXCEPT !.used = old.used, !.purposeUsed = old.purposeUsed]

BindBudget(h, t) ==
  \E b \in Budgets :
    /\ account /= None /\ Rebindable(b, task[t].binding) /\ task[t].rev < MaxTaskRev
    /\ b.limit <= account.limit /\ \A p \in Purposes : b.purpose[p] <= account.purpose[p]
    /\ Decide(h, Decision("binding", t, None,
         [gen |-> task[t].gen, limit |-> b.limit, purpose |-> b.purpose, used |-> 0, purposeUsed |-> Zero]))

-----------------------------------------------------------------------------
(* PlanWorkInvocationAuthorization.                                         *)

(* Everything bound to the task belongs to the task as it is now, and to    *)
(* the actor's current execution.                                           *)
BoundTo(t) ==
  /\ task[t].runnable
  /\ None \notin {task[t].binding, task[t].scope, task[t].profile, task[t].assignment}
  /\ task[t].binding.gen = task[t].gen /\ task[t].scope.gen = task[t].gen
  /\ task[t].assignment.profile = task[t].profile.rev
  /\ {task[t].assignment.execution, task[t].scope.execution} = {execution}

WithinBudget(t, p) ==
  /\ account.used < account.limit /\ task[t].binding.used < task[t].binding.limit
  /\ account.purposeUsed[p] < account.purpose[p]
  /\ task[t].binding.purposeUsed[p] < task[t].binding.purpose[p]

Latest(S) == CHOOSE i \in S : \A j \in S : invocation[j].attempt <= invocation[i].attempt

(* validChangedConditionContinuation: a failed attempt is followed after a  *)
(* new profile, which cites it, a new policy and a later deadline.          *)
Continuation(t, prior) ==
  /\ task[t].profile.rev > invocation[prior].profile /\ task[t].profile.cites = {prior}
  /\ task[t].profile.deadline > invocation[prior].deadline
  /\ account.policy > invocation[prior].policy
  /\ \/ invocation[prior].state \in {"TIMED_OUT", "FAILED", "START_FAILED"}
     \/ invocation[prior].state = "CANCELLED" /\ invocation[prior].cancel

(* validCandidateRevalidation: a success is repeated on a new condition.    *)
Revalidation(p, prior) == p \in Revalidated /\ invocation[prior].state = "SUCCEEDED"

(* Mutated: an attempt that still runs does not stand in the way.           *)
AdmittedBesideActive(t, p) == TRUE

(* No attempt for the purpose is active, and the latest may be continued.   *)
(* The condition of the new attempt differs from the latest one's.          *)
Admitted(t, p) ==
  /\ \A i \in Of(t, p) : invocation[i].state \in Terminal
  /\ Of(t, p) /= {} =>
       Continuation(t, Latest(Of(t, p))) \/ Revalidation(p, Latest(Of(t, p)))

(* The deadline asked for is the profile's (authorizeTaskInvocation).       *)
Authorize(h, t, i) ==
  \E p \in Purposes :
    /\ account /= None /\ ~Exists(i) /\ BoundTo(t)
    /\ now < task[t].profile.deadline /\ task[t].profile.deadline <= account.deadline
    /\ WithinBudget(t, p) /\ Admitted(t, p)
    /\ LET prior == IF Of(t, p) = {} THEN None ELSE Latest(Of(t, p)) IN
       Decide(h, Decision("authorize", t, i,
         [state |-> "AUTHORIZED", rev |-> 1, task |-> t, purpose |-> p, cancel |-> FALSE,
          attempt |-> IF prior = None THEN 1 ELSE invocation[prior].attempt + 1, retryOf |-> prior,
          policy |-> account.policy, profile |-> task[t].profile.rev, gen |-> task[t].gen,
          execution |-> execution, deadline |-> task[t].profile.deadline, taskRev |-> task[t].rev,
          ordinal |-> account.used + 1, purposeOrdinal |-> account.purposeUsed[p] + 1,
          taskUsed |-> task[t].binding.used + 1, taskPurposeUsed |-> task[t].binding.purposeUsed[p] + 1,
          remaining |-> account.limit - account.used - 1, late |-> FALSE]))

-----------------------------------------------------------------------------
(* The invocation's own transitions.                                        *)

(* Mutated: the claim trusts the authorization.                             *)
ValidateTrusting(i) == task[invocation[i].task].rev = invocation[i].taskRev

(* OperationalExecutionContext.Validate: what was authorized still holds.   *)
Validate(i) ==
  LET v == invocation[i] IN
  LET t == task[v.task] IN
  /\ t.rev = v.taskRev /\ t.gen = v.gen /\ t.runnable
  /\ account.policy = v.policy /\ account.used >= v.ordinal
  /\ account.purposeUsed[v.purpose] >= v.purposeOrdinal
  /\ now < account.deadline /\ now < v.deadline
  /\ t.binding.gen = v.gen /\ t.scope.gen = v.gen /\ t.scope.execution = v.execution
  /\ t.profile.rev = v.profile /\ t.assignment.profile = v.profile
  /\ {t.assignment.execution, execution} = {v.execution}

(* Each of these reads aggregates whose revisions the commit compares (the  *)
(* claim has the task and the account as preconditions) and, beside them,   *)
(* the clock and the registry only: one step, as for SetTask.               *)
Move(i, next) ==
  /\ invocation' = [invocation EXCEPT ![i] = [next EXCEPT !.rev = @ + 1]]
  /\ UNCHANGED <<account, task, execution, now, decided>>

Claim(i) ==
  /\ Exists(i) /\ invocation[i].state = "AUTHORIZED" /\ Validate(i)
  /\ Move(i, [invocation[i] EXCEPT !.state = "CLAIMED"])

Start(i) ==
  /\ Exists(i) /\ invocation[i].state = "CLAIMED" /\ now < invocation[i].deadline
  /\ Move(i, [invocation[i] EXCEPT !.state = "STARTED"])

RecordTerminal(i) ==
  \E outcome \in Allowed :
    /\ Exists(i)
    /\ \/ invocation[i].state = "STARTED"
       \/ invocation[i].state = "CLAIMED" /\ outcome = "START_FAILED"
    /\ Move(i, [invocation[i] EXCEPT !.state = outcome])

RequestCancellation(i) ==
  /\ Exists(i) /\ invocation[i].state = "STARTED" /\ ~invocation[i].cancel
  /\ Move(i, [invocation[i] EXCEPT !.cancel = TRUE])

Expire(i) ==
  /\ Exists(i) /\ invocation[i].state = "AUTHORIZED" /\ now >= invocation[i].deadline
  /\ Move(i, [invocation[i] EXCEPT !.state = "EXPIRED"])

-----------------------------------------------------------------------------
(* Commit.                                                                  *)

(* Mutated: the revision of the account is thought to cover its counters.   *)
DebitByRevision(v) == TRUE

(* validateWorkBudgetCommit: the counters are those the decision read; a    *)
(* debit leaves the revision of the account alone.                          *)
DebitHolds(v) ==
  /\ account.used = v.ordinal - 1 /\ account.purposeUsed[v.purpose] = v.purposeOrdinal - 1
  /\ task[v.task].binding.used = v.taskUsed - 1
  /\ task[v.task].binding.purposeUsed[v.purpose] = v.taskPurposeUsed - 1
  /\ v.remaining = account.limit - v.ordinal

Debit(v) ==
  /\ account' = [account EXCEPT !.used = v.ordinal, !.purposeUsed[v.purpose] = v.purposeOrdinal]
  /\ task' = [task EXCEPT ![v.task].binding =
                 [@ EXCEPT !.used = v.taskUsed, !.purposeUsed[v.purpose] = v.taskPurposeUsed]]

(* The projections of the decision's event, applied to what is stored now.  *)
Project(d) ==
  \/ /\ d.kind = "create" /\ account = None /\ account' = d.value
     /\ UNCHANGED <<task, invocation>>
  \/ /\ d.kind = "amend" /\ Amendable(account, d.value.budget, d.value.deadline)
     /\ account' = Amended(account, d.value.budget, d.value.deadline)
     /\ UNCHANGED <<task, invocation>>
  \/ /\ d.kind = "binding" /\ Rebindable(d.value, task[d.task].binding)
     /\ task' = [task EXCEPT ![d.task].rev = @ + 1, ![d.task].binding = Inherited(d.value, @)]
     /\ UNCHANGED <<account, invocation>>
  \/ /\ d.kind = "authorize" /\ DebitHolds(d.value) /\ Debit(d.value)
     /\ invocation' = [invocation EXCEPT ![d.id] = [d.value EXCEPT !.late = execution /= d.value.execution]]

Commit(h) ==
  /\ decided[h] /= None /\ RevisionsHold(decided[h]) /\ Project(decided[h])
  /\ decided' = [decided EXCEPT ![h] = None] /\ UNCHANGED <<execution, now>>

(* The commit is refused, or the handler stops before it.                   *)
Drop(h) ==
  /\ decided[h] /= None /\ decided' = [decided EXCEPT ![h] = None]
  /\ UNCHANGED <<account, task, invocation, execution, now>>

-----------------------------------------------------------------------------
(* The rest of the kernel moves the task, the registry and the clock.       *)

MoveTask(t) ==
  \/ SetTask(t, [task[t] EXCEPT !.runnable = ~@])
  \/ SetTask(t, [task[t] EXCEPT !.gen = @ + 1])

ReplaceExecution ==
  /\ execution < MaxExecution /\ execution' = execution + 1
  /\ UNCHANGED <<account, task, invocation, now, decided>>

Tick ==
  /\ now < MaxTime /\ now' = now + 1
  /\ UNCHANGED <<account, task, invocation, execution, decided>>

Next ==
  \/ \E h \in Handlers : \/ CreateBudget(h) \/ AmendBudget(h) \/ Commit(h) \/ Drop(h)
                         \/ \E t \in Tasks : BindBudget(h, t) \/ \E i \in Invocations : Authorize(h, t, i)
  \/ \E i \in Invocations : Claim(i) \/ Start(i) \/ RecordTerminal(i) \/ RequestCancellation(i) \/ Expire(i)
  \/ \E t \in Tasks : MoveTask(t) \/ BindProfile(t) \/ AuthorizeAssignment(t) \/ BindScope(t)
  \/ ReplaceExecution \/ Tick

Spec == Init /\ [][Next]_vars

-----------------------------------------------------------------------------
(* Properties.                                                              *)

Authorized == {i \in Invocations : Exists(i)}
AuthorizedFor(p) == {i \in Authorized : invocation[i].purpose = p}

(* The counters of the account and of each binding count the invocations    *)
(* that were authorized against them, in all and by purpose, and stay       *)
(* within their limits, whichever decisions raced, however often limits are *)
(* amended and tasks are bound again; debit ordinals are given out once.    *)
DebitsAreCounted ==
  account /= None =>
    /\ account.used = Cardinality(Authorized) /\ account.used <= account.limit
    /\ \A p \in Purposes : /\ account.purposeUsed[p] = Cardinality(AuthorizedFor(p))
                           /\ account.purposeUsed[p] <= account.purpose[p]
    /\ {invocation[i].ordinal : i \in Authorized} = 1..account.used
    /\ \A t \in Tasks : task[t].binding /= None =>
         /\ task[t].binding.used = Cardinality(UNION {Of(t, p) : p \in Purposes})
         /\ task[t].binding.used <= task[t].binding.limit

(* The attempts of one task for one purpose form a line: numbered from one, *)
(* each the retry of the one before, which had ended; so at most the last   *)
(* is active.                                                               *)
AttemptsAreLinear ==
  \A t \in Tasks, p \in Purposes :
    /\ {invocation[i].attempt : i \in Of(t, p)} = 1..Cardinality(Of(t, p))
    /\ \A i \in Of(t, p) :
         IF invocation[i].attempt = 1 THEN invocation[i].retryOf = None
         ELSE LET prior == invocation[i].retryOf IN
              /\ prior \in Of(t, p) /\ invocation[prior].attempt = invocation[i].attempt - 1
              /\ invocation[prior].state \in Terminal \ {"EXPIRED"}

(* An authorization that reached the store after the actor's execution had  *)
(* been replaced (the commit guards the execution of the command's own      *)
(* actor only) is never claimed.                                            *)
LateAuthorizationUnused ==
  \A i \in Authorized : invocation[i].late => invocation[i].state \in {"AUTHORIZED", "EXPIRED"}
=============================================================================
