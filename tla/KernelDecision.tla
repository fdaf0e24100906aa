--------------------------- MODULE KernelDecision ---------------------------
(***************************************************************************)
(* What one kernel decision is, as operators without state: the identity    *)
(* of a command (kernel/idempotency.go), the evaluator's ordered checks     *)
(* over a snapshot (kernel/evaluator.go, kernel/budget.go), the guards a    *)
(* decision carries to the store, and what committing it writes.            *)
(*                                                                          *)
(* A command is a record                                                    *)
(*   id, key     command id and idempotency key                             *)
(*   type        "create", "change", "close" (work aggregates), "register", *)
(*               "replace" (the execution registry): the effects the        *)
(*               catalogue's command types have on the store                *)
(*   target      the aggregate; expect is its expected revision, 0 for      *)
(*               MUST_NOT_EXIST                                             *)
(*   pre         the precondition vector, a set of [agg, revision]          *)
(*   actor, exec the attributed actor and its fencing epoch, exec = 0 when  *)
(*               no execution is named; for the registry commands the       *)
(*               actor and the fencing epoch of the payload                 *)
(*   policy      the expected policy revision                               *)
(*   valid       the envelope, type, payload, authority kind and catalogue  *)
(*               revision are acceptable                                    *)
(*   body        the rest of the payload                                    *)
(* The execution id of an incarnation is identified with its fencing epoch. *)
(* DAG parents and evidence references are left out: events and evidence    *)
(* are never removed, so what Evaluate saw of them still holds at commit.   *)
(* The lifecycle epoch is a function of the revision and needs no field.    *)
(***************************************************************************)
EXTENDS Integers, Sequences, FiniteSets

CONSTANTS Aggregates, Actors, Commands,
          NoCommand,      \* the unbound command id
          Grants,         \* Grants[p]: command types authorized at policy revision p
          Readable,       \* Readable[p]: command types whose target may be read at p
          AttemptLimit,   \* attempt limit of "change", the governed command type
          MaxPolicy       \* bound on the policy revision

Policies == 1 .. MaxPolicy
Ids == {c.id : c \in Commands}
Types == {"create", "change", "close", "register", "replace"}
Creating == {"create", "register"}
Rejections == {"INVALID", "UNAUTHORIZED", "NOT_FOUND", "CONFLICT", "STALE_EXECUTION",
               "CLOSED", "POLICY"}

ASSUME CommandsAssumption ==
  /\ NoCommand \notin Commands
  /\ \A c \in Commands :
       /\ c.type \in Types /\ c.target \in Aggregates /\ c.actor \in Actors
       /\ c.expect \in Nat /\ c.exec \in Nat /\ c.policy \in Nat /\ c.valid \in BOOLEAN
       /\ \A p \in c.pre : p.agg \in Aggregates \ {c.target} /\ p.revision \in Nat
       /\ c.type \in {"register", "replace"} => c.exec > 0
ASSUME PolicyAssumption ==
  /\ MaxPolicy \in Nat \ {0} /\ AttemptLimit \in Nat
  /\ Grants \in [Policies -> SUBSET Types] /\ Readable \in [Policies -> SUBSET Types]

-----------------------------------------------------------------------------
(* CommandFingerprint: the semantic content, without command id and key.    *)
Fingerprint(c) ==
  <<c.type, c.target, c.expect, c.pre, c.actor, c.exec, c.policy, c.valid, c.body>>

(* IdempotencyScopeDigest, with the principal identified with the type.     *)
ScopeOf(c) == <<c.type, c.target, c.key>>

(* executionRegistryExpectation and actorAttributionValid: a registry       *)
(* command expects an execution in the registry, any other command that     *)
(* names one is attributed to it.                                           *)
Registry(c) == c.type \in {"register", "replace"}
Attributed(c) == ~Registry(c) /\ c.exec > 0

(* evaluateAttemptPolicy with AttemptBudget.Consume: only "change" is       *)
(* governed; an exhausted budget and an unchanged condition are refused.    *)
Governed(c) == c.type = "change"

AttemptAllowed(c, s) ==
  Governed(c) => /\ s.attempts[c.target].used < AttemptLimit
                 /\ Fingerprint(c) \notin s.attempts[c.target].conditions

PreconditionsMatch(c, s) == \A p \in c.pre : s.revision[p.agg] = p.revision

(***************************************************************************)
(* Evaluate: the ordered checks on snapshot s; the first that fails decides *)
(* the outcome.  A principal that cannot read the target is answered        *)
(* UNAUTHORIZED where a conflict would disclose its revision.               *)
(***************************************************************************)
Disclosed(c, s, outcome) == IF c.type \in Readable[s.policy] THEN outcome ELSE "UNAUTHORIZED"

Outcome(c, s) ==
  IF ~c.valid THEN "INVALID"
  ELSE IF c.policy # s.policy THEN "CONFLICT"
  ELSE IF c.type \notin Grants[s.policy] THEN "UNAUTHORIZED"
  ELSE IF Attributed(c) /\ s.executions[c.actor] # c.exec THEN "STALE_EXECUTION"
  ELSE IF (c.type \in Creating) # (c.expect = 0) THEN "CONFLICT"
  ELSE IF c.expect # 0 /\ s.revision[c.target] = 0 THEN Disclosed(c, s, "NOT_FOUND")
  ELSE IF s.revision[c.target] # c.expect THEN Disclosed(c, s, "CONFLICT")
  ELSE IF ~PreconditionsMatch(c, s) THEN Disclosed(c, s, "CONFLICT")
  ELSE IF c.type = "register" /\ s.executions[c.actor] # 0 THEN "CONFLICT"
  ELSE IF c.type = "replace" /\ s.executions[c.actor] # c.exec - 1 THEN "STALE_EXECUTION"
  ELSE IF ~AttemptAllowed(c, s) THEN "POLICY"
  ELSE IF c.type \in {"change", "close"} /\ s.closed[c.target] THEN "CLOSED"
  ELSE "APPLIED"

(***************************************************************************)
(* The guards a decision taken on snapshot s carries to the store, read     *)
(* against the store st: decisionGuards for an applied decision; the        *)
(* preconditions and the policy for a rejection after authorization         *)
(* (rejectedAuthorizedDecision); none for an invalid envelope.  The target  *)
(* revision of the snapshot is compared for every decision.                 *)
(***************************************************************************)
ExecutionGuardHolds(c, st) ==
  /\ Attributed(c) => st.executions[c.actor] = c.exec
  /\ c.type = "register" => st.executions[c.actor] = 0
  /\ c.type = "replace" => st.executions[c.actor] = c.exec - 1

NoExecutionGuard(c, s, st) ==
  st.revision[c.target] = s.revision[c.target] /\ PreconditionsMatch(c, st)
NoGuardForGoverned(c, s, st) == Governed(c) \/ NoExecutionGuard(c, s, st)

GuardsHold(c, s, st) ==
  /\ st.revision[c.target] = s.revision[c.target]
  /\ c.valid => PreconditionsMatch(c, st) /\ st.policy = s.policy
  /\ Outcome(c, s) = "APPLIED" =>
       /\ ExecutionGuardHolds(c, st)
       /\ Governed(c) => st.attempts[c.target].used = s.attempts[c.target].used

-----------------------------------------------------------------------------
(***************************************************************************)
(* The durable store: aggregate revisions and closed flags, the execution   *)
(* registry (0: none), the policy revision, the attempt budgets, and per    *)
(* command id the bound command and its receipt; journal is the sequence of *)
(* accepted events in commit order.                                         *)
(***************************************************************************)
Receipts == [outcome : Rejections \cup {"APPLIED", "NONE"}, revision : Nat]
StoreType ==
  [revision : [Aggregates -> Nat], closed : [Aggregates -> BOOLEAN],
   executions : [Actors -> Nat], policy : Policies,
   attempts : [Aggregates -> [used : Nat, conditions : SUBSET {Fingerprint(c) : c \in Commands}]],
   bound : [Ids -> Commands \cup {NoCommand}], receipts : [Ids -> Receipts],
   journal : Seq([cmd : Commands, revision : Nat])]

SnapshotType ==
  [revision : [Aggregates -> Nat], closed : [Aggregates -> BOOLEAN],
   executions : [Actors -> Nat], policy : Policies,
   attempts : [Aggregates -> [used : Nat, conditions : SUBSET {Fingerprint(c) : c \in Commands}]]]

NoReceipt == [outcome |-> "NONE", revision |-> 0]

InitStore ==
  [revision |-> [a \in Aggregates |-> 0],
   closed |-> [a \in Aggregates |-> FALSE],
   executions |-> [a \in Actors |-> 0],
   policy |-> 1,
   attempts |-> [a \in Aggregates |-> [used |-> 0, conditions |-> {}]],
   bound |-> [i \in Ids |-> NoCommand],
   receipts |-> [i \in Ids |-> NoReceipt],
   journal |-> <<>>]

(* loadLocked: what LoadDecision copies out of the store.                   *)
SnapshotOf(st) ==
  [revision |-> st.revision, closed |-> st.closed, executions |-> st.executions,
   policy |-> st.policy, attempts |-> st.attempts]

(* The command ids already decided under the scope of c.                    *)
ScopeHolders(c, st) ==
  {i \in Ids : st.bound[i] # NoCommand /\ ScopeOf(st.bound[i]) = ScopeOf(c)}

Undecided(c, st) == st.bound[c.id] = NoCommand /\ ScopeHolders(c, st) = {}

(* Commit of an accepted decision: next state and revision, the registry,   *)
(* the attempt budget, the event, the receipt and the binding, together.    *)
CommitApplied(st, c) ==
  LET next == st.revision[c.target] + 1 IN
  [st EXCEPT
     !.revision[c.target] = next,
     !.closed[c.target] = @ \/ c.type = "close",
     !.executions[c.actor] = IF Registry(c) THEN c.exec ELSE @,
     !.attempts[c.target] =
        IF Governed(c) THEN [used |-> @.used + 1, conditions |-> @.conditions \cup {Fingerprint(c)}]
        ELSE @,
     !.bound[c.id] = c,
     !.receipts[c.id] = [outcome |-> "APPLIED", revision |-> next],
     !.journal = Append(@, [cmd |-> c, revision |-> next])]

(* Commit of a rejection: the receipt and the binding only.                 *)
CommitRejected(st, c, outcome) ==
  [st EXCEPT !.bound[c.id] = c, !.receipts[c.id] = [outcome |-> outcome, revision |-> 0]]

CommitDecision(st, c, outcome) ==
  IF outcome = "APPLIED" THEN CommitApplied(st, c) ELSE CommitRejected(st, c, outcome)

-----------------------------------------------------------------------------
(***************************************************************************)
(* What the history kept in a store must look like, whoever committed it.   *)
(***************************************************************************)
EventsOf(st, id) == {i \in DOMAIN st.journal : st.journal[i].cmd.id = id}
Before(st, i, a) == {j \in 1 .. i - 1 : st.journal[j].cmd.target = a}

(* Two decided command ids never share an idempotency scope, and the        *)
(* receipt of a decided id is that of the command bound to it: APPLIED      *)
(* exactly when the command has an event, with the revision of that one     *)
(* event.                                                                   *)
DecidedOnceIn(st) ==
  /\ \A i, j \in Ids : (i # j /\ NoCommand \notin {st.bound[i], st.bound[j]})
                          => ScopeOf(st.bound[i]) # ScopeOf(st.bound[j])
  /\ \A i \in Ids :
       /\ st.receipts[i].outcome = "APPLIED" <=> EventsOf(st, i) # {}
       /\ \A n, m \in EventsOf(st, i) :
            n = m /\ st.journal[n] = [cmd |-> st.bound[i], revision |-> st.receipts[i].revision]

(* The preconditions of command c hold after the first n events.            *)
PreconditionsAfter(st, n, c) ==
  \A p \in c.pre : Cardinality(Before(st, n + 1, p.agg)) = p.revision

(* Once the event that installs an execution is committed, no later event   *)
(* is attributed to an earlier execution of that actor.                     *)
FencedIn(st) ==
  \A i, j \in DOMAIN st.journal :
    LET r == st.journal[i].cmd
        e == st.journal[j].cmd
    IN (i < j /\ Registry(r) /\ Attributed(e) /\ e.actor = r.actor) => e.exec >= r.exec
=============================================================================
