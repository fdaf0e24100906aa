------------------------- MODULE MongoDecisionStore -------------------------
(***************************************************************************)
(* The decision path over adapters/mongo/store.go.  Two things differ from  *)
(* the in-process store of DecisionKernel: LoadDecision is a sequence of    *)
(* reads outside any transaction, and Commit is a transaction under         *)
(* snapshot isolation that WithTransaction runs again when a document it    *)
(* writes was written by another transaction since its snapshot.  Guards    *)
(* are documents it only reads, so they are checked on that snapshot.       *)
(*                                                                          *)
(* The policy document changes only when a process starts with a successor  *)
(* policy (initialize); policy changes are modelled in DecisionKernel.      *)
(***************************************************************************)
EXTENDS KernelDecision

CONSTANTS Handlers

VARIABLES store,  \* the collections, committed state
          pc,     \* where each handler is
          cmd,    \* the command it handles
          snap,   \* the kernel.Snapshot it assembled
          tx      \* the transaction's snapshot of the collections

vars == <<store, pc, cmd, snap, tx>>

(* What of the collections a transaction's writes can collide with.         *)
Collections(st) ==
  [revision |-> st.revision, executions |-> st.executions, attempts |-> st.attempts,
   bound |-> st.bound]

Init ==
  /\ store = InitStore
  /\ pc = [h \in Handlers |-> "idle"]
  /\ cmd = [h \in Handlers |-> NoCommand]
  /\ snap = [h \in Handlers |-> SnapshotOf(InitStore)]
  /\ tx = [h \in Handlers |-> Collections(InitStore)]

Goto(h, to) == pc' = [pc EXCEPT ![h] = to]

(* The handler ends; its local state is gone.                               *)
Done(h) ==
  /\ Goto(h, "idle")
  /\ cmd' = [cmd EXCEPT ![h] = NoCommand]
  /\ snap' = [snap EXCEPT ![h] = SnapshotOf(InitStore)]
  /\ tx' = [tx EXCEPT ![h] = Collections(InitStore)]

(* The unique indexes a receipt document meets: its id and its scope.       *)
ReceiptUnique(c, st) == Undecided(c, st)

(***************************************************************************)
(* commitTransaction on the transaction's snapshot t: an existing receipt,  *)
(* checkGuards, and the budget counter applyAttemptBudget compares.         *)
(***************************************************************************)
TransactionResult(c, s, t) ==
  IF t.bound[c.id] # NoCommand THEN
    IF Fingerprint(t.bound[c.id]) = Fingerprint(c) /\ ScopeOf(t.bound[c.id]) = ScopeOf(c)
      THEN "ALREADY_COMMITTED" ELSE "CONFLICT"
  ELSE IF ScopeHolders(c, t) # {} THEN
    IF \E i \in ScopeHolders(c, t) : Fingerprint(t.bound[i]) = Fingerprint(c)
      THEN "ALREADY_COMMITTED" ELSE "KEY_CONFLICT"
  ELSE IF GuardsHold(c, s, t) THEN "OK" ELSE "CONFLICT"

(***************************************************************************)
(* MongoDB's write conflict: a document the transaction writes was written  *)
(* since its snapshot t.  A rejection writes only its receipt; an accepted  *)
(* decision also the target aggregate, for a registry command the actor's   *)
(* execution, for a governed command the attempt budget.                    *)
(***************************************************************************)
WriteConflict(c, outcome, t, st) ==
  \/ ~ReceiptUnique(c, st)
  \/ /\ outcome = "APPLIED"
     /\ \/ st.revision[c.target] # t.revision[c.target]
        \/ Registry(c) /\ st.executions[c.actor] # t.executions[c.actor]
        \/ Governed(c) /\ st.attempts[c.target] # t.attempts[c.target]

-----------------------------------------------------------------------------
(* A command arrives, or is delivered again.  LookupReceipt reads receipts  *)
(* only, which never change: a hit ends the handler, a miss goes on.        *)
Submit(h, c) ==
  /\ pc[h] = "idle" /\ Goto(h, "lookup")
  /\ cmd' = [cmd EXCEPT ![h] = c]
  /\ UNCHANGED <<store, snap, tx>>

LookupHit(h) ==
  /\ pc[h] = "lookup" /\ ~Undecided(cmd[h], store)
  /\ Done(h) /\ UNCHANGED store

LookupMiss(h) ==
  /\ pc[h] = "lookup" /\ Undecided(cmd[h], store)
  /\ Goto(h, "load")
  /\ UNCHANGED <<store, cmd, snap, tx>>

(* loadSnapshot reads the target aggregate first and everything else after. *)
LoadTarget(h) ==
  /\ pc[h] = "load" /\ Goto(h, "load_rest")
  /\ snap' = [snap EXCEPT ![h] = SnapshotOf(store)]
  /\ UNCHANGED <<store, cmd, tx>>

LoadRest(h) ==
  LET a == cmd[h].target IN
  /\ pc[h] = "load_rest" /\ Goto(h, "commit")
  /\ snap' = [snap EXCEPT ![h] = [SnapshotOf(store) EXCEPT !.revision[a] = snap[h].revision[a],
                                                           !.closed[a] = snap[h].closed[a]]]
  /\ UNCHANGED <<store, cmd, tx>>

(* The transaction's first read fixes its snapshot; commitTransaction's     *)
(* checks are a function of it.                                             *)
TransactionBegin(h) ==
  /\ pc[h] = "commit" /\ Goto(h, "transaction")
  /\ TransactionResult(cmd[h], snap[h], store) = "OK"
  /\ tx' = [tx EXCEPT ![h] = Collections(store)]
  /\ UNCHANGED <<store, cmd, snap>>

(* ErrConflict, ErrIdempotencyKeyConflict: an error.                        *)
TransactionRefused(h) ==
  /\ pc[h] = "commit"
  /\ TransactionResult(cmd[h], snap[h], store) \in {"CONFLICT", "KEY_CONFLICT"}
  /\ Done(h) /\ UNCHANGED store

(* ErrDecisionAlreadyCommitted: Handle looks the receipt up again.          *)
TransactionDuplicate(h) ==
  /\ pc[h] = "commit"
  /\ TransactionResult(cmd[h], snap[h], store) = "ALREADY_COMMITTED"
  /\ Goto(h, "lookup")
  /\ UNCHANGED <<store, cmd, snap, tx>>

(* A write conflict: WithTransaction runs commitTransaction again.          *)
TransactionRetry(h) ==
  /\ pc[h] = "transaction"
  /\ WriteConflict(cmd[h], Outcome(cmd[h], snap[h]), tx[h], store)
  /\ Goto(h, "commit")
  /\ tx' = [tx EXCEPT ![h] = Collections(InitStore)]
  /\ UNCHANGED <<store, cmd, snap>>

(* The transaction commits: every write or none.                            *)
TransactionCommit(h) ==
  LET c == cmd[h] IN
  /\ pc[h] = "transaction"
  /\ ~WriteConflict(c, Outcome(c, snap[h]), tx[h], store)
  /\ store' = CommitDecision(store, c, Outcome(c, snap[h]))
  /\ Done(h)

(* The process stops, its context ends, or an injected fault aborts the     *)
(* transaction; an acknowledgement that is lost is a commit whose handler   *)
(* is gone.                                                                 *)
Crash(h) ==
  /\ pc[h] # "idle"
  /\ Done(h) /\ UNCHANGED store

Step(h) ==
  \/ LookupHit(h) \/ LookupMiss(h) \/ LoadTarget(h) \/ LoadRest(h)
  \/ TransactionBegin(h) \/ TransactionRefused(h) \/ TransactionDuplicate(h)
  \/ TransactionRetry(h) \/ TransactionCommit(h)

Next == \E h \in Handlers : Step(h) \/ Crash(h) \/ \E c \in Commands : Submit(h, c)

Spec == Init /\ [][Next]_vars

-----------------------------------------------------------------------------
(* Every variable has its type, and a handler beyond Submit has a command.  *)
TypeOK ==
  /\ store \in StoreType
  /\ pc \in [Handlers -> {"idle", "lookup", "load", "load_rest", "commit", "transaction"}]
  /\ \A h \in Handlers : IF pc[h] = "idle" THEN cmd[h] = NoCommand ELSE cmd[h] \in Commands

(* The execution registered for an actor after the first n events.          *)
ExecutionAfter(st, n, actor) ==
  LET registered == {i \in 1 .. n : Registry(st.journal[i].cmd) /\ st.journal[i].cmd.actor = actor}
  IN IF registered = {} THEN 0
     ELSE st.journal[CHOOSE i \in registered : \A j \in registered : j <= i].cmd.exec

(* What snapshot isolation does promise for the guards: at some one moment  *)
(* after the target's previous event all preconditions matched and the      *)
(* attributed execution was the registered one, even if not at the commit   *)
(* itself (checkGuards reads one snapshot of all of them).                  *)
GuardsHeldTogether ==
  \A i \in DOMAIN store.journal : \E n \in 0 .. i - 1 :
    LET c == store.journal[i].cmd IN
    /\ Before(store, n + 1, c.target) = Before(store, i, c.target)
    /\ PreconditionsAfter(store, n, c)
    /\ Attributed(c) => ExecutionAfter(store, n, c.actor) = c.exec

(* The contract freeze: only the currently registered execution may commit  *)
(* an execution-attributed command.                                         *)
FencedAfterReplacement == FencedIn(store)
=============================================================================
