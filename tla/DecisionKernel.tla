--------------------------- MODULE DecisionKernel ---------------------------
(***************************************************************************)
(* The decision path of application/handler.go over the in-process store    *)
(* (adapters/memory/store.go): concurrent handlers look up a receipt, load  *)
(* a snapshot, evaluate it, commit, and reconcile when the commit was       *)
(* already made or its acknowledgement was lost.  Every store call is one   *)
(* step under the store's lock; anything may happen between two calls.      *)
(*                                                                          *)
(* A handler that stops in the middle (process loss, cancelled context)     *)
(* loses its local state; its caller submits the command again, or a        *)
(* command with the same key and a new id, from any handler.                *)
(***************************************************************************)
EXTENDS KernelDecision

CONSTANTS Handlers

VARIABLES store,   \* the durable store of KernelDecision
          audits,  \* recorded identity conflicts
          pc,      \* where each handler is
          cmd,     \* the command it handles
          snap,    \* the snapshot it loaded
          reply    \* its last answer

vars == <<store, audits, pc, cmd, snap, reply>>
local == <<pc, cmd, snap, reply>>

NoReply == [kind |-> "none"]
Receipt(id, r) == [kind |-> "receipt", id |-> id, receipt |-> r]
Failure(e) == [kind |-> "error", error |-> e]
IdentityConflict(reason) == [kind |-> "identity_conflict", reason |-> reason]

Init ==
  /\ store = InitStore
  /\ audits = {}
  /\ pc = [h \in Handlers |-> "idle"]
  /\ cmd = [h \in Handlers |-> NoCommand]
  /\ snap = [h \in Handlers |-> SnapshotOf(InitStore)]
  /\ reply = [h \in Handlers |-> NoReply]

(* Handler h goes on to its next store call, or ends with an answer.        *)
Goto(h, to) == pc' = [pc EXCEPT ![h] = to]
Answer(h, r) ==
  /\ Goto(h, "idle")
  /\ reply' = [reply EXCEPT ![h] = r]
  /\ snap' = [snap EXCEPT ![h] = SnapshotOf(InitStore)]

(* Mutated: the fingerprint of the earlier decision is not compared; only   *)
(* the command id is looked up.                                             *)
LookupAnyContent(c, st) ==
  IF Undecided(c, st) THEN NoReply
  ELSE LET prior == IF st.bound[c.id] # NoCommand THEN c.id
                    ELSE CHOOSE i \in ScopeHolders(c, st) : TRUE
       IN Receipt(prior, st.receipts[prior])

(***************************************************************************)
(* LookupReceipt of command c: the receipt of the same command id, when     *)
(* both fingerprint and scope are the bound ones; else the receipt decided  *)
(* under the same scope, when the fingerprint is; a prior decision that may *)
(* not be read is refused before either comparison.                         *)
(***************************************************************************)
LookupReceipt(c, st) ==
  LET holders == ScopeHolders(c, st)
      prior == IF st.bound[c.id] # NoCommand THEN c.id ELSE CHOOSE i \in holders : TRUE
  IN IF st.bound[c.id] = NoCommand /\ holders = {} THEN NoReply
     ELSE IF c.type \notin Readable[st.policy] THEN Failure("ACCESS_DENIED")
     ELSE IF prior = c.id /\ (Fingerprint(st.bound[c.id]) # Fingerprint(c)
                               \/ ScopeOf(st.bound[c.id]) # ScopeOf(c))
       THEN IdentityConflict("COMMAND_ID_REUSE")
     ELSE IF Fingerprint(st.bound[prior]) # Fingerprint(c)
       THEN IdentityConflict("IDEMPOTENCY_KEY_REUSE")
     ELSE Receipt(prior, st.receipts[prior])

-----------------------------------------------------------------------------
(* A caller submits a command, or retries one, to an idle handler.          *)
Submit(h, c) ==
  /\ pc[h] = "idle" /\ Goto(h, "lookup")
  /\ cmd' = [cmd EXCEPT ![h] = c]
  /\ reply' = [reply EXCEPT ![h] = NoReply]
  /\ UNCHANGED <<store, audits, snap>>

(* The first LookupReceipt: nothing found, an answer, or an identity        *)
(* conflict, which is audited (recordIdentityConflict).                     *)
LookupMiss(h) ==
  /\ pc[h] = "lookup" /\ Goto(h, "load")
  /\ LookupReceipt(cmd[h], store) = NoReply
  /\ UNCHANGED <<store, audits, cmd, snap, reply>>

LookupAnswer(h) ==
  LET found == LookupReceipt(cmd[h], store) IN
  /\ pc[h] = "lookup"
  /\ found # NoReply
  /\ Answer(h, found)
  /\ audits' = IF found.kind = "identity_conflict"
                 THEN audits \cup {[cmd |-> cmd[h], reason |-> found.reason]} ELSE audits
  /\ UNCHANGED <<store, cmd>>

(* LoadDecision; Evaluate is a function of the snapshot taken here.         *)
Load(h) ==
  /\ pc[h] = "load" /\ Goto(h, "commit")
  /\ snap' = [snap EXCEPT ![h] = SnapshotOf(store)]
  /\ UNCHANGED <<store, audits, cmd, reply>>

(* Mutated: no duplicate check on the scope; none at all.                   *)
CommitResultById(c, s, st) ==
  IF st.bound[c.id] # NoCommand
    THEN IF Fingerprint(st.bound[c.id]) = Fingerprint(c) THEN "ALREADY_COMMITTED" ELSE "RECEIPT_CONFLICT"
  ELSE IF GuardsHold(c, s, st) THEN "OK" ELSE "CONFLICT"

(***************************************************************************)
(* Commit under the store's lock: a command id or scope decided meanwhile,  *)
(* a guard that no longer holds, or the write.                              *)
(***************************************************************************)
CommitResult(c, s, st) ==
  IF st.bound[c.id] # NoCommand
    THEN IF Fingerprint(st.bound[c.id]) = Fingerprint(c) /\ ScopeOf(st.bound[c.id]) = ScopeOf(c)
           THEN "ALREADY_COMMITTED" ELSE "RECEIPT_CONFLICT"
  ELSE IF ScopeHolders(c, st) # {}
    THEN IF \E i \in ScopeHolders(c, st) : Fingerprint(st.bound[i]) = Fingerprint(c)
           THEN "ALREADY_COMMITTED" ELSE "KEY_CONFLICT"
  ELSE IF GuardsHold(c, s, st) THEN "OK" ELSE "CONFLICT"

(* The write; acked is FALSE when the acknowledgement is lost               *)
(* (FaultAfterCommitBeforeAck, ErrCommitUncertain).                         *)
CommitWrite(h, acked) ==
  LET c == cmd[h] IN
  /\ pc[h] = "commit"
  /\ CommitResult(c, snap[h], store) = "OK"
  /\ store' = CommitDecision(store, c, Outcome(c, snap[h]))
  /\ IF acked THEN Answer(h, Receipt(c.id, store'.receipts[c.id]))
     ELSE Goto(h, "reconcile") /\ UNCHANGED <<snap, reply>>
  /\ UNCHANGED <<audits, cmd>>

(* ErrConflict, ErrReceiptConflict, ErrIdempotencyKeyConflict: an error to  *)
(* the caller and no write.                                                 *)
CommitRefused(h) ==
  LET result == CommitResult(cmd[h], snap[h], store) IN
  /\ pc[h] = "commit"
  /\ result \in {"CONFLICT", "RECEIPT_CONFLICT", "KEY_CONFLICT"}
  /\ Answer(h, Failure(result))
  /\ UNCHANGED <<store, audits, cmd>>

(* ErrDecisionAlreadyCommitted.                                             *)
CommitDuplicate(h) ==
  /\ pc[h] = "commit"
  /\ CommitResult(cmd[h], snap[h], store) = "ALREADY_COMMITTED"
  /\ Goto(h, "reconcile")
  /\ UNCHANGED <<store, audits, cmd, snap, reply>>

(* A fault before the writes (FaultBeforeState .. FaultBeforeOutbox).       *)
CommitFault(h) ==
  /\ pc[h] = "commit"
  /\ CommitResult(cmd[h], snap[h], store) = "OK"
  /\ Answer(h, Failure("FAULT"))
  /\ UNCHANGED <<store, audits, cmd>>

(* The second LookupReceipt; an identity conflict or a miss is an error.    *)
Reconcile(h) ==
  LET found == LookupReceipt(cmd[h], store) IN
  /\ pc[h] = "reconcile"
  /\ Answer(h, IF found.kind \in {"receipt", "error"} THEN found ELSE Failure("LOST"))
  /\ UNCHANGED <<store, audits, cmd>>

(* The handler stops between two store calls.                               *)
Crash(h) ==
  /\ pc[h] # "idle"
  /\ Answer(h, NoReply)
  /\ UNCHANGED <<store, audits, cmd>>

(* SetAuthorizationPolicy: policies advance one revision at a time          *)
(* (authorizationPolicySuccessor).                                          *)
InstallPolicy ==
  /\ store.policy < MaxPolicy
  /\ store' = [store EXCEPT !.policy = @ + 1]
  /\ UNCHANGED <<audits, local>>

Step(h) ==
  \/ LookupMiss(h) \/ LookupAnswer(h) \/ Load(h)
  \/ \E acked \in BOOLEAN : CommitWrite(h, acked)
  \/ CommitRefused(h) \/ CommitDuplicate(h) \/ CommitFault(h)
  \/ Reconcile(h)

Next ==
  \/ \E h \in Handlers : Step(h) \/ Crash(h) \/ \E c \in Commands : Submit(h, c)
  \/ InstallPolicy

Spec == Init /\ [][Next]_vars

-----------------------------------------------------------------------------
(* Every variable has its type.                                             *)
TypeOK ==
  /\ store \in StoreType
  /\ pc \in [Handlers -> {"idle", "lookup", "load", "commit", "reconcile"}]
  /\ cmd \in [Handlers -> Commands \cup {NoCommand}]
  /\ snap \in [Handlers -> SnapshotType]
  /\ \A h \in Handlers : pc[h] # "idle" => cmd[h] \in Commands

(* The histories a store may hold (see the predicates of KernelDecision).   *)
(* Durable idempotency: Commit's duplicate checks and its single write.     *)
DecidedOnce == DecidedOnceIn(store)

(* Fencing, however long ago a handler loaded (Guards.Executions).          *)
FencedAfterReplacement == FencedIn(store)

(* Every caller is told the same thing: a receipt answered to a caller is   *)
(* the stored receipt of a decision with the caller's fingerprint and       *)
(* scope, and an audited identity conflict is a real one.                   *)
AnswersAreCanonical ==
  /\ \A h \in Handlers : (pc[h] = "idle" /\ reply[h].kind = "receipt") =>
       LET i == reply[h].id IN
       /\ reply[h].receipt = store.receipts[i]
       /\ store.bound[i] # NoCommand
       /\ Fingerprint(store.bound[i]) = Fingerprint(cmd[h])
       /\ ScopeOf(store.bound[i]) = ScopeOf(cmd[h])
  /\ \A x \in audits : \E i \in Ids :
       /\ store.bound[i] # NoCommand
       /\ i = x.cmd.id \/ ScopeOf(store.bound[i]) = ScopeOf(x.cmd)
       /\ <<Fingerprint(store.bound[i]), ScopeOf(store.bound[i])>>
            # <<Fingerprint(x.cmd), ScopeOf(x.cmd)>>

(* A decision is recorded: a decision evaluated on the store as it is now   *)
(* is not refused as conflicting; only a change after the load refuses it   *)
(* (the guards Evaluate returns against the guards Commit checks).          *)
ConflictOnlyAfterChange ==
  \A h \in Handlers : (pc[h] = "commit" /\ snap[h] = SnapshotOf(store)) =>
    CommitResult(cmd[h], snap[h], store) # "CONFLICT"

(* Bindings, receipts and events are immutable: no step, not even a retry   *)
(* with another content, rewrites one (Commit writes only unbound ids and   *)
(* appends).                                                                *)
DecisionsImmutable ==
  [][/\ \A i \in Ids : store.bound[i] # NoCommand =>
          store'.bound[i] = store.bound[i] /\ store'.receipts[i] = store.receipts[i]
     /\ \A n \in DOMAIN store.journal : store'.journal[n] = store.journal[n]]_vars

(* The handlers and the store implement the atomic kernel: every commit is  *)
(* an atomic decision on the store as it is at the commit, every other step *)
(* is invisible.                                                            *)
Atomic == INSTANCE AtomicKernel WITH store <- store
ImplementsAtomicKernel == Atomic!Spec
=============================================================================
