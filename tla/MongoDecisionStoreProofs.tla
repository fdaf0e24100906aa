----------------------- MODULE MongoDecisionStoreProofs -----------------------
(***************************************************************************)
(* Theorems about MongoDecisionStore for every set of commands and handlers.*)
(* The inductive invariant ties a transaction's snapshot to a point of the  *)
(* journal: the revisions and executions it read are those after some       *)
(* prefix of it, however many transactions have committed since.            *)
(***************************************************************************)
EXTENDS MongoDecisionStore, FiniteSetTheorems, TLAPS

Fingerprints == {Fingerprint(c) : c \in Commands}
Attempts == [used : Nat, conditions : SUBSET Fingerprints]
Event == [cmd : Commands, revision : Nat]

-----------------------------------------------------------------------------
(* What a commit does to the store.                                         *)

LEMMA StoreFields ==
  ASSUME NEW st \in StoreType
  PROVE  /\ st.revision \in [Aggregates -> Nat] /\ st.closed \in [Aggregates -> BOOLEAN]
         /\ st.executions \in [Actors -> Nat] /\ st.policy \in Policies
         /\ st.attempts \in [Aggregates -> Attempts]
         /\ st.bound \in [Ids -> Commands \cup {NoCommand}]
         /\ st.receipts \in [Ids -> Receipts] /\ st.journal \in Seq(Event)
BY DEF StoreType, Attempts, Fingerprints, Event

LEMMA CommandFields ==
  ASSUME NEW c \in Commands
  PROVE  /\ c.target \in Aggregates /\ c.actor \in Actors /\ c.exec \in Nat /\ c.id \in Ids
         /\ Fingerprint(c) \in Fingerprints /\ \A p \in c.pre : p.agg \in Aggregates
BY CommandsAssumption DEF Ids, Fingerprints

LEMMA Applied ==
  ASSUME NEW st \in StoreType, NEW c \in Commands, NEW t, t = CommitApplied(st, c)
  PROVE  /\ t \in StoreType
         /\ t.revision = [st.revision EXCEPT ![c.target] = st.revision[c.target] + 1]
         /\ t.executions = [st.executions EXCEPT ![c.actor] = IF Registry(c) THEN c.exec ELSE st.executions[c.actor]]
         /\ t.journal = Append(st.journal, [cmd |-> c, revision |-> st.revision[c.target] + 1])
<1> DEFINE next == st.revision[c.target] + 1
           rev == [st.revision EXCEPT ![c.target] = next]
           clo == [st.closed EXCEPT ![c.target] = st.closed[c.target] \/ c.type = "close"]
           exe == [st.executions EXCEPT ![c.actor] = IF Registry(c) THEN c.exec ELSE st.executions[c.actor]]
           count == [used |-> st.attempts[c.target].used + 1,
                     conditions |-> st.attempts[c.target].conditions \cup {Fingerprint(c)}]
           att == [st.attempts EXCEPT ![c.target] = IF Governed(c) THEN count ELSE st.attempts[c.target]]
           bou == [st.bound EXCEPT ![c.id] = c]
           rec == [st.receipts EXCEPT ![c.id] = [outcome |-> "APPLIED", revision |-> next]]
           event == [cmd |-> c, revision |-> next]
           jou == Append(st.journal, event)
<1>1. next \in Nat
  BY StoreFields, CommandFields
<1>2. rev \in [Aggregates -> Nat] /\ exe \in [Actors -> Nat] /\ bou \in [Ids -> Commands \cup {NoCommand}]
  BY <1>1, StoreFields, CommandFields
<1>3. clo \in [Aggregates -> BOOLEAN]
  BY StoreFields, CommandFields
<1>4. att \in [Aggregates -> Attempts]
  <2>1. st.attempts[c.target] \in Attempts
    BY StoreFields, CommandFields
  <2>2. count \in Attempts
    BY <2>1, CommandFields DEF Attempts
  <2> QED BY <2>1, <2>2, StoreFields
<1>5. rec \in [Ids -> Receipts]
  <2>1. [outcome |-> "APPLIED", revision |-> next] \in Receipts
    BY <1>1 DEF Receipts
  <2> QED BY <2>1, StoreFields
<1>6. event \in Event
  BY <1>1 DEF Event
<1>7. jou \in Seq(Event)
  BY <1>6, StoreFields
<1>8. t = [st EXCEPT !.revision = rev, !.closed = clo, !.executions = exe, !.attempts = att, !.bound = bou,
                     !.receipts = rec, !.journal = jou]
  BY DEF CommitApplied
<1> HIDE DEF rev, clo, exe, att, bou, rec, event, jou
<1>9. t \in StoreType /\ t.revision = rev /\ t.executions = exe /\ t.journal = jou
  BY <1>2, <1>3, <1>4, <1>5, <1>7, <1>8, StoreFields DEF StoreType, Attempts, Fingerprints, Event
<1> QED BY <1>9 DEF rev, exe, jou, event

LEMMA Rejected ==
  ASSUME NEW st \in StoreType, NEW c \in Commands, NEW o \in Rejections
  PROVE  LET t == CommitRejected(st, c, o) IN
         t \in StoreType /\ t.revision = st.revision /\ t.executions = st.executions /\ t.journal = st.journal
<1> DEFINE bou == [st.bound EXCEPT ![c.id] = c]
           rec == [st.receipts EXCEPT ![c.id] = [outcome |-> o, revision |-> 0]]
           t == CommitRejected(st, c, o)
<1>1. bou \in [Ids -> Commands \cup {NoCommand}]
  BY StoreFields
<1>2. rec \in [Ids -> Receipts]
  <2>1. [outcome |-> o, revision |-> 0] \in Receipts
    BY DEF Receipts
  <2> QED BY <2>1, StoreFields
<1>3. t = [st EXCEPT !.bound = bou, !.receipts = rec]
  BY DEF CommitRejected
<1> HIDE DEF bou, rec, t
<1>4. t \in StoreType /\ t.revision = st.revision /\ t.executions = st.executions /\ t.journal = st.journal
  BY <1>1, <1>2, <1>3 DEF StoreType
<1> QED BY <1>4 DEF t

LEMMA Evaluated ==
  ASSUME NEW c, NEW s
  PROVE  Outcome(c, s) \in Rejections \cup {"APPLIED"} /\ (Outcome(c, s) = "APPLIED" => c.valid)
<1>1. Outcome(c, s) \in Rejections \cup {"APPLIED"}
  BY DEF Outcome, Disclosed, Rejections
<1>2. ASSUME ~ c.valid PROVE Outcome(c, s) = "INVALID"
  BY <1>2, Zenon DEF Outcome
<1> QED BY <1>1, <1>2

(* commitTransaction goes on only when its guards hold.                     *)
LEMMA Guarded ==
  ASSUME NEW c, NEW s, NEW t, TransactionResult(c, s, t) = "OK"
  PROVE  GuardsHold(c, s, t)
<1>1. CASE t.bound[c.id] # NoCommand
  BY <1>1 DEF TransactionResult
<1>2. CASE t.bound[c.id] = NoCommand /\ ScopeHolders(c, t) # {}
  <2>1. TransactionResult(c, s, t) \in {"ALREADY_COMMITTED", "KEY_CONFLICT"}
    BY <1>2, Zenon DEF TransactionResult
  <2> QED BY <2>1
<1>3. CASE t.bound[c.id] = NoCommand /\ ScopeHolders(c, t) = {}
  BY <1>3, Zenon DEF TransactionResult
<1> QED BY <1>1, <1>2, <1>3

LEMMA InitStoreTyped == InitStore \in StoreType
<1>1. NoReceipt \in Receipts /\ 1 \in Policies
  BY PolicyAssumption DEF NoReceipt, Receipts, Policies
<1>2. [used |-> 0, conditions |-> {}] \in Attempts
  BY DEF Attempts
<1> QED BY <1>1, <1>2 DEF InitStore, StoreType, Attempts, Fingerprints

-----------------------------------------------------------------------------
(* Prefixes of the journal.                                                 *)

RegisteredBy(st, n, x) == {i \in 1 .. n : Registry(st.journal[i].cmd) /\ st.journal[i].cmd.actor = x}
HasLast(S) == S # {} => \E i \in S : \A j \in S : j <= i

(* The stored revisions and executions are those of the whole journal.      *)
Journalled(st) ==
  /\ \A a \in Aggregates : Cardinality(Before(st, Len(st.journal) + 1, a)) = st.revision[a]
  /\ \A x \in Actors : /\ ExecutionAfter(st, Len(st.journal), x) = st.executions[x]
                       /\ \A n \in 0 .. Len(st.journal) : HasLast(RegisteredBy(st, n, x))

Last(S) == CHOOSE i \in S : \A j \in S : j <= i

LEMMA IsLast ==
  ASSUME NEW S, S # {}, HasLast(S)
  PROVE  Last(S) \in S /\ \A j \in S : j <= Last(S)
BY DEF HasLast, Last

LEMMA LastExecution ==
  ASSUME NEW st, NEW n, NEW x
  PROVE  ExecutionAfter(st, n, x) =
           IF RegisteredBy(st, n, x) = {} THEN 0 ELSE st.journal[Last(RegisteredBy(st, n, x))].cmd.exec
BY DEF ExecutionAfter, RegisteredBy, Last

(* A prefix is the same in a longer journal.                                *)
LEMMA SamePrefix ==
  ASSUME NEW st, NEW t, NEW n \in Nat, \A j \in 1 .. n : t.journal[j] = st.journal[j]
  PROVE  /\ \A a : Before(t, n + 1, a) = Before(st, n + 1, a)
         /\ \A x : RegisteredBy(t, n, x) = RegisteredBy(st, n, x)
         /\ \A x : HasLast(RegisteredBy(st, n, x)) => ExecutionAfter(t, n, x) = ExecutionAfter(st, n, x)
<1>1. ASSUME NEW a PROVE Before(t, n + 1, a) = Before(st, n + 1, a)
  BY DEF Before
<1>2. ASSUME NEW x PROVE RegisteredBy(t, n, x) = RegisteredBy(st, n, x)
  BY DEF RegisteredBy
<1>3. ASSUME NEW x, HasLast(RegisteredBy(st, n, x)) PROVE ExecutionAfter(t, n, x) = ExecutionAfter(st, n, x)
  <2>1. PICK R : R = RegisteredBy(st, n, x)
    OBVIOUS
  <2>2. R = RegisteredBy(t, n, x) /\ R \subseteq 1 .. n
    BY <1>2, <2>1 DEF RegisteredBy
  <2>3. R # {} => Last(R) \in 1 .. n
    BY <1>3, <2>1, <2>2, IsLast
  <2>4. /\ ExecutionAfter(st, n, x) = IF R = {} THEN 0 ELSE st.journal[Last(R)].cmd.exec
        /\ ExecutionAfter(t, n, x) = IF R = {} THEN 0 ELSE t.journal[Last(R)].cmd.exec
    BY <2>1, <2>2, LastExecution
  <2> QED BY <2>3, <2>4
<1> QED BY <1>1, <1>2, <1>3

(* Everything said of a prefix is said of the journal alone.                *)
LEMMA SameJournal ==
  ASSUME NEW st, NEW t, t.journal = st.journal
  PROVE  /\ \A n, a : Before(t, n, a) = Before(st, n, a)
         /\ \A n, x : RegisteredBy(t, n, x) = RegisteredBy(st, n, x)
         /\ \A n, x : ExecutionAfter(t, n, x) = ExecutionAfter(st, n, x)
         /\ \A n, d : PreconditionsAfter(t, n, d) <=> PreconditionsAfter(st, n, d)
<1>1. \A n, a : Before(t, n, a) = Before(st, n, a)
  BY DEF Before
<1>2. \A n, x : RegisteredBy(t, n, x) = RegisteredBy(st, n, x)
  BY DEF RegisteredBy
<1>3. \A n, x : ExecutionAfter(t, n, x) = ExecutionAfter(st, n, x)
  BY <1>2, LastExecution
<1>4. \A n, d : PreconditionsAfter(t, n, d) <=> PreconditionsAfter(st, n, d)
  BY <1>1 DEF PreconditionsAfter
<1> QED BY <1>1, <1>2, <1>3, <1>4

LEMMA BeforeFinite ==
  ASSUME NEW st, NEW n \in Nat, NEW a
  PROVE  IsFiniteSet(Before(st, n + 1, a)) /\ Before(st, n + 1, a) \subseteq 1 .. n
<1>1. Before(st, n + 1, a) \subseteq 1 .. n
  BY DEF Before
<1> QED BY <1>1, FS_Interval, FS_Subset

(* One more event.                                                          *)
LEMMA JournalGrows ==
  ASSUME NEW st \in StoreType, Journalled(st), NEW c \in Commands, NEW t, t = CommitApplied(st, c)
  PROVE  /\ t \in StoreType /\ Journalled(t)
         /\ Len(t.journal) = Len(st.journal) + 1 /\ t.journal[Len(st.journal) + 1].cmd = c
         /\ \A j \in 1 .. Len(st.journal) : t.journal[j] = st.journal[j]
<1>1. PICK N : N = Len(st.journal)
  OBVIOUS
<1>2. /\ t \in StoreType
      /\ t.revision = [st.revision EXCEPT ![c.target] = st.revision[c.target] + 1]
      /\ t.executions = [st.executions EXCEPT ![c.actor] = IF Registry(c) THEN c.exec ELSE st.executions[c.actor]]
  BY Applied
<1>3. PICK e \in Event : e.cmd = c /\ t.journal = Append(st.journal, e)
  <2>1. PICK e : e = [cmd |-> c, revision |-> st.revision[c.target] + 1]
    OBVIOUS
  <2>2. e \in Event /\ e.cmd = c
    BY <2>1, StoreFields, CommandFields DEF Event
  <2> QED BY <2>1, <2>2, Applied
<1>4. /\ N \in Nat /\ Len(t.journal) = N + 1 /\ t.journal[N + 1].cmd = c
      /\ \A j \in 1 .. N : t.journal[j] = st.journal[j]
  BY <1>1, <1>3, StoreFields
<1>5. \A n \in 0 .. N : \A j \in 1 .. n : t.journal[j] = st.journal[j]
  BY <1>4
<1>6. ASSUME NEW a \in Aggregates PROVE Cardinality(Before(t, N + 2, a)) = t.revision[a]
  <2>1. PICK B : B = Before(st, N + 1, a)
    OBVIOUS
  <2>2. IsFiniteSet(B) /\ B \subseteq 1 .. N /\ Cardinality(B) = st.revision[a] /\ N + 1 \notin B
    <3>1. IsFiniteSet(B) /\ B \subseteq 1 .. N
      BY <1>4, <2>1, BeforeFinite
    <3>2. Cardinality(B) = st.revision[a]
      BY <1>1, <2>1 DEF Journalled
    <3> QED BY <1>4, <3>1, <3>2
  <2>3. Before(t, N + 1, a) = B
    BY <1>4, <2>1, SamePrefix
  <2>4. Before(t, N + 2, a) = IF c.target = a THEN B \cup {N + 1} ELSE B
    <3>1. Before(t, N + 2, a) = Before(t, N + 1, a) \cup {j \in {N + 1} : t.journal[j].cmd.target = a}
      BY <1>4 DEF Before
    <3> QED BY <1>4, <2>3, <3>1
  <2>5. st.revision \in [Aggregates -> Nat]
    BY StoreFields
  <2>6. CASE c.target = a
    BY <1>2, <2>2, <2>4, <2>5, <2>6, FS_AddElement
  <2>7. CASE c.target # a
    BY <1>2, <2>2, <2>4, <2>5, <2>7
  <2> QED BY <2>6, <2>7
<1>7. ASSUME NEW x \in Actors
      PROVE  /\ ExecutionAfter(t, N + 1, x) = t.executions[x]
             /\ \A n \in 0 .. N + 1 : HasLast(RegisteredBy(t, n, x))
  <2>1. \A n \in 0 .. N : RegisteredBy(t, n, x) = RegisteredBy(st, n, x) /\ HasLast(RegisteredBy(st, n, x))
    <3> TAKE n \in 0 .. N
    <3>1. n \in Nat /\ \A j \in 1 .. n : t.journal[j] = st.journal[j]
      BY <1>4, <1>5
    <3>2. RegisteredBy(t, n, x) = RegisteredBy(st, n, x)
      BY <3>1, SamePrefix
    <3> QED BY <1>1, <3>2 DEF Journalled
  <2>2. PICK R, Q : R = RegisteredBy(st, N, x) /\ Q = RegisteredBy(t, N + 1, x)
    OBVIOUS
  <2>3. RegisteredBy(t, N, x) = R /\ R \subseteq 1 .. N /\ HasLast(R)
    BY <1>4, <2>1, <2>2 DEF RegisteredBy
  <2>4. Q = IF Registry(c) /\ c.actor = x THEN R \cup {N + 1} ELSE R
    <3>1. Q = RegisteredBy(t, N, x) \cup {j \in {N + 1} : Registry(t.journal[j].cmd) /\ t.journal[j].cmd.actor = x}
      BY <1>4, <2>2 DEF RegisteredBy
    <3> QED BY <1>4, <2>3, <3>1
  <2>5. st.executions \in [Actors -> Nat] /\ ExecutionAfter(st, N, x) = st.executions[x]
    BY <1>1, StoreFields DEF Journalled
  <2>6. CASE Registry(c) /\ c.actor = x
    <3>1. N + 1 \in Q /\ \A j \in Q : j <= N + 1
      BY <1>4, <2>3, <2>4, <2>6
    <3>2. Q \subseteq Nat
      BY <1>4, <2>3, <2>4, <2>6
    <3>3. HasLast(Q)
      BY <3>1 DEF HasLast
    <3>4. Last(Q) = N + 1
      <4>1. Last(Q) \in Q /\ \A j \in Q : j <= Last(Q)
        BY <3>1, <3>3, IsLast
      <4>2. PICK m \in Nat : m = Last(Q) /\ m <= N + 1 /\ N + 1 <= m
        BY <3>1, <3>2, <4>1
      <4> QED BY <1>4, <4>2
    <3>5. ExecutionAfter(t, N + 1, x) = c.exec
      <4>1. ExecutionAfter(t, N + 1, x) = IF Q = {} THEN 0 ELSE t.journal[Last(Q)].cmd.exec
        BY <2>2, LastExecution
      <4> QED BY <1>4, <3>1, <3>4, <4>1
    <3>6. t.executions[x] = c.exec
      BY <1>2, <2>5, <2>6
    <3> QED BY <1>4, <2>1, <2>2, <3>3, <3>5, <3>6
  <2>7. CASE ~ (Registry(c) /\ c.actor = x)
    <3>1. Q = R
      BY <2>4, <2>7
    <3>2. ExecutionAfter(t, N + 1, x) = ExecutionAfter(st, N, x)
      <4>1. R # {} => Last(R) \in 1 .. N
        BY <2>3, IsLast
      <4>2. /\ ExecutionAfter(t, N + 1, x) = IF R = {} THEN 0 ELSE t.journal[Last(R)].cmd.exec
            /\ ExecutionAfter(st, N, x) = IF R = {} THEN 0 ELSE st.journal[Last(R)].cmd.exec
        BY <2>2, <3>1, LastExecution
      <4> QED BY <1>4, <4>1, <4>2
    <3>3. t.executions[x] = st.executions[x]
      BY <1>2, <2>5, <2>7
    <3> QED BY <1>4, <2>1, <2>2, <2>3, <2>5, <3>1, <3>2, <3>3
  <2> QED BY <2>6, <2>7
<1>8. Len(t.journal) + 1 = N + 2
  BY <1>4
<1>9. Journalled(t)
  BY <1>4, <1>6, <1>7, <1>8 DEF Journalled
<1> QED BY <1>1, <1>2, <1>4, <1>9
-----------------------------------------------------------------------------
(* The inductive invariant.                                                 *)

MongoTypes ==
  /\ TypeOK /\ DOMAIN cmd = Handlers /\ DOMAIN snap = Handlers /\ DOMAIN tx = Handlers

(* The transaction of command c, which was evaluated as applied, read the   *)
(* revisions r after n events, and its guards held there.                   *)
ReadAfter(c, r, n) ==
  /\ \A a \in Aggregates : Cardinality(Before(store, n + 1, a)) = r[a]
  /\ \A p \in c.pre : r[p.agg] = p.revision
  /\ Attributed(c) => ExecutionAfter(store, n, c.actor) = c.exec

TransactionsRead ==
  \A h \in Handlers : (pc[h] = "transaction" /\ Outcome(cmd[h], snap[h]) = "APPLIED") =>
    \E n \in 0 .. Len(store.journal) : ReadAfter(cmd[h], tx[h].revision, n)

MongoInv == MongoTypes /\ Journalled(store) /\ TransactionsRead /\ GuardsHeldTogether

LEMMA MongoInit == Init => MongoInv
<1> SUFFICES ASSUME Init PROVE MongoInv
  OBVIOUS
<1>1. MongoTypes
  BY InitStoreTyped DEF Init, MongoTypes, TypeOK
<1>2. store.journal = << >> /\ Len(store.journal) = 0
  BY DEF Init, InitStore
<1>3. \A a : Before(store, 0 + 1, a) = {}
  BY DEF Before
<1>4. \A n \in 0 .. 0, x \in Actors : RegisteredBy(store, n, x) = {}
  BY DEF RegisteredBy
<1>5. store.revision = [a \in Aggregates |-> 0] /\ store.executions = [a \in Actors |-> 0]
  BY DEF Init, InitStore
<1>6. Journalled(store)
  <2>1. \A a \in Aggregates : Cardinality(Before(store, Len(store.journal) + 1, a)) = store.revision[a]
    BY <1>2, <1>3, <1>5, FS_EmptySet
  <2>2. \A x \in Actors : ExecutionAfter(store, Len(store.journal), x) = store.executions[x]
    BY <1>2, <1>4, <1>5, LastExecution
  <2> QED BY <1>2, <1>4, <2>1, <2>2 DEF Journalled, HasLast
<1>7. TransactionsRead /\ GuardsHeldTogether
  BY <1>2 DEF Init, TransactionsRead, GuardsHeldTogether
<1> QED BY <1>1, <1>6, <1>7 DEF MongoInv

(* A handler moves on its own; nothing is committed.                        *)
LEMMA HandlerMoves ==
  ASSUME MongoInv, NEW h \in Handlers, MongoTypes', UNCHANGED store,
         \A g \in Handlers \ {h} : pc'[g] = pc[g] /\ cmd'[g] = cmd[g] /\ snap'[g] = snap[g] /\ tx'[g] = tx[g],
         (pc'[h] = "transaction" /\ Outcome(cmd'[h], snap'[h]) = "APPLIED") =>
           \E n \in 0 .. Len(store.journal) : ReadAfter(cmd'[h], tx'[h].revision, n)
  PROVE  MongoInv'
<1>1. Journalled(store)' /\ GuardsHeldTogether'
  BY DEF MongoInv, Journalled, GuardsHeldTogether
<1>2. ASSUME NEW g \in Handlers, pc'[g] = "transaction", Outcome(cmd'[g], snap'[g]) = "APPLIED"
      PROVE  \E n \in 0 .. Len(store.journal) : ReadAfter(cmd'[g], tx'[g].revision, n)
  BY <1>2 DEF MongoInv, TransactionsRead
<1>3. TransactionsRead'
  BY <1>2 DEF TransactionsRead, ReadAfter
<1> QED BY <1>1, <1>3 DEF MongoInv

(* A handler that is done holds nothing.                                    *)
LEMMA HandlerDone ==
  ASSUME MongoInv, NEW h \in Handlers, Done(h), store' \in StoreType
  PROVE  /\ MongoTypes' /\ pc'[h] = "idle"
         /\ \A g \in Handlers \ {h} : pc'[g] = pc[g] /\ cmd'[g] = cmd[g] /\ snap'[g] = snap[g] /\ tx'[g] = tx[g]
BY DEF MongoInv, MongoTypes, TypeOK, Done, Goto

(* The transaction commits: its event joins the journal.                    *)
LEMMA TransactionCommits ==
  ASSUME MongoInv, NEW h \in Handlers, TransactionCommit(h)
  PROVE  MongoInv'
<1>1. PICK c \in Commands : c = cmd[h]
  BY DEF MongoInv, MongoTypes, TypeOK, TransactionCommit
<1>2. PICK o \in Rejections \cup {"APPLIED"} : o = Outcome(c, snap[h])
  BY Evaluated
<1>3. /\ pc[h] = "transaction" /\ ~ WriteConflict(c, o, tx[h], store) /\ store' = CommitDecision(store, c, o)
      /\ Done(h) /\ store \in StoreType /\ Journalled(store)
  BY <1>1, <1>2 DEF MongoInv, MongoTypes, TypeOK, TransactionCommit
<1>4. CASE o # "APPLIED"
  <2>1. store' = CommitRejected(store, c, o) /\ o \in Rejections
    BY <1>2, <1>3, <1>4 DEF CommitDecision
  <2>2. /\ store' \in StoreType /\ store'.revision = store.revision /\ store'.executions = store.executions
        /\ store'.journal = store.journal
    BY <1>3, <2>1, Rejected
  <2>7. PICK t : t = store'
    OBVIOUS
  <2>8. /\ \A n, a : Before(t, n, a) = Before(store, n, a)
        /\ \A n, x : RegisteredBy(t, n, x) = RegisteredBy(store, n, x)
        /\ \A n, x : ExecutionAfter(t, n, x) = ExecutionAfter(store, n, x)
        /\ \A n, d : PreconditionsAfter(t, n, d) <=> PreconditionsAfter(store, n, d)
    BY <2>2, <2>7, SameJournal
  <2>3. Journalled(store)'
    <3>1. Journalled(t)
      BY <1>3, <2>2, <2>7, <2>8 DEF Journalled
    <3> QED BY <2>7, <3>1 DEF Journalled
  <2>4. GuardsHeldTogether'
    <3> SUFFICES ASSUME NEW i \in DOMAIN t.journal
                 PROVE  \E n \in 0 .. i - 1 :
                          LET d == t.journal[i].cmd IN
                          /\ Before(t, n + 1, d.target) = Before(t, i, d.target)
                          /\ PreconditionsAfter(t, n, d)
                          /\ Attributed(d) => ExecutionAfter(t, n, d.actor) = d.exec
      BY <2>7 DEF GuardsHeldTogether
    <3>1. PICK d : d = store.journal[i].cmd /\ d = t.journal[i].cmd
      BY <2>2, <2>7
    <3>2. PICK n \in 0 .. i - 1 : /\ Before(store, n + 1, d.target) = Before(store, i, d.target)
                                  /\ PreconditionsAfter(store, n, d)
                                  /\ Attributed(d) => ExecutionAfter(store, n, d.actor) = d.exec
      BY <2>2, <2>7, <3>1 DEF MongoInv, GuardsHeldTogether
    <3> QED BY <2>8, <3>1, <3>2
  <2>5. /\ MongoTypes' /\ pc'[h] = "idle"
        /\ \A g \in Handlers \ {h} : pc'[g] = pc[g] /\ cmd'[g] = cmd[g] /\ snap'[g] = snap[g] /\ tx'[g] = tx[g]
    BY <1>3, <2>2, HandlerDone
  <2>6. TransactionsRead'
    <3> SUFFICES ASSUME NEW g \in Handlers, pc'[g] = "transaction", Outcome(cmd'[g], snap'[g]) = "APPLIED"
                 PROVE  \E n \in 0 .. Len(store'.journal) : ReadAfter(cmd[g], tx[g].revision, n)'
      BY DEF TransactionsRead
    <3>1. g # h /\ pc[g] = "transaction" /\ cmd'[g] = cmd[g] /\ tx'[g] = tx[g] /\ snap'[g] = snap[g]
      BY <2>5
    <3>2. PICK n \in 0 .. Len(store.journal) : ReadAfter(cmd[g], tx[g].revision, n)
      BY <3>1 DEF MongoInv, TransactionsRead
    <3>3. PICK d, r : d = cmd[g] /\ r = tx[g].revision
      OBVIOUS
    <3>4. /\ \A a \in Aggregates : Cardinality(Before(t, n + 1, a)) = r[a]
          /\ \A p \in d.pre : r[p.agg] = p.revision
          /\ Attributed(d) => ExecutionAfter(t, n, d.actor) = d.exec
      BY <2>8, <3>2, <3>3 DEF ReadAfter
    <3>5. cmd'[g] = d /\ tx'[g].revision = r
      BY <3>1, <3>3
    <3>6. ReadAfter(cmd[g], tx[g].revision, n)'
      BY <2>7, <3>4, <3>5 DEF ReadAfter
    <3> QED BY <2>2, <3>6
  <2> QED BY <2>3, <2>4, <2>5, <2>6 DEF MongoInv
<1>5. CASE o = "APPLIED"
  <2>1. PICK t : t = store' /\ t = CommitApplied(store, c)
    BY <1>3, <1>5 DEF CommitDecision
  <2>2. PICK N \in Nat : N = Len(store.journal)
    BY <1>3, StoreFields
  <2>3. /\ t \in StoreType /\ Journalled(t) /\ Len(t.journal) = N + 1 /\ t.journal[N + 1].cmd = c
        /\ \A j \in 1 .. N : t.journal[j] = store.journal[j]
    BY <1>3, <2>1, <2>2, JournalGrows
  <2>4. ASSUME NEW n \in 0 .. N
        PROVE  /\ n \in Nat
               /\ \A a : Before(t, n + 1, a) = Before(store, n + 1, a)
               /\ \A x \in Actors : ExecutionAfter(t, n, x) = ExecutionAfter(store, n, x)
    <3>1. n \in Nat /\ \A j \in 1 .. n : t.journal[j] = store.journal[j]
      BY <2>2, <2>3
    <3>2. \A x \in Actors : HasLast(RegisteredBy(store, n, x))
      BY <1>3, <2>2 DEF Journalled
    <3>3. \A a : Before(t, n + 1, a) = Before(store, n + 1, a)
      BY <3>1, SamePrefix
    <3>4. \A x : HasLast(RegisteredBy(store, n, x)) => ExecutionAfter(t, n, x) = ExecutionAfter(store, n, x)
      BY <3>1, SamePrefix
    <3> QED BY <3>1, <3>2, <3>3, <3>4
  <2>5. ASSUME NEW d \in Commands, NEW r, NEW n \in 0 .. N, ReadAfter(d, r, n)
        PROVE  /\ \A a \in Aggregates : Cardinality(Before(t, n + 1, a)) = r[a]
               /\ \A p \in d.pre : r[p.agg] = p.revision
               /\ Attributed(d) => ExecutionAfter(t, n, d.actor) = d.exec
    BY <2>4, <2>5, CommandFields DEF ReadAfter
  <2>6. /\ MongoTypes' /\ pc'[h] = "idle"
        /\ \A g \in Handlers \ {h} : pc'[g] = pc[g] /\ cmd'[g] = cmd[g] /\ snap'[g] = snap[g] /\ tx'[g] = tx[g]
    BY <1>3, <2>1, <2>3, HandlerDone
  <2>7. TransactionsRead'
    <3> SUFFICES ASSUME NEW g \in Handlers, pc'[g] = "transaction", Outcome(cmd'[g], snap'[g]) = "APPLIED"
                 PROVE  \E n \in 0 .. Len(store'.journal) : ReadAfter(cmd[g], tx[g].revision, n)'
      BY DEF TransactionsRead
    <3>1. g # h /\ pc[g] = "transaction" /\ cmd'[g] = cmd[g] /\ tx'[g] = tx[g] /\ snap'[g] = snap[g]
      BY <2>6
    <3>2. PICK n \in 0 .. N : ReadAfter(cmd[g], tx[g].revision, n)
      BY <2>2, <3>1 DEF MongoInv, TransactionsRead
    <3>3. cmd[g] \in Commands
      BY <3>1 DEF MongoInv, MongoTypes, TypeOK
    <3>6. PICK d, r : d = cmd[g] /\ r = tx[g].revision
      OBVIOUS
    <3>7. d \in Commands /\ ReadAfter(d, r, n) /\ cmd'[g] = d /\ tx'[g].revision = r
      BY <3>1, <3>2, <3>3, <3>6
    <3>8. /\ \A a \in Aggregates : Cardinality(Before(t, n + 1, a)) = r[a]
          /\ \A p \in d.pre : r[p.agg] = p.revision
          /\ Attributed(d) => ExecutionAfter(t, n, d.actor) = d.exec
      BY <2>5, <3>7
    <3>4. ReadAfter(cmd[g], tx[g].revision, n)'
      BY <2>1, <3>7, <3>8 DEF ReadAfter
    <3>5. n \in 0 .. Len(store'.journal)
      BY <2>1, <2>2, <2>3
    <3> QED BY <3>4, <3>5
  <2>8. ASSUME NEW i \in 1 .. N
        PROVE  \E n \in 0 .. i - 1 :
                 LET d == t.journal[i].cmd IN
                 /\ Before(t, n + 1, d.target) = Before(t, i, d.target)
                 /\ PreconditionsAfter(t, n, d)
                 /\ Attributed(d) => ExecutionAfter(t, n, d.actor) = d.exec
    <3>1. store.journal \in Seq(Event) /\ DOMAIN store.journal = 1 .. N
      BY <1>3, <2>2, StoreFields
    <3>9. store.journal[i] \in Event
      BY <3>1
    <3>2. PICK d \in Commands : d = store.journal[i].cmd
      BY <3>9 DEF Event
    <3>3. PICK n \in 0 .. i - 1 : /\ Before(store, n + 1, d.target) = Before(store, i, d.target)
                                  /\ PreconditionsAfter(store, n, d)
                                  /\ Attributed(d) => ExecutionAfter(store, n, d.actor) = d.exec
      BY <3>1, <3>2 DEF MongoInv, GuardsHeldTogether
    <3>4. n \in 0 .. N /\ i - 1 \in 0 .. N /\ (i - 1) + 1 = i
      BY <2>2
    <3>5. Before(t, n + 1, d.target) = Before(store, n + 1, d.target) /\ Before(t, i, d.target) = Before(store, i, d.target)
      BY <2>4, <3>4
    <3>6. PreconditionsAfter(t, n, d)
      BY <2>4, <3>3, <3>4 DEF PreconditionsAfter
    <3>7. Attributed(d) => ExecutionAfter(t, n, d.actor) = d.exec
      BY <2>4, <3>3, <3>4, CommandFields
    <3>8. t.journal[i].cmd = d
      BY <2>3, <3>2
    <3> QED BY <3>3, <3>5, <3>6, <3>7, <3>8
  <2>9. \E n \in 0 .. N : /\ Before(t, n + 1, c.target) = Before(t, N + 1, c.target)
                          /\ PreconditionsAfter(t, n, c)
                          /\ Attributed(c) => ExecutionAfter(t, n, c.actor) = c.exec
    <3>1. PICK n \in 0 .. N : ReadAfter(c, tx[h].revision, n)
      BY <1>1, <1>2, <1>3, <1>5, <2>2 DEF MongoInv, TransactionsRead
    <3>2. store.revision[c.target] = tx[h].revision[c.target]
      BY <1>3, <1>5 DEF WriteConflict
    <3>3. PICK S, B : S = Before(store, n + 1, c.target) /\ B = Before(store, N + 1, c.target)
      OBVIOUS
    <3>4. n \in Nat /\ S \subseteq B
      BY <2>2, <3>3 DEF Before
    <3>5. Cardinality(S) = Cardinality(B)
      BY <1>3, <2>2, <3>1, <3>2, <3>3, CommandFields DEF ReadAfter, Journalled
    <3>6. IsFiniteSet(B)
      BY <2>2, <3>3, BeforeFinite
    <3>7. S = B
      BY <3>4, <3>5, <3>6, FS_Subset
    <3>8. Before(t, n + 1, c.target) = Before(t, N + 1, c.target)
      BY <2>2, <2>4, <3>3, <3>7
    <3>9. /\ \A a \in Aggregates : Cardinality(Before(t, n + 1, a)) = tx[h].revision[a]
          /\ \A p \in c.pre : tx[h].revision[p.agg] = p.revision
          /\ Attributed(c) => ExecutionAfter(t, n, c.actor) = c.exec
      BY <2>5, <3>1
    <3>10. PreconditionsAfter(t, n, c)
      BY <3>9, CommandFields DEF PreconditionsAfter
    <3> QED BY <3>8, <3>9, <3>10
  <2>10. GuardsHeldTogether'
    <3> SUFFICES ASSUME NEW i \in DOMAIN t.journal
                 PROVE  \E n \in 0 .. i - 1 :
                          LET d == t.journal[i].cmd IN
                          /\ Before(t, n + 1, d.target) = Before(t, i, d.target)
                          /\ PreconditionsAfter(t, n, d)
                          /\ Attributed(d) => ExecutionAfter(t, n, d.actor) = d.exec
      BY <2>1 DEF GuardsHeldTogether
    <3>1. i \in 1 .. N \/ i = N + 1
      BY <2>2, <2>3, StoreFields
    <3>2. CASE i = N + 1
      <4>1. i - 1 = N /\ t.journal[i].cmd = c
        BY <2>2, <2>3, <3>2
      <4> QED BY <2>9, <3>2, <4>1
    <3> QED BY <2>8, <3>1, <3>2
  <2>11. Journalled(store)'
    BY <2>1, <2>3 DEF Journalled
  <2> QED BY <2>6, <2>7, <2>10, <2>11 DEF MongoInv
<1> QED BY <1>4, <1>5

LEMMA TransactionBegins ==
  ASSUME MongoInv, NEW h \in Handlers, TransactionBegin(h)
  PROVE  MongoInv'
<1>1. PICK c \in Commands : c = cmd[h]
  BY DEF MongoInv, MongoTypes, TypeOK, TransactionBegin
<1>2. /\ MongoTypes' /\ UNCHANGED <<store, cmd, snap>> /\ tx'[h] = Collections(store) /\ store \in StoreType
      /\ \A g \in Handlers \ {h} : pc'[g] = pc[g] /\ cmd'[g] = cmd[g] /\ snap'[g] = snap[g] /\ tx'[g] = tx[g]
  BY DEF MongoInv, MongoTypes, TypeOK, TransactionBegin, Goto
<1>3. tx'[h].revision = store.revision
  BY <1>2 DEF Collections
<1>4. GuardsHold(c, snap[h], store)
  BY <1>1, Guarded DEF TransactionBegin
<1>5. ASSUME Outcome(c, snap[h]) = "APPLIED" PROVE ReadAfter(c, store.revision, Len(store.journal))
  <2>1. c.valid
    BY <1>5, Evaluated
  <2>2. \A p \in c.pre : store.revision[p.agg] = p.revision
    BY <1>4, <2>1 DEF GuardsHold, PreconditionsMatch
  <2>3. Attributed(c) => store.executions[c.actor] = c.exec
    BY <1>4, <1>5 DEF GuardsHold, ExecutionGuardHolds
  <2> QED BY <2>2, <2>3, CommandFields DEF MongoInv, Journalled, ReadAfter
<1>6. Len(store.journal) \in 0 .. Len(store.journal)
  BY <1>2, StoreFields
<1> QED BY <1>1, <1>2, <1>3, <1>5, <1>6, HandlerMoves

LEMMA MongoNext ==
  ASSUME MongoInv, [Next]_vars
  PROVE  MongoInv'
<1>1. CASE UNCHANGED vars
  BY <1>1 DEF vars, MongoInv, MongoTypes, TypeOK, Journalled, TransactionsRead, ReadAfter, GuardsHeldTogether
<1>2. ASSUME NEW h \in Handlers, NEW c \in Commands, Submit(h, c) PROVE MongoInv'
  <2>1. /\ MongoTypes' /\ UNCHANGED store /\ pc'[h] = "lookup"
        /\ \A g \in Handlers \ {h} : pc'[g] = pc[g] /\ cmd'[g] = cmd[g] /\ snap'[g] = snap[g] /\ tx'[g] = tx[g]
    BY <1>2 DEF MongoInv, MongoTypes, TypeOK, Submit, Goto
  <2> QED BY <2>1, HandlerMoves
<1>3. ASSUME NEW h \in Handlers, LookupHit(h) \/ TransactionRefused(h) \/ Crash(h) PROVE MongoInv'
  <2>1. Done(h) /\ UNCHANGED store /\ store' \in StoreType
    BY <1>3 DEF LookupHit, TransactionRefused, Crash, MongoInv, MongoTypes, TypeOK
  <2>2. /\ MongoTypes' /\ pc'[h] = "idle"
        /\ \A g \in Handlers \ {h} : pc'[g] = pc[g] /\ cmd'[g] = cmd[g] /\ snap'[g] = snap[g] /\ tx'[g] = tx[g]
    BY <2>1, HandlerDone
  <2> QED BY <2>1, <2>2, HandlerMoves
<1>4. ASSUME NEW h \in Handlers, LookupMiss(h) \/ TransactionDuplicate(h) \/ LoadTarget(h) \/ LoadRest(h) \/ TransactionRetry(h)
      PROVE  MongoInv'
  <2>1. /\ MongoTypes' /\ UNCHANGED store /\ pc'[h] # "transaction"
        /\ \A g \in Handlers \ {h} : pc'[g] = pc[g] /\ cmd'[g] = cmd[g] /\ snap'[g] = snap[g] /\ tx'[g] = tx[g]
    BY <1>4 DEF MongoInv, MongoTypes, TypeOK, LookupMiss, TransactionDuplicate, LoadTarget, LoadRest, TransactionRetry, Goto
  <2> QED BY <2>1, HandlerMoves
<1> QED BY <1>1, <1>2, <1>3, <1>4, TransactionBegins, TransactionCommits DEF Next, Step

LEMMA MongoSafe == Spec => []MongoInv
<1>1. MongoInv /\ [Next]_vars => MongoInv'
  BY MongoNext
<1> QED BY <1>1, MongoInit, PTL DEF Spec

(* No interleaving of loads, transactions, retries and crashes leaves a     *)
(* half-written collection, for any number of handlers (commitTransaction). *)
THEOREM TypeCorrect == Spec => []TypeOK
<1>1. MongoInv => TypeOK
  BY DEF MongoInv, MongoTypes
<1> QED BY <1>1, MongoSafe, PTL

(* The guards of every committed event held together at one moment after    *)
(* the previous event of its target: under snapshot isolation checkGuards   *)
(* never mixes two moments, for any number of commands, aggregates and      *)
(* handlers.                                                                *)
THEOREM GuardsOfOneMoment == Spec => []GuardsHeldTogether
<1>1. MongoInv => GuardsHeldTogether
  BY DEF MongoInv
<1> QED BY <1>1, MongoSafe, PTL
===============================================================================
