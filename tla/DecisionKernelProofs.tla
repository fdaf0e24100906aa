------------------------ MODULE DecisionKernelProofs ------------------------
(***************************************************************************)
(* Theorems about DecisionKernel for every set of commands, handlers and    *)
(* policies: its types, the immutability of what is decided, and that it    *)
(* implements AtomicKernel.                                                 *)
(***************************************************************************)
EXTENDS DecisionKernel, TLAPS

(* The parts of the store a decision writes.                                *)
Fingerprints == {Fingerprint(c) : c \in Commands}
Attempts == [used : Nat, conditions : SUBSET Fingerprints]
Event == [cmd : Commands, revision : Nat]

(* The fields of a well-typed store.                                        *)
LEMMA StoreFields ==
  ASSUME NEW st \in StoreType
  PROVE  /\ st.revision \in [Aggregates -> Nat] /\ st.closed \in [Aggregates -> BOOLEAN]
         /\ st.executions \in [Actors -> Nat] /\ st.policy \in Policies
         /\ st.attempts \in [Aggregates -> Attempts]
         /\ st.bound \in [Ids -> Commands \cup {NoCommand}]
         /\ st.receipts \in [Ids -> Receipts] /\ st.journal \in Seq(Event)
BY DEF StoreType, Attempts, Fingerprints, Event

(* What the assumption on commands gives for one command.                   *)
LEMMA CommandFields ==
  ASSUME NEW c \in Commands
  PROVE  /\ c.target \in Aggregates /\ c.actor \in Actors /\ c.exec \in Nat /\ c.id \in Ids
         /\ Fingerprint(c) \in Fingerprints
BY CommandsAssumption DEF Ids, Fingerprints

(* The fields of a committed application.                                   *)
LEMMA AppliedFields ==
  ASSUME NEW st \in StoreType, NEW c \in Commands
  PROVE  LET t == CommitApplied(st, c) IN
         /\ t \in StoreType
         /\ t.policy = st.policy
         /\ t.revision = [st.revision EXCEPT ![c.target] = st.revision[c.target] + 1]
         /\ \A a \in Aggregates \ {c.target} :
              t.closed[a] = st.closed[a] /\ t.attempts[a] = st.attempts[a]
         /\ t.bound = [st.bound EXCEPT ![c.id] = c]
         /\ \A i \in Ids \ {c.id} : t.receipts[i] = st.receipts[i]
         /\ t.executions = [st.executions EXCEPT ![c.actor] = IF Registry(c) THEN c.exec ELSE @]
         /\ \E e \in Event : e.cmd = c /\ t.journal = Append(st.journal, e)
<1> DEFINE next == st.revision[c.target] + 1
           revision == [st.revision EXCEPT ![c.target] = next]
           closed == [st.closed EXCEPT ![c.target] = @ \/ c.type = "close"]
           executions == [st.executions EXCEPT ![c.actor] = IF Registry(c) THEN c.exec ELSE @]
           attempts == [st.attempts EXCEPT ![c.target] =
             IF Governed(c) THEN [used |-> @.used + 1, conditions |-> @.conditions \cup {Fingerprint(c)}]
             ELSE @]
           bound == [st.bound EXCEPT ![c.id] = c]
           receipts == [st.receipts EXCEPT ![c.id] = [outcome |-> "APPLIED", revision |-> next]]
           event == [cmd |-> c, revision |-> next]
           journal == Append(st.journal, event)
<1>1. next \in Nat
  BY StoreFields, CommandFields
<1>2. revision \in [Aggregates -> Nat]
  BY <1>1, StoreFields
<1>3. closed \in [Aggregates -> BOOLEAN]
  BY StoreFields, CommandFields
<1>4. executions \in [Actors -> Nat]
  BY StoreFields, CommandFields
<1>5. attempts \in [Aggregates -> Attempts]
  <2>1. st.attempts[c.target] \in Attempts
    BY StoreFields, CommandFields
  <2>2. [used |-> st.attempts[c.target].used + 1,
         conditions |-> st.attempts[c.target].conditions \cup {Fingerprint(c)}] \in Attempts
    BY <2>1, CommandFields DEF Attempts
  <2> QED BY <2>1, <2>2, StoreFields
<1>6. bound \in [Ids -> Commands \cup {NoCommand}]
  BY StoreFields
<1>7. receipts \in [Ids -> Receipts]
  <2>1. [outcome |-> "APPLIED", revision |-> next] \in Receipts
    BY <1>1 DEF Receipts
  <2> QED BY <2>1, StoreFields
<1>8. event \in Event /\ event.cmd = c /\ journal \in Seq(Event)
  <2>1. event \in Event
    BY <1>1 DEF Event
  <2> QED BY <2>1, StoreFields
<1> DEFINE t == CommitApplied(st, c)
<1>9. t =
        [st EXCEPT !.revision = revision, !.closed = closed, !.executions = executions,
                   !.attempts = attempts, !.bound = bound, !.receipts = receipts,
                   !.journal = journal]
  BY DEF CommitApplied
<1>10. /\ \A a \in Aggregates \ {c.target} : closed[a] = st.closed[a] /\ attempts[a] = st.attempts[a]
       /\ \A i \in Ids \ {c.id} : receipts[i] = st.receipts[i]
  BY StoreFields
<1> HIDE DEF revision, closed, executions, attempts, bound, receipts, journal, event, t
<1>11.
       /\ t \in StoreType /\ t.policy = st.policy /\ t.revision = revision
       /\ t.closed = closed /\ t.attempts = attempts /\ t.bound = bound
       /\ t.executions = executions
       /\ t.receipts = receipts /\ t.journal = journal
  BY <1>2, <1>3, <1>4, <1>5, <1>6, <1>7, <1>8, <1>9, StoreFields
     DEF StoreType, Attempts, Fingerprints, Event
<1> QED BY <1>8, <1>10, <1>11 DEF revision, bound, executions, journal, t

(* What a committed application leaves alone: other aggregates ...           *)
LEMMA AppliedRevision ==
  ASSUME NEW st \in StoreType, NEW c \in Commands
  PROVE  /\ CommitApplied(st, c).revision = [st.revision EXCEPT ![c.target] = st.revision[c.target] + 1]
         /\ \A a \in Aggregates \ {c.target} :
              /\ CommitApplied(st, c).closed[a] = st.closed[a]
              /\ CommitApplied(st, c).attempts[a] = st.attempts[a]
BY AppliedFields, Zenon

(* ... other commands and earlier events ...                                *)
LEMMA AppliedBinding ==
  ASSUME NEW st \in StoreType, NEW c \in Commands
  PROVE  /\ CommitApplied(st, c).bound = [st.bound EXCEPT ![c.id] = c]
         /\ \A i \in Ids \ {c.id} : CommitApplied(st, c).receipts[i] = st.receipts[i]
         /\ \E e \in Event : e.cmd = c /\ CommitApplied(st, c).journal = Append(st.journal, e)
<1>1. CommitApplied(st, c).bound = [st.bound EXCEPT ![c.id] = c]
  BY AppliedFields, Zenon
<1>2. \A i \in Ids \ {c.id} : CommitApplied(st, c).receipts[i] = st.receipts[i]
  BY AppliedFields, Zenon
<1>3. \E e \in Event : e.cmd = c /\ CommitApplied(st, c).journal = Append(st.journal, e)
  BY AppliedFields, Zenon
<1> QED BY <1>1, <1>2, <1>3, Zenon

(* ... and other actors' executions.                                        *)
LEMMA AppliedRegistry ==
  ASSUME NEW st \in StoreType, NEW c \in Commands
  PROVE  CommitApplied(st, c).executions =
           [st.executions EXCEPT ![c.actor] = IF Registry(c) THEN c.exec ELSE st.executions[c.actor]]
BY AppliedFields, Zenon

(* The fields of a committed rejection.                                     *)
LEMMA RejectedFields ==
  ASSUME NEW st \in StoreType, NEW c \in Commands, NEW o \in Rejections
  PROVE  LET t == CommitRejected(st, c, o) IN
         /\ t \in StoreType
         /\ t.policy = st.policy /\ t.revision = st.revision /\ t.closed = st.closed
         /\ t.attempts = st.attempts /\ t.journal = st.journal /\ t.executions = st.executions
         /\ t.bound = [st.bound EXCEPT ![c.id] = c]
         /\ \A i \in Ids \ {c.id} : t.receipts[i] = st.receipts[i]
<1> DEFINE bound == [st.bound EXCEPT ![c.id] = c]
           receipts == [st.receipts EXCEPT ![c.id] = [outcome |-> o, revision |-> 0]]
<1>1. bound \in [Ids -> Commands \cup {NoCommand}]
  BY StoreFields
<1>2. receipts \in [Ids -> Receipts]
  <2>1. [outcome |-> o, revision |-> 0] \in Receipts
    BY DEF Receipts
  <2> QED BY <2>1, StoreFields
<1>3. \A i \in Ids \ {c.id} : receipts[i] = st.receipts[i]
  BY StoreFields
<1>4. CommitRejected(st, c, o) = [st EXCEPT !.bound = bound, !.receipts = receipts]
  BY DEF CommitRejected
<1> HIDE DEF bound, receipts
<1>5. LET t == [st EXCEPT !.bound = bound, !.receipts = receipts] IN
      /\ t \in StoreType
      /\ t.policy = st.policy /\ t.revision = st.revision /\ t.closed = st.closed
      /\ t.attempts = st.attempts /\ t.journal = st.journal /\ t.executions = st.executions
      /\ t.bound = bound /\ t.receipts = receipts
  BY <1>1, <1>2 DEF StoreType
<1> QED BY <1>3, <1>4, <1>5 DEF bound

(* Evaluate applies or rejects.                                             *)
LEMMA OutcomeRange ==
  ASSUME NEW c, NEW s
  PROVE  Outcome(c, s) \in Rejections \cup {"APPLIED"}
BY DEF Outcome, Disclosed, Rejections

(* When Evaluate applies a command: every check passed.                     *)
LEMMA AppliedWhen ==
  ASSUME NEW c, NEW s
  PROVE  Outcome(c, s) = "APPLIED" <=>
           /\ c.valid /\ c.policy = s.policy /\ c.type \in Grants[s.policy]
           /\ ~(Attributed(c) /\ s.executions[c.actor] # c.exec)
           /\ ~((c.type \in Creating) # (c.expect = 0))
           /\ ~(c.expect # 0 /\ s.revision[c.target] = 0)
           /\ s.revision[c.target] = c.expect
           /\ PreconditionsMatch(c, s)
           /\ ~(c.type = "register" /\ s.executions[c.actor] # 0)
           /\ ~(c.type = "replace" /\ s.executions[c.actor] # c.exec - 1)
           /\ AttemptAllowed(c, s)
           /\ ~(c.type \in {"change", "close"} /\ s.closed[c.target])
<1>1. \A o \in {"NOT_FOUND", "CONFLICT"} : Disclosed(c, s, o) # "APPLIED"
  BY DEF Disclosed
<1> QED BY <1>1, Zenon DEF Outcome

-----------------------------------------------------------------------------
(* Commit writes only what is undecided and still guarded.                  *)
LEMMA CommitOK ==
  ASSUME NEW c, NEW s, NEW st, CommitResult(c, s, st) = "OK"
  PROVE  Undecided(c, st) /\ GuardsHold(c, s, st)
<1>1. CASE st.bound[c.id] # NoCommand
  BY <1>1 DEF CommitResult
<1>2. CASE st.bound[c.id] = NoCommand /\ ScopeHolders(c, st) # {}
  <2>1. CommitResult(c, s, st) \in {"ALREADY_COMMITTED", "KEY_CONFLICT"}
    BY <1>2, Zenon DEF CommitResult
  <2> QED BY <2>1
<1>3. CASE st.bound[c.id] = NoCommand /\ ScopeHolders(c, st) = {}
  BY <1>3, Zenon DEF CommitResult, Undecided
<1> QED BY <1>1, <1>2, <1>3

(* What a commit that went through did to the store.                        *)
LEMMA WriteStore ==
  ASSUME TypeOK, NEW h \in Handlers, NEW acked \in BOOLEAN, CommitWrite(h, acked)
  PROVE  LET c == cmd[h]  o == Outcome(c, snap[h]) IN
         /\ c \in Commands /\ store' \in StoreType
         /\ Undecided(c, store) /\ GuardsHold(c, snap[h], store)
         /\ \/ o = "APPLIED" /\ store' = CommitApplied(store, c)
            \/ o \in Rejections /\ store' = CommitRejected(store, c, o)
<1> DEFINE c == cmd[h]  o == Outcome(c, snap[h])
<1>1. c \in Commands /\ store \in StoreType
  BY DEF TypeOK, CommitWrite
<1>2. Undecided(c, store) /\ GuardsHold(c, snap[h], store)
  BY CommitOK DEF CommitWrite
<1>3. \/ o = "APPLIED" /\ store' = CommitApplied(store, c)
      \/ o \in Rejections /\ store' = CommitRejected(store, c, o)
  BY OutcomeRange DEF CommitWrite, CommitDecision
<1>4. store' \in StoreType
  <2> HIDE DEF c, o
  <2>1. CASE o = "APPLIED" /\ store' = CommitApplied(store, c)
    BY <1>1, <2>1, AppliedFields
  <2>2. CASE o \in Rejections /\ store' = CommitRejected(store, c, o)
    BY <1>1, <2>2, RejectedFields
  <2> QED BY <1>3, <2>1, <2>2
<1> QED BY <1>1, <1>2, <1>3, <1>4

(* loadLocked copies well-typed fields.                                     *)
LEMMA SnapshotTyped ==
  ASSUME NEW st \in StoreType
  PROVE  SnapshotOf(st) \in SnapshotType
BY DEF SnapshotOf, SnapshotType, StoreType

(* The empty store is well typed.                                           *)
LEMMA InitStoreTyped == InitStore \in StoreType
<1>1. NoReceipt \in Receipts /\ 1 \in Policies
  BY PolicyAssumption DEF NoReceipt, Receipts, Policies
<1>2. [used |-> 0, conditions |-> {}] \in Attempts
  BY DEF Attempts
<1> QED BY <1>1, <1>2 DEF InitStore, StoreType, Attempts, Fingerprints

(* Every reachable state is well typed: no commit, whatever it raced with,  *)
(* leaves a half-written store.                                             *)
THEOREM TypeCorrect == Spec => []TypeOK
<1>1. Init => TypeOK
  <2> SUFFICES ASSUME Init PROVE TypeOK
    OBVIOUS
  <2> QED BY InitStoreTyped, SnapshotTyped DEF Init, TypeOK
<1>2. TypeOK /\ [Next]_vars => TypeOK'
  <2> SUFFICES ASSUME TypeOK, [Next]_vars PROVE TypeOK'
    OBVIOUS
  <2>1. CASE UNCHANGED vars
    BY <2>1 DEF vars, TypeOK
  <2>2. ASSUME NEW h \in Handlers, NEW c \in Commands, Submit(h, c) PROVE TypeOK'
    BY <2>2 DEF Submit, Goto, TypeOK
  <2>3. ASSUME NEW h \in Handlers, LookupMiss(h) PROVE TypeOK'
    BY <2>3 DEF LookupMiss, Goto, TypeOK
  <2>4. ASSUME NEW h \in Handlers, LookupAnswer(h) PROVE TypeOK'
    BY <2>4, InitStoreTyped, SnapshotTyped DEF LookupAnswer, Answer, Goto, TypeOK
  <2>5. ASSUME NEW h \in Handlers, Load(h) PROVE TypeOK'
    BY <2>5, SnapshotTyped DEF Load, Goto, TypeOK
  <2>6. ASSUME NEW h \in Handlers, NEW acked \in BOOLEAN, CommitWrite(h, acked) PROVE TypeOK'
    <3>1. store' \in StoreType
      BY <2>6, WriteStore
    <3> QED BY <2>6, <3>1, InitStoreTyped, SnapshotTyped DEF CommitWrite, Answer, Goto, TypeOK
  <2>7. ASSUME NEW h \in Handlers, CommitRefused(h) PROVE TypeOK'
    BY <2>7, InitStoreTyped, SnapshotTyped DEF CommitRefused, Answer, Goto, TypeOK
  <2>8. ASSUME NEW h \in Handlers, CommitDuplicate(h) PROVE TypeOK'
    BY <2>8 DEF CommitDuplicate, Goto, TypeOK
  <2>9. ASSUME NEW h \in Handlers, CommitFault(h) PROVE TypeOK'
    BY <2>9, InitStoreTyped, SnapshotTyped DEF CommitFault, Answer, Goto, TypeOK
  <2>10. ASSUME NEW h \in Handlers, Reconcile(h) PROVE TypeOK'
    BY <2>10, InitStoreTyped, SnapshotTyped DEF Reconcile, Answer, Goto, TypeOK
  <2>11. ASSUME NEW h \in Handlers, Crash(h) PROVE TypeOK'
    BY <2>11, InitStoreTyped, SnapshotTyped DEF Crash, Answer, Goto, TypeOK
  <2>12. CASE InstallPolicy
    <3>1. store.policy + 1 \in Policies
      BY <2>12, PolicyAssumption DEF InstallPolicy, TypeOK, StoreType, Policies
    <3>2. [store EXCEPT !.policy = store.policy + 1] \in StoreType
      <4>1. \A p \in Policies : [store EXCEPT !.policy = p] \in StoreType
        BY DEF TypeOK, StoreType
      <4> QED BY <3>1, <4>1
    <3> QED BY <2>12, <3>2 DEF InstallPolicy, local, TypeOK
  <2> QED BY <2>1, <2>2, <2>3, <2>4, <2>5, <2>6, <2>7, <2>8, <2>9, <2>10, <2>11, <2>12
          DEF Next, Step
<1> QED BY <1>1, <1>2, PTL DEF Spec

-----------------------------------------------------------------------------
(* Only a commit and a policy installation write the store.                 *)
LEMMA StoreSteps ==
  ASSUME Next
  PROVE  \/ UNCHANGED store
         \/ \E h \in Handlers, acked \in BOOLEAN : CommitWrite(h, acked)
         \/ InstallPolicy
BY DEF Next, Step, Submit, LookupMiss, LookupAnswer, Load, CommitRefused, CommitDuplicate,
       CommitFault, Reconcile, Crash

(* A step rewrites no binding, no receipt and no event.                     *)
LEMMA DecisionsKept ==
  ASSUME TypeOK, [Next]_vars
  PROVE  /\ \A i \in Ids : store.bound[i] # NoCommand =>
              store'.bound[i] = store.bound[i] /\ store'.receipts[i] = store.receipts[i]
         /\ \A n \in DOMAIN store.journal : store'.journal[n] = store.journal[n]
<1> DEFINE A ==
      /\ \A i \in Ids : store.bound[i] # NoCommand =>
           store'.bound[i] = store.bound[i] /\ store'.receipts[i] = store.receipts[i]
      /\ \A n \in DOMAIN store.journal : store'.journal[n] = store.journal[n]
<1> SUFFICES A
  OBVIOUS
<1>0. store \in StoreType
  BY DEF TypeOK
<1>1. CASE UNCHANGED store
  BY <1>1
<1>2. ASSUME NEW h \in Handlers, NEW acked \in BOOLEAN, CommitWrite(h, acked) PROVE A
  <2> DEFINE c == cmd[h]  o == Outcome(c, snap[h])
  <2>1. /\ c \in Commands /\ Undecided(c, store)
        /\ \/ store' = CommitApplied(store, c)
           \/ o \in Rejections /\ store' = CommitRejected(store, c, o)
    BY <1>2, WriteStore
  <2> HIDE DEF c, o
  <2>2. /\ store'.bound = [store.bound EXCEPT ![c.id] = c]
        /\ \A i \in Ids \ {c.id} : store'.receipts[i] = store.receipts[i]
        /\ store'.journal = store.journal
             \/ \E e \in Event : store'.journal = Append(store.journal, e)
    <3>1. CASE store' = CommitApplied(store, c)
      <4>1. c \in Commands
        BY <2>1
      <4>2. /\ CommitApplied(store, c).bound = [store.bound EXCEPT ![c.id] = c]
            /\ \A i \in Ids \ {c.id} : CommitApplied(store, c).receipts[i] = store.receipts[i]
            /\ \E e \in Event : e.cmd = c /\ CommitApplied(store, c).journal = Append(store.journal, e)
        BY <1>0, <4>1, AppliedBinding, Zenon
      <4> QED BY <3>1, <4>2, Zenon
    <3>2. CASE o \in Rejections /\ store' = CommitRejected(store, c, o)
      BY <1>0, <2>1, <3>2, RejectedFields
    <3> QED BY <2>1, <3>1, <3>2
  <2>3. store.bound[c.id] = NoCommand
    BY <2>1 DEF Undecided
  <2>4. \A n \in DOMAIN store.journal : store'.journal[n] = store.journal[n]
    <3>1. \A j \in Seq(Event), e \in Event : \A n \in DOMAIN j : Append(j, e)[n] = j[n]
      OBVIOUS
    <3> QED BY <1>0, <2>2, <3>1, StoreFields
  <2> QED BY <1>0, <2>2, <2>3, <2>4, StoreFields
<1>3. CASE InstallPolicy
  BY <1>0, <1>3 DEF InstallPolicy, StoreType
<1>4. UNCHANGED store \/ Next
  BY DEF vars
<1> HIDE DEF A
<1> QED BY <1>1, <1>2, <1>3, <1>4, StoreSteps

(* No step of any handler rewrites a binding, a receipt or an event: Commit *)
(* writes an unbound command id and appends to the journal.                 *)
THEOREM DecisionsAreImmutable == Spec => DecisionsImmutable
BY DecisionsKept, TypeCorrect, PTL DEF Spec, DecisionsImmutable

-----------------------------------------------------------------------------
(***************************************************************************)
(* Refinement.  The snapshot of a handler about to commit may be old, but   *)
(* where it agrees with the store on the revision of an aggregate it also   *)
(* agrees on what Evaluate read besides: revisions only grow, and nothing   *)
(* of an aggregate changes without its revision.                            *)
(***************************************************************************)
SnapshotsAgree ==
  \A h \in Handlers : pc[h] = "commit" =>
    \A a \in Aggregates :
      /\ snap[h].revision[a] <= store.revision[a]
      /\ snap[h].revision[a] = store.revision[a] =>
           snap[h].closed[a] = store.closed[a] /\ snap[h].attempts[a] = store.attempts[a]

(* The invariant holds: LoadDecision starts from agreement and a commit     *)
(* moves the revision of the one aggregate it changes.                      *)
THEOREM SnapshotsStayCurrent == Spec => []SnapshotsAgree
<1>1. Init => SnapshotsAgree
  BY DEF Init, SnapshotsAgree
<1>2. TypeOK /\ TypeOK' /\ SnapshotsAgree /\ [Next]_vars => SnapshotsAgree'
  <2> SUFFICES ASSUME TypeOK, TypeOK', SnapshotsAgree, [Next]_vars,
                      NEW h \in Handlers, pc'[h] = "commit", NEW a \in Aggregates
               PROVE  /\ snap'[h].revision[a] <= store'.revision[a]
                      /\ snap'[h].revision[a] = store'.revision[a] =>
                           /\ snap'[h].closed[a] = store'.closed[a]
                           /\ snap'[h].attempts[a] = store'.attempts[a]
    BY DEF SnapshotsAgree
  <2> DEFINE Goal == /\ snap'[h].revision[a] <= store'.revision[a]
                     /\ snap'[h].revision[a] = store'.revision[a] =>
                          /\ snap'[h].closed[a] = store'.closed[a]
                          /\ snap'[h].attempts[a] = store'.attempts[a]
  <2>0. /\ store \in StoreType /\ store.revision[a] \in Nat
        /\ snap[h].revision[a] \in Nat
    BY StoreFields DEF TypeOK, SnapshotType
  <2>1. CASE Load(h)
    <3>1. snap'[h] = SnapshotOf(store) /\ store' = store
      BY <2>1 DEF Load, TypeOK
    <3> QED BY <2>0, <3>1 DEF SnapshotOf
  <2>2. CASE pc[h] = "commit" /\ snap'[h] = snap[h] /\ store' = store
    BY <2>2 DEF SnapshotsAgree
  <2>3. CASE pc[h] = "commit" /\ snap'[h] = snap[h] /\ InstallPolicy
    <3>1. /\ store'.revision = store.revision /\ store'.closed = store.closed
          /\ store'.attempts = store.attempts
      BY <2>0, <2>3 DEF InstallPolicy, StoreType
    <3> QED BY <2>3, <3>1 DEF SnapshotsAgree
  <2>4. ASSUME NEW g \in Handlers, NEW acked \in BOOLEAN, CommitWrite(g, acked),
               pc[h] = "commit", snap'[h] = snap[h]
        PROVE  Goal
    <3> DEFINE c == cmd[g]  o == Outcome(c, snap[g])
    <3>1. /\ c \in Commands
          /\ \/ store' = CommitApplied(store, c)
             \/ o \in Rejections /\ store' = CommitRejected(store, c, o)
      BY <2>4, WriteStore
    <3> HIDE DEF c, o
    <3>2. CASE o \in Rejections /\ store' = CommitRejected(store, c, o)
      <4>1. /\ store'.revision = store.revision /\ store'.closed = store.closed
            /\ store'.attempts = store.attempts
        BY <2>0, <3>1, <3>2, RejectedFields
      <4> QED BY <2>4, <4>1 DEF SnapshotsAgree
    <3>3. CASE store' = CommitApplied(store, c)
      <4>1. /\ store'.revision = [store.revision EXCEPT ![c.target] = store.revision[c.target] + 1]
            /\ a # c.target => store'.closed[a] = store.closed[a] /\ store'.attempts[a] = store.attempts[a]
        <5>1. c \in Commands
          BY <3>1
        <5> QED BY <2>0, <3>3, <5>1, AppliedRevision
      <4>2. CASE a = c.target
        <5>1. store'.revision[a] = store.revision[a] + 1
          BY <2>0, <4>1, <4>2, StoreFields
        <5>2. snap[h].revision[a] <= store.revision[a]
          BY <2>4 DEF SnapshotsAgree
        <5> QED BY <2>0, <2>4, <5>1, <5>2
      <4>3. CASE a # c.target
        <5>1. store'.revision[a] = store.revision[a]
          BY <2>0, <4>1, <4>3, StoreFields
        <5> QED BY <2>4, <4>1, <4>3, <5>1 DEF SnapshotsAgree
      <4> QED BY <4>2, <4>3
    <3> QED BY <3>1, <3>2, <3>3
  <2>5. \/ Load(h)
        \/ pc[h] = "commit" /\ snap'[h] = snap[h] /\ store' = store
        \/ pc[h] = "commit" /\ snap'[h] = snap[h] /\ InstallPolicy
        \/ \E g \in Handlers, acked \in BOOLEAN :
             CommitWrite(g, acked) /\ pc[h] = "commit" /\ snap'[h] = snap[h]
    <3>1. CASE UNCHANGED vars
      BY <3>1 DEF vars
    <3>2. CASE InstallPolicy
      BY <3>2 DEF InstallPolicy, local
    <3>3. ASSUME NEW g \in Handlers, Step(g) \/ Crash(g) \/ \E c \in Commands : Submit(g, c)
          PROVE  \/ Load(h)
                 \/ pc[h] = "commit" /\ snap'[h] = snap[h] /\ store' = store
                 \/ \E acked \in BOOLEAN :
                      CommitWrite(g, acked) /\ pc[h] = "commit" /\ snap'[h] = snap[h]
      <4>1. CASE g = h
        BY <3>3, <4>1 DEF Step, Crash, Submit, LookupMiss, LookupAnswer, CommitWrite,
           CommitRefused, CommitDuplicate, CommitFault, Reconcile, Answer, Goto, TypeOK
      <4>2. CASE g # h
        BY <3>3, <4>2 DEF Step, Crash, Submit, LookupMiss, LookupAnswer, Load, CommitWrite,
           CommitRefused, CommitDuplicate, CommitFault, Reconcile, Answer, Goto, TypeOK
      <4> QED BY <4>1, <4>2
    <3> QED BY <3>1, <3>2, <3>3 DEF Next
  <2> QED BY <2>1, <2>2, <2>3, <2>4, <2>5
<1> QED BY <1>1, <1>2, TypeCorrect, PTL DEF Spec

(* A decision applied on a guarded snapshot is the one Evaluate reaches on  *)
(* the store itself.                                                        *)
LEMMA AppliedNow ==
  ASSUME NEW c, NEW s, NEW st, Outcome(c, s) = "APPLIED", GuardsHold(c, s, st),
         s.closed[c.target] = st.closed[c.target],
         s.attempts[c.target] = st.attempts[c.target]
  PROVE  Outcome(c, st) = "APPLIED"
<1>1. /\ c.valid /\ c.policy = s.policy /\ c.type \in Grants[s.policy]
      /\ ~((c.type \in Creating) # (c.expect = 0))
      /\ ~(c.expect # 0 /\ s.revision[c.target] = 0)
      /\ s.revision[c.target] = c.expect
      /\ AttemptAllowed(c, s)
      /\ ~(c.type \in {"change", "close"} /\ s.closed[c.target])
  BY AppliedWhen
<1>2. /\ st.revision[c.target] = s.revision[c.target] /\ st.policy = s.policy
      /\ PreconditionsMatch(c, st) /\ ExecutionGuardHolds(c, st)
  BY <1>1 DEF GuardsHold
<1>3. AttemptAllowed(c, st)
  BY <1>1 DEF AttemptAllowed
<1>4. /\ ~(Attributed(c) /\ st.executions[c.actor] # c.exec)
      /\ ~(c.type = "register" /\ st.executions[c.actor] # 0)
      /\ ~(c.type = "replace" /\ st.executions[c.actor] # c.exec - 1)
  BY <1>2 DEF ExecutionGuardHolds
<1> QED BY <1>1, <1>2, <1>3, <1>4, AppliedWhen

(* The handlers over the in-process store implement the atomic kernel:      *)
(* every commit is a decision on the store as it is at the commit.          *)
THEOREM Refinement == Spec => ImplementsAtomicKernel
<1>1. Init => Atomic!Init
  BY DEF Init, Atomic!Init, InitStore, Atomic!InitStore, NoReceipt, Atomic!NoReceipt, Ids, Atomic!Ids
<1>2. TypeOK /\ SnapshotsAgree /\ [Next]_vars => [Atomic!Next]_store
  <2> SUFFICES ASSUME TypeOK, SnapshotsAgree, Next PROVE [Atomic!Next]_store
    BY DEF vars
  <2>1. CASE InstallPolicy
    BY <2>1 DEF InstallPolicy, Atomic!Next, Atomic!InstallPolicy
  <2>2. ASSUME NEW h \in Handlers, NEW acked \in BOOLEAN, CommitWrite(h, acked)
        PROVE  Atomic!Next
    <3> DEFINE c == cmd[h]  s == snap[h]  o == Outcome(c, s)
    <3>1. /\ c \in Commands /\ Undecided(c, store) /\ GuardsHold(c, s, store)
          /\ \/ o = "APPLIED" /\ store' = CommitApplied(store, c)
             \/ o \in Rejections /\ store' = CommitRejected(store, c, o)
      BY <2>2, WriteStore
    <3>2. /\ s.closed[c.target] = store.closed[c.target]
          /\ s.attempts[c.target] = store.attempts[c.target]
      <4>1. c.target \in Aggregates /\ pc[h] = "commit"
            /\ s.revision[c.target] = store.revision[c.target]
        BY <2>2, <3>1, CommandFields DEF CommitWrite, GuardsHold
      <4> QED BY <4>1 DEF SnapshotsAgree
    <3> HIDE DEF c, s, o
    <3>3. Atomic!Undecided(c, store)
      BY <3>1 DEF Undecided, Atomic!Undecided, ScopeHolders, Atomic!ScopeHolders, Ids, Atomic!Ids,
         ScopeOf, Atomic!ScopeOf
    <3>4. CASE o = "APPLIED" /\ store' = CommitApplied(store, c)
      <4>1. Outcome(c, store) = "APPLIED"
        BY <3>1, <3>2, <3>4, AppliedNow DEF o
      <4>2. Atomic!Outcome(c, store) = Outcome(c, store)
        BY DEF Outcome, Atomic!Outcome, Attributed, Atomic!Attributed, Registry, Atomic!Registry,
           Creating, Atomic!Creating, Disclosed, Atomic!Disclosed,
           PreconditionsMatch, Atomic!PreconditionsMatch, AttemptAllowed, Atomic!AttemptAllowed,
           Governed, Atomic!Governed, Fingerprint, Atomic!Fingerprint
      <4>3. Atomic!CommitApplied(store, c) = CommitApplied(store, c)
        BY DEF CommitApplied, Atomic!CommitApplied, Registry, Atomic!Registry,
           Governed, Atomic!Governed, Fingerprint, Atomic!Fingerprint
      <4>4. Atomic!Apply(c)
        BY <3>3, <3>4, <4>1, <4>2, <4>3 DEF Atomic!Apply
      <4> QED BY <3>1, <4>4 DEF Atomic!Next
    <3>5. CASE o \in Rejections /\ store' = CommitRejected(store, c, o)
      <4>1. Atomic!CommitRejected(store, c, o) = CommitRejected(store, c, o)
        BY DEF CommitRejected, Atomic!CommitRejected
      <4>2. Atomic!Reject(c, o) /\ o \in Atomic!Rejections
        BY <3>3, <3>5, <4>1 DEF Atomic!Reject, Rejections, Atomic!Rejections
      <4> QED BY <3>1, <4>2 DEF Atomic!Next
    <3> QED BY <3>1, <3>4, <3>5
  <2> QED BY <2>1, <2>2, StoreSteps
<1> QED BY <1>1, <1>2, TypeCorrect, SnapshotsStayCurrent, PTL DEF Spec, Atomic!Spec, ImplementsAtomicKernel

-----------------------------------------------------------------------------
(***************************************************************************)
(* Fencing.  The registry is never behind an execution it has installed,    *)
(* so a command attributed to the registered execution is not behind any.   *)
(***************************************************************************)
RegistryCurrent ==
  \A i \in DOMAIN store.journal :
    LET r == store.journal[i].cmd IN Registry(r) => r.exec <= store.executions[r.actor]

(* Once an execution is replaced, no event attributed to an earlier one is  *)
(* committed, however long ago its handler loaded: Guards.Executions is     *)
(* compared under the store's lock.                                         *)
THEOREM Fencing == Spec => []FencedAfterReplacement
<1> DEFINE IInv == RegistryCurrent /\ FencedIn(store)
<1>1. Init => IInv
  BY DEF Init, InitStore, RegistryCurrent, FencedIn
<1>2. TypeOK /\ IInv /\ [Next]_vars => IInv'
  <2> SUFFICES ASSUME TypeOK, IInv, [Next]_vars PROVE IInv'
    OBVIOUS
  <2>0. /\ store \in StoreType /\ store.journal \in Seq(Event) /\ store.executions \in [Actors -> Nat]
    BY StoreFields DEF TypeOK
  <2>1. CASE store'.journal = store.journal /\ store'.executions = store.executions
    BY <2>1 DEF RegistryCurrent, FencedIn
  <2>2. ASSUME NEW h \in Handlers, NEW acked \in BOOLEAN, CommitWrite(h, acked) PROVE IInv'
    <3> DEFINE c == cmd[h]  o == Outcome(c, snap[h])
    <3>1. /\ c \in Commands /\ GuardsHold(c, snap[h], store)
          /\ \/ o = "APPLIED" /\ store' = CommitApplied(store, c)
             \/ o \in Rejections /\ store' = CommitRejected(store, c, o)
      BY <2>2, WriteStore
    <3>2. o = "APPLIED" => ExecutionGuardHolds(c, store)
      BY <3>1 DEF GuardsHold
    <3> HIDE DEF c, o
    <3>3. CASE o \in Rejections /\ store' = CommitRejected(store, c, o)
      BY <2>0, <2>1, <3>1, <3>3, RejectedFields
    <3>4. CASE o = "APPLIED" /\ store' = CommitApplied(store, c)
      <4> DEFINE J == store.journal  X == store.executions
      <4>1. /\ c \in Commands /\ c.actor \in Actors /\ c.exec \in Nat /\ X[c.actor] \in Nat
            /\ c.type \in {"register", "replace"} => c.exec > 0
        BY <2>0, <3>1, CommandFields, CommandsAssumption
      <4>2. /\ store'.executions = [X EXCEPT ![c.actor] = IF Registry(c) THEN c.exec ELSE X[c.actor]]
            /\ \E e \in Event : e.cmd = c /\ store'.journal = Append(J, e)
        <5>1. store'.executions = [X EXCEPT ![c.actor] = IF Registry(c) THEN c.exec ELSE X[c.actor]]
          BY <2>0, <3>4, <4>1, AppliedRegistry
        <5>2. \E e \in Event : e.cmd = c /\ CommitApplied(store, c).journal = Append(store.journal, e)
          BY <2>0, <4>1, AppliedBinding, Zenon
        <5> QED BY <3>4, <5>1, <5>2
      <4>3. PICK e \in Event : e.cmd = c /\ store'.journal = Append(J, e)
        BY <4>2
      <4> DEFINE n == Len(J) + 1
      <4>4. /\ DOMAIN store'.journal = DOMAIN J \cup {n} /\ n \notin DOMAIN J
            /\ store'.journal[n].cmd = c
            /\ \A i \in DOMAIN J : store'.journal[i] = J[i] /\ i < n /\ J[i].cmd \in Commands
            /\ \A i \in DOMAIN J : i \in Nat
        <5>1. /\ DOMAIN Append(J, e) = 1 .. n /\ DOMAIN J = 1 .. Len(J) /\ Len(J) \in Nat
              /\ Append(J, e)[n] = e
              /\ \A i \in DOMAIN J : Append(J, e)[i] = J[i] /\ J[i] \in Event
          BY <2>0, SMTT(30)
        <5>2. \A f \in Event : f.cmd \in Commands
          BY DEF Event
        <5>3. 1 .. n = (1 .. Len(J)) \cup {n}
          BY <5>1
        <5> QED BY <4>3, <5>1, <5>2, <5>3
      <4>5. /\ \A b \in Actors : X[b] \in Nat
            /\ \A b \in Actors \ {c.actor} : store'.executions[b] = X[b]
            /\ store'.executions[c.actor] = IF Registry(c) THEN c.exec ELSE X[c.actor]
        BY <2>0, <4>1, <4>2
      <4>6. X[c.actor] <= store'.executions[c.actor]
        BY <3>2, <3>4, <4>1, <4>5 DEF ExecutionGuardHolds, Registry
      <4>7. \A i \in DOMAIN J : Registry(J[i].cmd) =>
              J[i].cmd.exec <= X[J[i].cmd.actor] /\ J[i].cmd.exec \in Nat /\ J[i].cmd.actor \in Actors
        BY <4>4, CommandFields DEF RegistryCurrent
      <4>8. Attributed(c) => c.exec = X[c.actor] /\ ~Registry(c)
        BY <3>2, <3>4 DEF ExecutionGuardHolds, Attributed
      <4>9. RegistryCurrent'
        <5> SUFFICES ASSUME NEW i \in DOMAIN store'.journal, Registry(store'.journal[i].cmd)
                     PROVE  store'.journal[i].cmd.exec <= store'.executions[store'.journal[i].cmd.actor]
          BY DEF RegistryCurrent
        <5>1. CASE i = n
          BY <4>1, <4>4, <4>5, <5>1
        <5>2. CASE i \in DOMAIN J
          <6>1. J[i].cmd.exec <= X[J[i].cmd.actor] /\ J[i].cmd.exec \in Nat /\ J[i].cmd.actor \in Actors
            BY <4>4, <4>7, <5>2
          <6>2. X[J[i].cmd.actor] <= store'.executions[J[i].cmd.actor]
            BY <4>5, <4>6, <6>1
          <6>3. store'.executions[J[i].cmd.actor] \in Nat
            BY <4>1, <4>5, <6>1
          <6> QED BY <4>4, <4>5, <5>2, <6>1, <6>2, <6>3
        <5> QED BY <4>4, <5>1, <5>2
      <4>10. FencedIn(store')
        <5> SUFFICES ASSUME NEW i \in DOMAIN store'.journal, NEW j \in DOMAIN store'.journal, i < j,
                            Registry(store'.journal[i].cmd), Attributed(store'.journal[j].cmd),
                            store'.journal[j].cmd.actor = store'.journal[i].cmd.actor
                     PROVE  store'.journal[j].cmd.exec >= store'.journal[i].cmd.exec
          BY DEF FencedIn
        <5>1. i \in DOMAIN J
          BY <4>4
        <5>2. CASE j = n
          BY <4>1, <4>4, <4>7, <4>8, <5>1, <5>2
        <5>3. CASE j \in DOMAIN J
          BY <4>4, <5>1, <5>3 DEF FencedIn
        <5> QED BY <4>4, <5>2, <5>3
      <4> QED BY <4>9, <4>10
    <3> QED BY <3>1, <3>3, <3>4
  <2>3. CASE InstallPolicy
    <3>1. store'.journal = store.journal /\ store'.executions = store.executions
      BY <2>0, <2>3 DEF InstallPolicy, StoreType
    <3> QED BY <2>1, <3>1
  <2>4. CASE UNCHANGED vars
    BY <2>1, <2>4 DEF vars
  <2> QED BY <2>1, <2>2, <2>3, <2>4, StoreSteps
<1>3. IInv => FencedAfterReplacement
  BY DEF FencedAfterReplacement
<1> QED BY <1>1, <1>2, <1>3, TypeCorrect, PTL DEF Spec

-----------------------------------------------------------------------------
(***************************************************************************)
(* Idempotency.                                                             *)
(***************************************************************************)

(* What a committed application writes about its command.                   *)
LEMMA AppliedRecord ==
  ASSUME NEW st \in StoreType, NEW c \in Commands
  PROVE  LET t == CommitApplied(st, c)  next == st.revision[c.target] + 1 IN
         /\ t.receipts = [st.receipts EXCEPT ![c.id] = [outcome |-> "APPLIED", revision |-> next]]
         /\ t.journal = Append(st.journal, [cmd |-> c, revision |-> next])
         /\ [cmd |-> c, revision |-> next] \in Event
<1>1. st.revision[c.target] + 1 \in Nat
  BY StoreFields, CommandFields
<1> QED BY <1>1 DEF CommitApplied, StoreType, Event

(* ... and a committed rejection.                                           *)
LEMMA RejectedReceipt ==
  ASSUME NEW st \in StoreType, NEW c \in Commands, NEW o \in Rejections
  PROVE  LET t == CommitRejected(st, c, o) IN
         /\ t.journal = st.journal /\ t.receipts[c.id].outcome # "APPLIED"
         /\ \A i \in Ids \ {c.id} : t.receipts[i] = st.receipts[i]
<1>1. o # "APPLIED" /\ c.id \in Ids /\ DOMAIN st.receipts = Ids
  BY StoreFields, CommandFields DEF Rejections
<1>2. CommitRejected(st, c, o).receipts = [st.receipts EXCEPT ![c.id] = [outcome |-> o, revision |-> 0]]
  BY DEF CommitRejected, StoreType
<1>3. CommitRejected(st, c, o).receipts[c.id].outcome # "APPLIED"
  BY <1>1, <1>2
<1>4. CommitRejected(st, c, o).journal = st.journal
  BY DEF CommitRejected, StoreType
<1>5. \A i \in Ids \ {c.id} : CommitRejected(st, c, o).receipts[i] = st.receipts[i]
  BY <1>1, <1>2
<1> QED BY <1>3, <1>4, <1>5, Zenon

(* The events of a command after one more event.                            *)
LEMMA EventsAfterAppend ==
  ASSUME NEW J \in Seq(Event), NEW e \in Event
  PROVE  LET K == Append(J, e)  n == Len(J) + 1 IN
         /\ DOMAIN K = DOMAIN J \cup {n} /\ n \notin DOMAIN J
         /\ K[n] = e
         /\ \A i \in DOMAIN J : K[i] = J[i] /\ J[i].cmd \in Commands
<1>1. /\ DOMAIN Append(J, e) = 1 .. Len(J) + 1 /\ DOMAIN J = 1 .. Len(J) /\ Len(J) \in Nat
      /\ Append(J, e)[Len(J) + 1] = e
      /\ \A i \in DOMAIN J : Append(J, e)[i] = J[i] /\ J[i] \in Event
  BY SMTT(30)
<1>2. \A f \in Event : f.cmd \in Commands
  BY DEF Event
<1>3. 1 .. Len(J) + 1 = (1 .. Len(J)) \cup {Len(J) + 1} /\ Len(J) + 1 \notin 1 .. Len(J)
  BY <1>1
<1> QED BY <1>1, <1>2, <1>3

(* A command that is not decided has no event.                              *)
LEMMA UndecidedHasNoEvent ==
  ASSUME NEW st \in StoreType, NEW c \in Commands, DecidedOnceIn(st), Undecided(c, st)
  PROVE  EventsOf(st, c.id) = {}
<1> SUFFICES ASSUME NEW n \in EventsOf(st, c.id) PROVE FALSE
  OBVIOUS
<1>1. st.journal[n] = [cmd |-> st.bound[c.id], revision |-> st.receipts[c.id].revision]
  BY CommandFields DEF DecidedOnceIn
<1>2. n \in DOMAIN st.journal /\ st.journal[n] \in Event
  BY StoreFields DEF EventsOf
<1>3. st.bound[c.id] \in Commands
  BY <1>1, <1>2 DEF Event
<1> QED BY <1>3, CommandsAssumption DEF Undecided

(* A command is decided once, whatever handlers retry it, under its own id  *)
(* or under another one with its key: Commit's duplicate checks and its     *)
(* single write.                                                            *)
THEOREM Idempotency == Spec => []DecidedOnce
<1>1. Init => DecidedOnce
  BY DEF Init, InitStore, NoReceipt, DecidedOnce, DecidedOnceIn, EventsOf
<1>2. TypeOK /\ DecidedOnce /\ [Next]_vars => DecidedOnce'
  <2> SUFFICES ASSUME TypeOK, DecidedOnce, [Next]_vars PROVE DecidedOnce'
    OBVIOUS
  <2>0. store \in StoreType /\ store.journal \in Seq(Event) /\ DecidedOnceIn(store)
    BY StoreFields DEF TypeOK, DecidedOnce
  <2>1. CASE store'.journal = store.journal /\ store'.bound = store.bound /\ store'.receipts = store.receipts
    BY <2>0, <2>1 DEF DecidedOnce, DecidedOnceIn, EventsOf
  <2>2. ASSUME NEW h \in Handlers, NEW acked \in BOOLEAN, CommitWrite(h, acked) PROVE DecidedOnce'
    <3> DEFINE c == cmd[h]  o == Outcome(c, snap[h])
    <3>1. /\ c \in Commands /\ Undecided(c, store)
          /\ \/ o = "APPLIED" /\ store' = CommitApplied(store, c)
             \/ o \in Rejections /\ store' = CommitRejected(store, c, o)
      BY <2>2, WriteStore
    <3> HIDE DEF c, o
    <3>2. c.id \in Ids /\ EventsOf(store, c.id) = {}
      BY <2>0, <3>1, CommandFields, UndecidedHasNoEvent
    <3>3. store'.bound = [store.bound EXCEPT ![c.id] = c]
      <4>1. CASE o = "APPLIED" /\ store' = CommitApplied(store, c)
        BY <2>0, <3>1, <4>1, AppliedBinding
      <4>2. CASE o \in Rejections /\ store' = CommitRejected(store, c, o)
        BY <2>0, <3>1, <4>2, RejectedFields
      <4> QED BY <3>1, <4>1, <4>2
    <3>4. store'.bound[c.id] = c /\ \A i \in Ids \ {c.id} : store'.bound[i] = store.bound[i]
      BY <2>0, <3>2, <3>3, StoreFields
    <3>5. \A i, j \in Ids : (i # j /\ NoCommand \notin {store'.bound[i], store'.bound[j]})
                               => ScopeOf(store'.bound[i]) # ScopeOf(store'.bound[j])
      <4>1. \A i \in Ids \ {c.id} : store'.bound[i] # NoCommand => ScopeOf(store'.bound[i]) # ScopeOf(c)
        BY <3>1, <3>4 DEF Undecided, ScopeHolders
      <4> QED BY <2>0, <3>4, <4>1 DEF DecidedOnceIn
    <3>6. CASE o \in Rejections /\ store' = CommitRejected(store, c, o)
      <4>1. /\ store'.journal = store.journal /\ store'.receipts[c.id].outcome # "APPLIED"
            /\ \A i \in Ids \ {c.id} : store'.receipts[i] = store.receipts[i]
        BY <2>0, <3>1, <3>6, RejectedReceipt
      <4>3. \A i \in Ids : EventsOf(store', i) = EventsOf(store, i)
        BY <4>1 DEF EventsOf
      <4> QED BY <2>0, <3>2, <3>4, <3>5, <4>1, <4>3 DEF DecidedOnce, DecidedOnceIn
    <3>7. CASE o = "APPLIED" /\ store' = CommitApplied(store, c)
      <4> DEFINE J == store.journal  next == store.revision[c.target] + 1  n == Len(J) + 1
                 e == [cmd |-> c, revision |-> next]
      <4>1. /\ store'.journal = Append(J, e) /\ e \in Event
            /\ store'.receipts = [store.receipts EXCEPT ![c.id] = [outcome |-> "APPLIED", revision |-> next]]
        BY <2>0, <3>1, <3>7, AppliedRecord
      <4>2. /\ store'.receipts[c.id] = [outcome |-> "APPLIED", revision |-> next]
            /\ \A i \in Ids \ {c.id} : store'.receipts[i] = store.receipts[i]
        BY <2>0, <3>2, <4>1, StoreFields
      <4>3. /\ DOMAIN store'.journal = DOMAIN J \cup {n} /\ n \notin DOMAIN J
            /\ store'.journal[n] = e /\ \A i \in DOMAIN J : store'.journal[i] = J[i]
        BY <2>0, <4>1, EventsAfterAppend
      <4>4. e.cmd = c
        OBVIOUS
      <4> HIDE DEF e, n, J
      <4>5. EventsOf(store', c.id) = {n} /\ \A i \in Ids \ {c.id} : EventsOf(store', i) = EventsOf(store, i)
        BY <3>2, <4>3, <4>4 DEF EventsOf, J
      <4>6. store'.journal[n] = [cmd |-> store'.bound[c.id], revision |-> store'.receipts[c.id].revision]
        BY <3>4, <4>2, <4>3 DEF e
      <4>7. ASSUME NEW i \in Ids
            PROVE  /\ store'.receipts[i].outcome = "APPLIED" <=> EventsOf(store', i) # {}
                   /\ \A k, m \in EventsOf(store', i) :
                        k = m /\ store'.journal[k] = [cmd |-> store'.bound[i], revision |-> store'.receipts[i].revision]
        <5>1. CASE i = c.id
          BY <4>2, <4>5, <4>6, <5>1
        <5>2. CASE i # c.id
          <6>1. /\ EventsOf(store', i) = EventsOf(store, i) /\ store'.receipts[i] = store.receipts[i]
                /\ store'.bound[i] = store.bound[i]
            BY <3>4, <4>2, <4>5, <5>2
          <6>2. \A k \in EventsOf(store, i) : store'.journal[k] = store.journal[k]
            BY <4>3 DEF EventsOf, J
          <6> QED BY <2>0, <6>1, <6>2 DEF DecidedOnceIn
        <5> QED BY <5>1, <5>2
      <4> QED BY <3>5, <4>7 DEF DecidedOnce, DecidedOnceIn
    <3> QED BY <3>1, <3>6, <3>7
  <2>3. CASE InstallPolicy
    <3>1. store'.journal = store.journal /\ store'.bound = store.bound /\ store'.receipts = store.receipts
      BY <2>0, <2>3 DEF InstallPolicy, StoreType
    <3> QED BY <2>1, <3>1
  <2>4. CASE UNCHANGED store
    BY <2>1, <2>4
  <2> QED BY <2>2, <2>3, <2>4, StoreSteps DEF vars
<1> QED BY <1>1, <1>2, TypeCorrect, PTL DEF Spec

-----------------------------------------------------------------------------
(***************************************************************************)
(* The answers.                                                             *)
(***************************************************************************)

(* What a lookup finds: the receipt of a decision with the fingerprint and  *)
(* the scope of the command, or a decision that differs from it.            *)
LEMMA LookupFinds ==
  ASSUME NEW st \in StoreType, NEW c \in Commands
  PROVE  LET r == LookupReceipt(c, st) IN
         /\ r.kind = "receipt" =>
              /\ r.id \in Ids /\ r.receipt = st.receipts[r.id] /\ st.bound[r.id] # NoCommand
              /\ Fingerprint(st.bound[r.id]) = Fingerprint(c) /\ ScopeOf(st.bound[r.id]) = ScopeOf(c)
         /\ r.kind = "identity_conflict" => \E i \in Ids :
              /\ st.bound[i] # NoCommand
              /\ i = c.id \/ ScopeOf(st.bound[i]) = ScopeOf(c)
              /\ <<Fingerprint(st.bound[i]), ScopeOf(st.bound[i])>> # <<Fingerprint(c), ScopeOf(c)>>
<1> DEFINE holders == ScopeHolders(c, st)
           prior == IF st.bound[c.id] # NoCommand THEN c.id ELSE CHOOSE i \in holders : TRUE
           r == LookupReceipt(c, st)
<1>1. CASE st.bound[c.id] = NoCommand /\ holders = {}
  BY <1>1 DEF LookupReceipt, NoReply
<1>2. CASE ~(st.bound[c.id] = NoCommand /\ holders = {})
  <2>1. /\ prior \in Ids /\ st.bound[prior] # NoCommand
        /\ prior = c.id \/ ScopeOf(st.bound[prior]) = ScopeOf(c)
    BY <1>2, CommandFields DEF ScopeHolders
  <2>2. \/ r = Failure("ACCESS_DENIED")
        \/ /\ r = IdentityConflict("COMMAND_ID_REUSE") /\ prior = c.id
           /\ Fingerprint(st.bound[prior]) # Fingerprint(c) \/ ScopeOf(st.bound[prior]) # ScopeOf(c)
        \/ r = IdentityConflict("IDEMPOTENCY_KEY_REUSE") /\ Fingerprint(st.bound[prior]) # Fingerprint(c)
        \/ /\ r = Receipt(prior, st.receipts[prior])
           /\ Fingerprint(st.bound[prior]) = Fingerprint(c)
           /\ prior = c.id => ScopeOf(st.bound[prior]) = ScopeOf(c)
    BY <1>2 DEF LookupReceipt
  <2> HIDE DEF prior, r
  <2>3. <<Fingerprint(st.bound[prior]), ScopeOf(st.bound[prior])>> = <<Fingerprint(c), ScopeOf(c)>>
          <=> Fingerprint(st.bound[prior]) = Fingerprint(c) /\ ScopeOf(st.bound[prior]) = ScopeOf(c)
    OBVIOUS
  <2>4. CASE r.kind = "receipt"
    <3>1. /\ r = Receipt(prior, st.receipts[prior])
          /\ Fingerprint(st.bound[prior]) = Fingerprint(c)
          /\ prior = c.id => ScopeOf(st.bound[prior]) = ScopeOf(c)
      BY <2>2, <2>4 DEF Receipt, Failure, IdentityConflict
    <3>2. r.id = prior /\ r.receipt = st.receipts[prior]
      BY <3>1 DEF Receipt
    <3> QED BY <2>1, <2>4, <3>1, <3>2 DEF r
  <2>5. CASE r.kind = "identity_conflict"
    <3>1. Fingerprint(st.bound[prior]) # Fingerprint(c) \/ ScopeOf(st.bound[prior]) # ScopeOf(c)
      BY <2>2, <2>5 DEF Receipt, Failure, IdentityConflict
    <3> QED BY <2>1, <2>3, <2>5, <3>1 DEF r
  <2> QED BY <2>4, <2>5 DEF r
<1> QED BY <1>1, <1>2

(* The answer of handler h to its command is the decided one.               *)
CanonicalAnswer(h) ==
  LET i == reply[h].id IN
  /\ i \in Ids
  /\ reply[h].receipt = store.receipts[i]
  /\ store.bound[i] # NoCommand
  /\ Fingerprint(store.bound[i]) = Fingerprint(cmd[h])
  /\ ScopeOf(store.bound[i]) = ScopeOf(cmd[h])

(* The decision at i is a real conflict with command c.                     *)
ConflictsAt(i, c, bound) ==
  /\ bound[i] # NoCommand
  /\ i = c.id \/ ScopeOf(bound[i]) = ScopeOf(c)
  /\ <<Fingerprint(bound[i]), ScopeOf(bound[i])>> # <<Fingerprint(c), ScopeOf(c)>>

(* AnswersAreCanonical, with the id of every answered receipt a decided one.*)
CanonicalInv ==
  /\ reply = [h \in Handlers |-> reply[h]]
  /\ \A h \in Handlers : pc[h] = "idle" /\ reply[h].kind = "receipt" => CanonicalAnswer(h)
  /\ \A x \in audits : \E i \in Ids : ConflictsAt(i, x.cmd, store.bound)

(* How a step changes what callers are told: a handler that is idle after   *)
(* it was idle before with the same answer, or has just been given one.     *)
LEMMA AnswerSteps ==
  ASSUME TypeOK, CanonicalInv, [Next]_vars
  PROVE  /\ reply' = [h \in Handlers |-> reply'[h]]
         /\ \A h \in Handlers : pc'[h] = "idle" =>
              \/ pc[h] = "idle" /\ reply'[h] = reply[h] /\ cmd'[h] = cmd[h]
              \/ /\ pc[h] # "idle" /\ cmd'[h] = cmd[h]
                 /\ \/ reply'[h].kind # "receipt"
                    \/ reply'[h] = LookupReceipt(cmd[h], store) /\ UNCHANGED store
                    \/ \E acked \in BOOLEAN :
                         CommitWrite(h, acked) /\ reply'[h] = Receipt(cmd[h].id, store'.receipts[cmd[h].id])
<1> DEFINE Done(h) ==
      \/ pc[h] = "idle" /\ reply'[h] = reply[h] /\ cmd'[h] = cmd[h]
      \/ /\ pc[h] # "idle" /\ cmd'[h] = cmd[h]
         /\ \/ reply'[h].kind # "receipt"
            \/ reply'[h] = LookupReceipt(cmd[h], store) /\ UNCHANGED store
            \/ \E acked \in BOOLEAN :
                 CommitWrite(h, acked) /\ reply'[h] = Receipt(cmd[h].id, store'.receipts[cmd[h].id])
    Goal == reply' = [h \in Handlers |-> reply'[h]] /\ \A h \in Handlers : pc'[h] = "idle" => Done(h)
<1> SUFFICES Goal
  OBVIOUS
<1>0. /\ reply = [h \in Handlers |-> reply[h]]
      /\ pc = [h \in Handlers |-> pc[h]] /\ cmd = [h \in Handlers |-> cmd[h]]
  BY DEF CanonicalInv, TypeOK
<1>1. ASSUME NEW h \in Handlers, pc[h] # "idle", cmd' = cmd, NEW r, Answer(h, r),
             \/ r.kind # "receipt"
             \/ r = LookupReceipt(cmd[h], store) /\ UNCHANGED store
             \/ \E acked \in BOOLEAN :
                  CommitWrite(h, acked) /\ r = Receipt(cmd[h].id, store'.receipts[cmd[h].id])
      PROVE  Goal
  <2>1. /\ reply' = [reply EXCEPT ![h] = r] /\ pc' = [pc EXCEPT ![h] = "idle"]
    BY <1>1 DEF Answer, Goto
  <2>2. /\ reply' = [g \in Handlers |-> reply'[g]] /\ reply'[h] = r
        /\ \A g \in Handlers \ {h} : reply'[g] = reply[g] /\ pc'[g] = pc[g]
    BY <1>0, <2>1
  <2>3. Done(h)
    BY <1>1, <2>2
  <2> QED BY <1>1, <2>2, <2>3
<1>2. ASSUME NEW h \in Handlers, NEW to, to # "idle", Goto(h, to), reply' = reply,
             cmd' = cmd PROVE Goal
  <2>1. \A g \in Handlers : pc'[g] = "idle" => pc[g] = "idle"
    BY <1>0, <1>2 DEF Goto
  <2> QED BY <1>0, <1>2, <2>1
<1>3. ASSUME NEW h \in Handlers, NEW c \in Commands, Submit(h, c) PROVE Goal
  <2>1. /\ reply' = [reply EXCEPT ![h] = NoReply] /\ cmd' = [cmd EXCEPT ![h] = c]
        /\ pc' = [pc EXCEPT ![h] = "lookup"]
    BY <1>3 DEF Submit, Goto
  <2>2. /\ reply' = [g \in Handlers |-> reply'[g]] /\ pc'[h] = "lookup"
        /\ \A g \in Handlers \ {h} : reply'[g] = reply[g] /\ pc'[g] = pc[g] /\ cmd'[g] = cmd[g]
    BY <1>0, <2>1
  <2> QED BY <2>2
<1>4. ASSUME NEW h \in Handlers, LookupAnswer(h) PROVE Goal
  <2>1. pc[h] # "idle" /\ cmd' = cmd /\ Answer(h, LookupReceipt(cmd[h], store)) /\ UNCHANGED store
    BY <1>4 DEF LookupAnswer
  <2> HIDE DEF Goal
  <2> QED BY <1>1, <2>1
<1>5. ASSUME NEW h \in Handlers, CommitRefused(h) \/ CommitFault(h) PROVE Goal
  <2>1. \A e : Failure(e).kind # "receipt"
    BY DEF Failure
  <2>2. pc[h] # "idle" /\ cmd' = cmd /\ \E e : Answer(h, Failure(e))
    BY <1>5 DEF CommitRefused, CommitFault
  <2> HIDE DEF Goal
  <2> QED BY <1>1, <2>1, <2>2
<1>6. ASSUME NEW h \in Handlers, Crash(h) PROVE Goal
  <2>1. NoReply.kind # "receipt"
    BY DEF NoReply
  <2>2. pc[h] # "idle" /\ cmd' = cmd /\ Answer(h, NoReply)
    BY <1>6 DEF Crash
  <2> HIDE DEF Goal
  <2> QED BY <1>1, <2>1, <2>2
<1>7. ASSUME NEW h \in Handlers, Reconcile(h) PROVE Goal
  <2> DEFINE found == LookupReceipt(cmd[h], store)
             r == IF found.kind \in {"receipt", "error"} THEN found ELSE Failure("LOST")
  <2>1. pc[h] # "idle" /\ cmd' = cmd /\ Answer(h, r) /\ UNCHANGED store
    BY <1>7 DEF Reconcile
  <2>2. r.kind # "receipt" \/ r = found
    BY DEF Failure
  <2> HIDE DEF Goal, r
  <2> QED BY <1>1, <2>1, <2>2
<1>8. ASSUME NEW h \in Handlers, NEW acked \in BOOLEAN, CommitWrite(h, acked) PROVE Goal
  <2>1. pc[h] = "commit" /\ cmd' = cmd
    BY <1>8 DEF CommitWrite
  <2>2. CASE acked
    <3>1. Answer(h, Receipt(cmd[h].id, store'.receipts[cmd[h].id]))
      BY <1>8, <2>2 DEF CommitWrite
    <3> HIDE DEF Goal
    <3> QED BY <1>1, <1>8, <2>1, <3>1
  <2>3. CASE ~acked
    <3>1. Goto(h, "reconcile") /\ reply' = reply
      BY <1>8, <2>3 DEF CommitWrite
    <3> HIDE DEF Goal
    <3> QED BY <1>2, <2>1, <3>1
  <2> QED BY <2>2, <2>3
<1>9. ASSUME NEW h \in Handlers, LookupMiss(h) \/ Load(h) \/ CommitDuplicate(h) PROVE Goal
  <2>1. /\ reply' = reply /\ cmd' = cmd
        /\ Goto(h, "load") \/ Goto(h, "commit") \/ Goto(h, "reconcile")
    BY <1>9 DEF LookupMiss, Load, CommitDuplicate
  <2> HIDE DEF Goal
  <2> QED BY <1>2, <2>1
<1>10. CASE InstallPolicy \/ UNCHANGED vars
  BY <1>0, <1>10 DEF InstallPolicy, local, vars
<1> HIDE DEF Goal
<1> QED BY <1>3, <1>4, <1>5, <1>6, <1>7, <1>8, <1>9, <1>10 DEF Next, Step

(* Only a lookup audits, and what it audits is a conflict with a decision   *)
(* of the store it looked in.                                               *)
LEMMA AuditSteps ==
  ASSUME TypeOK, Next
  PROVE  \A x \in audits' : \/ x \in audits
                            \/ store' = store /\ \E i \in Ids : ConflictsAt(i, x.cmd, store.bound)
<1>1. CASE \E h \in Handlers : LookupAnswer(h)
  <2>1. PICK h \in Handlers : LookupAnswer(h)
    BY <1>1
  <2> DEFINE c == cmd[h]  found == LookupReceipt(c, store)
  <2>2. /\ store' = store /\ c \in Commands /\ store \in StoreType
        /\ audits' = IF found.kind = "identity_conflict"
                       THEN audits \cup {[cmd |-> c, reason |-> found.reason]} ELSE audits
    BY <2>1 DEF LookupAnswer, TypeOK
  <2> HIDE DEF c, found
  <2>3. found.kind = "identity_conflict" => \E i \in Ids : ConflictsAt(i, c, store.bound)
    BY <2>2, LookupFinds DEF found, ConflictsAt
  <2> SUFFICES ASSUME NEW x \in audits', x \notin audits
               PROVE  \E i \in Ids : ConflictsAt(i, x.cmd, store.bound)
    BY <2>2
  <2>4. found.kind = "identity_conflict" /\ x.cmd = c
    BY <2>2
  <2> QED BY <2>3, <2>4
<1>2. CASE audits' = audits
  BY <1>2
<1>3. (\E h \in Handlers : LookupAnswer(h)) \/ audits' = audits
  BY DEF Next, Step, Submit, LookupMiss, Load, CommitWrite, CommitRefused, CommitDuplicate,
         CommitFault, Reconcile, Crash, InstallPolicy
<1> QED BY <1>1, <1>2, <1>3

(* Whoever asks, and however often, is told what was decided: a receipt     *)
(* answered by Handle stays the stored receipt of a decision with the       *)
(* caller's content and scope, and every audited conflict is a real one.    *)
THEOREM CanonicalAnswers == Spec => []AnswersAreCanonical
<1>1. Init => CanonicalInv
  BY DEF Init, NoReply, CanonicalInv
<1>2. TypeOK /\ CanonicalInv /\ [Next]_vars => CanonicalInv'
  <2> SUFFICES ASSUME TypeOK, CanonicalInv, [Next]_vars PROVE CanonicalInv'
    OBVIOUS
  <2>1. \A i \in Ids : store.bound[i] # NoCommand =>
          store'.bound[i] = store.bound[i] /\ store'.receipts[i] = store.receipts[i]
    BY DecisionsKept
  <2>2. ASSUME NEW h \in Handlers, pc'[h] = "idle", reply'[h].kind = "receipt" PROVE CanonicalAnswer(h)'
    <3>1. CASE pc[h] = "idle" /\ reply'[h] = reply[h] /\ cmd'[h] = cmd[h]
      <4>1. CanonicalAnswer(h)
        BY <2>2, <3>1 DEF CanonicalInv
      <4> QED BY <2>1, <3>1, <4>1 DEF CanonicalAnswer
    <3>2. CASE pc[h] # "idle" /\ cmd'[h] = cmd[h] /\ reply'[h] = LookupReceipt(cmd[h], store) /\ UNCHANGED store
      <4>1. cmd[h] \in Commands /\ store \in StoreType
        BY <3>2 DEF TypeOK
      <4> DEFINE r == LookupReceipt(cmd[h], store)
      <4>2. r.kind = "receipt" =>
              /\ r.id \in Ids /\ r.receipt = store.receipts[r.id] /\ store.bound[r.id] # NoCommand
              /\ Fingerprint(store.bound[r.id]) = Fingerprint(cmd[h])
              /\ ScopeOf(store.bound[r.id]) = ScopeOf(cmd[h])
        BY <4>1, LookupFinds, Zenon
      <4> HIDE DEF r
      <4>3. reply'[h] = r
        BY <3>2 DEF r
      <4> QED BY <2>2, <3>2, <4>2, <4>3 DEF CanonicalAnswer
    <3>3. ASSUME NEW acked \in BOOLEAN, CommitWrite(h, acked), cmd'[h] = cmd[h],
                 reply'[h] = Receipt(cmd[h].id, store'.receipts[cmd[h].id])
          PROVE  CanonicalAnswer(h)'
      <4> DEFINE c == cmd[h]  o == Outcome(c, snap[h])
      <4>1. /\ c \in Commands /\ store \in StoreType
            /\ \/ o = "APPLIED" /\ store' = CommitApplied(store, c)
               \/ o \in Rejections /\ store' = CommitRejected(store, c, o)
        BY <3>3, WriteStore DEF TypeOK
      <4> HIDE DEF c, o
      <4>2. store'.bound = [store.bound EXCEPT ![c.id] = c]
        <5>1. CASE o = "APPLIED" /\ store' = CommitApplied(store, c)
          BY <4>1, <5>1, AppliedBinding
        <5>2. CASE o \in Rejections /\ store' = CommitRejected(store, c, o)
          BY <4>1, <5>2, RejectedFields
        <5> QED BY <4>1, <5>1, <5>2
      <4>3. c.id \in Ids /\ store'.bound[c.id] = c /\ c # NoCommand
        BY <4>1, <4>2, StoreFields, CommandFields, CommandsAssumption
      <4>4. reply'[h].id = c.id /\ reply'[h].receipt = store'.receipts[c.id] /\ cmd'[h] = c
        BY <3>3 DEF Receipt, c
      <4> QED BY <4>3, <4>4 DEF CanonicalAnswer
    <3> QED BY <2>2, <3>1, <3>2, <3>3, AnswerSteps
  <2>3. ASSUME NEW x \in audits' PROVE \E i \in Ids : ConflictsAt(i, x.cmd, store'.bound)
    <3>1. \E i \in Ids : ConflictsAt(i, x.cmd, store.bound)
      BY <2>3, AuditSteps DEF CanonicalInv, vars
    <3>2. PICK i \in Ids : ConflictsAt(i, x.cmd, store.bound)
      BY <3>1
    <3> QED BY <2>1, <3>2 DEF ConflictsAt
  <2> QED BY <2>2, <2>3, AnswerSteps DEF CanonicalInv
<1>3. CanonicalInv => AnswersAreCanonical
  BY DEF CanonicalInv, CanonicalAnswer, ConflictsAt, AnswersAreCanonical
<1> QED BY <1>1, <1>2, <1>3, TypeCorrect, PTL DEF Spec
=============================================================================
