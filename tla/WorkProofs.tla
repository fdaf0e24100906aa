----------------------------- MODULE WorkProofs -----------------------------
(***************************************************************************)
(* Theorems about the work that is done and about the agents that do it:    *)
(* WorkLifecycle for every set of actors and every bound, Agents for every  *)
(* plan of tasks, every set of callers and every bound.                     *)
(***************************************************************************)
EXTENDS WorkLifecycle, Agents, FiniteSetTheorems, SequenceTheorems, TLAPS

USE DEF Absent, Rejected, Corrupt

-----------------------------------------------------------------------------
(* applyLifecycleAction yields a state or refuses; it never touches kind,   *)
(* revision, scope or ownership, and moves the epoch only to reopen.        *)
LEMMA LifecycleActionType ==
  ASSUME NEW s \in AggregateState, NEW a, ApplyLifecycleAction(s, a) # Rejected
  PROVE  LET t == ApplyLifecycleAction(s, a) IN
         /\ t \in AggregateState
         /\ t.kind = s.kind /\ t.revision = s.revision /\ t.scope = s.scope
         /\ t.owner = s.owner /\ t.version = s.version /\ t.assigned = s.assigned
         /\ t.epoch = IF a = "reopen" THEN s.epoch + 1 ELSE s.epoch
<1> DEFINE P(p) == <<s.phase, a, p>> \in LifecycleTransition(s.kind)
<1>1. CASE a \in {"block", "unblock", "reopen", "close"}
  <2>1. CASE a = "block"
    BY <2>1 DEF ApplyLifecycleAction, AggregateState, Conditions
  <2>2. CASE a = "unblock"
    BY <2>2 DEF ApplyLifecycleAction, AggregateState, Conditions
  <2>3. CASE a = "reopen"
    <3>1. ApplyLifecycleAction(s, a) = [s EXCEPT !.phase = "ACTIVE", !.epoch = s.epoch + 1]
      BY <2>3 DEF ApplyLifecycleAction
    <3>2. PICK n \in Nat : n = s.epoch + 1
      BY DEF AggregateState
    <3>3. LET t == [s EXCEPT !.phase = "ACTIVE", !.epoch = n] IN
          /\ t \in AggregateState /\ t.epoch = n
          /\ t.kind = s.kind /\ t.revision = s.revision /\ t.scope = s.scope
          /\ t.owner = s.owner /\ t.version = s.version /\ t.assigned = s.assigned
      BY DEF AggregateState, Phases
    <3> QED BY <2>3, <3>1, <3>2, <3>3
  <2>4. CASE a = "close"
    BY <2>4 DEF ApplyLifecycleAction, AggregateState, Phases
  <2> QED BY <1>1, <2>1, <2>2, <2>3, <2>4
<1>2. CASE a \notin {"block", "unblock", "reopen", "close"}
  <2>1. /\ \E p \in Phases : P(p)
        /\ ApplyLifecycleAction(s, a) = [s EXCEPT !.phase = CHOOSE p \in Phases : P(p)]
    BY <1>2 DEF ApplyLifecycleAction
  <2>2. (CHOOSE p \in Phases : P(p)) \in Phases
    BY <2>1
  <2> QED BY <1>2, <2>1, <2>2 DEF AggregateState
<1> QED BY <1>1, <1>2

(* The fields a command of each type has.                                   *)
LEMMA CommandFields ==
  ASSUME NEW c \in Command
  PROVE  /\ c.type = "reopen" => c.scope \in Nat /\ c.carry \in BOOLEAN
         /\ c.type \in OwnershipCommands => c.owner \in Actors
         /\ c.type \in {"handoff", "force_reassign"} => c.next \in Actors
BY DEF Command, OwnershipCommands

(* applyOwnership yields a state or refuses, and changes ownership only.    *)
LEMMA OwnershipType ==
  ASSUME NEW s \in AggregateState, NEW c \in Command, NEW id \in Nat,
         ApplyOwnership(c, s, id) # Rejected
  PROVE  LET t == ApplyOwnership(c, s, id) IN
         /\ t \in AggregateState
         /\ t.kind = s.kind /\ t.revision = s.revision /\ t.scope = s.scope
         /\ t.epoch = s.epoch /\ t.phase = s.phase /\ t.condition = s.condition
         /\ c.type \notin OwnershipCommands => t = s
         /\ t = s \/ t.version = s.version + 1
<1>0. s.version \in Nat /\ NoActor \in Actors \cup {NoActor} /\ 0 \in Nat
  BY DEF AggregateState
<1>1. ASSUME NEW owner \in Actors \cup {NoActor}, NEW n \in Nat
      PROVE  LET t == SetOwner(s, owner, n) IN
             /\ t \in AggregateState
             /\ t.kind = s.kind /\ t.revision = s.revision /\ t.scope = s.scope
             /\ t.epoch = s.epoch /\ t.phase = s.phase /\ t.condition = s.condition
             /\ t.version = s.version + 1
  <2>1. PICK v \in Nat : v = s.version + 1
    BY <1>0
  <2>2. LET t == [s EXCEPT !.owner = owner, !.version = v, !.assigned = n] IN
        /\ t \in AggregateState /\ t.version = v
        /\ t.kind = s.kind /\ t.revision = s.revision /\ t.scope = s.scope
        /\ t.epoch = s.epoch /\ t.phase = s.phase /\ t.condition = s.condition
    BY DEF AggregateState
  <2> QED BY <2>1, <2>2 DEF SetOwner
<1>2. CASE c.type = "acquire"
  <2>1. ApplyOwnership(c, s, id) = SetOwner(s, c.owner, id)
    BY <1>2 DEF ApplyOwnership
  <2> QED BY <1>1, <1>2, <2>1, CommandFields DEF OwnershipCommands
<1>3. CASE c.type = "release"
  <2>1. ApplyOwnership(c, s, id) = SetOwner(s, NoActor, 0)
    BY <1>3 DEF ApplyOwnership
  <2> QED BY <1>0, <1>1, <1>3, <2>1 DEF OwnershipCommands
<1>4. CASE c.type \in {"handoff", "force_reassign"}
  <2>1. ApplyOwnership(c, s, id) = SetOwner(s, c.next, id)
    BY <1>4 DEF ApplyOwnership
  <2> QED BY <1>1, <1>4, <2>1, CommandFields DEF OwnershipCommands
<1>5. CASE c.type \notin OwnershipCommands
  BY <1>5 DEF ApplyOwnership, OwnershipCommands
<1> QED BY <1>2, <1>3, <1>4, <1>5 DEF OwnershipCommands

(* The reopening part keeps the type and everything but scope and owner.    *)
LEMMA ReopenScopeType ==
  ASSUME NEW s \in AggregateState, NEW c \in Command
  PROVE  LET t == ReopenScope(c, s) IN
         /\ t \in AggregateState
         /\ t.kind = s.kind /\ t.revision = s.revision /\ t.version = s.version
         /\ t.epoch = s.epoch /\ t.phase = s.phase /\ t.condition = s.condition
         /\ c.type # "reopen" => t = s
         /\ t.owner \in {s.owner, NoActor}
<1>1. CASE c.type # "reopen"
  BY <1>1 DEF ReopenScope
<1>2. CASE c.type = "reopen"
  <2>1. c.scope \in Nat
    BY <1>2, CommandFields
  <2>2. CASE c.carry
    BY <1>2, <2>1, <2>2 DEF ReopenScope, AggregateState
  <2>3. CASE ~c.carry
    BY <1>2, <2>1, <2>3 DEF ReopenScope, AggregateState
  <2> QED BY <2>2, <2>3
<1> QED BY <1>1, <1>2

(* What evolveState does when it accepts, in the order it does it.          *)
LEMMA EvolveSteps ==
  ASSUME NEW s \in AggregateState, NEW c \in Command, EvolveState(c, s) # Rejected
  PROVE  \E acted, owned \in AggregateState :
           /\ acted = IF c.type \in LifecycleActions THEN ApplyLifecycleAction(s, c.type) ELSE s
           /\ owned = ApplyOwnership(c, ReopenScope(c, acted), s.revision + 1)
           /\ EvolveState(c, s) = [owned EXCEPT !.revision = s.revision + 1]
           /\ EvolveState(c, s) \in AggregateState
           /\ ~TerminalCommandProhibited(c.type, s.phase)
<1> DEFINE acted == IF c.type \in LifecycleActions THEN ApplyLifecycleAction(s, c.type) ELSE s
           owned == ApplyOwnership(c, ReopenScope(c, acted), s.revision + 1)
<1>1. /\ acted # Rejected /\ owned # Rejected
      /\ EvolveState(c, s) = [owned EXCEPT !.revision = s.revision + 1]
      /\ ~TerminalCommandProhibited(c.type, s.phase)
  BY DEF EvolveState
<1>2. acted \in AggregateState
  BY <1>1, LifecycleActionType
<1>3. ReopenScope(c, acted) \in AggregateState
  BY <1>2, ReopenScopeType
<1>4. PICK n \in Nat : n = s.revision + 1
  BY DEF AggregateState
<1>5. owned \in AggregateState
  BY <1>1, <1>3, <1>4, OwnershipType
<1>6. [owned EXCEPT !.revision = n] \in AggregateState
  <2> HIDE DEF owned
  <2> QED BY <1>5 DEF AggregateState
<1> QED BY <1>1, <1>2, <1>4, <1>5, <1>6

(* Every step creates the aggregate or decides a well-formed command.       *)
LEMMA StepIsDecision ==
  ASSUME Next
  PROVE  (\E kind \in Kinds : Create(kind)) \/ (\E c \in Command : Decide(c))
<1> DEFINE D == \E c \in Command : Decide(c)
<1>1. \A n \in 1 .. MaxScope : n \in Nat
  BY BoundsAssumption
<1>2. \A v \in 0 .. MaxRevision : v \in Nat
  BY BoundsAssumption
<1>3. Authorize \/ BeginPlanning \/ MarkReady \/ ActivateStory \/ RequestCompletion
        \/ RequestAcceptance \/ Block \/ Unblock \/ Close \/ CreateSuccessor
        \/ ApproveRelease \/ BindTask => D
  BY DEF Authorize, BeginPlanning, MarkReady, ActivateStory, RequestCompletion,
         RequestAcceptance, Block, Unblock, Close, CreateSuccessor, ApproveRelease,
         BindTask, Command
<1>4. Reopen => D
  BY <1>1 DEF Reopen, Command
<1>5. CorrectRecord => D
  BY DEF CorrectRecord, Command
<1>6. ActivateTask => D
  BY <1>2 DEF ActivateTask, Command
<1>7. AcquireOwnership => D
  BY <1>2 DEF AcquireOwnership, Command
<1>8. ReleaseOwnership => D
  BY <1>2 DEF ReleaseOwnership, Command
<1>9. Handoff => D
  BY <1>2 DEF Handoff, Command
<1>10. ForceReassign => D
  BY <1>2 DEF ForceReassign, Command
<1> QED BY <1>3, <1>4, <1>5, <1>6, <1>7, <1>8, <1>9, <1>10 DEF Next

-----------------------------------------------------------------------------
(* foldEvent stays within the aggregate states or refuses the stream.       *)
LEMMA FoldType ==
  ASSUME NEW s \in AggregateState \cup {Absent, Corrupt}, NEW c \in Command,
         NEW epoch \in Nat, s # Absent
  PROVE  FoldEvent(s, [cmd |-> c, epoch |-> epoch]) \in AggregateState \cup {Corrupt}
<1> DEFINE scoped == IF c.type # "reopen" THEN s
                     ELSE IF c.scope <= s.scope THEN Corrupt
                     ELSE [s EXCEPT !.scope = c.scope]
           acted == IF scoped = Corrupt \/ c.type \notin LifecycleActions THEN scoped
                    ELSE ApplyLifecycleAction(scoped, c.type)
           owned == IF acted \in {Corrupt, Rejected} \/ c.type \notin OwnershipCommands THEN acted
                    ELSE ApplyOwnership(c, acted, s.revision + 1)
<1>1. CASE s = Corrupt
  BY <1>1 DEF FoldEvent
<1>2. CASE s \in AggregateState
  <2>1. scoped \in AggregateState \cup {Corrupt}
    <3>1. c.type = "reopen" => c.scope \in Nat
      BY CommandFields
    <3>2. \A n \in Nat : [s EXCEPT !.scope = n] \in AggregateState
      BY <1>2 DEF AggregateState
    <3> QED BY <1>2, <3>1, <3>2
  <2>2. acted \in AggregateState \cup {Corrupt, Rejected}
    <3> HIDE DEF scoped
    <3> QED BY <2>1, LifecycleActionType
  <2>3. s.revision + 1 \in Nat
    BY <1>2 DEF AggregateState
  <2>4. owned \in AggregateState \cup {Corrupt, Rejected}
    <3> HIDE DEF acted
    <3> QED BY <2>2, <2>3, OwnershipType
  <2>5. FoldEvent(s, [cmd |-> c, epoch |-> epoch]) =
          IF owned \in {Corrupt, Rejected} \/ owned.epoch # epoch THEN Corrupt
          ELSE [owned EXCEPT !.revision = s.revision + 1]
    BY <1>2 DEF FoldEvent, AggregateState, Phases
  <2>6. \A t \in AggregateState, n \in Nat : [t EXCEPT !.revision = n] \in AggregateState
    BY DEF AggregateState
  <2> HIDE DEF owned
  <2> QED BY <2>3, <2>4, <2>5, <2>6
<1> QED BY <1>1, <1>2

(* The fold of no event is Absent exactly as long as nothing is stored.     *)
FoldStarted == (folded = Absent) => (stored = Absent)

(* The first state of an aggregate is well typed.                           *)
LEMMA CreatedType == \A kind \in Kinds : Created(kind) \in AggregateState
BY DEF Created, Kinds, AggregateState, Phases, Conditions

(* The markers of an absent and of a refused stream are no states.          *)
LEMMA AbsentIsNoState == Absent \notin AggregateState /\ Corrupt # Absent
BY DEF AggregateState, Phases

(* Every reachable snapshot, fold and log is well typed.                    *)
THEOREM TypeCorrect == Spec => []TypeOK
<1> DEFINE IInv == TypeOK /\ FoldStarted
<1>1. Init => IInv
  BY DEF Init, TypeOK, FoldStarted
<1>2. IInv /\ [Next]_vars => IInv'
  <2> SUFFICES ASSUME IInv, [Next]_vars PROVE IInv'
    OBVIOUS
  <2>1. CASE UNCHANGED vars
    BY <2>1 DEF vars, TypeOK, FoldStarted
  <2>2. ASSUME NEW kind \in Kinds, Create(kind) PROVE IInv'
    <3>1. stored' \in AggregateState /\ folded' \in AggregateState
      BY <2>2, CreatedType DEF Create
    <3>2. [cmd |-> [type |-> "create"], epoch |-> 1] \in [cmd : Command, epoch : Nat]
      BY DEF Command
    <3> QED BY <2>2, <3>1, <3>2, AbsentIsNoState DEF Create, TypeOK, FoldStarted
  <2>3. ASSUME NEW c \in Command, Decide(c) PROVE IInv'
    <3>1. stored \in AggregateState
      BY <2>3 DEF TypeOK, Decide
    <3>2. stored' \in AggregateState
      BY <2>3, <3>1, EvolveSteps DEF Decide
    <3>3. PICK epoch \in Nat : epoch = EvolveState(c, stored).epoch
      BY <2>3, <3>2 DEF Decide, AggregateState
    <3>4. folded' \in AggregateState \cup {Corrupt}
      BY <2>3, <3>1, <3>3, AbsentIsNoState, FoldType DEF Decide, TypeOK, FoldStarted
    <3>5. [cmd |-> c, epoch |-> epoch] \in [cmd : Command, epoch : Nat]
      OBVIOUS
    <3>6. log' \in Seq([cmd : Command, epoch : Nat])
      BY <2>3, <3>3, <3>5 DEF Decide, TypeOK
    <3> QED BY <3>2, <3>4, <3>6, AbsentIsNoState DEF TypeOK, FoldStarted
  <2> QED BY <2>1, <2>2, <2>3, StepIsDecision
<1>3. IInv => TypeOK
  OBVIOUS
<1> QED BY <1>1, <1>2, <1>3, PTL DEF Spec

-----------------------------------------------------------------------------
(***************************************************************************)
(* The fold agrees with the evaluator: on the state the evaluator saw, the  *)
(* event of an accepted command folds to the state it stored, although the  *)
(* fold takes the scope first, checks it again, and skips the ownership     *)
(* check of an activation; unless a reopening dropped the owner.            *)
(***************************************************************************)
LEMMA FoldAgrees ==
  ASSUME NEW s \in AggregateState, NEW c \in Command, EvolveState(c, s) # Rejected,
         CommandPolicy(c, s), c.type = "reopen" => c.carry
  PROVE  FoldEvent(s, [cmd |-> c, epoch |-> EvolveState(c, s).epoch]) = EvolveState(c, s)
<1> DEFINE e == [cmd |-> c, epoch |-> EvolveState(c, s).epoch]
<1>0. /\ \A t \in AggregateState : t # Corrupt /\ t # Rejected
      /\ s.revision + 1 \in Nat
  BY DEF AggregateState, Phases
<1>1. PICK acted \in AggregateState, owned \in AggregateState :
        /\ acted = IF c.type \in LifecycleActions THEN ApplyLifecycleAction(s, c.type) ELSE s
        /\ owned = ApplyOwnership(c, ReopenScope(c, acted), s.revision + 1)
        /\ EvolveState(c, s) = [owned EXCEPT !.revision = s.revision + 1]
        /\ EvolveState(c, s) \in AggregateState
  BY EvolveSteps
<1>2. EvolveState(c, s).epoch = owned.epoch
  BY <1>1 DEF AggregateState
<1>3. CASE c.type # "reopen"
  <2>1. ReopenScope(c, acted) = acted
    BY <1>3 DEF ReopenScope
  <2>2. owned = IF c.type \notin OwnershipCommands THEN acted
                ELSE ApplyOwnership(c, acted, s.revision + 1)
    BY <1>0, <1>1, <2>1, OwnershipType
  <2> QED BY <1>0, <1>1, <1>2, <1>3, <2>2 DEF FoldEvent
<1>4. CASE c.type = "reopen"
  <2> DEFINE scoped == [s EXCEPT !.scope = c.scope]
  <2>1. c.carry /\ c.scope \in Nat /\ c.scope > s.scope /\ c.type \in LifecycleActions
        /\ c.type \notin OwnershipCommands
    BY <1>4, CommandFields DEF CommandPolicy, LifecycleActions, OwnershipCommands
  <2>2. owned = [acted EXCEPT !.scope = c.scope]
    <3>1. ReopenScope(c, acted) = [acted EXCEPT !.scope = c.scope]
      BY <1>4, <2>1 DEF ReopenScope
    <3>2. ReopenScope(c, acted) \in AggregateState
      BY ReopenScopeType
    <3> QED BY <1>0, <1>1, <2>1, <3>1, <3>2, OwnershipType
  <2>3. /\ s.phase \in Reopenable(s.kind)
        /\ acted = [s EXCEPT !.phase = "ACTIVE", !.epoch = s.epoch + 1]
    BY <1>0, <1>1, <1>4, <2>1 DEF ApplyLifecycleAction
  <2>4. scoped \in AggregateState /\ scoped.phase = s.phase /\ scoped.kind = s.kind
        /\ scoped.epoch = s.epoch /\ scoped.revision = s.revision
    BY <2>1 DEF AggregateState
  <2>5. ApplyLifecycleAction(scoped, "reopen") =
          [scoped EXCEPT !.phase = "ACTIVE", !.epoch = s.epoch + 1]
    BY <2>3, <2>4 DEF ApplyLifecycleAction
  <2>6. ApplyLifecycleAction(scoped, "reopen") = owned
    <3>1. PICK n \in Nat : n = s.epoch + 1
      BY DEF AggregateState
    <3>2. [[s EXCEPT !.scope = c.scope] EXCEPT !.phase = "ACTIVE", !.epoch = n]
            = [[s EXCEPT !.phase = "ACTIVE", !.epoch = n] EXCEPT !.scope = c.scope]
      BY DEF AggregateState
    <3> QED BY <2>2, <2>3, <2>5, <3>1, <3>2
  <2>7. ~(c.scope <= s.scope)
    BY <2>1 DEF AggregateState
  <2>8. FoldEvent(s, e) = [owned EXCEPT !.revision = s.revision + 1]
    <3> HIDE DEF scoped
    <3>1. scoped = [s EXCEPT !.scope = c.scope]
      BY DEF scoped
    <3> QED BY <1>0, <1>1, <1>2, <1>4, <2>1, <2>4, <2>6, <2>7, <3>1 DEF FoldEvent
  <2> QED BY <1>1, <2>8
<1> QED BY <1>3, <1>4

(* As long as every reopening carried the owner forward, the fold of the    *)
(* accepted events is the stored snapshot: VerifyAggregate finds no         *)
(* difference and a projection rebuild accepts the stream.                  *)
THEOREM FoldReproduces == Spec => []FoldReproducesState
<1>1. Init => FoldReproducesState
  BY DEF Init, FoldReproducesState
<1>2. TypeOK /\ FoldReproducesState /\ [Next]_vars => FoldReproducesState'
  <2> SUFFICES ASSUME TypeOK, FoldReproducesState, [Next]_vars, OwnersCarried'
               PROVE  folded' = stored'
    BY DEF FoldReproducesState
  <2>1. CASE UNCHANGED vars
    BY <2>1 DEF vars, FoldReproducesState, OwnersCarried
  <2>2. ASSUME NEW kind \in Kinds, Create(kind) PROVE folded' = stored'
    BY <2>2 DEF Create
  <2>3. ASSUME NEW c \in Command, Decide(c) PROVE folded' = stored'
    <3> DEFINE e == [cmd |-> c, epoch |-> EvolveState(c, stored).epoch]
    <3>1. stored \in AggregateState /\ log \in Seq([cmd : Command, epoch : Nat])
      BY <2>3 DEF TypeOK, Decide
    <3>2. e \in [cmd : Command, epoch : Nat]
      BY <2>3, <3>1, EvolveSteps DEF Decide, AggregateState
    <3>3. log' = Append(log, e)
      BY <2>3 DEF Decide
    <3>4. OwnersCarried
      <4>1. \A i \in DOMAIN log : i \in DOMAIN log' /\ log'[i] = log[i]
        <5> HIDE DEF e
        <5> QED BY <3>1, <3>2, <3>3
      <4> QED BY <4>1 DEF OwnersCarried
    <3>5. c.type = "reopen" => c.carry
      <4>1. Len(log) + 1 \in DOMAIN log' /\ log'[Len(log) + 1] = e
        <5> HIDE DEF e
        <5> QED BY <3>1, <3>2, <3>3
      <4> QED BY <4>1 DEF OwnersCarried
    <3> QED BY <2>3, <3>1, <3>4, <3>5, FoldAgrees DEF Decide, FoldReproducesState
  <2> QED BY <2>1, <2>2, <2>3, StepIsDecision
<1> QED BY <1>1, <1>2, TypeCorrect, PTL DEF Spec

-----------------------------------------------------------------------------
(* One accepted command on terminal work.                                   *)
LEMMA TerminalStep ==
  ASSUME NEW s \in AggregateState, NEW c \in Command, EvolveState(c, s) # Rejected,
         s.phase \in Terminal
  PROVE  LET t == EvolveState(c, s) IN
         \/ t = [s EXCEPT !.revision = s.revision + 1]
         \/ s.phase # "CLOSED" /\ t.phase = "ACTIVE" /\ t.epoch = s.epoch + 1
         \/ t = [s EXCEPT !.revision = s.revision + 1, !.phase = "ACCEPTED"]
              /\ s.phase = "COMPLETED"
<1>1. PICK acted \in AggregateState, owned \in AggregateState :
        /\ acted = IF c.type \in LifecycleActions THEN ApplyLifecycleAction(s, c.type) ELSE s
        /\ owned = ApplyOwnership(c, ReopenScope(c, acted), s.revision + 1)
        /\ EvolveState(c, s) = [owned EXCEPT !.revision = s.revision + 1]
        /\ ~TerminalCommandProhibited(c.type, s.phase)
  BY EvolveSteps
<1>2. c.type \notin OwnershipCommands
      /\ (c.type \in {"reopen", "create_successor", "correct"}
            \/ (c.type \in {"accept", "approve_release"} /\ s.phase = "COMPLETED"))
  <2>1. c.type \in {"reopen", "create_successor", "correct"}
          \/ (c.type \in {"accept", "approve_release"} /\ s.phase = "COMPLETED")
    BY <1>1, Zenon DEF TerminalCommandProhibited
  <2> QED BY <2>1 DEF OwnershipCommands
<1>3. /\ owned # Rejected /\ acted # Rejected /\ s.revision + 1 \in Nat
      /\ ReopenScope(c, acted) \in AggregateState
  <2>1. \A t \in AggregateState : t # Rejected /\ t.revision \in Nat
    BY DEF AggregateState, Phases
  <2> QED BY <2>1, ReopenScopeType
<1>4. owned = ReopenScope(c, acted)
  BY <1>1, <1>2, <1>3, OwnershipType
<1>5. CASE c.type \in {"create_successor", "correct", "approve_release"}
  BY <1>1, <1>4, <1>5 DEF LifecycleActions, ReopenScope
<1>6. CASE c.type = "reopen"
  <2>1. /\ s.phase \in Reopenable(s.kind)
        /\ acted = [s EXCEPT !.phase = "ACTIVE", !.epoch = s.epoch + 1]
    BY <1>1, <1>3, <1>6 DEF ApplyLifecycleAction, LifecycleActions
  <2>2. acted.phase = "ACTIVE" /\ acted.epoch = s.epoch + 1
    BY <2>1 DEF AggregateState
  <2>3. owned.phase = "ACTIVE" /\ owned.epoch = s.epoch + 1
    BY <1>4, <2>2, ReopenScopeType
  <2>4. EvolveState(c, s).phase = owned.phase /\ EvolveState(c, s).epoch = owned.epoch
    BY <1>1 DEF AggregateState
  <2> QED BY <2>1, <2>3, <2>4 DEF Reopenable
<1>7. CASE c.type = "accept" /\ s.phase = "COMPLETED"
  <2> DEFINE P(p) == <<s.phase, c.type, p>> \in LifecycleTransition(s.kind)
  <2>1. /\ \E p \in Phases : P(p)
        /\ acted = [s EXCEPT !.phase = CHOOSE p \in Phases : P(p)]
    BY <1>1, <1>3, <1>7 DEF ApplyLifecycleAction, LifecycleActions
  <2>2. \A p \in Phases : P(p) => p = "ACCEPTED"
    BY <1>7 DEF LifecycleTransition
  <2>3. (CHOOSE p \in Phases : P(p)) = "ACCEPTED"
    BY <2>1, <2>2
  <2>4. owned = [s EXCEPT !.phase = "ACCEPTED"]
    BY <1>4, <1>7, <2>1, <2>3 DEF ReopenScope
  <2>5. PICK n \in Nat : n = s.revision + 1
    BY <1>3
  <2>6. [[s EXCEPT !.phase = "ACCEPTED"] EXCEPT !.revision = n]
          = [s EXCEPT !.revision = n, !.phase = "ACCEPTED"]
    BY DEF AggregateState
  <2> QED BY <1>1, <1>7, <2>4, <2>5, <2>6
<1> QED BY <1>2, <1>5, <1>6, <1>7

(* Terminal work is frozen for every history: only a reopening under a new  *)
(* epoch or the acceptance of a completed story moves it.                   *)
THEOREM TerminalWorkFrozen == Spec => TerminalFrozen
<1> DEFINE A == (stored # Absent /\ stored.phase \in Terminal) =>
       \/ stored' = [stored EXCEPT !.revision = stored.revision + 1]
       \/ stored.phase # "CLOSED" /\ stored'.phase = "ACTIVE" /\ stored'.epoch = stored.epoch + 1
       \/ stored' = [stored EXCEPT !.revision = stored.revision + 1, !.phase = "ACCEPTED"]
             /\ stored.phase = "COMPLETED"
<1>1. TypeOK /\ [Next]_vars => [A]_vars
  <2> SUFFICES ASSUME TypeOK, Next PROVE A
    OBVIOUS
  <2>1. ASSUME NEW kind \in Kinds, Create(kind) PROVE A
    BY <2>1 DEF Create
  <2>2. ASSUME NEW c \in Command, Decide(c) PROVE A
    BY <2>2, TerminalStep DEF Decide, TypeOK
  <2> QED BY <2>1, <2>2, StepIsDecision
<1> QED BY <1>1, TypeCorrect, PTL DEF Spec, TerminalFrozen

(* One accepted command that changes the owner.                             *)
LEMMA OwnerStep ==
  ASSUME NEW s \in AggregateState, NEW c \in Command, EvolveState(c, s) # Rejected,
         EvolveState(c, s).owner # s.owner
  PROVE  LET t == EvolveState(c, s) IN
         \/ t.version = s.version + 1 /\ t.epoch = s.epoch
         \/ t.owner = NoActor /\ t.epoch = s.epoch + 1
<1>1. PICK acted \in AggregateState, owned \in AggregateState :
        /\ acted = IF c.type \in LifecycleActions THEN ApplyLifecycleAction(s, c.type) ELSE s
        /\ owned = ApplyOwnership(c, ReopenScope(c, acted), s.revision + 1)
        /\ EvolveState(c, s) = [owned EXCEPT !.revision = s.revision + 1]
  BY EvolveSteps
<1> DEFINE scoped == ReopenScope(c, acted)
<1>2. /\ owned # Rejected /\ acted # Rejected /\ s.revision + 1 \in Nat
      /\ EvolveState(c, s).owner = owned.owner /\ EvolveState(c, s).epoch = owned.epoch
      /\ EvolveState(c, s).version = owned.version
  BY <1>1 DEF AggregateState, Phases
<1>3. /\ acted.owner = s.owner /\ acted.version = s.version
      /\ acted.epoch = IF c.type = "reopen" THEN s.epoch + 1 ELSE s.epoch
  BY <1>1, <1>2, LifecycleActionType DEF LifecycleActions
<1>4. /\ scoped \in AggregateState /\ scoped.version = acted.version /\ scoped.epoch = acted.epoch
      /\ scoped.owner \in {acted.owner, NoActor} /\ (c.type # "reopen" => scoped = acted)
  BY ReopenScopeType
<1>5. /\ owned.epoch = scoped.epoch
      /\ c.type \notin OwnershipCommands => owned = scoped
      /\ owned = scoped \/ owned.version = scoped.version + 1
  BY <1>1, <1>2, <1>4, OwnershipType
<1>6. "reopen" \notin OwnershipCommands
  BY DEF OwnershipCommands
<1> HIDE DEF scoped
<1> QED BY <1>2, <1>3, <1>4, <1>5, <1>6

(* The owner of an aggregate changes only under a new ownership version, or *)
(* is dropped by a reopening under a new epoch, in every history.           *)
THEOREM OwnershipVersioned == Spec => OwnerChangesAreVersioned
<1> DEFINE A == (stored # Absent /\ stored'.owner # stored.owner) =>
       \/ stored'.version = stored.version + 1 /\ stored'.epoch = stored.epoch
       \/ stored'.owner = NoActor /\ stored'.epoch = stored.epoch + 1
<1>1. TypeOK /\ [Next]_vars => [A]_vars
  <2> SUFFICES ASSUME TypeOK, Next PROVE A
    OBVIOUS
  <2>1. ASSUME NEW kind \in Kinds, Create(kind) PROVE A
    BY <2>1 DEF Create
  <2>2. ASSUME NEW c \in Command, Decide(c) PROVE A
    BY <2>2, OwnerStep DEF Decide, TypeOK
  <2> QED BY <2>1, <2>2, StepIsDecision
<1> QED BY <1>1, TypeCorrect, PTL DEF Spec, OwnerChangesAreVersioned

-----------------------------------------------------------------------------
(* The host of a role.  Who changes the process holds the host's mutex;     *)
(* whoever inspected it without knows it to be gone for as long as the role *)
(* is at the revision the inspection read, since a process is recorded with *)
(* the next one.                                                            *)

HostTypes ==
  /\ role \in RoleType \cup {Nil}
  /\ process \in ProcessType \cup {Nil}
  /\ hosted \in [Host!AllCallers -> HostCall \cup {Nil}]

(* The process that runs is on record.                                      *)
RecordedRuns == process /= Nil /\ process.state = "RUNNING" /\ process.recorded

(* Where a call holds the mutex, where it has read the role, and where it   *)
(* has found the process gone.                                              *)
Holding == {"starting", "started", "start failed", "stopping", "stopped", "stop failed"}
Reading == {"inspect", "gone", "heartbeat", "interrupted", "pause"}
FoundGone == {"gone", "interrupted"}

HostCallOK(c, x) ==
  /\ x.pc \in Holding => mutex = c
  /\ x.pc \in Holding \cup {"stop", "reconcile"} => role /= Nil
  /\ x.pc = "stopped" => process = Nil
  /\ x.pc \in Reading => x.seen /= Nil
  /\ x.seen /= Nil => role /= Nil /\ x.seen.revision <= role.revision
  /\ x.pc \in FoundGone /\ x.seen.revision = role.revision => ~RecordedRuns

HostInv ==
  /\ HostTypes
  /\ \A c \in Host!AllCallers : hosted[c] /= Nil => HostCallOK(c, hosted[c])
  /\ RecordedRuns => role /= Nil /\ role.status /= "STOPPED"

LEMMA HostProperty == HostInv => Host!StoppedHasNoProcess
  BY DEF HostInv, Host!StoppedHasNoProcess, RecordedRuns

LEMMA HostInit == ASSUME Host!Init PROVE HostInv
  BY DEF Host!Init, HostInv, HostTypes, RecordedRuns

(* A call that only moves on.                                               *)
LEMMA HostCalls ==
  ASSUME HostInv, NEW c \in Host!AllCallers, NEW x \in HostCall \cup {Nil}, hosted' = [hosted EXCEPT ![c] = x]
  PROVE  /\ hosted' \in [Host!AllCallers -> HostCall \cup {Nil}] /\ hosted'[c] = x
         /\ \A d \in Host!AllCallers : d /= c => hosted'[d] = hosted[d]
  BY DEF HostInv, HostTypes

(* What a call knows stays true when the role moves on to a higher          *)
(* revision and no process begins to run on record meanwhile.               *)
LEMMA HostKept ==
  ASSUME HostTypes, NEW d, NEW x \in HostCall, HostCallOK(d, x),
         role' \in RoleType \cup {Nil},
         role /= Nil => role' /= Nil /\ (role' = role \/ role'.revision > role.revision),
         x.pc \in Holding => mutex' = d,
         x.pc = "stopped" => process' = Nil,
         RecordedRuns' => RecordedRuns \/ (role /= Nil /\ role' /= role)
  PROVE  HostCallOK(d, x)'
<1> Nil \notin RoleType BY NilAssumption
<1> DEFINE K == RecordedRuns
<1>1. role \in RoleType \cup {Nil} /\ x.seen \in RoleType \cup {Nil} BY DEF HostTypes, HostCall
<1>2. x.seen /= Nil => role' /= Nil /\ x.seen.revision <= role'.revision
  BY <1>1 DEF HostCallOK, RoleType
<1>3. ASSUME x.pc \in FoundGone, x.seen.revision = role'.revision PROVE ~K'
  <2>1. x.seen /= Nil /\ role /= Nil BY <1>3 DEF HostCallOK, FoundGone, Reading
  <2>2. role' = role BY <1>1, <1>2, <1>3, <2>1 DEF HostCallOK, RoleType
  <2>3. ~K BY <2>2, <1>3 DEF HostCallOK
  <2> QED BY <2>2, <2>3
<1>4. x.pc \in Holding \cup {"stop", "reconcile"} => role' /= Nil BY DEF HostCallOK
<1>5. (x.pc \in Holding => mutex' = d) /\ (x.pc = "stopped" => process' = Nil) /\ (x.pc \in Reading => x.seen /= Nil)
  BY DEF HostCallOK
<1> QED BY <1>2, <1>3, <1>4, <1>5 DEF HostCallOK

(* A step of one call.                                                      *)
LEMMA HostMoves ==
  ASSUME HostInv, NEW c \in Host!AllCallers, NEW x \in HostCall \cup {Nil}, hosted' = [hosted EXCEPT ![c] = x],
         role' \in RoleType \cup {Nil}, process' \in ProcessType \cup {Nil},
         role /= Nil => role' /= Nil /\ (role' = role \/ role'.revision > role.revision),
         mutex' = mutex \/ mutex \in {Nil, c},
         process = Nil => process' = Nil \/ mutex = c,
         RecordedRuns' => RecordedRuns \/ (role /= Nil /\ role' /= role),
         RecordedRuns' => role' /= Nil /\ role'.status /= "STOPPED",
         x /= Nil => HostCallOK(c, x)'
  PROVE  HostInv'
<1> Nil \notin Host!AllCallers BY NilAssumption
<1>1. HostTypes /\ hosted \in [Host!AllCallers -> HostCall \cup {Nil}] BY DEF HostInv, HostTypes
<1>2. HostTypes' BY <1>1 DEF HostTypes
<1>3. ASSUME NEW d \in Host!AllCallers, hosted'[d] /= Nil PROVE HostCallOK(d, hosted[d])'
  <2>1. CASE d = c
    <3>1. hosted'[d] = x BY <1>1, <2>1
    <3> QED BY <3>1, <2>1, <1>3
  <2>2. CASE d /= c
    <3>1. PICK y \in HostCall : y = hosted[d] /\ y = hosted'[d] BY <1>1, <1>3, <2>2
    <3>2. HostCallOK(d, y) BY <3>1, <1>3 DEF HostInv
    <3>3. y.pc \in Holding => mutex' = d BY <3>2, <2>2 DEF HostCallOK
    <3>4. y.pc = "stopped" => process' = Nil BY <3>2, <2>2 DEF HostCallOK, Holding
    <3>5. HostCallOK(d, y)' BY <1>1, <3>2, <3>3, <3>4, HostKept
    <3> QED BY <3>1, <3>5
  <2> QED BY <2>1, <2>2
<1> QED BY <1>2, <1>3 DEF HostInv

(* A step of none.                                                          *)
LEMMA HostQuiet ==
  ASSUME HostInv, hosted' = hosted, mutex' = mutex,
         role' \in RoleType \cup {Nil}, process' \in ProcessType \cup {Nil},
         role /= Nil => role' /= Nil /\ (role' = role \/ role'.revision > role.revision),
         process = Nil => process' = Nil,
         RecordedRuns' => RecordedRuns,
         RecordedRuns' => role' /= Nil /\ role'.status /= "STOPPED"
  PROVE  HostInv'
<1> PICK c \in Host!AllCallers : c = Host!Recovery BY DEF Host!AllCallers
<1>1. HostTypes /\ hosted \in [Host!AllCallers -> HostCall \cup {Nil}] BY DEF HostInv, HostTypes
<1>2. PICK x \in HostCall \cup {Nil} : x = hosted[c] BY <1>1
<1>3. x /= Nil => HostCallOK(c, x)' BY <1>1, <1>2, HostKept DEF HostInv, HostCallOK
<1> QED BY <1>1, <1>2, <1>3, HostMoves

(* When the calls are gone nothing is left to know.                         *)
LEMMA HostDown ==
  ASSUME HostInv, hosted' = [c \in Host!AllCallers |-> Nil], role' = role, process' = Nil
  PROVE  HostInv'
  BY DEF HostInv, HostTypes, RecordedRuns

(* What a compare-and-swap writes.                                          *)
LEMMA HostWrites ==
  ASSUME NEW st \in Host!Statuses, NEW r \in RoleType, role = r, Host!CompareAndSwapRole([role EXCEPT !.status = st])
  PROVE  role' \in RoleType /\ role' /= Nil /\ role'.status = st /\ role'.epoch = role.epoch /\ role'.revision = role.revision + 1
         /\ role' /= role /\ role'.revision > role.revision
<1> Nil \notin RoleType BY NilAssumption
<1>1. role' = [[role EXCEPT !.status = st] EXCEPT !.revision = role.revision + 1] BY DEF Host!CompareAndSwapRole
<1>2. role'.revision = role.revision + 1 /\ role.revision \in Nat BY <1>1 DEF RoleType
<1>3. PICK q \in RoleType : q = [role EXCEPT !.status = st] /\ q.status = st /\ q.epoch = role.epoch BY DEF RoleType
<1>4. PICK n \in Nat : n = role.revision + 1 BY <1>2
<1>5. [q EXCEPT !.revision = n] \in RoleType /\ [q EXCEPT !.revision = n].status = st
      /\ [q EXCEPT !.revision = n].epoch = role.epoch
  BY <1>3 DEF RoleType
<1>6. role' = [q EXCEPT !.revision = n] BY <1>1, <1>3, <1>4, Zenon
<1>7. role'.revision > role.revision BY <1>2
<1>8. role'.revision /= role.revision BY <1>2
<1>9. role' /= role BY <1>8, Zenon
<1>10. role' \in RoleType /\ role'.status = st /\ role'.epoch = role.epoch BY <1>5, <1>6, Zenon
<1> QED BY <1>2, <1>7, <1>9, <1>10

(* A call that moves on or ends.                                            *)
LEMMA HostGoes ==
  ASSUME HostInv, NEW c \in Host!AllCallers, NEW pc \in HostPoints, hosted[c] /= Nil, Host!Go(c, pc)
  PROVE  \E x \in HostCall : /\ hosted' = [hosted EXCEPT ![c] = x] /\ x.pc = pc /\ x.seen = hosted[c].seen
  <1>1. hosted \in [Host!AllCallers -> HostCall \cup {Nil}] BY DEF HostInv, HostTypes
  <1>2. [hosted[c] EXCEPT !.pc = pc] \in HostCall /\ hosted' = [hosted EXCEPT ![c] = [hosted[c] EXCEPT !.pc = pc]]
    BY <1>1 DEF HostCall, Host!Go
  <1> QED BY <1>1, <1>2 DEF HostCall
LEMMA HostFails ==
  ASSUME HostInv, NEW c \in Host!AllCallers, hosted[c] /= Nil, Host!Fail(c) \/ Host!Return(c)
  PROVE  \E x \in HostCall \cup {Nil} : /\ hosted' = [hosted EXCEPT ![c] = x]
                                        /\ x /= Nil => x.pc = "failed" /\ x.seen = hosted[c].seen
  <1> Nil \notin HostCall BY NilAssumption
  <1>1. CASE hosted' = [hosted EXCEPT ![c] = Nil] BY <1>1
  <1>2. CASE Host!Go(c, "failed")
    <2>1. "failed" \in HostPoints BY DEF HostPoints
    <2>2. PICK x \in HostCall : hosted' = [hosted EXCEPT ![c] = x] /\ x.pc = "failed" /\ x.seen = hosted[c].seen
      BY <1>2, <2>1, HostGoes
    <2> QED BY <2>2
  <1> QED BY <1>1, <1>2 DEF Host!Fail, Host!Return

(* A call that holds nothing and knows no more than what it has read.       *)
LEMMA HostIdle ==
  ASSUME HostInv, NEW c \in Host!AllCallers, NEW x \in HostCall, hosted[c] /= Nil, x.seen = hosted[c].seen,
         x.pc \notin Holding \cup Reading \cup {"stop", "reconcile"},
         role' \in RoleType \cup {Nil},
         role /= Nil => role' /= Nil /\ (role' = role \/ role'.revision > role.revision)
  PROVE  HostCallOK(c, x)'
<1> Nil \notin RoleType BY NilAssumption
<1>1. role \in RoleType \cup {Nil} /\ x.seen \in RoleType \cup {Nil} BY DEF HostInv, HostTypes, HostCall
<1>2. x.seen /= Nil => role /= Nil /\ x.seen.revision <= role.revision BY DEF HostInv, HostCallOK
<1>3. x.seen /= Nil => role' /= Nil /\ x.seen.revision <= role'.revision BY <1>1, <1>2 DEF RoleType
<1> QED BY <1>3 DEF HostCallOK, Holding, Reading, FoundGone

(* A call that fails, or ends, leaving all but the mutex.                   *)
LEMMA HostGivesUp ==
  ASSUME HostInv, NEW c \in Host!AllCallers, hosted[c] /= Nil, Host!Fail(c) \/ Host!Return(c),
         role' = role, process' = process \/ process' = Nil, mutex' = mutex \/ mutex = c
  PROVE  HostInv'
<1> Nil \notin HostCall BY NilAssumption
<1>1. PICK x \in HostCall \cup {Nil} : /\ hosted' = [hosted EXCEPT ![c] = x]
                                       /\ x /= Nil => x.pc = "failed" /\ x.seen = hosted[c].seen
  BY HostFails
<1>2. role' \in RoleType \cup {Nil} /\ process' \in ProcessType \cup {Nil} BY DEF HostInv, HostTypes
<1>3. x /= Nil => HostCallOK(c, x)' BY <1>1, <1>2, HostIdle DEF Holding, Reading
<1>4. (RecordedRuns' => RecordedRuns) /\ (RecordedRuns' => role' /= Nil /\ role'.status /= "STOPPED")
  BY DEF RecordedRuns, HostInv
<1> QED BY <1>1, <1>2, <1>3, <1>4, HostMoves

(* Inspecting a process never makes one run; what is found stopped is gone. *)
LEMMA HostInspected ==
  ASSUME HostInv, NEW e, process' = Host!Inspected(e)
  PROVE  /\ process' \in {process, Nil}
         /\ Host!Inspect(e) = "STOPPED" => process' = Nil
<1>1. process' = Nil \/ process' = process BY DEF Host!Inspected
<1>2. ASSUME process /= Nil, Host!Inspect(e) = "STOPPED" PROVE process' = Nil
  <2>1. process.epoch = e BY <1>2 DEF Host!Inspect
  <2>2. process.state /= "RUNNING" BY <1>2, <2>1 DEF Host!Inspect
  <2> QED BY <2>1, <2>2, <1>2 DEF Host!Inspected
<1> QED BY <1>1, <1>2

LEMMA HostBegins ==
  ASSUME HostInv, NEW c \in Host!AllCallers, NEW op \in {"ENSURE", "STOP", "RESTART", "RECONCILE"}, Host!Begin(c, op)
  PROVE  HostInv'
<1> Nil \notin HostCall BY NilAssumption
<1>1. PICK first : first = CASE op = "RECONCILE" -> "reconcile" [] op = "ENSURE" -> "ensure" [] op = "STOP" -> "stop"
                     [] OTHER -> IF role = Nil \/ role.status = "STOPPED" THEN "start" ELSE "stop"
  OBVIOUS
<1> DEFINE x == [op |-> op, pc |-> first, seen |-> Nil, paused |-> FALSE]
<1>2. hosted' = [hosted EXCEPT ![c] = x] /\ UNCHANGED <<role, process, mutex>> BY <1>1 DEF Host!Begin
<1>3. first \in {"reconcile", "ensure", "stop", "start"} BY <1>1
<1>4. first \in {"reconcile", "stop"} => role /= Nil BY <1>1 DEF Host!Begin
<1>5. x \in HostCall BY <1>3 DEF HostCall, HostPoints
<1>6. HostCallOK(c, x)' BY <1>2, <1>3, <1>4 DEF HostCallOK, Holding, Reading, FoundGone
<1> HIDE DEF x
<1>7. RecordedRuns' = RecordedRuns BY <1>2 DEF RecordedRuns
<1>8. role \in RoleType \cup {Nil} /\ process \in ProcessType \cup {Nil} BY DEF HostInv, HostTypes
<1>9. RecordedRuns => role /= Nil /\ role.status /= "STOPPED" BY DEF HostInv
<1> QED BY <1>2, <1>5, <1>6, <1>7, <1>8, <1>9, HostMoves

(* A call at work, and a write of its own.                                  *)
LEMMA HostAt ==
  ASSUME HostInv, NEW c \in Host!AllCallers, NEW pc \in HostPoints, Host!At(c, pc)
  PROVE  /\ hosted[c] /= Nil /\ hosted[c] \in HostCall /\ HostCallOK(c, hosted[c]) /\ hosted[c].pc = pc
         /\ role \in RoleType \cup {Nil} /\ process \in ProcessType \cup {Nil}
         /\ RecordedRuns => role /= Nil /\ role.status /= "STOPPED"
  BY DEF HostInv, HostTypes, Host!At

(* A call that goes on to where it knows nothing of the process, having     *)
(* left it or lost it, and the role as it is or with a status of its own.   *)
LEMMA HostGoesOn ==
  ASSUME HostInv, NEW c \in Host!AllCallers, hosted[c] /= Nil,
         NEW pc \in HostPoints \ (Holding \cup Reading \cup {"stop", "reconcile"}), Host!Go(c, pc),
         role' \in RoleType \cup {Nil}, process' \in {process, Nil},
         role /= Nil => role' /= Nil /\ (role' = role \/ role'.revision > role.revision),
         mutex' = mutex \/ mutex = c,
         RecordedRuns' => role' /= Nil /\ role'.status /= "STOPPED"
  PROVE  HostInv'
<1>1. PICK x \in HostCall : hosted' = [hosted EXCEPT ![c] = x] /\ x.pc = pc /\ x.seen = hosted[c].seen BY HostGoes
<1>2. HostCallOK(c, x)' BY <1>1, HostIdle
<1>3. process' \in ProcessType \cup {Nil} BY DEF HostInv, HostTypes
<1>4. RecordedRuns' => RecordedRuns BY DEF RecordedRuns
<1> QED BY <1>1, <1>2, <1>3, <1>4, HostMoves

(* A call that notes what it has read.                                      *)
Noted(y, pc, r) == [[y EXCEPT !.pc = pc] EXCEPT !.seen = r]
LEMMA HostSees ==
  ASSUME NEW y \in HostCall, NEW pc \in HostPoints, NEW r \in RoleType \cup {Nil}
  PROVE  Noted(y, pc, r) \in HostCall /\ Noted(y, pc, r).pc = pc /\ Noted(y, pc, r).seen = r
<1> DEFINE q == [y EXCEPT !.pc = pc]
<1>1. q \in HostCall /\ q.pc = pc BY DEF HostCall
<1> HIDE DEF q
<1>2. [q EXCEPT !.seen = r] \in HostCall /\ [q EXCEPT !.seen = r].pc = pc /\ [q EXCEPT !.seen = r].seen = r
  BY <1>1 DEF HostCall
<1> QED BY <1>1, <1>2, Zenon DEF q, Noted

(* A call that goes on with the mutex.                                      *)
LEMMA HostTakes ==
  ASSUME HostInv, NEW c \in Host!AllCallers, hosted[c] /= Nil, HostCallOK(c, hosted[c]),
         NEW pc \in Holding \ {"stopped"}, Host!Go(c, pc),
         role' \in RoleType, process' = process, role /= Nil => role' = role \/ role'.revision > role.revision,
         mutex = Nil, mutex' = c,
         RecordedRuns => role' /= Nil /\ role'.status /= "STOPPED"
  PROVE  HostInv'
<1> Nil \notin HostCall /\ Nil \notin RoleType BY NilAssumption
<1>0. pc \in HostPoints BY DEF Holding, HostPoints
<1>1. PICK x \in HostCall : hosted' = [hosted EXCEPT ![c] = x] /\ x.pc = pc /\ x.seen = hosted[c].seen BY <1>0, HostGoes
<1>2. role \in RoleType \cup {Nil} /\ process \in ProcessType \cup {Nil} BY DEF HostInv, HostTypes
<1>3. x.seen \in RoleType \cup {Nil} /\ (x.seen /= Nil => role /= Nil /\ x.seen.revision <= role.revision)
  BY <1>1 DEF HostCallOK, HostCall
<1>4. x.seen /= Nil => x.seen.revision <= role'.revision BY <1>2, <1>3 DEF RoleType
<1>5. HostCallOK(c, x)' BY <1>1, <1>4 DEF HostCallOK, Holding, Reading, FoundGone
<1>6. RecordedRuns' = RecordedRuns BY DEF RecordedRuns
<1>7. role /= Nil => role' /= Nil /\ (role' = role \/ role'.revision > role.revision) OBVIOUS
<1> QED BY <1>1, <1>2, <1>5, <1>6, <1>7, HostMoves
LEMMA HostHolds ==
  ASSUME HostInv, NEW c \in Host!AllCallers, hosted[c] /= Nil, HostCallOK(c, hosted[c]),
         NEW pc \in Holding, Host!Go(c, pc), pc = "stopped" => process' = Nil,
         role \in RoleType, role' = role, process' \in ProcessType \cup {Nil},
         mutex = c, mutex' = mutex, RecordedRuns' => RecordedRuns
  PROVE  HostInv'
<1> Nil \notin HostCall /\ Nil \notin RoleType BY NilAssumption
<1>0. pc \in HostPoints BY DEF Holding, HostPoints
<1>1. PICK x \in HostCall : hosted' = [hosted EXCEPT ![c] = x] /\ x.pc = pc /\ x.seen = hosted[c].seen BY <1>0, HostGoes
<1>2. x.seen /= Nil => x.seen.revision <= role.revision BY <1>1 DEF HostCallOK
<1>3. HostCallOK(c, x)' BY <1>1, <1>2 DEF HostCallOK, Holding, Reading, FoundGone
<1>4. RecordedRuns => role.status /= "STOPPED" BY DEF HostInv
<1> QED BY <1>1, <1>3, <1>4, HostMoves

LEMMA HostEnsureLoad ==
  ASSUME HostInv, NEW c \in Host!AllCallers, Host!EnsureLoad(c)
  PROVE  HostInv'
<1> Nil \notin HostCall /\ Nil \notin RoleType BY NilAssumption
<1>1. hosted[c] /= Nil /\ hosted[c] \in HostCall /\ role \in RoleType \cup {Nil} /\ process \in ProcessType \cup {Nil}
      /\ (RecordedRuns => role /= Nil /\ role.status /= "STOPPED") /\ hosted \in [Host!AllCallers -> HostCall \cup {Nil}]
  BY HostAt DEF Host!EnsureLoad, HostPoints, HostInv, HostTypes
<1>2. PICK pc : pc = IF role = Nil \/ role.status \in {"STOPPED", "FAILED"} THEN "start" ELSE "inspect" OBVIOUS
<1>3. PICK r \in RoleType \cup {Nil} : r = role BY <1>1
<1>4. PICK x \in HostCall : x = Noted(hosted[c], pc, r) /\ x.pc = pc /\ x.seen = r
  <2>1. pc \in HostPoints BY <1>2 DEF HostPoints
  <2>2. PICK y \in HostCall : y = hosted[c] BY <1>1
  <2>3. Noted(y, pc, r) \in HostCall /\ Noted(y, pc, r).pc = pc /\ Noted(y, pc, r).seen = r BY <2>1, HostSees
  <2> QED BY <2>2, <2>3, Zenon
<1>5. hosted' = [hosted EXCEPT ![c] = x] /\ UNCHANGED <<role, process, mutex>>
  BY <1>1, <1>2, <1>3, <1>4 DEF Host!EnsureLoad, Noted
<1>6. HostCallOK(c, x)'
  <2>1. x.seen = role /\ (role /= Nil => role.revision <= role.revision) BY <1>1, <1>3, <1>4 DEF RoleType
  <2>2. x.pc \in {"start", "inspect"} /\ (x.pc = "inspect" => role /= Nil) BY <1>2, <1>4
  <2> QED BY <1>5, <2>1, <2>2 DEF HostCallOK, Holding, Reading, FoundGone
<1>7. RecordedRuns' = RecordedRuns BY <1>5 DEF RecordedRuns
<1> QED BY <1>1, <1>5, <1>6, <1>7, HostMoves

(* The process is found running, and the state that was read is returned.   *)
LEMMA HostEnsured ==
  ASSUME HostInv, NEW c \in Host!AllCallers, hosted[c] \in HostCall, NEW r \in RoleType, Host!Ensured(c, r)
  PROVE  \E x \in HostCall : hosted' = [hosted EXCEPT ![c] = x] /\ x.pc \in {"pause", "register"} /\ x.seen = r
<1>1. hosted \in [Host!AllCallers -> HostCall \cup {Nil}] BY DEF HostInv, HostTypes
<1>2. PICK pc : pc = IF hosted[c].paused THEN "pause" ELSE "register" OBVIOUS
<1>3. pc \in {"pause", "register"} /\ pc \in HostPoints BY <1>2 DEF HostPoints
<1>4. PICK x \in HostCall : x = Noted(hosted[c], pc, r) /\ x.pc = pc /\ x.seen = r
  <2>1. PICK y \in HostCall : y = hosted[c] OBVIOUS
  <2>2. Noted(y, pc, r) \in HostCall /\ Noted(y, pc, r).pc = pc /\ Noted(y, pc, r).seen = r BY <1>3, HostSees
  <2> QED BY <2>1, <2>2, Zenon
<1>5. hosted' = [hosted EXCEPT ![c] = x] BY <1>1, <1>2, <1>4 DEF Host!Ensured, Noted
<1> QED BY <1>3, <1>4, <1>5

LEMMA HostEnsureInspect ==
  ASSUME HostInv, NEW c \in Host!AllCallers, Host!EnsureInspect(c)
  PROVE  HostInv'
<1> Nil \notin HostCall /\ Nil \notin RoleType BY NilAssumption
<1>1. /\ hosted[c] /= Nil /\ hosted[c] \in HostCall /\ HostCallOK(c, hosted[c]) /\ hosted[c].pc = "inspect"
      /\ role \in RoleType \cup {Nil} /\ process \in ProcessType \cup {Nil}
      /\ RecordedRuns => role /= Nil /\ role.status /= "STOPPED"
  BY HostAt DEF Host!EnsureInspect, HostPoints
<1>2. PICK s : s = hosted[c].seen OBVIOUS
<1>3. s \in RoleType /\ role \in RoleType /\ s.revision <= role.revision
  BY <1>1, <1>2 DEF HostCallOK, Reading, HostCall
<1>4. UNCHANGED <<role, mutex>> /\ process' = Host!Inspected(s.epoch) BY <1>2 DEF Host!EnsureInspect
<1>5. process' \in {process, Nil} /\ (Host!Inspect(s.epoch) = "STOPPED" => process' = Nil) BY <1>4, HostInspected
<1>6. RecordedRuns' => RecordedRuns BY <1>5 DEF RecordedRuns
<1>7. CASE Host!Ensured(c, s)
  <2>1. PICK x \in HostCall : hosted' = [hosted EXCEPT ![c] = x] /\ x.pc \in {"pause", "register"} /\ x.seen = s
    BY <1>1, <1>3, <1>7, HostEnsured
  <2>2. HostCallOK(c, x)' BY <1>3, <1>4, <2>1 DEF HostCallOK, Holding, Reading, FoundGone
  <2> QED BY <1>1, <1>4, <1>5, <1>6, <2>1, <2>2, HostMoves
<1>8. CASE Host!Inspect(s.epoch) = "STOPPED" /\ Host!Go(c, "gone")
  <2>1. PICK x \in HostCall : hosted' = [hosted EXCEPT ![c] = x] /\ x.pc = "gone" /\ x.seen = s
    <3>1. "gone" \in HostPoints BY DEF HostPoints
    <3>2. PICK x \in HostCall : hosted' = [hosted EXCEPT ![c] = x] /\ x.pc = "gone" /\ x.seen = hosted[c].seen
      BY <1>1, <1>8, <3>1, HostGoes
    <3> QED BY <1>2, <3>2
  <2>2. ~RecordedRuns' BY <1>5, <1>8 DEF RecordedRuns
  <2>3. HostCallOK(c, x)' BY <1>3, <1>4, <2>1, <2>2 DEF HostCallOK, Holding, Reading, FoundGone
  <2> QED BY <1>1, <1>4, <1>5, <2>1, <2>2, <2>3, HostMoves
<1>9. CASE Host!Fail(c) BY <1>1, <1>4, <1>5, <1>9, HostGivesUp
<1>10. Host!Ensured(c, s) \/ (Host!Inspect(s.epoch) = "STOPPED" /\ Host!Go(c, "gone")) \/ Host!Fail(c)
  BY <1>2 DEF Host!EnsureInspect
<1> QED BY <1>7, <1>8, <1>9, <1>10

LEMMA HostEnsureStopped ==
  ASSUME HostInv, NEW c \in Host!AllCallers, Host!EnsureStopped(c)
  PROVE  HostInv'
<1> Nil \notin HostCall /\ Nil \notin RoleType BY NilAssumption
<1>1. /\ hosted[c] /= Nil /\ HostCallOK(c, hosted[c]) /\ hosted[c].pc = "gone" /\ hosted[c] \in HostCall
      /\ role \in RoleType \cup {Nil} /\ process \in ProcessType \cup {Nil}
  BY HostAt DEF Host!EnsureStopped, HostPoints
<1>2. UNCHANGED <<process, mutex>> BY DEF Host!EnsureStopped
<1>3. role \in RoleType BY <1>1 DEF HostCallOK, Reading
<1>4. CASE Host!AsSeen(hosted[c].seen) /\ Host!CompareAndSwapRole([role EXCEPT !.status = "STOPPED"]) /\ Host!Go(c, "start")
  <2>1. role' \in RoleType /\ role'.revision > role.revision
    BY <1>3, <1>4, HostWrites DEF Host!Statuses
  <2>2. ~RecordedRuns BY <1>1, <1>4 DEF HostCallOK, FoundGone, Host!AsSeen
  <2>3. ~RecordedRuns' BY <1>2, <2>2 DEF RecordedRuns
  <2>4. "start" \in HostPoints \ (Holding \cup Reading \cup {"stop", "reconcile"}) BY DEF HostPoints, Holding, Reading
  <2> QED BY <1>1, <1>2, <1>4, <2>1, <2>3, <2>4, HostGoesOn
<1>5. CASE Host!Fail(c) /\ role' = role BY <1>1, <1>2, <1>5, HostGivesUp
<1> QED BY <1>4, <1>5 DEF Host!EnsureStopped

LEMMA HostStart ==
  ASSUME HostInv, NEW c \in Host!AllCallers, Host!Start(c)
  PROVE  HostInv'
<1> Nil \notin HostCall /\ Nil \notin RoleType /\ Nil \notin Host!AllCallers BY NilAssumption
<1>1. /\ hosted[c] /= Nil /\ HostCallOK(c, hosted[c]) /\ hosted[c] \in HostCall
      /\ role \in RoleType \cup {Nil} /\ process \in ProcessType \cup {Nil}
      /\ RecordedRuns => role /= Nil /\ role.status /= "STOPPED"
  BY HostAt DEF Host!Start, HostPoints
<1>2. UNCHANGED process BY DEF Host!Start
<1>3. CASE Host!Fail(c) /\ role' = role /\ mutex' = mutex BY <1>1, <1>2, <1>3, HostGivesUp
<1>4. CASE role' = [status |-> "STARTING", epoch |-> 1, revision |-> 1] /\ role = Nil /\ mutex' = c /\ mutex = Nil /\ Host!Go(c, "starting")
  <2>1. role' \in RoleType BY <1>4 DEF RoleType, Host!Statuses
  <2>2. "starting" \in Holding \ {"stopped"} BY DEF Holding
  <2> QED BY <1>1, <1>2, <1>4, <2>1, <2>2, HostTakes
<1>5. CASE /\ role /= Nil /\ mutex' = c /\ mutex = Nil /\ Host!Go(c, "starting")
           /\ Host!CompareAndSwapRole([role EXCEPT !.status = "STARTING", !.epoch = @ + 1])
  <2>1. role' \in RoleType /\ role'.status = "STARTING" /\ role'.revision > role.revision
    <3>1. PICK q \in RoleType : q = [role EXCEPT !.status = "STARTING", !.epoch = @ + 1] /\ q.status = "STARTING"
      <4>1. PICK e \in Nat : e = role.epoch + 1 BY <1>1, <1>5 DEF RoleType
      <4>0. [role EXCEPT !.status = "STARTING"] \in RoleType /\ [role EXCEPT !.status = "STARTING"].status = "STARTING"
        BY <1>1, <1>5 DEF RoleType, Host!Statuses
      <4>2. PICK p \in RoleType : p = [role EXCEPT !.status = "STARTING"] /\ p.status = "STARTING" BY <4>0, Zenon
      <4>3. [p EXCEPT !.epoch = e] \in RoleType /\ [p EXCEPT !.epoch = e].status = "STARTING" BY <4>2 DEF RoleType
      <4> QED BY <4>1, <4>2, <4>3, Zenon
    <3>2. role.revision \in Nat BY <1>1, <1>5 DEF RoleType
    <3>3. PICK n \in Nat : n = role.revision + 1 BY <3>2
    <3>4. [q EXCEPT !.revision = n] \in RoleType /\ [q EXCEPT !.revision = n].status = "STARTING"
          /\ [q EXCEPT !.revision = n].revision = n
      BY <3>1 DEF RoleType
    <3>5. role' = [q EXCEPT !.revision = n] BY <1>5, <3>1, <3>3, Zenon DEF Host!CompareAndSwapRole
    <3>6. role' \in RoleType /\ role'.status = "STARTING" /\ role'.revision = n BY <3>4, <3>5, Zenon
    <3> QED BY <3>2, <3>3, <3>6
  <2>2. "starting" \in Holding \ {"stopped"} BY DEF Holding
  <2> QED BY <1>1, <1>2, <1>5, <2>1, <2>2, HostTakes
<1> QED BY <1>3, <1>4, <1>5 DEF Host!Start, Host!Free

LEMMA HostRuntimeStart ==
  ASSUME HostInv, NEW c \in Host!AllCallers, Host!RuntimeStart(c)
  PROVE  HostInv'
<1> Nil \notin HostCall /\ Nil \notin RoleType /\ Nil \notin ProcessType BY NilAssumption
<1>1. /\ hosted[c] /= Nil /\ HostCallOK(c, hosted[c]) /\ hosted[c] \in HostCall /\ hosted[c].pc = "starting"
      /\ role \in RoleType \cup {Nil} /\ process \in ProcessType \cup {Nil}
      /\ RecordedRuns => role /= Nil /\ role.status /= "STOPPED"
  BY HostAt DEF Host!RuntimeStart, HostPoints
<1>2. UNCHANGED <<role, mutex>> BY DEF Host!RuntimeStart
<1>3. mutex = c /\ role \in RoleType BY <1>1 DEF HostCallOK, Holding
<1>4. CASE process' = [epoch |-> role.epoch, state |-> "RUNNING", recorded |-> FALSE] /\ Host!Go(c, "started")
  <2>1. process' \in ProcessType /\ ~RecordedRuns' BY <1>3, <1>4 DEF RoleType, ProcessType, RecordedRuns
  <2>2. "started" \in Holding \ {"stopped"} BY DEF Holding
  <2> QED BY <1>1, <1>2, <1>3, <1>4, <2>1, <2>2, HostHolds
<1>5. CASE process' = process /\ Host!Go(c, "start failed")
  <2>1. RecordedRuns' = RecordedRuns BY <1>5 DEF RecordedRuns
  <2>2. "start failed" \in Holding \ {"stopped"} BY DEF Holding
  <2> QED BY <1>1, <1>2, <1>3, <1>5, <2>1, <2>2, HostHolds
<1> QED BY <1>4, <1>5 DEF Host!RuntimeStart

LEMMA HostStarted ==
  ASSUME HostInv, NEW c \in Host!AllCallers, Host!Started(c)
  PROVE  HostInv'
<1> Nil \notin HostCall /\ Nil \notin RoleType /\ Nil \notin ProcessType BY NilAssumption
<1>1. /\ hosted[c] /= Nil /\ HostCallOK(c, hosted[c]) /\ hosted[c] \in HostCall /\ hosted[c].pc = "started"
      /\ role \in RoleType \cup {Nil} /\ process \in ProcessType \cup {Nil}
  BY HostAt DEF Host!Started, HostPoints
<1>2. mutex = c /\ role \in RoleType BY <1>1 DEF HostCallOK, Holding
<1>3. CASE /\ Host!CompareAndSwapRole([role EXCEPT !.status = "IDLE"]) /\ Host!Ensured(c, role')
           /\ process' = IF process = Nil THEN Nil ELSE [process EXCEPT !.recorded = TRUE]
  <2>1. /\ role' \in RoleType /\ role'.status = "IDLE" /\ role' /= role /\ role'.revision > role.revision
    BY <1>2, <1>3, HostWrites DEF Host!Statuses
  <2>2. PICK r \in RoleType : r = role' BY <2>1
  <2>3. PICK x \in HostCall : hosted' = [hosted EXCEPT ![c] = x] /\ x.pc \in {"pause", "register"} /\ x.seen = r
    BY <1>1, <1>3, <2>2, HostEnsured
  <2>4. r.revision <= r.revision BY DEF RoleType
  <2>5. HostCallOK(c, x)' BY <2>2, <2>3, <2>4 DEF HostCallOK, Holding, Reading, FoundGone
  <2>6. process' \in ProcessType \cup {Nil} /\ (process = Nil => process' = Nil) BY <1>1, <1>3 DEF ProcessType
  <2> QED BY <1>2, <2>1, <2>3, <2>5, <2>6, HostMoves
<1>4. CASE Host!Fail(c) /\ role' = role /\ process' = process BY <1>1, <1>2, <1>4, HostGivesUp
<1> QED BY <1>3, <1>4 DEF Host!Started

LEMMA HostRecordFailure ==
  ASSUME HostInv, NEW c \in Host!AllCallers, Host!RecordFailure(c)
  PROVE  HostInv'
<1> Nil \notin HostCall /\ Nil \notin RoleType BY NilAssumption
<1>1. /\ hosted[c] /= Nil /\ HostCallOK(c, hosted[c]) /\ hosted[c] \in HostCall
      /\ hosted[c].pc \in {"start failed", "stop failed"}
      /\ role \in RoleType \cup {Nil} /\ process \in ProcessType \cup {Nil}
      /\ RecordedRuns => role /= Nil /\ role.status /= "STOPPED"
  BY DEF Host!RecordFailure, HostInv, HostTypes
<1>2. mutex = c /\ role \in RoleType /\ process' = process /\ Host!Fail(c)
  BY <1>1 DEF HostCallOK, Holding, Host!RecordFailure
<1>3. CASE role' = role BY <1>1, <1>2, <1>3, HostGivesUp
<1>4. CASE Host!CompareAndSwapRole([role EXCEPT !.status = "FAILED"])
  <2>1. /\ role' \in RoleType /\ role'.status = "FAILED" /\ role'.revision > role.revision
    BY <1>2, <1>4, HostWrites DEF Host!Statuses
  <2>2. PICK x \in HostCall \cup {Nil} : /\ hosted' = [hosted EXCEPT ![c] = x]
                                         /\ x /= Nil => x.pc = "failed" /\ x.seen = hosted[c].seen
    BY <1>1, <1>2, HostFails
  <2>3. x /= Nil => HostCallOK(c, x)' BY <1>1, <2>1, <2>2, HostIdle DEF Holding, Reading
  <2>4. RecordedRuns' = RecordedRuns BY <1>2 DEF RecordedRuns
  <2> QED BY <1>1, <1>2, <2>1, <2>2, <2>3, <2>4, HostMoves
<1> QED BY <1>3, <1>4 DEF Host!RecordFailure

LEMMA HostStop ==
  ASSUME HostInv, NEW c \in Host!AllCallers, Host!Stop(c)
  PROVE  HostInv'
<1> Nil \notin HostCall /\ Nil \notin RoleType BY NilAssumption
<1>1. /\ hosted[c] /= Nil /\ HostCallOK(c, hosted[c]) /\ hosted[c] \in HostCall /\ hosted[c].pc = "stop"
      /\ role \in RoleType \cup {Nil} /\ process \in ProcessType \cup {Nil}
  BY HostAt DEF Host!Stop, HostPoints
<1>2. role \in RoleType /\ process' = process /\ mutex = Nil BY <1>1 DEF HostCallOK, Host!Stop, Host!Free
<1>3. CASE Host!CompareAndSwapRole([role EXCEPT !.status = "STOPPING"]) /\ mutex' = c /\ Host!Go(c, "stopping")
  <2>1. /\ role' \in RoleType /\ role'.status = "STOPPING" /\ role'.revision > role.revision
    BY <1>2, <1>3, HostWrites DEF Host!Statuses
  <2>2. "stopping" \in Holding \ {"stopped"} BY DEF Holding
  <2> QED BY <1>1, <1>2, <1>3, <2>1, <2>2, HostTakes
<1>4. CASE Host!Return(c) /\ role' = role /\ mutex' = mutex BY <1>1, <1>2, <1>4, HostGivesUp
<1> QED BY <1>3, <1>4 DEF Host!Stop

LEMMA HostRuntimeStop ==
  ASSUME HostInv, NEW c \in Host!AllCallers, Host!RuntimeStop(c)
  PROVE  HostInv'
<1> Nil \notin HostCall /\ Nil \notin RoleType BY NilAssumption
<1>1. /\ hosted[c] /= Nil /\ HostCallOK(c, hosted[c]) /\ hosted[c] \in HostCall /\ hosted[c].pc = "stopping"
      /\ role \in RoleType \cup {Nil} /\ process \in ProcessType \cup {Nil}
  BY HostAt DEF Host!RuntimeStop, HostPoints
<1>2. mutex = c /\ role \in RoleType /\ UNCHANGED <<role, mutex>> BY <1>1 DEF HostCallOK, Holding, Host!RuntimeStop
<1>3. CASE process' = Nil /\ Host!Go(c, "stopped")
  <2>1. "stopped" \in Holding BY DEF Holding
  <2>2. ~RecordedRuns' BY <1>3 DEF RecordedRuns
  <2> QED BY <1>1, <1>2, <1>3, <2>1, <2>2, HostHolds
<1>4. CASE process' = Host!Inspected(role.epoch) /\ Host!Go(c, "stop failed")
  <2>1. PICK e : e = role.epoch OBVIOUS
  <2>2. process' \in {process, Nil} BY <1>4, <2>1, HostInspected
  <2>3. process' \in ProcessType \cup {Nil} /\ (RecordedRuns' => RecordedRuns) BY <1>1, <2>2 DEF RecordedRuns
  <2>4. "stop failed" \in Holding /\ "stop failed" /= "stopped" BY DEF Holding
  <2> QED BY <1>1, <1>2, <1>4, <2>3, <2>4, HostHolds
<1> QED BY <1>3, <1>4 DEF Host!RuntimeStop

LEMMA HostStopped ==
  ASSUME HostInv, NEW c \in Host!AllCallers, Host!Stopped(c)
  PROVE  HostInv'
<1> Nil \notin HostCall /\ Nil \notin RoleType BY NilAssumption
<1>1. /\ hosted[c] /= Nil /\ HostCallOK(c, hosted[c]) /\ hosted[c] \in HostCall /\ hosted[c].pc = "stopped"
      /\ role \in RoleType \cup {Nil} /\ process \in ProcessType \cup {Nil}
  BY HostAt DEF Host!Stopped, HostPoints
<1>2. mutex = c /\ role \in RoleType /\ process = Nil /\ process' = process
  BY <1>1 DEF HostCallOK, Holding, Host!Stopped
<1>3. /\ role' \in RoleType /\ role'.status = "STOPPED" /\ role'.revision > role.revision
  BY <1>2, HostWrites DEF Host!Statuses, Host!Stopped
<1>4. ~RecordedRuns' BY <1>2 DEF RecordedRuns
<1>5. CASE Host!Go(c, "start")
  <2>1. "start" \in HostPoints \ (Holding \cup Reading \cup {"stop", "reconcile"}) BY DEF HostPoints, Holding, Reading
  <2> QED BY <1>1, <1>2, <1>3, <1>4, <1>5, <2>1, HostGoesOn
<1>6. CASE Host!Return(c)
  <2>1. hosted' = [hosted EXCEPT ![c] = Nil] BY <1>6 DEF Host!Return
  <2> QED BY <1>1, <1>2, <1>3, <1>4, <2>1, HostMoves
<1> QED BY <1>5, <1>6 DEF Host!Stopped

LEMMA HostRegisters ==
  ASSUME HostInv, NEW c \in Host!AllCallers, Host!registerExecution(c)
  PROVE  HostInv'
<1>1. hosted[c] /= Nil BY DEF Host!registerExecution, Host!At
<1>2. UNCHANGED <<role, process, mutex>> /\ (Host!Return(c) \/ Host!Fail(c)) BY DEF Host!registerExecution
<1> QED BY <1>1, <1>2, HostGivesUp

LEMMA HostTransition ==
  ASSUME HostInv, NEW from \in Host!Statuses, NEW to \in Host!Statuses \ {"STOPPED"}, Host!Transition(from, to)
  PROVE  HostInv'
<1> Nil \notin RoleType BY NilAssumption
<1>1. role \in RoleType /\ process \in ProcessType \cup {Nil} /\ UNCHANGED <<process, mutex, hosted>>
      /\ Host!CompareAndSwapRole([role EXCEPT !.status = to])
  BY DEF HostInv, HostTypes, Host!Transition
<1>2. role' \in RoleType /\ role'.status = to /\ role'.revision > role.revision BY <1>1, HostWrites
<1>3. RecordedRuns' = RecordedRuns BY <1>1 DEF RecordedRuns
<1>4. RecordedRuns' => role' /= Nil /\ role'.status /= "STOPPED" BY <1>2
<1> QED BY <1>1, <1>2, <1>3, <1>4, HostQuiet

LEMMA HostReconcile == ASSUME HostInv, Host!Reconcile PROVE HostInv'
<1> Nil \notin HostCall /\ Nil \notin RoleType BY NilAssumption
<1>0. PICK c \in Host!AllCallers : c = Host!Recovery BY DEF Host!AllCallers
<1>1. /\ hosted[c] /= Nil /\ HostCallOK(c, hosted[c]) /\ hosted[c] \in HostCall /\ hosted[c].pc = "reconcile"
      /\ role \in RoleType \cup {Nil} /\ process \in ProcessType \cup {Nil}
      /\ (RecordedRuns => role /= Nil /\ role.status /= "STOPPED") /\ hosted \in [Host!AllCallers -> HostCall \cup {Nil}]
  BY <1>0, HostAt DEF Host!Reconcile, HostPoints, HostInv, HostTypes
<1>2. PICK r \in RoleType : r = role BY <1>1 DEF HostCallOK
<1>3. UNCHANGED <<role, mutex>> BY DEF Host!Reconcile
<1>4. PICK e : e = role.epoch OBVIOUS
<1>5. PICK pc : pc = Host!Found(role, Host!Inspect(e)) OBVIOUS
<1>6. Host!Inspect(e) \in {"RUNNING", "STOPPED", "CONFLICT", "UNKNOWN"}
  BY <1>1 DEF Host!Inspect, ProcessType
<1>7. pc \in {"register", "ensure", "heartbeat", "interrupted", "failed"} BY <1>5, <1>6 DEF Host!Found
<1>8. pc = "interrupted" => role.status \notin {"STOPPED", "FAILED"} /\ Host!Inspect(e) = "STOPPED"
  BY <1>5, <1>6 DEF Host!Found
<1>9. process' \in {process, Nil} /\ (pc = "interrupted" => process' = Nil)
  <2>1. CASE role.status \in {"STOPPED", "FAILED"} BY <2>1, <1>8 DEF Host!Reconcile
  <2>2. CASE role.status \notin {"STOPPED", "FAILED"}
    <3>1. process' = Host!Inspected(e) BY <1>4, <2>2 DEF Host!Reconcile
    <3> QED BY <3>1, <1>8, HostInspected
  <2> QED BY <2>1, <2>2
<1>10. PICK p \in BOOLEAN : p = (role.status = "PAUSED") OBVIOUS
<1>11. PICK y \in HostCall : y = hosted[c] BY <1>1
<1> DEFINE x == [Noted(y, pc, r) EXCEPT !.paused = p]
<1>12. x \in HostCall /\ x.pc = pc /\ x.seen = r
  <2>1. pc \in HostPoints BY <1>7 DEF HostPoints
  <2>2. PICK q \in HostCall : q = Noted(y, pc, r) /\ q.pc = pc /\ q.seen = r BY <2>1, HostSees
  <2>3. [q EXCEPT !.paused = p] \in HostCall /\ [q EXCEPT !.paused = p].pc = pc /\ [q EXCEPT !.paused = p].seen = r
    BY <2>2 DEF HostCall
  <2> QED BY <2>2, <2>3, Zenon
<1>13. hosted' = [hosted EXCEPT ![c] = x]
  BY <1>0, <1>2, <1>4, <1>5, <1>10, <1>11, Zenon DEF Host!Reconcile, Noted
<1> HIDE DEF x
<1>14. r.revision <= r.revision BY DEF RoleType
<1>15. RecordedRuns' => RecordedRuns BY <1>9 DEF RecordedRuns
<1>16. pc = "interrupted" => ~RecordedRuns' BY <1>9 DEF RecordedRuns
<1>17. HostCallOK(c, x)' BY <1>2, <1>3, <1>7, <1>12, <1>14, <1>16 DEF HostCallOK, Holding, Reading, FoundGone
<1> QED BY <1>1, <1>3, <1>9, <1>12, <1>13, <1>15, <1>17, HostMoves

(* The loop writes the role as it found it, in whatever status, and goes on *)
(* or ends.                                                                 *)
LEMMA HostLoop ==
  ASSUME HostInv, NEW c \in Host!AllCallers, NEW pc \in {"register", "failed"}, NEW st \in Host!Statuses,
         hosted[c] /= Nil, role \in RoleType, UNCHANGED <<process, mutex>>, Host!Go(c, pc),
         role' = role \/ (Host!CompareAndSwapRole([role EXCEPT !.status = st]) /\ (st = "STOPPED" => ~RecordedRuns))
  PROVE  HostInv'
<1> Nil \notin RoleType BY NilAssumption
<1>1. pc \in HostPoints \ (Holding \cup Reading \cup {"stop", "reconcile"}) BY DEF HostPoints, Holding, Reading
<1>2. RecordedRuns' = RecordedRuns BY DEF RecordedRuns
<1>3. RecordedRuns => role.status /= "STOPPED" BY DEF HostInv
<1>4. CASE role' = role BY <1>1, <1>2, <1>3, <1>4, HostGoesOn
<1>5. CASE Host!CompareAndSwapRole([role EXCEPT !.status = st]) /\ (st = "STOPPED" => ~RecordedRuns)
  <2>1. role' \in RoleType /\ role'.status = st /\ role'.revision > role.revision BY <1>5, HostWrites
  <2> QED BY <1>1, <1>2, <1>5, <2>1, HostGoesOn
<1> QED BY <1>4, <1>5

LEMMA HostLoops ==
  ASSUME HostInv, Host!Heartbeat \/ Host!CompleteStop \/ Host!PauseAgain
  PROVE  HostInv'
<1> Nil \notin RoleType BY NilAssumption
<1>0. PICK c \in Host!AllCallers : c = Host!Recovery BY DEF Host!AllCallers
<1>1. /\ hosted[c] /= Nil /\ HostCallOK(c, hosted[c]) /\ hosted[c] \in HostCall
      /\ hosted[c].pc \in {"heartbeat", "interrupted", "pause"} /\ role \in RoleType \cup {Nil}
      /\ (hosted[c].pc = "interrupted" <=> Host!CompleteStop)
  BY <1>0 DEF Host!Heartbeat, Host!CompleteStop, Host!PauseAgain, Host!At, HostInv, HostTypes
<1>2. role \in RoleType BY <1>1 DEF HostCallOK, Reading
<1>3. UNCHANGED <<process, mutex>> BY DEF Host!Heartbeat, Host!CompleteStop, Host!PauseAgain
<1>4. CASE Host!Heartbeat
  <2>1. PICK st \in Host!Statuses : st = role.status BY <1>2 DEF RoleType
  <2>2. role = [role EXCEPT !.status = st] BY <1>2, <2>1 DEF RoleType
  <2>3. CASE Host!CompareAndSwapRole(role) /\ Host!Go(c, "register")
    <3>1. Host!CompareAndSwapRole([role EXCEPT !.status = st]) BY <2>2, <2>3, Zenon
    <3>2. st = "STOPPED" => ~RecordedRuns BY <2>1 DEF HostInv
    <3> QED BY <1>1, <1>2, <1>3, <2>3, <3>1, <3>2, HostLoop
  <2>4. CASE role' = role /\ Host!Go(c, "failed") BY <1>1, <1>2, <1>3, <2>4, HostLoop
  <2> QED BY <1>0, <1>4, <2>3, <2>4 DEF Host!Heartbeat
<1>5. CASE Host!CompleteStop
  <2>1. CASE /\ role.revision = hosted[c].seen.revision
             /\ Host!CompareAndSwapRole([role EXCEPT !.status = "STOPPED"]) /\ Host!Go(c, "register")
    <3>1. ~RecordedRuns BY <1>1, <1>5, <2>1 DEF HostCallOK, FoundGone
    <3>2. "STOPPED" \in Host!Statuses BY DEF Host!Statuses
    <3> QED BY <1>1, <1>2, <1>3, <2>1, <3>1, <3>2, HostLoop
  <2>2. CASE role' = role /\ Host!Go(c, "failed")
    <3>1. "STOPPED" \in Host!Statuses BY DEF Host!Statuses
    <3> QED BY <1>1, <1>2, <1>3, <2>2, <3>1, HostLoop
  <2> QED BY <1>0, <1>5, <2>1, <2>2 DEF Host!CompleteStop
<1>6. CASE Host!PauseAgain
  <2>1. "PAUSED" \in Host!Statuses /\ "PAUSED" /= "STOPPED" BY DEF Host!Statuses
  <2>2. CASE Host!CompareAndSwapRole([role EXCEPT !.status = "PAUSED"]) /\ Host!Go(c, "register")
    BY <1>1, <1>2, <1>3, <2>1, <2>2, HostLoop
  <2>3. CASE role' = role /\ Host!Go(c, "failed") BY <1>1, <1>2, <1>3, <2>1, <2>3, HostLoop
  <2> QED BY <1>0, <1>6, <2>2, <2>3 DEF Host!PauseAgain
<1> QED BY <1>4, <1>5, <1>6

LEMMA HostWorkerExits ==
  ASSUME HostInv, NEW state \in {"CLEAN", "ERROR"}, Host!WorkerExits(state)
  PROVE  HostInv'
<1> Nil \notin ProcessType BY NilAssumption
<1>1. process \in ProcessType /\ process' = [process EXCEPT !.state = state] /\ UNCHANGED <<role, mutex, hosted>>
      /\ role \in RoleType \cup {Nil}
  BY DEF HostInv, HostTypes, Host!WorkerExits
<1>2. process' \in ProcessType /\ process'.state = state BY <1>1 DEF ProcessType
<1>3. ~RecordedRuns' BY <1>2 DEF RecordedRuns
<1>4. process /= Nil BY <1>1
<1> QED BY <1>1, <1>2, <1>3, <1>4, HostQuiet

LEMMA HostNext == ASSUME HostInv, Host!Next PROVE HostInv'
<1>1. ASSUME NEW c \in Host!AllCallers, NEW op \in {"ENSURE", "STOP", "RESTART", "RECONCILE"}, Host!Begin(c, op) PROVE HostInv'
  BY <1>1, HostBegins
<1>2. ASSUME NEW c \in Host!AllCallers,
             \/ Host!EnsureLoad(c) \/ Host!EnsureInspect(c) \/ Host!EnsureStopped(c) \/ Host!Start(c) \/ Host!RuntimeStart(c)
             \/ Host!Started(c) \/ Host!RecordFailure(c) \/ Host!Stop(c) \/ Host!RuntimeStop(c) \/ Host!Stopped(c)
             \/ Host!registerExecution(c)
      PROVE  HostInv'
  BY <1>2, HostEnsureLoad, HostEnsureInspect, HostEnsureStopped, HostStart, HostRuntimeStart, HostStarted,
     HostRecordFailure, HostStop, HostRuntimeStop, HostStopped, HostRegisters
<1>3. CASE Host!Transition("IDLE", "PAUSED") \/ Host!Transition("PAUSED", "IDLE") \/ Host!Checkpoint
  BY <1>3, HostTransition DEF Host!Checkpoint, Host!Statuses
<1>4. CASE Host!Reconcile \/ Host!Heartbeat \/ Host!CompleteStop \/ Host!PauseAgain BY <1>4, HostReconcile, HostLoops
<1>5. CASE Host!RecoveryFailed \/ Host!Crash BY <1>5, HostDown DEF Host!RecoveryFailed, Host!Crash
<1>6. CASE Host!reconcileDurableRoleExecutions
  <2>1. UNCHANGED <<role, process, mutex, hosted>> BY <1>6 DEF Host!reconcileDurableRoleExecutions
  <2>2. RecordedRuns' = RecordedRuns BY <2>1 DEF RecordedRuns
  <2>3. /\ role \in RoleType \cup {Nil} /\ process \in ProcessType \cup {Nil}
        /\ RecordedRuns => role /= Nil /\ role.status /= "STOPPED"
    BY DEF HostInv, HostTypes
  <2> QED BY <2>1, <2>2, <2>3, HostQuiet
<1>7. ASSUME NEW state \in {"CLEAN", "ERROR"}, Host!WorkerExits(state) PROVE HostInv' BY <1>7, HostWorkerExits
<1> QED BY <1>1, <1>2, <1>3, <1>4, <1>5, <1>6, <1>7 DEF Host!Next

HostPart == agent = "host" => HostInv

(* Initially, and whichever component takes the next step.                  *)
LEMMA HostOrganized == AgentsSpec => []HostPart
<1>1. AgentsInit => HostPart BY HostInit DEF AgentsInit, HostPart
<1>2. HostPart /\ [AgentsNext]_agentVars => HostPart'
  <2> SUFFICES ASSUME HostPart, [AgentsNext]_agentVars, agent' = "host" PROVE HostInv' BY DEF HostPart
  <2>1. CASE NativeStep \/ TaskStep BY <2>1 DEF NativeStep, TaskStep
  <2>2. CASE HostStep BY <2>2, HostNext DEF HostStep, HostPart
  <2>3. CASE UNCHANGED agentVars
    <3>1. HostInv /\ UNCHANGED <<role, process, mutex, hosted>> BY <2>3 DEF HostPart, agentVars, hostVars
    <3>2. RecordedRuns' = RecordedRuns BY <3>1 DEF RecordedRuns
    <3>3. /\ role \in RoleType \cup {Nil} /\ process \in ProcessType \cup {Nil}
          /\ RecordedRuns => role /= Nil /\ role.status /= "STOPPED"
      BY <3>1 DEF HostInv, HostTypes
    <3> QED BY <3>1, <3>2, <3>3, HostQuiet
  <2> QED BY <2>1, <2>2, <2>3 DEF AgentsNext
<1> QED BY <1>1, <1>2, PTL DEF AgentsSpec

(* A role is recorded as stopped only when no process recorded for it runs  *)
(* (EnsureStarted, Stop and Reconcile of organization/host.go).             *)
THEOREM RolesStop == AgentsSpec => []StoppedHasNoProcess
<1>1. HostPart => StoppedHasNoProcess BY HostProperty DEF HostPart, StoppedHasNoProcess
<1> QED BY <1>1, HostOrganized, PTL

-----------------------------------------------------------------------------
(* The runtime of the tasks.                                                *)

PlannedTasks == UNION TaskPlans
Purposes == {"IMPLEMENTATION", "VALIDATION", "PROMOTION", "REPAIR"}
AuthorizationType == [purpose : Purposes, prior : Nat, attempt : Nat, outs : SUBSET Nat, extra : Int]
ConditionType == [prof : Nat, outs : SUBSET Nat, extra : Int]
AttemptStates == {"RUNNING", "SUCCEEDED", "FAILED", "TIMED_OUT"}
AttemptType ==
  [task : PlannedTasks, purpose : Purposes, attempt : Nat, prior : Nat, cond : ConditionType, prof : Nat, gen : Nat,
   saw : SUBSET Nat, state : AttemptStates,
   verdict : {"PASS", "FAIL", "INVALID", "REPORTED", Nil}, class : {"repeated", "retryable", "glitch", "fatal", Nil},
   late : BOOLEAN]
BlockReasons == {"ceiling", "escalated", "invalid", "verdict", "reported", "exhausted"}
BlockType == [by : Nat, why : BlockReasons]
DoneType == [cand : Nat, by : SUBSET Nat]
TaskType ==
  [phase : {"PLANNED", "ACTIVE", "COMPLETED"}, blocked : BlockType \cup {Nil}, unblocked : Nat, gen : Nat, profGen : Nat,
   prof : Nat, scope : SUBSET Nat, done : DoneType \cup {Nil}]
CommandArguments == {Nil} \cup Nat \cup (SUBSET Nat) \cup BlockType \cup DoneType \cup AuthorizationType
CommandOps == {"reopen", "profile", "scope", "unblock", "block", "activate", "complete", "reread", "authorize"}
CommandType == [op : CommandOps, task : PlannedTasks, arg : CommandArguments]
JobType == [fresh : SUBSET PlannedTasks, cmds : Seq(CommandType)]

TaskTypes ==
  /\ plan \in TaskPlans
  /\ task \in [plan -> TaskType]
  /\ invocations \in Seq(AttemptType) /\ \A i \in Task!Indices : invocations[i].task \in plan
  /\ job \in [Task!Processes -> JobType \cup {Nil}]

(* Attempts are told apart by their place, and a task has a last one.       *)
HasLast(S) == S = {} \/ \E m \in S : \A j \in S : j <= m
LastKnown == \A t \in plan : HasLast(Task!Of(t)) /\ \A p \in Purposes : HasLast(Task!Attempts(t, p))

Recovers(i) == i /= 0 /\ invocations[i].state \in {"FAILED", "TIMED_OUT"}

(* The attempts for the purpose of the task itself have come to an end: the *)
(* last of them succeeded.                                                  *)
Settled(t) ==
  \E m \in Task!Of(t) :
    /\ invocations[m].purpose = PurposeOf(t) /\ invocations[m].state = "SUCCEEDED"
    /\ \A i \in Task!Of(t) : invocations[i].purpose = PurposeOf(t) => i <= m

(* The outputs of implementations among those bound.                        *)
Built(outs) == {x \in outs : PurposeOf(invocations[x].task) = "IMPLEMENTATION"}

(* Outputs of all that a task depends on.                                   *)
Covers(t, outs) ==
  /\ outs \subseteq Task!Indices
  /\ \A d \in DependenciesOf(t) : \E x \in outs : invocations[x].task = d

(* Outputs no older than those an earlier attempt was authorized for.       *)
Succeeds(outs, i) ==
  i /= 0 => \A x \in invocations[i].cond.outs, y \in outs : invocations[x].task = invocations[y].task => x <= y

(* A repair follows a success.                                              *)
Lawful(t, purpose) ==
  /\ purpose \in {PurposeOf(t), "REPAIR"}
  /\ purpose = "REPAIR" => PurposeOf(t) = "IMPLEMENTATION" /\ Settled(t)

(* An attempt that runs is the last of its task.  A validation was          *)
(* authorized for outputs of all that it depends on and saw them, unless it *)
(* recovers a failed attempt.                                               *)
AttemptOK(i) ==
  LET a == invocations[i] IN
  /\ Lawful(a.task, a.purpose)
  /\ a.state = "RUNNING" => \A j \in Task!Of(a.task) : j <= i
  /\ a.prior < i
  /\ a.prior /= 0 => invocations[a.prior].task = a.task /\ invocations[a.prior].state /= "RUNNING"
  /\ PurposeOf(a.task) = "VALIDATION" =>
       /\ Covers(a.task, a.cond.outs) /\ Succeeds(a.cond.outs, a.prior)
       /\ Recovers(a.prior) \/ Built(a.cond.outs) \subseteq a.saw

AuthorizationOK(t, a) ==
  /\ Lawful(t, a.purpose)
  /\ a.prior <= Len(invocations)
  /\ a.prior /= 0 => invocations[a.prior].task = t /\ invocations[a.prior].state /= "RUNNING"
  /\ PurposeOf(t) = "IMPLEMENTATION" /\ a.purpose /= "REPAIR" /\ a.prior /= 0 =>
       Recovers(a.prior) /\ invocations[a.prior].purpose = a.purpose
  /\ PurposeOf(t) = "VALIDATION" => Covers(t, a.outs) /\ Succeeds(a.outs, a.prior)

(* Passed by all its validators, each on what it saw or as a retry.         *)
DoneOK(t, d) ==
  Task!TaskValidators(t) /= {} =>
    /\ d.by \subseteq Task!Indices /\ {invocations[i].task : i \in d.by} = Task!TaskValidators(t)
    /\ \A i \in d.by :
         /\ invocations[i].state /= "RUNNING" /\ invocations[i].verdict = "PASS"
         /\ d.cand \in invocations[i].saw \/ Recovers(invocations[i].prior)

CommandOK(c) ==
  /\ c.task \in plan
  /\ c.op = "scope" => c.arg \in SUBSET Nat
  /\ c.op = "unblock" => c.arg \in Nat
  /\ c.op = "block" => c.arg \in BlockType
  /\ c.op = "authorize" => c.arg \in AuthorizationType /\ AuthorizationOK(c.task, c.arg)
  /\ c.op = "complete" => c.arg \in DoneType /\ DoneOK(c.task, c.arg)

(* The workspace of a validation is bound before the validation is          *)
(* authorized: the command for it is to come, or it was given and the task  *)
(* has not changed since.                                                   *)
Rebinding == {"scope", "reread"}
Binds(cmds, n, t, need) ==
  \E m \in 1 .. n :
    /\ cmds[m].op = "scope" /\ cmds[m].task = t /\ need \subseteq cmds[m].arg
    /\ \A k \in (m + 1) .. n : cmds[k].op \notin Rebinding
Bound(cmds, n, fresh, t, need) ==
  /\ \A k \in 1 .. n : cmds[k].op \notin Rebinding
  /\ t \in fresh => need \subseteq task[t].scope
ScopeBound(j) ==
  LET n == Len(j.cmds) c == j.cmds[n] IN
  c.op = "authorize" /\ PurposeOf(c.task) = "VALIDATION" =>
    \/ Recovers(c.arg.prior)
    \/ Binds(j.cmds, n - 1, c.task, Built(c.arg.outs))
    \/ Bound(j.cmds, n - 1, j.fresh, c.task, Built(c.arg.outs))

JobOK(j) ==
  /\ j.cmds /= <<>>
  /\ \A k \in 1 .. Len(j.cmds) : CommandOK(j.cmds[k])
  /\ \A k \in 1 .. (Len(j.cmds) - 1) : j.cmds[k].op /= "authorize"
  /\ ScopeBound(j)

TaskInv ==
  /\ TaskTypes /\ LastKnown
  /\ \A i \in Task!Indices : AttemptOK(i)
  /\ \A p \in Task!Processes : job[p] /= Nil => JobOK(job[p])
  /\ \A t \in plan : task[t].phase = "COMPLETED" => DoneOK(t, task[t].done)

-----------------------------------------------------------------------------
(* What follows from the invariant in a state.                              *)

LEMMA PlanFacts ==
  ASSUME TaskTypes, NEW t \in plan
  PROVE  /\ t \in PlannedTasks /\ Nil \notin plan
         /\ PurposeOf(t) \in {"IMPLEMENTATION", "VALIDATION", "PROMOTION"} /\ PurposeOf(t) \in Purposes
         /\ DependenciesOf(t) \subseteq plan /\ TargetsOf(t) \subseteq DependenciesOf(t)
         /\ TargetsOf(t) /= {} => PurposeOf(t) = "VALIDATION"
         /\ \A u \in TargetsOf(t) : PurposeOf(u) = "IMPLEMENTATION"
  BY TaskPlansAssumption DEF TaskTypes, PlannedTasks, Purposes

LEMMA AttemptFacts ==
  ASSUME TaskTypes
  PROVE  /\ Len(invocations) \in Nat /\ Task!Indices \subseteq Nat
         /\ \A i \in Task!Indices : invocations[i] \in AttemptType /\ invocations[i].task \in plan /\ i >= 1 /\ i <= Len(invocations)
         /\ \A i \in Nat : i /= 0 /\ i <= Len(invocations) => i \in Task!Indices
         /\ 0 \notin Task!Indices
  BY DEF TaskTypes, Task!Indices

LEMMA OfFacts ==
  ASSUME TaskTypes, NEW t
  PROVE  /\ \A i : i \in Task!Of(t) <=> i \in Task!Indices /\ invocations[i].task = t
         /\ Task!Of(t) \subseteq Nat
         /\ \A p : \A i : i \in Task!Attempts(t, p) <=> i \in Task!Of(t) /\ invocations[i].purpose = p
  BY AttemptFacts DEF Task!Of, Task!Attempts

(* The latest attempt of a task is the last one there is.                   *)
LEMMA OutputFacts ==
  ASSUME TaskInv
  PROVE  \A t \in plan :
         /\ Task!Output(t) \in Nat /\ Task!Output(t) <= Len(invocations)
         /\ Task!Output(t) /= 0 =>
              /\ Task!Output(t) \in Task!Of(t) /\ Task!Output(t) \in Task!Indices /\ invocations[Task!Output(t)].task = t
              /\ \A j \in Task!Of(t) : j <= Task!Output(t)
         /\ Task!Output(t) = 0 => Task!Of(t) = {}
<1> SUFFICES ASSUME NEW t \in plan
    PROVE  /\ Task!Output(t) \in Nat /\ Task!Output(t) <= Len(invocations)
           /\ Task!Output(t) /= 0 =>
                /\ Task!Output(t) \in Task!Of(t) /\ Task!Output(t) \in Task!Indices /\ invocations[Task!Output(t)].task = t
                /\ \A j \in Task!Of(t) : j <= Task!Output(t)
           /\ Task!Output(t) = 0 => Task!Of(t) = {}
  OBVIOUS
<1>0. TaskTypes BY DEF TaskInv
<1>1. CASE Task!Of(t) = {}
  <2>1. Task!Output(t) = 0 BY <1>1 DEF Task!Output, Task!latestTaskInvocation
  <2> QED BY <2>1, <1>0, <1>1, AttemptFacts
<1>2. CASE Task!Of(t) /= {}
  <2>1. \E m \in Task!Of(t) : \A j \in Task!Of(t) : j <= m BY <1>2 DEF TaskInv, LastKnown, HasLast
  <2>2. Task!Output(t) = CHOOSE i \in Task!Of(t) : \A j \in Task!Of(t) : j <= i BY <1>2 DEF Task!Output, Task!latestTaskInvocation
  <2>3. Task!Output(t) \in Task!Of(t) /\ \A j \in Task!Of(t) : j <= Task!Output(t) BY <2>1, <2>2
  <2>4. Task!Output(t) \in Task!Indices /\ invocations[Task!Output(t)].task = t BY <2>3, <1>0, OfFacts
  <2> QED BY <2>3, <2>4, <1>0, AttemptFacts
<1> QED BY <1>1, <1>2

LEMMA LastRepairFacts ==
  ASSUME TaskInv
  PROVE  \A t \in plan :
         /\ Task!LastRepair(t) \in Nat
         /\ Task!LastRepair(t) /= 0 => Task!LastRepair(t) \in Task!Of(t) /\ invocations[Task!LastRepair(t)].purpose = "REPAIR"
<1> SUFFICES ASSUME NEW t \in plan
    PROVE  /\ Task!LastRepair(t) \in Nat
           /\ Task!LastRepair(t) /= 0 => Task!LastRepair(t) \in Task!Of(t) /\ invocations[Task!LastRepair(t)].purpose = "REPAIR"
  OBVIOUS
<1> DEFINE S == {i \in Task!Of(t) : invocations[i].purpose = "REPAIR"}
<1>0. TaskTypes BY DEF TaskInv
<1>1. CASE S = {} BY <1>1 DEF Task!LastRepair
<1>2. CASE S /= {}
  <2>1. S = Task!Attempts(t, "REPAIR") BY DEF Task!Attempts
  <2>2. \E m \in S : \A j \in S : j <= m BY <2>1, <1>2 DEF TaskInv, LastKnown, HasLast, Purposes
  <2>3. Task!LastRepair(t) = CHOOSE i \in S : \A j \in S : j <= i BY <1>2 DEF Task!LastRepair
  <2>4. Task!LastRepair(t) \in S BY <2>2, <2>3
  <2> QED BY <2>4, <1>0, OfFacts
<1> QED BY <1>1, <1>2

(* A success of an implementation settles it.                               *)
LEMMA SuccessSettles ==
  ASSUME TaskInv
  PROVE  \A t \in plan : PurposeOf(t) = "IMPLEMENTATION" /\ Task!Succeeded(Task!Output(t)) => Settled(t)
<1> SUFFICES ASSUME NEW t \in plan, PurposeOf(t) = "IMPLEMENTATION", Task!Succeeded(Task!Output(t)) PROVE Settled(t)
  OBVIOUS
<1>1. PICK o : o = Task!Output(t) OBVIOUS
<1>2. o /= 0 /\ invocations[o].state = "SUCCEEDED" BY <1>1 DEF Task!Succeeded
<1>3. o \in Task!Of(t) /\ o \in Task!Indices /\ invocations[o].task = t /\ \A j \in Task!Of(t) : j <= o BY <1>1, <1>2, OutputFacts
<1>4. Lawful(t, invocations[o].purpose) BY <1>3 DEF TaskInv, AttemptOK
<1>5. CASE invocations[o].purpose = PurposeOf(t) BY <1>5, <1>2, <1>3 DEF Settled
<1>6. CASE invocations[o].purpose = "REPAIR" BY <1>6, <1>4 DEF Lawful
<1> QED BY <1>4, <1>5, <1>6 DEF Lawful

(* What a task depends on has been put out, later than anything an earlier  *)
(* attempt of it was authorized for.                                        *)
LEMMA OutputsCover ==
  ASSUME TaskInv
  PROVE  \A t \in plan : Task!OutputsReady(t) =>
         /\ Task!Outputs(t) \in SUBSET Nat /\ Covers(t, Task!Outputs(t))
         /\ PurposeOf(t) = "VALIDATION" => \A i \in Task!Of(t) : Succeeds(Task!Outputs(t), i)
         /\ Built(Task!Outputs(t)) \subseteq {Task!Output(d) : d \in DependenciesOf(t) \cap Task!Implementations}
<1> SUFFICES ASSUME NEW t \in plan, Task!OutputsReady(t)
    PROVE  /\ Task!Outputs(t) \in SUBSET Nat /\ Covers(t, Task!Outputs(t))
           /\ PurposeOf(t) = "VALIDATION" => \A i \in Task!Of(t) : Succeeds(Task!Outputs(t), i)
           /\ Built(Task!Outputs(t)) \subseteq {Task!Output(d) : d \in DependenciesOf(t) \cap Task!Implementations}
  OBVIOUS
<1>0. TaskTypes BY DEF TaskInv
<1>1. DependenciesOf(t) \subseteq plan BY <1>0, PlanFacts
<1>2. \A d \in DependenciesOf(t) :
        /\ Task!Output(d) \in Nat /\ Task!Output(d) \in Task!Indices /\ invocations[Task!Output(d)].task = d
        /\ \A j \in Task!Of(d) : j <= Task!Output(d)
  BY <1>1, OutputFacts DEF Task!OutputsReady, Task!Succeeded
<1>3. \A y : y \in Task!Outputs(t) <=> \E d \in DependenciesOf(t) : y = Task!Output(d) BY DEF Task!Outputs
<1>4. Task!Outputs(t) \in SUBSET Nat /\ Covers(t, Task!Outputs(t)) BY <1>2, <1>3 DEF Covers
<1>5. ASSUME PurposeOf(t) = "VALIDATION", NEW i \in Task!Of(t) PROVE Succeeds(Task!Outputs(t), i)
  <2> SUFFICES ASSUME NEW x \in invocations[i].cond.outs, NEW y \in Task!Outputs(t), invocations[x].task = invocations[y].task
      PROVE  x <= y
    BY DEF Succeeds
  <2>1. i \in Task!Indices /\ invocations[i].task = t BY <1>0, OfFacts
  <2>2. x \in Task!Indices BY <2>1, <1>5 DEF TaskInv, AttemptOK, Covers
  <2>3. PICK d \in DependenciesOf(t) : y = Task!Output(d) BY <1>3
  <2>4. x \in Task!Of(d) BY <2>2, <2>3, <1>2, <1>0, OfFacts
  <2> QED BY <2>3, <2>4, <1>2
<1>6. ASSUME NEW x \in Built(Task!Outputs(t)) PROVE x \in {Task!Output(d) : d \in DependenciesOf(t) \cap Task!Implementations}
  <2>1. PICK d \in DependenciesOf(t) : x = Task!Output(d) BY <1>3 DEF Built
  <2>2. PurposeOf(d) = "IMPLEMENTATION" BY <2>1, <1>2 DEF Built
  <2>3. d \in Task!Implementations BY <2>2, <1>1 DEF Task!Implementations
  <2> QED BY <2>1, <2>3
<1> QED BY <1>4, <1>5, <1>6

-----------------------------------------------------------------------------
(* The jobs the runtime puts together.                                      *)

Plain(s) == s \in Seq(CommandType) /\ \A k \in 1 .. Len(s) : CommandOK(s[k]) /\ s[k].op /= "authorize"
GoodJob(j) == j \in JobType /\ JobOK(j)

LEMMA PlainParts ==
  /\ Plain(<<>>)
  /\ \A s, u : Plain(s) /\ Plain(u) => Plain(s \o u)
  /\ \A b, s : Plain(s) => Plain(Task!If(b, s))
<1>1. Plain(<<>>) BY DEF Plain
<1>2. ASSUME NEW s, NEW u, Plain(s), Plain(u) PROVE Plain(s \o u)
  <2>1. s \in Seq(CommandType) /\ u \in Seq(CommandType) BY <1>2 DEF Plain
  <2>2. s \o u \in Seq(CommandType) /\ Len(s \o u) = Len(s) + Len(u) BY <2>1
  <2>3. \A k \in 1 .. Len(s) : (s \o u)[k] = s[k] BY <2>1
  <2>4. \A k \in (Len(s) + 1) .. Len(s \o u) : (s \o u)[k] = u[k - Len(s)] /\ k - Len(s) \in 1 .. Len(u) BY <2>1
  <2>5. ASSUME NEW k \in 1 .. Len(s \o u) PROVE CommandOK((s \o u)[k]) /\ (s \o u)[k].op /= "authorize"
    <3>0. Len(s) \in Nat /\ Len(u) \in Nat BY <2>1
    <3>1. CASE k \in 1 .. Len(s) BY <3>1, <2>3, <1>2 DEF Plain
    <3>2. CASE k \in (Len(s) + 1) .. Len(s \o u) BY <3>2, <2>4, <1>2 DEF Plain
    <3> QED BY <3>0, <3>1, <3>2, <2>2
  <2> QED BY <2>2, <2>5 DEF Plain
<1>3. \A b, s : Plain(s) => Plain(Task!If(b, s)) BY <1>1 DEF Task!If
<1> QED BY <1>1, <1>2, <1>3

LEMMA CommandParts ==
  ASSUME NEW op \in CommandOps, NEW t \in PlannedTasks, NEW arg \in CommandArguments, NEW s, s = Task!Command(op, t, arg)
  PROVE  Len(s) = 1 /\ s[1].op = op /\ s[1].task = t /\ s[1].arg = arg /\ s \in Seq(CommandType)
<1>1. [op |-> op, task |-> t, arg |-> arg] \in CommandType BY DEF CommandType
<1>2. s = << [op |-> op, task |-> t, arg |-> arg] >> BY DEF Task!Command
<1> HIDE DEF CommandType
<1> QED BY <1>1, <1>2

LEMMA Followed ==
  ASSUME NEW s \in Seq(CommandType), NEW u \in Seq(CommandType), Len(u) = 1
  PROVE  /\ s \o u \in Seq(CommandType) /\ Len(s \o u) = Len(s) + 1 /\ (s \o u)[Len(s) + 1] = u[1]
         /\ \A k \in 1 .. Len(s) : (s \o u)[k] = s[k]
<1>1. s \o u \in Seq(CommandType) /\ Len(s \o u) = Len(s) + Len(u) /\ Len(s) \in Nat BY ConcatProperties
<1>2. \A k \in 1 .. Len(s) + Len(u) : (s \o u)[k] = IF k <= Len(s) THEN s[k] ELSE u[k - Len(s)] BY ConcatProperties
<1>3. (Len(s) + 1) - Len(s) = 1 /\ Len(s) + 1 \in 1 .. Len(s) + Len(u) /\ ~(Len(s) + 1 <= Len(s)) BY <1>1
<1>4. \A k \in 1 .. Len(s) : k \in 1 .. Len(s) + Len(u) /\ k <= Len(s) BY <1>1
<1>5. (s \o u)[Len(s) + 1] = u[1] BY <1>2, <1>3
<1>6. \A k \in 1 .. Len(s) : (s \o u)[k] = s[k] BY <1>2, <1>4
<1> QED BY <1>1, <1>5, <1>6

LEMMA PlainCommand ==
  ASSUME TaskTypes, NEW t \in plan, NEW op \in CommandOps, op /= "authorize", NEW arg \in CommandArguments,
         op = "scope" => arg \in SUBSET Nat, op = "unblock" => arg \in Nat, op = "block" => arg \in BlockType,
         op = "complete" => arg \in DoneType /\ DoneOK(t, arg)
  PROVE  Plain(Task!Command(op, t, arg))
<1>1. PICK s : s = Task!Command(op, t, arg) OBVIOUS
<1>2. Len(s) = 1 /\ s[1].op = op /\ s[1].task = t /\ s[1].arg = arg /\ s \in Seq(CommandType) BY <1>1, CommandParts, PlanFacts
<1>3. CommandOK(s[1]) BY <1>2 DEF CommandOK
<1>4. \A k \in 1 .. Len(s) : k = 1 BY <1>2
<1>5. Plain(s) BY <1>2, <1>3, <1>4 DEF Plain
<1> QED BY <1>1, <1>5

LEMMA PlainCommands ==
  ASSUME TaskTypes, NEW t \in plan
  PROVE  /\ \A op \in {"reopen", "reread", "activate"} : Plain(Task!Command(op, t, Nil))
         /\ \A n \in Nat : Plain(Task!Command("profile", t, n)) /\ Plain(Task!Command("unblock", t, n))
         /\ \A s \in SUBSET Nat : Plain(Task!Command("scope", t, s))
         /\ \A b \in BlockType : Plain(Task!Command("block", t, b))
         /\ \A d \in DoneType : DoneOK(t, d) => Plain(Task!Command("complete", t, d))
<1> \A op \in {"reopen", "reread", "activate", "profile", "unblock", "scope", "block", "complete"} : op \in CommandOps BY DEF CommandOps
<1>1. ASSUME NEW op \in {"reopen", "reread", "activate"} PROVE Plain(Task!Command(op, t, Nil))
  <2>1. Nil \in CommandArguments BY DEF CommandArguments
  <2> QED BY <2>1, PlainCommand
<1>2. ASSUME NEW n \in Nat PROVE Plain(Task!Command("profile", t, n)) /\ Plain(Task!Command("unblock", t, n))
  <2>1. n \in CommandArguments BY DEF CommandArguments
  <2> QED BY <2>1, PlainCommand
<1>3. ASSUME NEW a \in SUBSET Nat PROVE Plain(Task!Command("scope", t, a))
  <2>1. a \in CommandArguments BY DEF CommandArguments
  <2> QED BY <2>1, PlainCommand
<1>4. ASSUME NEW a \in BlockType PROVE Plain(Task!Command("block", t, a))
  <2>1. a \in CommandArguments BY DEF CommandArguments
  <2> QED BY <2>1, PlainCommand
<1>5. ASSUME NEW a \in DoneType, DoneOK(t, a) PROVE Plain(Task!Command("complete", t, a))
  <2>1. a \in CommandArguments BY DEF CommandArguments
  <2> QED BY <1>5, <2>1, PlainCommand
<1> QED BY <1>1, <1>2, <1>3, <1>4, <1>5

LEMMA PlainJob ==
  ASSUME TaskTypes, NEW t \in plan, NEW s, Plain(s), s /= <<>>
  PROVE  GoodJob(Task!Job(t, s))
<1>1. PICK j : j = Task!Job(t, s) OBVIOUS
<1>2. j.fresh = plan /\ j.cmds = s /\ j \in JobType
  BY <1>1, PlanFacts DEF Task!Job, JobType, Plain, TaskTypes, PlannedTasks
<1>3. s \in Seq(CommandType) /\ Len(s) \in Nat /\ Len(s) \in 1 .. Len(s) BY DEF Plain
<1>4. s[Len(s)].op /= "authorize" BY <1>3 DEF Plain
<1>5. ScopeBound(j) BY <1>2, <1>4 DEF ScopeBound
<1> QED BY <1>1, <1>2, <1>3, <1>5 DEF GoodJob, JobOK, Plain

(* The workspace is the last thing that is bound.                           *)
LEMMA BindsParts ==
  ASSUME NEW s \in Seq(CommandType), NEW t \in PlannedTasks, NEW need
  PROVE  /\ \A a \in SUBSET Nat : need \subseteq a =>
              Binds(s \o Task!Command("scope", t, a), Len(s \o Task!Command("scope", t, a)), t, need)
         /\ \A b : Binds(s, Len(s), t, need) =>
              Binds(s \o Task!If(b, Task!Command("unblock", t, 0)), Len(s \o Task!If(b, Task!Command("unblock", t, 0))), t, need)
<1>0. Len(s) \in Nat OBVIOUS
<1>1. ASSUME NEW a \in SUBSET Nat, need \subseteq a
      PROVE  Binds(s \o Task!Command("scope", t, a), Len(s \o Task!Command("scope", t, a)), t, need)
  <2>1. a \in CommandArguments BY DEF CommandArguments
  <2>2. PICK u : u = Task!Command("scope", t, a) OBVIOUS
  <2>3. u \in Seq(CommandType) /\ Len(u) = 1 /\ u[1].op = "scope" /\ u[1].task = t /\ u[1].arg = a BY <2>1, <2>2, CommandParts DEF CommandOps
  <2>4. PICK v : v = s \o u OBVIOUS
  <2>5. Len(v) = Len(s) + 1 /\ v[Len(s) + 1] = u[1] BY <2>3, <2>4, Followed
  <2>6. Binds(v, Len(v), t, need) BY <1>0, <1>1, <2>3, <2>5 DEF Binds
  <2> QED BY <2>2, <2>4, <2>6
<1>2. ASSUME NEW b, Binds(s, Len(s), t, need)
      PROVE  Binds(s \o Task!If(b, Task!Command("unblock", t, 0)), Len(s \o Task!If(b, Task!Command("unblock", t, 0))), t, need)
  <2>1. 0 \in CommandArguments BY DEF CommandArguments
  <2>2. PICK u : u = Task!Command("unblock", t, 0) OBVIOUS
  <2>3. u \in Seq(CommandType) /\ Len(u) = 1 /\ u[1].op = "unblock" BY <2>1, <2>2, CommandParts DEF CommandOps
  <2>4. CASE b
    <3>1. PICK v : v = s \o u OBVIOUS
    <3>2. Len(v) = Len(s) + 1 /\ v[Len(s) + 1] = u[1] /\ \A k \in 1 .. Len(s) : v[k] = s[k] BY <2>3, <3>1, Followed
    <3>3. PICK m \in 1 .. Len(s) :
            /\ s[m].op = "scope" /\ s[m].task = t /\ need \subseteq s[m].arg
            /\ \A k \in (m + 1) .. Len(s) : s[k].op \notin Rebinding
      BY <1>2 DEF Binds
    <3>4. ASSUME NEW k \in (m + 1) .. Len(v) PROVE v[k].op \notin Rebinding
      <4>1. CASE k = Len(v) BY <4>1, <3>2, <2>3 DEF Rebinding
      <4>2. CASE k /= Len(v)
        <5>1. k \in (m + 1) .. Len(s) /\ k \in 1 .. Len(s) BY <4>2, <3>2, <1>0
        <5> QED BY <5>1, <3>2, <3>3
      <4> QED BY <4>1, <4>2
    <3>5. m \in 1 .. Len(v) /\ v[m] = s[m] BY <3>2, <1>0
    <3>6. Binds(v, Len(v), t, need) BY <3>3, <3>4, <3>5 DEF Binds
    <3> QED BY <2>2, <2>4, <3>1, <3>6 DEF Task!If
  <2>5. CASE ~b
    <3>1. Task!If(b, Task!Command("unblock", t, 0)) = <<>> BY <2>5 DEF Task!If
    <3>2. s \o <<>> = s OBVIOUS
    <3> QED BY <3>1, <3>2, <1>2
  <2> QED BY <2>4, <2>5
<1> QED BY <1>1, <1>2

(* An authorization is the last command of a job.                           *)
LEMMA AuthorizingJob ==
  ASSUME TaskTypes, NEW t \in plan, NEW s, Plain(s), NEW a \in AuthorizationType, AuthorizationOK(t, a),
         PurposeOf(t) = "VALIDATION" => Recovers(a.prior) \/ Binds(s, Len(s), t, Built(a.outs))
  PROVE  GoodJob(Task!Job(t, s \o Task!Command("authorize", t, a)))
<1>0. s \in Seq(CommandType) /\ Len(s) \in Nat BY DEF Plain
<1>1. a \in CommandArguments /\ t \in PlannedTasks BY PlanFacts DEF CommandArguments
<1>2. PICK u : u = Task!Command("authorize", t, a) OBVIOUS
<1>3. u \in Seq(CommandType) /\ Len(u) = 1 /\ u[1].op = "authorize" /\ u[1].task = t /\ u[1].arg = a BY <1>1, <1>2, CommandParts DEF CommandOps
<1>4. PICK v : v = s \o u OBVIOUS
<1>5. /\ v \in Seq(CommandType) /\ Len(v) = Len(s) + 1 /\ v[Len(s) + 1] = u[1]
      /\ \A k \in 1 .. Len(s) : v[k] = s[k]
  BY <1>0, <1>3, <1>4, Followed
<1>6. PICK j : j = Task!Job(t, v) OBVIOUS
<1>7. j.fresh = plan /\ j.cmds = v /\ j \in JobType
  BY <1>5, <1>6, PlanFacts DEF Task!Job, JobType, TaskTypes, PlannedTasks
<1>8. CommandOK(v[Len(v)]) BY <1>5, <1>3 DEF CommandOK
<1>9. \A k \in 1 .. (Len(v) - 1) : k \in 1 .. Len(s) /\ v[k] = s[k] BY <1>5, <1>0
<1>10. \A k \in 1 .. (Len(v) - 1) : CommandOK(v[k]) /\ v[k].op /= "authorize" BY <1>9 DEF Plain
<1>11. \A k \in 1 .. Len(v) : CommandOK(v[k])
  <2> SUFFICES ASSUME NEW k \in 1 .. Len(v) PROVE CommandOK(v[k]) OBVIOUS
  <2>1. k = Len(v) \/ k \in 1 .. (Len(v) - 1) BY <1>5, <1>0
  <2> QED BY <2>1, <1>8, <1>10
<1>12. ScopeBound(j)
  <2> SUFFICES ASSUME PurposeOf(t) = "VALIDATION", ~Recovers(a.prior) PROVE Binds(v, Len(v) - 1, t, Built(a.outs))
    BY <1>7, <1>5, <1>3 DEF ScopeBound
  <2>1. Binds(s, Len(s), t, Built(a.outs)) OBVIOUS
  <2>2. Len(v) - 1 = Len(s) BY <1>5, <1>0
  <2>3. PICK m \in 1 .. Len(s) :
          /\ s[m].op = "scope" /\ s[m].task = t /\ Built(a.outs) \subseteq s[m].arg
          /\ \A k \in (m + 1) .. Len(s) : s[k].op \notin Rebinding
    BY <2>1 DEF Binds
  <2>4. \A k \in (m + 1) .. Len(s) : k \in 1 .. Len(s) BY <1>0
  <2> QED BY <2>2, <2>3, <2>4, <1>5 DEF Binds
<1>13. v /= <<>> BY <1>5, <1>0
<1> QED BY <1>2, <1>4, <1>6, <1>7, <1>10, <1>11, <1>12, <1>13 DEF GoodJob, JobOK

LEMMA AuthorizeJob ==
  ASSUME TaskTypes, NEW t \in plan, NEW s, Plain(s), NEW purpose \in Purposes, NEW prior \in Nat, NEW outs \in SUBSET Nat,
         NEW extra \in Int, Lawful(t, purpose),
         prior /= 0 => prior \in Task!Of(t) /\ invocations[prior].state /= "RUNNING",
         PurposeOf(t) = "IMPLEMENTATION" /\ purpose /= "REPAIR" /\ prior /= 0 =>
           Recovers(prior) /\ invocations[prior].purpose = purpose,
         PurposeOf(t) = "VALIDATION" =>
           /\ Covers(t, outs) /\ Succeeds(outs, prior)
           /\ Recovers(prior) \/ Binds(s, Len(s), t, Built(outs))
  PROVE  GoodJob(Task!Job(t, s \o Task!Authorize(t, purpose, prior, outs, extra)))
<1>1. PICK a : a = Task!Authorization(t, purpose, prior, outs, extra) OBVIOUS
<1>2. a.purpose = purpose /\ a.prior = prior /\ a.outs = outs BY <1>1 DEF Task!Authorization
<1>3. prior /= 0 => prior \in Task!Indices /\ invocations[prior].task = t /\ prior <= Len(invocations) BY OfFacts, AttemptFacts
<1>4. prior /= 0 => invocations[prior].attempt + 1 \in Nat
  <2>1. prior /= 0 => invocations[prior].attempt \in Nat BY <1>3, AttemptFacts DEF AttemptType
  <2> QED BY <2>1
<1>5. a \in AuthorizationType
  <2>1. PICK n : n = IF prior = 0 THEN 1 ELSE invocations[prior].attempt + 1 OBVIOUS
  <2>2. n \in Nat BY <2>1, <1>4
  <2>3. a = [purpose |-> purpose, prior |-> prior, attempt |-> n, outs |-> outs, extra |-> extra]
    BY <1>1, <2>1 DEF Task!Authorization
  <2> QED BY <2>2, <2>3 DEF AuthorizationType
<1>6. prior <= Len(invocations) BY <1>3, AttemptFacts
<1>7. AuthorizationOK(t, a) BY <1>2, <1>3, <1>6 DEF AuthorizationOK
<1>8. PurposeOf(t) = "VALIDATION" => Recovers(a.prior) \/ Binds(s, Len(s), t, Built(a.outs)) BY <1>2
<1>9. GoodJob(Task!Job(t, s \o Task!Command("authorize", t, a))) BY <1>5, <1>7, <1>8, AuthorizingJob
<1> QED BY <1>1, <1>9 DEF Task!Authorize

(* The validation of the whole feature is a task of the plan.               *)
LEMMA WholeFeature ==
  ASSUME TaskTypes, Task!wholeFeatureValidationTaskID /= Nil
  PROVE  Task!wholeFeatureValidationTaskID \in plan /\ PurposeOf(Task!wholeFeatureValidationTaskID) = "VALIDATION"
<1> DEFINE S == Task!FeatureValidators
<1>1. Cardinality(S) = 1 /\ Task!wholeFeatureValidationTaskID = CHOOSE t \in S : TRUE BY DEF Task!wholeFeatureValidationTaskID, Task!Cardinality, Cardinality
<1>2. S /= {}
  <2>1. Cardinality({}) = 0 BY FS_EmptySet
  <2> QED BY <2>1, <1>1
<1>3. Task!wholeFeatureValidationTaskID \in S BY <1>1, <1>2
<1> QED BY <1>3 DEF Task!FeatureValidators, Task!Validator

LEMMA CandidateFacts ==
  ASSUME TaskInv
  PROVE  \A t \in plan :
         /\ Task!Candidate(t) \in SUBSET Nat
         /\ PurposeOf(t) = "VALIDATION" /\ Task!OutputsReady(t) => Built(Task!Outputs(t)) \subseteq Task!Candidate(t)
<1> SUFFICES ASSUME NEW t \in plan
    PROVE  /\ Task!Candidate(t) \in SUBSET Nat
           /\ PurposeOf(t) = "VALIDATION" /\ Task!OutputsReady(t) => Built(Task!Outputs(t)) \subseteq Task!Candidate(t)
  OBVIOUS
<1>0. TaskTypes BY DEF TaskInv
<1>1. CASE PurposeOf(t) = "PROMOTION" /\ Task!wholeFeatureValidationTaskID /= Nil
  <2>1. PICK w : w = Task!wholeFeatureValidationTaskID OBVIOUS
  <2>2. w \in plan BY <2>1, <1>0, <1>1, WholeFeature
  <2>3. task[w].scope \in SUBSET Nat BY <2>2, <1>0 DEF TaskTypes, TaskType
  <2>4. Task!Candidate(t) = task[w].scope BY <1>1, <2>1 DEF Task!Candidate
  <2> QED BY <2>3, <2>4, <1>1
<1>2. CASE ~(PurposeOf(t) = "PROMOTION" /\ Task!wholeFeatureValidationTaskID /= Nil)
  <2>1. Task!Candidate(t) = {Task!Output(d) : d \in DependenciesOf(t) \cap Task!Implementations} BY <1>2 DEF Task!Candidate
  <2>2. \A d \in Task!Implementations : Task!Output(d) \in Nat BY OutputFacts DEF Task!Implementations
  <2> QED BY <2>1, <2>2, OutputsCover
<1> QED BY <1>1, <1>2

LEMMA BlockJob ==
  ASSUME TaskInv, NEW t \in plan
  PROVE  /\ \A i \in Nat, why \in BlockReasons : GoodJob(Task!Block(t, i, why))
         /\ \A why \in BlockReasons : GoodJob(Task!Block(t, Task!Output(t), why))
         /\ GoodJob(Task!Ceiling(t)) /\ GoodJob(Task!ExtendDeadline(t))
<1>0. TaskTypes BY DEF TaskInv
<1>1. ASSUME NEW i \in Nat, NEW why \in BlockReasons PROVE GoodJob(Task!Block(t, i, why))
  <2>1. PICK b : b = [by |-> i, why |-> why] OBVIOUS
  <2>2. b \in BlockType BY <2>1 DEF BlockType
  <2>3. PICK s : s = Task!Command("block", t, b) OBVIOUS
  <2>4. Plain(s) BY <1>0, <2>2, <2>3, PlainCommands
  <2>5. s /= <<>> BY <2>3 DEF Task!Command
  <2>6. GoodJob(Task!Job(t, s)) BY <1>0, <2>4, <2>5, PlainJob
  <2> QED BY <2>1, <2>3, <2>6 DEF Task!Block
<1>2. PICK o \in Nat : o = Task!Output(t) BY OutputFacts
<1>3. \A why \in BlockReasons : GoodJob(Task!Block(t, Task!Output(t), why)) BY <1>1, <1>2
<1>4. GoodJob(Task!Ceiling(t)) BY <1>3 DEF Task!Ceiling, BlockReasons
<1>5. GoodJob(Task!ExtendDeadline(t))
  <2>1. PICK s : s = Task!Command("profile", t, 0) OBVIOUS
  <2>2. Plain(s) BY <1>0, <2>1, PlainCommands
  <2>3. s /= <<>> BY <2>1 DEF Task!Command
  <2>4. GoodJob(Task!Job(t, s)) BY <1>0, <2>2, <2>3, PlainJob
  <2> QED BY <2>1, <2>4 DEF Task!ExtendDeadline
<1> QED BY <1>1, <1>3, <1>4, <1>5

(* A retry of a success for its present inputs.                             *)
LEMMA SuccessorJob ==
  ASSUME TaskInv, NEW t \in plan, PurposeOf(t) /= "IMPLEMENTATION", NEW s, Plain(s), NEW extra \in Int,
         NEW o, o = Task!Output(t), Task!Succeeded(o) \/ Recovers(o), Task!OutputsReady(t),
         PurposeOf(t) = "VALIDATION" => Recovers(o) \/ Binds(s, Len(s), t, Built(Task!Outputs(t)))
  PROVE  GoodJob(Task!Job(t, s \o Task!Authorize(t, PurposeOf(t), o, Task!Outputs(t), extra)))
<1>0. TaskTypes BY DEF TaskInv
<1>1. o /= 0 /\ invocations[o].state /= "RUNNING" BY DEF Recovers, Task!Succeeded
<1>2. o \in Nat /\ o \in Task!Of(t) BY <1>1, OutputFacts
<1>3. PICK outs : outs = Task!Outputs(t) OBVIOUS
<1>4. /\ outs \in SUBSET Nat /\ Covers(t, outs)
      /\ PurposeOf(t) = "VALIDATION" => Succeeds(outs, o)
  BY <1>3, <1>2, OutputsCover
<1>5. PICK purpose : purpose = PurposeOf(t) OBVIOUS
<1>6. purpose \in Purposes /\ Lawful(t, purpose) BY <1>5, <1>0, PlanFacts DEF Lawful
<1>7. GoodJob(Task!Job(t, s \o Task!Authorize(t, purpose, o, outs, extra)))
  BY <1>0, <1>1, <1>2, <1>3, <1>4, <1>5, <1>6, AuthorizeJob
<1> QED BY <1>3, <1>5, <1>7

(* A validator whose candidate has changed.                                 *)
LEMMA RevalidateJobs ==
  ASSUME TaskInv, NEW t \in plan, Task!StaleValidation(t), NEW j \in Task!Revalidate(t)
  PROVE  GoodJob(j)
<1>0. TaskTypes BY DEF TaskInv
<1>1. PurposeOf(t) = "VALIDATION" /\ Task!Succeeded(Task!Output(t)) /\ Task!OutputsReady(t) BY <1>0, PlanFacts DEF Task!StaleValidation
<1>2. GoodJob(Task!Ceiling(t)) BY BlockJob
<1> DEFINE Re == Task!If(task[t].phase = "COMPLETED", Task!Command("reopen", t, Nil) \o Task!Command("profile", t, 1))
           Sc == Re \o Task!Command("scope", t, Task!Candidate(t))
           Un == Task!If(task[t].blocked /= Nil, Task!Command("unblock", t, 0))
<1>3. Plain(Re)
  <2>1. Plain(Task!Command("reopen", t, Nil)) /\ Plain(Task!Command("profile", t, 1)) BY <1>0, PlainCommands
  <2>2. Plain(Task!Command("reopen", t, Nil) \o Task!Command("profile", t, 1)) BY <2>1, PlainParts
  <2> QED BY <2>2, PlainParts
<1>4. PICK r : r = Re OBVIOUS
<1>5. PICK cand \in SUBSET Nat : cand = Task!Candidate(t) BY CandidateFacts
<1>6. Plain(Task!Command("scope", t, cand)) BY <1>0, PlainCommands
<1>7. Plain(Sc) BY <1>3, <1>5, <1>6, PlainParts
<1>8. Plain(Un)
  <2>1. Plain(Task!Command("unblock", t, 0)) BY <1>0, PlainCommands
  <2> QED BY <2>1, PlainParts
<1>9. Plain(Sc \o Un) BY <1>7, <1>8, PlainParts
<1>10. PICK need : need = Built(Task!Outputs(t)) OBVIOUS
<1>11. need \subseteq cand BY <1>1, <1>5, <1>10, CandidateFacts
<1>12. PICK sc : sc = Sc OBVIOUS
<1>13. Binds(sc, Len(sc), t, need)
  <2>1. r \in Seq(CommandType) /\ t \in PlannedTasks BY <1>0, <1>3, <1>4, PlanFacts DEF Plain
  <2>2. Binds(r \o Task!Command("scope", t, cand), Len(r \o Task!Command("scope", t, cand)), t, need) BY <2>1, <1>11, BindsParts
  <2> QED BY <2>2, <1>4, <1>5, <1>12
<1>14. PICK b : b = (task[t].blocked /= Nil) OBVIOUS
<1>15. PICK s : s = Sc \o Un OBVIOUS
<1>16. Binds(s, Len(s), t, need)
  <2>1. sc \in Seq(CommandType) /\ t \in PlannedTasks BY <1>0, <1>7, <1>12, PlanFacts DEF Plain
  <2>2. Binds(sc \o Task!If(b, Task!Command("unblock", t, 0)), Len(sc \o Task!If(b, Task!Command("unblock", t, 0))), t, need)
    BY <2>1, <1>13, BindsParts
  <2> QED BY <2>2, <1>12, <1>14, <1>15
<1>17. PICK o : o = Task!Output(t) OBVIOUS
<1>18. GoodJob(Task!Job(t, s \o Task!Authorize(t, PurposeOf(t), o, Task!Outputs(t), 0)))
  <2>1. Plain(s) BY <1>9, <1>15
  <2>2. Task!Succeeded(o) BY <1>1, <1>17
  <2>3. Binds(s, Len(s), t, Built(Task!Outputs(t))) BY <1>16, <1>10
  <2>4. PurposeOf(t) /= "IMPLEMENTATION" /\ 0 \in Int BY <1>1
  <2> QED BY <1>1, <1>17, <2>1, <2>2, <2>3, <2>4, SuccessorJob
<1>19. Task!Revalidate(t) = {Task!Ceiling(t), Task!Job(t, s \o Task!Authorize(t, PurposeOf(t), o, Task!Outputs(t), 0))}
  BY <1>15, <1>17 DEF Task!Revalidate
<1> QED BY <1>2, <1>18, <1>19

(* An output that cannot be read is tried again.                            *)
LEMMA InvalidJobs ==
  ASSUME TaskInv, NEW t \in plan, PurposeOf(t) /= "IMPLEMENTATION", Task!Succeeded(Task!Output(t)),
         NEW j \in Task!handleInvalidStructuredTaskOutput(t)
  PROVE  GoodJob(j)
<1>0. TaskTypes BY DEF TaskInv
<1>1. GoodJob(Task!Ceiling(t)) /\ GoodJob(Task!Block(t, Task!Output(t), "invalid")) BY BlockJob DEF BlockReasons
<1>2. CASE ~Task!structuredOutputGlitchRetryAllowed(t) BY <1>1, <1>2 DEF Task!handleInvalidStructuredTaskOutput
<1>3. CASE Task!structuredOutputGlitchRetryAllowed(t)
  <2>1. Task!OutputsReady(t) BY <1>3 DEF Task!structuredOutputGlitchRetryAllowed
  <2>2. PICK cand \in SUBSET Nat : cand = Task!Candidate(t) BY CandidateFacts
  <2>3. PICK s : s = Task!Command("scope", t, cand) OBVIOUS
  <2>4. Plain(s) BY <1>0, <2>2, <2>3, PlainCommands
  <2>5. PICK need : need = Built(Task!Outputs(t)) OBVIOUS
  <2>6. PurposeOf(t) = "VALIDATION" => Binds(s, Len(s), t, need)
    <3> SUFFICES ASSUME PurposeOf(t) = "VALIDATION" PROVE Binds(s, Len(s), t, need) OBVIOUS
    <3>1. need \subseteq cand BY <2>1, <2>2, <2>5, CandidateFacts
    <3>2. PICK e : e = <<>> OBVIOUS
    <3>3. e \in Seq(CommandType) /\ t \in PlannedTasks BY <3>2, <1>0, PlanFacts
    <3>4. Binds(e \o s, Len(e \o s), t, need) BY <3>1, <3>3, <2>3, BindsParts
    <3>5. e \o s = s
      <4>1. s \in Seq(CommandType) BY <2>4 DEF Plain
      <4> QED BY <4>1, <3>2
    <3> QED BY <3>4, <3>5
  <2>7. PICK o \in Int : o = Task!Output(t) BY OutputFacts
  <2>8. GoodJob(Task!Job(t, s \o Task!Authorize(t, PurposeOf(t), o, Task!Outputs(t), o)))
    BY <2>1, <2>4, <2>5, <2>6, <2>7, SuccessorJob
  <2>9. Task!handleInvalidStructuredTaskOutput(t) =
          {Task!Ceiling(t), Task!Job(t, s \o Task!Authorize(t, PurposeOf(t), o, Task!Outputs(t), o))}
    BY <1>3, <2>2, <2>3, <2>7 DEF Task!handleInvalidStructuredTaskOutput
  <2> QED BY <1>1, <2>8, <2>9
<1> QED BY <1>2, <1>3

(* The first attempt of a planned task.                                     *)
LEMMA ActivateJob ==
  ASSUME TaskInv, NEW t \in plan, Task!Activatable(t)
  PROVE  GoodJob(Task!activateTask(t))
<1>0. TaskTypes BY DEF TaskInv
<1> DEFINE Ac == Task!If(task[t].phase = "PLANNED", Task!Command("activate", t, Nil))
           Sc == Task!If(PurposeOf(t) /= "IMPLEMENTATION", Task!Command("scope", t, Task!Candidate(t)))
<1>1. Plain(Ac)
  <2>1. Plain(Task!Command("activate", t, Nil)) BY <1>0, PlainCommands
  <2> QED BY <2>1, PlainParts
<1>2. PICK cand \in SUBSET Nat : cand = Task!Candidate(t) BY CandidateFacts
<1>3. Plain(Sc)
  <2>1. Plain(Task!Command("scope", t, cand)) BY <1>0, PlainCommands
  <2> QED BY <2>1, <1>2, PlainParts
<1>4. PICK s : s = Ac \o Sc OBVIOUS
<1>5. Plain(s) BY <1>1, <1>3, <1>4, PlainParts
<1>6. PICK outs : outs = IF PurposeOf(t) = "VALIDATION" THEN Task!Outputs(t) ELSE {} OBVIOUS
<1>7. PurposeOf(t) = "VALIDATION" => Task!OutputsReady(t)
  BY DEF Task!Activatable, Task!plannedDependencyReady, Task!OutputsReady
<1>8. outs \in SUBSET Nat
  <2>1. CASE PurposeOf(t) = "VALIDATION" BY <2>1, <1>6, <1>7, OutputsCover
  <2>2. CASE PurposeOf(t) /= "VALIDATION" BY <2>2, <1>6
  <2> QED BY <2>1, <2>2
<1>9. PurposeOf(t) = "VALIDATION" => Covers(t, outs) /\ Succeeds(outs, 0) BY <1>6, <1>7, OutputsCover DEF Succeeds
<1>10. PurposeOf(t) = "VALIDATION" => Binds(s, Len(s), t, Built(outs))
  <2> SUFFICES ASSUME PurposeOf(t) = "VALIDATION" PROVE Binds(s, Len(s), t, Built(outs)) OBVIOUS
  <2>1. PICK need : need = Built(Task!Outputs(t)) OBVIOUS
  <2>2. need \subseteq cand BY <2>1, <1>2, <1>7, CandidateFacts
  <2>3. PICK e : e = Ac OBVIOUS
  <2>4. e \in Seq(CommandType) /\ t \in PlannedTasks BY <2>3, <1>0, <1>1, PlanFacts DEF Plain
  <2>5. Binds(e \o Task!Command("scope", t, cand), Len(e \o Task!Command("scope", t, cand)), t, need)
    BY <2>2, <2>4, BindsParts
  <2>6. s = e \o Task!Command("scope", t, cand) BY <2>3, <1>2, <1>4 DEF Task!If
  <2> QED BY <2>1, <2>5, <2>6, <1>6
<1>11. PICK purpose : purpose = PurposeOf(t) OBVIOUS
<1>12. purpose \in Purposes /\ Lawful(t, purpose) BY <1>11, <1>0, PlanFacts DEF Lawful
<1>13. PICK z \in Nat : z = 0 OBVIOUS
<1>14. z \in Int /\ Recovers(z) \in BOOLEAN BY <1>13 DEF Recovers
<1>15. PurposeOf(t) = "VALIDATION" => Covers(t, outs) /\ Succeeds(outs, z) BY <1>9, <1>13
<1>16. GoodJob(Task!Job(t, s \o Task!Authorize(t, purpose, z, outs, z)))
  BY <1>0, <1>5, <1>8, <1>10, <1>12, <1>13, <1>14, <1>15, AuthorizeJob
<1> QED BY <1>4, <1>6, <1>11, <1>13, <1>16 DEF Task!activateTask

(* A repair follows the success it repairs.                                 *)
LEMMA RepairJob ==
  ASSUME TaskInv, NEW t \in plan, PurposeOf(t) = "IMPLEMENTATION", Task!Succeeded(Task!Output(t)), NEW s, Plain(s),
         NEW outs \in SUBSET Nat, NEW extra \in Int
  PROVE  GoodJob(Task!Job(t, s \o Task!Authorize(t, "REPAIR", Task!LastRepair(t), outs, extra)))
<1>0. TaskTypes BY DEF TaskInv
<1>1. PICK l \in Nat : l = Task!LastRepair(t) BY LastRepairFacts
<1>2. Lawful(t, "REPAIR") BY SuccessSettles DEF Lawful
<1>3. l /= 0 => l \in Task!Of(t) /\ invocations[l].state /= "RUNNING"
  <2> SUFFICES ASSUME l /= 0 PROVE l \in Task!Of(t) /\ invocations[l].state /= "RUNNING" OBVIOUS
  <2>1. l \in Task!Of(t) BY <1>1, LastRepairFacts
  <2>2. l \in Task!Indices /\ invocations[l].task = t /\ l \in Nat BY <2>1, <1>0, OfFacts
  <2>3. PICK o : o = Task!Output(t) OBVIOUS
  <2>4. o \in Nat /\ o \in Task!Of(t) /\ (\A i \in Task!Of(t) : i <= o) /\ invocations[o].state = "SUCCEEDED"
    BY <2>3, OutputFacts DEF Task!Succeeded
  <2>5. ASSUME invocations[l].state = "RUNNING" PROVE FALSE
    <3>1. \A i \in Task!Of(t) : i <= l BY <2>5, <2>2 DEF TaskInv, AttemptOK
    <3>2. l = o BY <3>1, <2>1, <2>2, <2>4
    <3> QED BY <3>2, <2>4, <2>5
  <2> QED BY <2>1, <2>5
<1>4. "REPAIR" \in Purposes BY DEF Purposes
<1>5. GoodJob(Task!Job(t, s \o Task!Authorize(t, "REPAIR", l, outs, extra))) BY <1>0, <1>2, <1>3, <1>4, AuthorizeJob
<1> QED BY <1>1, <1>5

(* What RetryFailedTask follows up.                                         *)
LEMMA RetriedKinds ==
  ASSUME TaskInv, NEW t \in plan, NEW b, Task!Retried(t, b), NEW o, o = Task!Output(t), NEW kind, kind = Task!classifyTaskRecovery(t, o)
  PROVE  /\ o \in Nat /\ o /= 0 /\ o \in Task!Of(t) /\ kind \in {"terminal", "escalation", "repair", "invalid"}
         /\ kind = "repair" => PurposeOf(t) = "IMPLEMENTATION" /\ Task!Succeeded(o)
         /\ kind = "invalid" => PurposeOf(t) /= "IMPLEMENTATION" /\ Task!Succeeded(o)
         /\ kind \in {"terminal", "escalation"} =>
              /\ PurposeOf(t) = "IMPLEMENTATION" \/ Task!Validator(t)
              /\ Recovers(o) \/ (Task!Validator(t) /\ Task!operatorRevalidatableTaskTerminal(t, o) /\ Task!Succeeded(o))
         /\ PurposeOf(t) /= "IMPLEMENTATION" => Task!OutputsReady(t)
<1>1. o /= 0 /\ kind /= Nil /\ (PurposeOf(t) /= "IMPLEMENTATION" => Task!OutputsReady(t)) BY DEF Task!Retried
<1>2. o \in Nat /\ o \in Task!Of(t) BY <1>1, OutputFacts
<1> QED BY <1>1, <1>2 DEF Task!classifyTaskRecovery, Task!Recoverable, Task!recoverableTaskTerminal, Recovers, Task!Failed,
     Task!operatorRevalidatableTaskTerminal, Task!operatorRepairableTaskTerminal

LEMMA RetryJob ==
  ASSUME TaskInv, NEW t \in plan, NEW b, Task!Retried(t, b)
  PROVE  GoodJob(Task!RetryFailedTask(t, b))
<1>0. TaskTypes BY DEF TaskInv
<1>1. PICK o : o = Task!Output(t) OBVIOUS
<1>2. PICK kind : kind = Task!classifyTaskRecovery(t, o) OBVIOUS
<1>3. /\ o \in Nat /\ o /= 0 /\ o \in Task!Of(t) /\ kind \in {"terminal", "escalation", "repair", "invalid"}
      /\ kind = "repair" => PurposeOf(t) = "IMPLEMENTATION" /\ Task!Succeeded(o)
      /\ kind = "invalid" => PurposeOf(t) /= "IMPLEMENTATION" /\ Task!Succeeded(o)
      /\ kind \in {"terminal", "escalation"} =>
           /\ PurposeOf(t) = "IMPLEMENTATION" \/ Task!Validator(t)
           /\ Recovers(o) \/ (Task!Validator(t) /\ Task!operatorRevalidatableTaskTerminal(t, o) /\ Task!Succeeded(o))
      /\ PurposeOf(t) /= "IMPLEMENTATION" => Task!OutputsReady(t)
  BY <1>1, <1>2, RetriedKinds
<1>4. PICK again : again = Task!operatorRevalidatableTaskTerminal(t, o) OBVIOUS
<1>5. PICK reopened : reopened = (task[t].phase = "COMPLETED" /\ (kind = "repair" \/ again)) OBVIOUS
<1> DEFINE A1 == Task!If(reopened, Task!Command("reopen", t, Nil))
           A2 == Task!If(kind \in {"invalid", "escalation"} /\ task[t].blocked /= Nil, Task!Command("unblock", t, o))
           A3 == Task!Command("reread", t, Nil)
           A4 == Task!If(~b, Task!Command("profile", t, IF reopened THEN 1 ELSE 0))
           A5 == Task!If(kind = "invalid" \/ again, Task!Command("scope", t, Task!Candidate(t)))
           A6 == CASE kind = "repair" -> Task!Authorize(t, "REPAIR", Task!LastRepair(t), {o}, Task!Private)
                   [] kind = "invalid" -> Task!Authorize(t, PurposeOf(t), o, Task!Outputs(t), o)
                   [] kind \notin {"repair", "invalid"} /\ Task!Validator(t) ->
                        Task!Authorize(t, PurposeOf(t), o, Task!Outputs(t), Task!Private)
                   [] OTHER -> Task!Authorize(t, invocations[o].purpose, o, {}, Task!Private)
           Pre == A1 \o A2 \o A3 \o A4
<1>6. Plain(Pre)
  <2>1. Plain(A1) BY <1>0, PlainCommands, PlainParts
  <2>2. Plain(A2)
    <3>1. Plain(Task!Command("unblock", t, o)) BY <1>0, <1>3, PlainCommands
    <3> QED BY <3>1, PlainParts
  <2>3. Plain(A3) BY <1>0, PlainCommands
  <2>4. Plain(A4)
    <3>1. Plain(Task!Command("profile", t, 0)) /\ Plain(Task!Command("profile", t, 1)) BY <1>0, PlainCommands
    <3>2. CASE reopened BY <3>1, <3>2, PlainParts
    <3>3. CASE ~reopened BY <3>1, <3>3, PlainParts
    <3> QED BY <3>2, <3>3
  <2> HIDE DEF A1, A2, A3, A4
  <2>5. Plain(A1 \o A2) BY <2>1, <2>2, PlainParts
  <2>6. Plain(A1 \o A2 \o A3) BY <2>3, <2>5, PlainParts
  <2> QED BY <2>4, <2>6, PlainParts
<1>7. PICK cand \in SUBSET Nat : cand = Task!Candidate(t) BY CandidateFacts
<1>8. Plain(A5)
  <2>1. Plain(Task!Command("scope", t, cand)) BY <1>0, PlainCommands
  <2> QED BY <2>1, <1>7, PlainParts
<1>9. Task!RetryFailedTask(t, b) = Task!Job(t, Pre \o A5 \o A6) BY <1>1, <1>2, <1>4, <1>5 DEF Task!RetryFailedTask
<1>10. PICK pre : pre = Pre OBVIOUS
<1>11. PICK s : s = Pre \o A5 OBVIOUS
<1> HIDE DEF Pre
<1>12. Plain(s) BY <1>6, <1>8, <1>11, PlainParts
<1>13. PurposeOf(t) = "VALIDATION" /\ (kind = "invalid" \/ again) => Binds(s, Len(s), t, Built(Task!Outputs(t)))
  <2> SUFFICES ASSUME PurposeOf(t) = "VALIDATION", kind = "invalid" \/ again PROVE Binds(s, Len(s), t, Built(Task!Outputs(t)))
    OBVIOUS
  <2>1. PICK need : need = Built(Task!Outputs(t)) OBVIOUS
  <2>2. need \subseteq cand BY <2>1, <1>3, <1>7, CandidateFacts
  <2>3. pre \in Seq(CommandType) /\ t \in PlannedTasks BY <1>0, <1>6, <1>10, PlanFacts DEF Plain
  <2>4. Binds(pre \o Task!Command("scope", t, cand), Len(pre \o Task!Command("scope", t, cand)), t, need)
    BY <2>2, <2>3, BindsParts
  <2>5. s = pre \o Task!Command("scope", t, cand) BY <1>7, <1>10, <1>11 DEF Task!If
  <2> QED BY <2>1, <2>4, <2>5
<1> HIDE DEF A5
<1>14. PICK pv \in Int : pv = Task!Private BY DEF Task!Private
<1>15. CASE kind = "repair"
  <2>1. A6 = Task!Authorize(t, "REPAIR", Task!LastRepair(t), {o}, pv) BY <1>14, <1>15
  <2>2. {o} \in SUBSET Nat BY <1>3
  <2>3. GoodJob(Task!Job(t, s \o Task!Authorize(t, "REPAIR", Task!LastRepair(t), {o}, pv))) BY <2>2, <1>1, <1>3, <1>12, <1>15, RepairJob
  <2> QED BY <2>1, <2>3, <1>9, <1>11
<1>16. CASE kind = "invalid"
  <2>1. A6 = Task!Authorize(t, PurposeOf(t), o, Task!Outputs(t), o) BY <1>16
  <2>2. o \in Int BY <1>3
  <2>3. GoodJob(Task!Job(t, s \o Task!Authorize(t, PurposeOf(t), o, Task!Outputs(t), o)))
    BY <2>2, <1>1, <1>3, <1>12, <1>13, <1>16, SuccessorJob
  <2> QED BY <2>1, <2>3, <1>9, <1>11
<1>17. CASE kind \in {"terminal", "escalation"} /\ Task!Validator(t)
  <2>1. A6 = Task!Authorize(t, PurposeOf(t), o, Task!Outputs(t), pv) BY <1>14, <1>17
  <2>2. PurposeOf(t) = "VALIDATION" BY <1>17 DEF Task!Validator
  <2>3. Recovers(o) \/ (again /\ Task!Succeeded(o)) BY <1>3, <1>4, <1>17
  <2>4. GoodJob(Task!Job(t, s \o Task!Authorize(t, PurposeOf(t), o, Task!Outputs(t), pv)))
    BY <2>2, <2>3, <1>1, <1>3, <1>12, <1>13, SuccessorJob
  <2> QED BY <2>1, <2>4, <1>9, <1>11
<1>18. CASE kind \in {"terminal", "escalation"} /\ ~Task!Validator(t)
  <2>1. A6 = Task!Authorize(t, invocations[o].purpose, o, {}, pv) BY <1>14, <1>18
  <2>2. PurposeOf(t) = "IMPLEMENTATION" /\ Recovers(o) BY <1>3, <1>18
  <2>3. PICK purpose : purpose = invocations[o].purpose OBVIOUS
  <2>4. o \in Task!Indices /\ invocations[o].task = t BY <1>0, <1>3, OfFacts
  <2>5. Lawful(t, purpose) BY <2>3, <2>4 DEF TaskInv, AttemptOK
  <2>6. purpose \in Purposes BY <2>3, <2>4, <1>0, AttemptFacts DEF AttemptType
  <2>7. invocations[o].state /= "RUNNING" BY <2>2 DEF Recovers
  <2>8. {} \in SUBSET Nat OBVIOUS
  <2>9. GoodJob(Task!Job(t, s \o Task!Authorize(t, purpose, o, {}, pv)))
    BY <2>2, <2>3, <2>5, <2>6, <2>7, <2>8, <1>0, <1>3, <1>12, AuthorizeJob
  <2> QED BY <2>1, <2>3, <2>9, <1>9, <1>11
<1> QED BY <1>3, <1>15, <1>16, <1>17, <1>18

(* Attempts of a validator were authorized for ever later outputs, so that  *)
(* one in the line of predecessors that was for the present output of a     *)
(* target leaves its successors no other.                                   *)
LEMMA LineageKeeps ==
  ASSUME TaskInv, NEW t \in plan, PurposeOf(t) = "VALIDATION", NEW d \in DependenciesOf(t), NEW y \in Nat,
         NEW p \in Task!Of(t), \A x \in invocations[p].cond.outs : invocations[x].task = d => x <= y,
         NEW j \in Task!Lineage(p)
  PROVE  \A x \in invocations[j].cond.outs : invocations[x].task = d => x <= y
<1>0. TaskTypes BY DEF TaskInv
<1> DEFINE S == {k \in Task!Of(t) : \A x \in invocations[k].cond.outs : invocations[x].task = d => x <= y}
<1>1. S \in SUBSET Task!Indices BY <1>0, OfFacts
<1>2. p \in S OBVIOUS
<1>3. ASSUME NEW k \in S, invocations[k].prior /= 0 PROVE invocations[k].prior \in S
  <2>1. k \in Task!Indices /\ invocations[k].task = t /\ k \in Nat BY <1>0, OfFacts
  <2>2. PICK q : q = invocations[k].prior OBVIOUS
  <2>3. /\ q < k /\ invocations[q].task = t
        /\ Covers(t, invocations[k].cond.outs) /\ Succeeds(invocations[k].cond.outs, q)
    BY <2>1, <2>2, <1>3 DEF TaskInv, AttemptOK
  <2>4. q \in Nat BY <2>1, <2>2, <1>0, AttemptFacts DEF AttemptType
  <2>5. q \in Task!Indices
    <3>1. k <= Len(invocations) /\ Len(invocations) \in Nat BY <2>1, <1>0, AttemptFacts
    <3>2. q /= 0 /\ q <= Len(invocations) BY <3>1, <2>1, <2>2, <2>3, <2>4, <1>3
    <3> QED BY <3>2, <2>4, <1>0, AttemptFacts
  <2>6. q \in Task!Of(t) BY <2>3, <2>5, <1>0, OfFacts
  <2>7. PICK w \in invocations[k].cond.outs : invocations[w].task = d BY <2>3 DEF Covers
  <2>8. w <= y BY <2>7
  <2>9. w \in Nat BY <2>3, <2>7, <1>0, AttemptFacts DEF Covers
  <2>10. ASSUME NEW x \in invocations[q].cond.outs, invocations[x].task = d PROVE x <= y
    <3>1. q /= 0 BY <2>2, <1>3
    <3>2. x <= w BY <3>1, <2>3, <2>7, <2>10 DEF Succeeds
    <3>3. invocations[q].cond.outs \subseteq Nat BY <2>5, <1>0, AttemptFacts DEF AttemptType, ConditionType
    <3>4. x \in Nat BY <3>3
    <3> QED BY <3>2, <3>4, <2>8, <2>9
  <2> QED BY <2>2, <2>6, <2>10
<1>4. j \in S
  <2> HIDE DEF S
  <2> QED BY <1>1, <1>2, <1>3 DEF Task!Lineage
<1> QED BY <1>4

(* A verdict that matches is on the output it is about, unless it is of an  *)
(* attempt that recovers a failed one.                                      *)
LEMMA JudgedSees ==
  ASSUME TaskInv, NEW d \in plan, NEW t \in plan, d \in TargetsOf(t), Task!Judged(t), NEW o, o = Task!Output(t)
  PROVE  Task!Output(d) \in invocations[o].saw \/ Recovers(invocations[o].prior)
<1>0. TaskTypes BY DEF TaskInv
<1>1. PurposeOf(t) = "VALIDATION" /\ d \in DependenciesOf(t) /\ PurposeOf(d) = "IMPLEMENTATION" BY <1>0, PlanFacts
<1>2. Task!Succeeded(o) /\ Task!OutputsReady(t) /\ Task!validatorConditionMatches(o, Task!Outputs(t)) BY DEF Task!Judged
<1>3. o /= 0 /\ o \in Task!Of(t) /\ o \in Task!Indices /\ invocations[o].task = t BY <1>2, OutputFacts DEF Task!Succeeded
<1>4. PICK c : c = Task!Output(d) OBVIOUS
<1>5. c \in Nat /\ c /= 0 /\ c \in Task!Of(d) /\ (\A i \in Task!Of(d) : i <= c) /\ invocations[c].task = d
  BY <1>1, <1>2, <1>4, OutputFacts DEF Task!OutputsReady, Task!Succeeded
<1>6. c \in Task!Outputs(t) BY <1>1, <1>4 DEF Task!Outputs
<1>7. PICK p : p = invocations[o].prior OBVIOUS
<1>8. PICK outs : outs = invocations[o].cond.outs OBVIOUS
<1>9. /\ Covers(t, outs) /\ Succeeds(outs, p) /\ p < o
      /\ p /= 0 => invocations[p].task = t
      /\ Recovers(p) \/ Built(outs) \subseteq invocations[o].saw
  BY <1>1, <1>3, <1>7, <1>8 DEF TaskInv, AttemptOK
<1> SUFFICES ASSUME ~Recovers(p) PROVE c \in outs
  <2>1. c \in outs => c \in Built(outs) BY <1>1, <1>5 DEF Built
  <2> QED BY <2>1, <1>4, <1>7, <1>9
<1>10. CASE outs = Task!Outputs(t) BY <1>10, <1>6
<1>11. CASE p /= 0 /\ Task!validatorRecoveryLineageBindsCandidate(p, Task!Outputs(t))
  <2>1. PICK j \in Task!Lineage(p) : invocations[j].cond.outs = Task!Outputs(t)
    BY <1>11 DEF Task!validatorRecoveryLineageBindsCandidate
  <2>2. PICK y \in outs : invocations[y].task = d BY <1>1, <1>9 DEF Covers
  <2>3. y \in Task!Indices /\ y \in Nat BY <2>2, <1>9, <1>0, AttemptFacts DEF Covers
  <2>4. y <= c BY <2>2, <2>3, <1>0, <1>5, OfFacts
  <2>5. p \in Task!Of(t)
    <3>1. p \in Nat BY <1>3, <1>7, <1>0, AttemptFacts DEF AttemptType
    <3>2. o \in Nat /\ o <= Len(invocations) /\ Len(invocations) \in Nat BY <1>3, <1>0, AttemptFacts
    <3>3. p \in Task!Indices
      <4>1. p <= Len(invocations) BY <3>1, <3>2, <1>9
      <4> QED BY <4>1, <3>1, <1>11, <1>0, AttemptFacts
    <3> QED BY <3>3, <1>9, <1>11, <1>0, OfFacts
  <2>6. \A x \in invocations[p].cond.outs : invocations[x].task = d => x <= y BY <1>9, <1>11, <2>2 DEF Succeeds
  <2>7. \A x \in invocations[j].cond.outs : invocations[x].task = d => x <= y BY <1>1, <2>3, <2>5, <2>6, LineageKeeps
  <2>8. c <= y BY <2>1, <2>7, <1>5, <1>6
  <2>9. c = y BY <2>3, <2>4, <2>8, <1>5
  <2> QED BY <2>2, <2>9
<1> QED BY <1>2, <1>7, <1>8, <1>10, <1>11 DEF Task!validatorConditionMatches, Task!recoverableTaskTerminal, Recovers

LEMMA NoValidators ==
  ASSUME TaskTypes
  PROVE  \A t \in plan : PurposeOf(t) /= "IMPLEMENTATION" => Task!TaskValidators(t) = {}
  BY PlanFacts DEF Task!TaskValidators

LEMMA CompletePlain ==
  ASSUME TaskInv, NEW t \in plan, NEW by \in SUBSET Nat, NEW o, o = Task!Output(t),
         DoneOK(t, [cand |-> o, by |-> by])
  PROVE  Plain(Task!Complete(t, by)) /\ Task!Complete(t, by) /= <<>>
<1>0. TaskTypes BY DEF TaskInv
<1>1. PICK d : d = [cand |-> o, by |-> by] OBVIOUS
<1>2. d \in DoneType /\ DoneOK(t, d) BY <1>1, OutputFacts DEF DoneType
<1>3. Task!Complete(t, by) = Task!Command("complete", t, d) BY <1>1 DEF Task!Complete
<1>4. Plain(Task!Command("complete", t, d)) BY <1>0, <1>2, PlainCommands
<1>5. Task!Command("complete", t, d) /= <<>> BY DEF Task!Command
<1> QED BY <1>3, <1>4, <1>5

LEMMA UnreviewedJob ==
  ASSUME TaskInv, NEW t \in plan, Task!TaskValidators(t) = {}
  PROVE  Plain(Task!Complete(t, {})) /\ GoodJob(Task!Job(t, Task!Complete(t, {})))
<1>0. TaskTypes BY DEF TaskInv
<1>1. PICK o : o = Task!Output(t) OBVIOUS
<1>2. DoneOK(t, [cand |-> o, by |-> {}]) BY DEF DoneOK
<1>3. {} \in SUBSET Nat OBVIOUS
<1>4. Plain(Task!Complete(t, {})) /\ Task!Complete(t, {}) /= <<>> BY <1>1, <1>2, <1>3, CompletePlain
<1>5. PICK s : s = Task!Complete(t, {}) OBVIOUS
<1>6. GoodJob(Task!Job(t, s)) BY <1>0, <1>4, <1>5, PlainJob
<1> QED BY <1>4, <1>5, <1>6

(* A task passes on the verdicts of all its validators.                     *)
LEMMA ReviewJobs ==
  ASSUME TaskInv, NEW c \in Task!Implementations, Task!Reviewable(c), NEW j \in Task!FinalizeReview(c)
  PROVE  GoodJob(j)
<1>0. TaskTypes /\ c \in plan /\ PurposeOf(c) = "IMPLEMENTATION" BY DEF TaskInv, Task!Implementations
<1>1. Task!Succeeded(Task!Output(c)) BY DEF Task!Reviewable, Task!Finished
<1>2. ASSUME NEW t \in Task!Validators(c)
      PROVE  /\ t \in plan /\ c \in TargetsOf(t) /\ Task!Judged(t) /\ Task!Verdict(t) \in {"PASS", "FAIL"}
             /\ Task!Succeeded(Task!Output(t)) /\ PurposeOf(t) = "VALIDATION"
             /\ Task!Output(t) \in Nat /\ Task!Output(t) \in Task!Indices /\ invocations[Task!Output(t)].task = t
  <2>1. t \in plan /\ c \in TargetsOf(t) /\ Task!Judged(t) /\ Task!Verdict(t) \in {"PASS", "FAIL"}
    BY DEF Task!Validators, Task!TaskValidators
  <2>2. Task!Succeeded(Task!Output(t)) BY <2>1 DEF Task!Judged
  <2> QED BY <2>1, <2>2, <1>0, PlanFacts, OutputFacts DEF Task!Succeeded
<1>3. CASE Task!FailedReview(c)
  <2>1. j = Task!authorizeRepairAfterFailedReview(c) BY <1>3 DEF Task!FinalizeReview
  <2>2. CASE Task!nextReviewRepairRound(c) > ReviewRoundLimit
    <3>1. j = Task!Block(c, 0, "exhausted") BY <2>1, <2>2 DEF Task!authorizeRepairAfterFailedReview, Task!Block
    <3> QED BY <3>1, <1>0, BlockJob DEF BlockReasons
  <2>3. CASE ~(Task!nextReviewRepairRound(c) > ReviewRoundLimit)
    <3>1. PICK outs : outs = Task!RepairCondition(c) OBVIOUS
    <3>2. outs \in SUBSET Nat
      <4>1. Task!Output(c) \in Nat BY <1>0, OutputFacts
      <4> QED BY <3>1, <4>1, <1>2 DEF Task!RepairCondition
    <3>3. j = Task!Job(c, Task!Authorize(c, "REPAIR", Task!LastRepair(c), outs, 0))
      BY <2>1, <2>3, <3>1 DEF Task!authorizeRepairAfterFailedReview
    <3>4. PICK e : e = <<>> OBVIOUS
    <3>5. Plain(e) BY <3>4, PlainParts
    <3>6. GoodJob(Task!Job(c, e \o Task!Authorize(c, "REPAIR", Task!LastRepair(c), outs, 0))) BY <1>0, <1>1, <3>2, <3>5, RepairJob
    <3>7. PICK u : u = Task!Authorize(c, "REPAIR", Task!LastRepair(c), outs, 0) OBVIOUS
    <3>8. e \o u = u
      <4>1. u = << [op |-> "authorize", task |-> c, arg |-> Task!Authorization(c, "REPAIR", Task!LastRepair(c), outs, 0)] >>
        BY <3>7 DEF Task!Authorize, Task!Command
      <4>2. PICK r : r = [op |-> "authorize", task |-> c, arg |-> Task!Authorization(c, "REPAIR", Task!LastRepair(c), outs, 0)]
        OBVIOUS
      <4>3. u \in Seq({r}) BY <4>1, <4>2
      <4> QED BY <4>3, <3>4, ConcatEmptySeq
    <3> QED BY <3>3, <3>6, <3>7, <3>8
  <2> QED BY <2>2, <2>3
<1>4. CASE ~Task!FailedReview(c)
  <2>1. Task!Validators(c) = Task!TaskValidators(c) BY <1>4 DEF Task!Reviewable
  <2>2. PICK t \in Task!Validators(c) : j = Task!Job(c, Task!Complete(c, Task!ByReview(c)) \o Task!Complete(t, {}))
    BY <1>4 DEF Task!FinalizeReview
  <2>3. PICK by : by = Task!ByReview(c) OBVIOUS
  <2>4. \A i : i \in by <=> \E v \in Task!Validators(c) : i = Task!Output(v) BY <2>3 DEF Task!ByReview
  <2>5. by \in SUBSET Nat /\ by \subseteq Task!Indices BY <2>4, <1>2
  <2>6. PICK o : o = Task!Output(c) OBVIOUS
  <2>7. {invocations[i].task : i \in by} = Task!TaskValidators(c)
    <3>1. \A i \in by : invocations[i].task \in Task!Validators(c) BY <2>4, <1>2
    <3>2. \A v \in Task!Validators(c) : Task!Output(v) \in by /\ invocations[Task!Output(v)].task = v BY <2>4, <1>2
    <3> QED BY <3>1, <3>2, <2>1
  <2>8. ASSUME NEW i \in by
        PROVE  /\ invocations[i].state /= "RUNNING" /\ invocations[i].verdict = "PASS"
               /\ o \in invocations[i].saw \/ Recovers(invocations[i].prior)
    <3>1. PICK v \in Task!Validators(c) : i = Task!Output(v) BY <2>4
    <3>2. invocations[i].state = "SUCCEEDED" BY <3>1, <1>2 DEF Task!Succeeded
    <3>3. Task!Verdict(v) = "PASS" BY <3>1, <1>2, <1>4 DEF Task!FailedReview
    <3>4. invocations[i].verdict = "PASS" BY <3>1, <3>3 DEF Task!Verdict
    <3>5. Task!Output(c) \in invocations[i].saw \/ Recovers(invocations[i].prior) BY <3>1, <1>0, <1>2, JudgedSees
    <3> QED BY <3>2, <3>4, <3>5, <2>6
  <2>9. PICK d : d = [cand |-> o, by |-> by] OBVIOUS
  <2>10. DoneOK(c, d)
    <3>1. d.cand = o /\ d.by = by BY <2>9
    <3> QED BY <3>1, <2>5, <2>7, <2>8 DEF DoneOK
  <2>11. Plain(Task!Complete(c, by)) /\ Task!Complete(c, by) /= <<>> BY <1>0, <2>5, <2>6, <2>9, <2>10, CompletePlain
  <2>12. Plain(Task!Complete(t, {})) BY <1>0, <1>2, NoValidators, UnreviewedJob
  <2>13. PICK s : s = Task!Complete(c, by) \o Task!Complete(t, {}) OBVIOUS
  <2>14. Plain(s) BY <2>11, <2>12, <2>13, PlainParts
  <2>15. s /= <<>>
    <3>1. PICK x : x = Task!Complete(c, by) OBVIOUS
    <3>2. PICK y : y = Task!Complete(t, {}) OBVIOUS
    <3>3. x \in Seq(CommandType) /\ y \in Seq(CommandType) /\ x /= <<>> BY <3>1, <3>2, <2>11, <2>12 DEF Plain
    <3>4. Len(x) >= 1 /\ Len(x) \in Nat /\ Len(y) \in Nat BY <3>3
    <3>5. Len(x \o y) = Len(x) + Len(y) BY <3>3, ConcatProperties
    <3>6. Len(s) >= 1 BY <3>1, <3>2, <3>4, <3>5, <2>13
    <3> QED BY <3>6
  <2>16. GoodJob(Task!Job(c, s)) BY <1>0, <2>14, <2>15, PlainJob
  <2> QED BY <2>2, <2>3, <2>13, <2>16
<1> QED BY <1>3, <1>4

LEMMA PromotionJobs ==
  ASSUME TaskInv, NEW t \in plan, PurposeOf(t) /= "IMPLEMENTATION", Task!Finished(t), NEW j \in Task!reconcilePromotionCompletion(t)
  PROVE  GoodJob(j)
<1>0. TaskTypes BY DEF TaskInv
<1>1. Task!Succeeded(Task!Output(t)) BY DEF Task!Finished
<1>2. CASE Task!Verdict(t) = "INVALID"
  <2>1. j \in Task!handleInvalidStructuredTaskOutput(t) BY <1>2 DEF Task!reconcilePromotionCompletion
  <2> QED BY <1>1, <2>1, InvalidJobs
<1>3. CASE Task!Verdict(t) = "FAIL"
  <2>1. j = Task!Block(t, Task!Output(t), "verdict") BY <1>3 DEF Task!reconcilePromotionCompletion
  <2> QED BY <2>1, BlockJob DEF BlockReasons
<1>4. CASE Task!Verdict(t) \notin {"INVALID", "FAIL"}
  <2>1. j = Task!Job(t, Task!Complete(t, {})) BY <1>4 DEF Task!reconcilePromotionCompletion
  <2> QED BY <2>1, <1>0, NoValidators, UnreviewedJob
<1> QED BY <1>2, <1>3, <1>4

LEMMA CompletionJobs == ASSUME TaskInv, NEW j \in Task!Completions PROVE GoodJob(j)
<1>0. TaskTypes BY DEF TaskInv
<1>1. ASSUME NEW t \in Task!Reported, j = Task!Block(t, Task!Output(t), "reported") PROVE GoodJob(j)
  BY <1>1, BlockJob DEF Task!Reported, BlockReasons
<1>2. ASSUME NEW t \in Task!Promotions, j \in Task!reconcilePromotionCompletion(t) PROVE GoodJob(j)
  BY <1>2, PromotionJobs DEF Task!Promotions
<1>3. ASSUME NEW t \in Task!Evidenced, j = Task!Job(t, Task!Complete(t, {})) PROVE GoodJob(j)
  BY <1>3, UnreviewedJob DEF Task!Evidenced, Task!Implementations
<1>4. ASSUME NEW t \in Task!Unreadable, j \in Task!handleInvalidStructuredTaskOutput(t) PROVE GoodJob(j)
  <2>1. t \in plan /\ PurposeOf(t) = "VALIDATION" /\ Task!Succeeded(Task!Output(t)) BY DEF Task!Unreadable, Task!Validator, Task!Judged
  <2> QED BY <2>1, <1>4, InvalidJobs
<1>5. ASSUME NEW t \in Task!Reviewed, j \in Task!FinalizeReview(t) PROVE GoodJob(j)
  BY <1>5, ReviewJobs DEF Task!Reviewed
<1>6. ASSUME NEW t \in Task!Trailing, j = Task!Job(t, Task!Complete(t, {})) PROVE GoodJob(j)
  <2>1. t \in plan /\ PurposeOf(t) = "VALIDATION" BY <1>0, PlanFacts DEF Task!Trailing
  <2> QED BY <2>1, <1>0, <1>6, NoValidators, UnreviewedJob
<1>7. ASSUME NEW t \in Task!FeatureJudged, j \in Task!reconcilePromotionCompletion(t) PROVE GoodJob(j)
  <2>1. t \in plan /\ t = Task!wholeFeatureValidationTaskID /\ Task!Finished(t) BY DEF Task!FeatureJudged
  <2>2. PurposeOf(t) = "VALIDATION" BY <2>1, <1>0, PlanFacts, WholeFeature
  <2> QED BY <2>1, <2>2, <1>7, PromotionJobs
<1>8. \/ \E t \in Task!Reported : j = Task!Block(t, Task!Output(t), "reported")
      \/ \E t \in Task!Promotions : j \in Task!reconcilePromotionCompletion(t)
      \/ \E t \in Task!Evidenced : j = Task!Job(t, Task!Complete(t, {}))
      \/ \E t \in Task!Unreadable : j \in Task!handleInvalidStructuredTaskOutput(t)
      \/ \E t \in Task!Reviewed : j \in Task!FinalizeReview(t)
      \/ \E t \in Task!Trailing : j = Task!Job(t, Task!Complete(t, {}))
      \/ \E t \in Task!FeatureJudged : j \in Task!reconcilePromotionCompletion(t)
  <2> DEFINE A == {Task!Block(t, Task!Output(t), "reported") : t \in Task!Reported}
             B == UNION {Task!reconcilePromotionCompletion(t) : t \in Task!Promotions}
             C == {Task!Job(t, Task!Complete(t, {})) : t \in Task!Evidenced}
             E == UNION {Task!handleInvalidStructuredTaskOutput(t) : t \in Task!Unreadable}
             F == UNION {Task!FinalizeReview(t) : t \in Task!Reviewed}
             G == {Task!Job(t, Task!Complete(t, {})) : t \in Task!Trailing}
             H == UNION {Task!reconcilePromotionCompletion(t) : t \in Task!FeatureJudged}
  <2>1. Task!Completions =
          IF Task!Reported /= {} THEN A ELSE IF Task!Promotions /= {} THEN B ELSE IF Task!Evidenced /= {} THEN C
          ELSE IF Task!Unreadable /= {} THEN E ELSE IF Task!Reviewed \cup Task!Trailing /= {} THEN F \cup G ELSE H
    BY DEF Task!Completions
  <2>2. j \in A \/ j \in B \/ j \in C \/ j \in E \/ j \in F \/ j \in G \/ j \in H
    <3> HIDE DEF A, B, C, E, F, G, H
    <3> QED BY <2>1
  <2> QED BY <2>2
<1> QED BY <1>1, <1>2, <1>3, <1>4, <1>5, <1>6, <1>7, <1>8

LEMMA RetryJobs ==
  ASSUME TaskInv, NEW S \in SUBSET plan, NEW j \in Task!Retries(S)
  PROVE  GoodJob(j)
<1>1. PICK r \in S \X BOOLEAN : Task!Retried(r[1], r[2]) /\ j = Task!RetryFailedTask(r[1], r[2]) BY DEF Task!Retries
<1>2. PICK t \in plan, b \in BOOLEAN : t = r[1] /\ b = r[2] BY <1>1
<1> QED BY <1>1, <1>2, RetryJob

LEMMA ReconcilerJobs ==
  ASSUME TaskInv, NEW j \in Task!Jobs \cup {Task!ExtendDeadline(t) : t \in {u \in plan : Task!Extendable(u)}}
  PROVE  GoodJob(j)
<1>1. ASSUME NEW t \in plan, Task!StaleValidation(t), j \in Task!Revalidate(t) PROVE GoodJob(j) BY <1>1, RevalidateJobs
<1>2. ASSUME NEW S \in SUBSET plan, j \in Task!Retries(S) PROVE GoodJob(j) BY <1>2, RetryJobs
<1>3. ASSUME NEW t \in plan, j = Task!Job(t, Task!Command("block", t, [by |-> Task!Output(t), why |-> "escalated"])) PROVE GoodJob(j)
  <2>1. j = Task!Block(t, Task!Output(t), "escalated") BY <1>3 DEF Task!Block
  <2> QED BY <2>1, BlockJob DEF BlockReasons
<1>4. ASSUME NEW t \in plan, Task!Activatable(t), j = Task!activateTask(t) PROVE GoodJob(j) BY <1>4, ActivateJob
<1>5. ASSUME NEW t \in plan, j = Task!ExtendDeadline(t) PROVE GoodJob(j) BY <1>5, BlockJob
<1>6. ASSUME j \in Task!Jobs
      PROVE  \/ \E t \in plan : Task!StaleValidation(t) /\ j \in Task!Revalidate(t)
             \/ \E S \in SUBSET plan : j \in Task!Retries(S)
             \/ \E t \in plan : j = Task!Job(t, Task!Command("block", t, [by |-> Task!Output(t), why |-> "escalated"]))
             \/ j \in Task!Completions
             \/ \E t \in plan : Task!Activatable(t) /\ j = Task!activateTask(t)
  <2> DEFINE stale == {t \in plan : Task!StaleValidation(t)}
             retryable == {t \in plan : Task!ordinaryRetryableTerminalEligible(t)}
             glitched == {t \in plan : Task!Glitched(t)}
             escalated == {t \in glitched : Task!classifyFailedTaskDisposition(t) = "escalate"}
             late == {t \in retryable : ~invocations[Task!Output(t)].late}
             blocks == {Task!Job(t, Task!Command("block", t, [by |-> Task!Output(t), why |-> "escalated"])) : t \in escalated}
             first == {Task!activateTask(t) : t \in {u \in plan : Task!Activatable(u)}}
  <2>1. late \in SUBSET plan /\ glitched \ escalated \in SUBSET plan /\ escalated \subseteq plan OBVIOUS
  <2>2. Task!Jobs =
          IF stale /= {} THEN UNION {Task!Revalidate(t) : t \in stale}
          ELSE IF retryable /= {} THEN Task!Retries(late)
          ELSE IF glitched /= {} THEN blocks \cup Task!Retries(glitched \ escalated)
          ELSE IF Task!Completions /= {} THEN Task!Completions ELSE first
    BY DEF Task!Jobs
  <2>3. j \in UNION {Task!Revalidate(t) : t \in stale} => \E t \in plan : Task!StaleValidation(t) /\ j \in Task!Revalidate(t) OBVIOUS
  <2>4. j \in blocks => \E t \in plan : j = Task!Job(t, Task!Command("block", t, [by |-> Task!Output(t), why |-> "escalated"])) OBVIOUS
  <2>5. j \in first => \E t \in plan : Task!Activatable(t) /\ j = Task!activateTask(t) OBVIOUS
  <2>6. \/ j \in UNION {Task!Revalidate(t) : t \in stale} \/ j \in Task!Retries(late) \/ j \in blocks
        \/ j \in Task!Retries(glitched \ escalated) \/ j \in Task!Completions \/ j \in first
    <3> HIDE DEF stale, retryable, glitched, escalated, late, blocks, first
    <3> QED BY <2>2, <1>6
  <2> QED BY <2>1, <2>3, <2>4, <2>5, <2>6
<1> QED BY <1>1, <1>2, <1>3, <1>4, <1>5, <1>6, CompletionJobs

-----------------------------------------------------------------------------
(* What stays true.  Attempts are added and run to their end; what they     *)
(* were authorized for never changes.                                       *)

Keeps ==
  /\ TaskInv /\ TaskTypes' /\ plan' = plan
  /\ \A i \in Task!Indices :
       /\ i \in Task!Indices'
       /\ invocations'[i].task = invocations[i].task /\ invocations'[i].purpose = invocations[i].purpose
       /\ invocations'[i].prior = invocations[i].prior /\ invocations'[i].cond = invocations[i].cond
       /\ invocations'[i].saw = invocations[i].saw
       /\ invocations[i].state /= "RUNNING" => invocations'[i] = invocations[i]
  /\ \A t \in plan : PurposeOf(t) = "IMPLEMENTATION" /\ Settled(t) => Settled(t)'

LEMMA ValidatorsKept ==
  ASSUME plan' = plan
  PROVE  \A t : Task!TaskValidators(t)' = Task!TaskValidators(t)
<1>1. Task!FeatureValidators' = Task!FeatureValidators BY DEF Task!FeatureValidators, Task!Implementations, Task!Validator
<1>2. Task!wholeFeatureValidationTaskID' = Task!wholeFeatureValidationTaskID BY <1>1 DEF Task!wholeFeatureValidationTaskID
<1> QED BY <1>2 DEF Task!TaskValidators

LEMMA RecoversKept ==
  ASSUME Keeps
  PROVE  \A i \in Nat : i <= Len(invocations) /\ Recovers(i) => Recovers(i)'
<1> SUFFICES ASSUME NEW i \in Nat, i <= Len(invocations), Recovers(i) PROVE Recovers(i)' OBVIOUS
<1>0. TaskTypes BY DEF Keeps, TaskInv
<1>1. i \in Task!Indices /\ invocations[i].state /= "RUNNING" BY <1>0, AttemptFacts DEF Recovers
<1>2. invocations'[i] = invocations[i] BY <1>1 DEF Keeps
<1> QED BY <1>2 DEF Recovers

LEMMA OutputsKept ==
  ASSUME Keeps, NEW outs, outs \subseteq Task!Indices
  PROVE  /\ Built(outs)' = Built(outs)
         /\ \A t : Covers(t, outs) => Covers(t, outs)'
<1>1. \A x \in outs : x \in Task!Indices' /\ invocations'[x].task = invocations[x].task BY DEF Keeps
<1>2. Built(outs)' = Built(outs) BY <1>1 DEF Built
<1>3. \A t : Covers(t, outs) => Covers(t, outs)' BY <1>1 DEF Covers
<1> QED BY <1>2, <1>3

LEMMA SucceedsKept ==
  ASSUME Keeps, NEW t \in plan, PurposeOf(t) = "VALIDATION", NEW outs, outs \subseteq Task!Indices, NEW i \in Nat,
         i /= 0 => i <= Len(invocations) /\ invocations[i].task = t, Succeeds(outs, i)
  PROVE  Succeeds(outs, i)'
<1>0. TaskTypes BY DEF Keeps, TaskInv
<1> SUFFICES ASSUME i /= 0, NEW x \in invocations'[i].cond.outs, NEW y \in outs, invocations'[x].task = invocations'[y].task
    PROVE  x <= y
  BY DEF Succeeds
<1>1. i \in Task!Indices BY <1>0, AttemptFacts
<1>2. invocations'[i].cond = invocations[i].cond BY <1>1 DEF Keeps
<1>3. Covers(t, invocations[i].cond.outs) BY <1>1 DEF Keeps, TaskInv, AttemptOK
<1>4. x \in invocations[i].cond.outs BY <1>2
<1>5. x \in Task!Indices BY <1>3, <1>4 DEF Covers
<1>6. invocations'[x].task = invocations[x].task /\ invocations'[y].task = invocations[y].task BY <1>5 DEF Keeps
<1> QED BY <1>4, <1>6 DEF Succeeds

LEMMA LawfulKept ==
  ASSUME Keeps
  PROVE  \A t \in plan : \A purpose : Lawful(t, purpose) => Lawful(t, purpose)'
  BY DEF Keeps, Lawful

LEMMA AuthorizationKept ==
  ASSUME Keeps, NEW t \in plan, NEW a \in AuthorizationType, AuthorizationOK(t, a)
  PROVE  AuthorizationOK(t, a)'
<1>0. TaskTypes /\ TaskTypes' BY DEF Keeps, TaskInv
<1>1. PICK p \in Nat : p = a.prior BY DEF AuthorizationType
<1>2. PICK outs \in SUBSET Nat : outs = a.outs BY DEF AuthorizationType
<1>3. /\ Lawful(t, a.purpose) /\ p <= Len(invocations)
      /\ p /= 0 => invocations[p].task = t /\ invocations[p].state /= "RUNNING"
      /\ PurposeOf(t) = "IMPLEMENTATION" /\ a.purpose /= "REPAIR" /\ p /= 0 =>
           Recovers(p) /\ invocations[p].purpose = a.purpose
      /\ PurposeOf(t) = "VALIDATION" => Covers(t, outs) /\ Succeeds(outs, p)
  BY <1>1, <1>2 DEF AuthorizationOK
<1>4. Lawful(t, a.purpose)' BY <1>3, LawfulKept
<1>5. p /= 0 => p \in Task!Indices /\ p \in Task!Indices' /\ invocations'[p] = invocations[p]
  BY <1>0, <1>3, AttemptFacts DEF Keeps
<1>6. p <= Len(invocations')
  <2>1. CASE p = 0 BY <2>1, <1>0 DEF TaskTypes
  <2>2. CASE p /= 0 BY <2>2, <1>5, <1>0 DEF Task!Indices, TaskTypes
  <2> QED BY <2>1, <2>2
<1>7. Recovers(p) => Recovers(p)' BY <1>3, RecoversKept
<1>8. PurposeOf(t) = "VALIDATION" => Covers(t, outs)' /\ Succeeds(outs, p)'
  <2> SUFFICES ASSUME PurposeOf(t) = "VALIDATION" PROVE Covers(t, outs)' /\ Succeeds(outs, p)' OBVIOUS
  <2>1. outs \subseteq Task!Indices BY <1>3 DEF Covers
  <2> QED BY <2>1, <1>3, OutputsKept, SucceedsKept
<1> QED BY <1>1, <1>2, <1>3, <1>4, <1>5, <1>6, <1>7, <1>8 DEF AuthorizationOK

LEMMA DoneKept ==
  ASSUME Keeps, NEW t, NEW d, DoneOK(t, d)
  PROVE  DoneOK(t, d)'
<1>0. TaskTypes BY DEF Keeps, TaskInv
<1>1. Task!TaskValidators(t)' = Task!TaskValidators(t)
  <2>1. plan' = plan BY DEF Keeps
  <2> QED BY <2>1, ValidatorsKept
<1> SUFFICES ASSUME Task!TaskValidators(t) /= {}
    PROVE  /\ d.by \subseteq Task!Indices' /\ {invocations'[i].task : i \in d.by} = Task!TaskValidators(t)
           /\ \A i \in d.by :
                /\ invocations'[i].state /= "RUNNING" /\ invocations'[i].verdict = "PASS"
                /\ d.cand \in invocations'[i].saw \/ Recovers(invocations[i].prior)'
  BY <1>1 DEF DoneOK
<1>2. /\ d.by \subseteq Task!Indices /\ {invocations[i].task : i \in d.by} = Task!TaskValidators(t)
      /\ \A i \in d.by :
           /\ invocations[i].state /= "RUNNING" /\ invocations[i].verdict = "PASS"
           /\ d.cand \in invocations[i].saw \/ Recovers(invocations[i].prior)
  BY DEF DoneOK
<1>3. \A i \in d.by : i \in Task!Indices' /\ invocations'[i] = invocations[i] BY <1>2 DEF Keeps
<1>4. \A i \in d.by : Recovers(invocations[i].prior) => Recovers(invocations[i].prior)'
  <2> SUFFICES ASSUME NEW i \in d.by, Recovers(invocations[i].prior) PROVE Recovers(invocations[i].prior)'
    OBVIOUS
  <2>1. PICK p : p = invocations[i].prior OBVIOUS
  <2>2. i \in Task!Indices BY <1>2
  <2>3. p \in Nat /\ p < i /\ i \in Nat /\ i <= Len(invocations) /\ Len(invocations) \in Nat
    BY <2>1, <2>2, <1>0, AttemptFacts DEF Keeps, TaskInv, AttemptOK, AttemptType
  <2>4. p <= Len(invocations) BY <2>3
  <2>5. Recovers(p)' BY <2>1, <2>3, <2>4, RecoversKept
  <2>6. invocations'[i].prior = p BY <2>1, <1>3
  <2> QED BY <2>5, <2>6 DEF Recovers
<1>5. {invocations'[i].task : i \in d.by} = {invocations[i].task : i \in d.by} BY <1>3
<1> QED BY <1>2, <1>3, <1>4, <1>5

LEMMA CommandKept ==
  ASSUME Keeps, NEW c, CommandOK(c)
  PROVE  CommandOK(c)'
<1>1. c.task \in plan /\ plan' = plan BY DEF CommandOK, Keeps
<1>2. PICK t \in plan : t = c.task BY <1>1
<1>3. PICK a : a = c.arg OBVIOUS
<1>4. c.op = "authorize" => a \in AuthorizationType /\ AuthorizationOK(t, a)' BY <1>2, <1>3, AuthorizationKept DEF CommandOK
<1>5. c.op = "complete" => a \in DoneType /\ DoneOK(t, a)' BY <1>2, <1>3, DoneKept DEF CommandOK
<1>6. /\ c.op = "scope" => c.arg \in SUBSET Nat
      /\ c.op = "unblock" => c.arg \in Nat
      /\ c.op = "block" => c.arg \in BlockType
  BY DEF CommandOK
<1> QED BY <1>1, <1>2, <1>3, <1>4, <1>5, <1>6 DEF CommandOK

(* An old attempt, unless one more begins beside it.                        *)
LEMMA AttemptKept ==
  ASSUME Keeps, NEW i \in Task!Indices,
         invocations'[i].state = "RUNNING" => \A j \in Task!Of(invocations[i].task)' : j <= i
  PROVE  AttemptOK(i)'
<1>0. TaskTypes BY DEF Keeps, TaskInv
<1>1. PICK t \in plan : t = invocations[i].task BY <1>0, AttemptFacts
<1>2. PICK p \in Nat : p = invocations[i].prior BY <1>0, AttemptFacts DEF AttemptType
<1>3. PICK outs : outs = invocations[i].cond.outs OBVIOUS
<1>4. PICK purpose : purpose = invocations[i].purpose OBVIOUS
<1>5. /\ invocations'[i].task = t /\ invocations'[i].prior = p /\ invocations'[i].cond.outs = outs
      /\ invocations'[i].purpose = purpose /\ invocations'[i].saw = invocations[i].saw
  BY <1>1, <1>2, <1>3, <1>4 DEF Keeps
<1>6. /\ Lawful(t, purpose) /\ p < i
      /\ p /= 0 => invocations[p].task = t /\ invocations[p].state /= "RUNNING"
      /\ PurposeOf(t) = "VALIDATION" =>
           /\ Covers(t, outs) /\ Succeeds(outs, p)
           /\ Recovers(p) \/ Built(outs) \subseteq invocations[i].saw
  BY <1>1, <1>2, <1>3, <1>4 DEF Keeps, TaskInv, AttemptOK
<1>7. i \in Nat /\ i <= Len(invocations) /\ Len(invocations) \in Nat BY <1>0, AttemptFacts
<1>8. p <= Len(invocations) BY <1>6, <1>7
<1>9. Lawful(t, purpose)' BY <1>6, LawfulKept
<1>10. p /= 0 => invocations'[p].task = t /\ invocations'[p].state /= "RUNNING"
  <2> SUFFICES ASSUME p /= 0 PROVE invocations'[p].task = t /\ invocations'[p].state /= "RUNNING" OBVIOUS
  <2>1. p \in Task!Indices BY <1>8, <1>0, AttemptFacts
  <2>2. invocations'[p] = invocations[p] BY <2>1, <1>6 DEF Keeps
  <2> QED BY <2>2, <1>6
<1>11. Recovers(p) => Recovers(p)' BY <1>8, RecoversKept
<1>12. PurposeOf(t) = "VALIDATION" =>
         /\ Covers(t, outs)' /\ Succeeds(outs, p)'
         /\ Recovers(p)' \/ Built(outs)' \subseteq invocations[i].saw
  <2> SUFFICES ASSUME PurposeOf(t) = "VALIDATION"
      PROVE  /\ Covers(t, outs)' /\ Succeeds(outs, p)'
             /\ Recovers(p)' \/ Built(outs)' \subseteq invocations[i].saw
    OBVIOUS
  <2>1. outs \subseteq Task!Indices BY <1>6 DEF Covers
  <2>2. Covers(t, outs)' /\ Built(outs)' = Built(outs) BY <2>1, <1>6, OutputsKept
  <2>3. Succeeds(outs, p)' BY <2>1, <1>6, <1>8, SucceedsKept
  <2> QED BY <2>2, <2>3, <1>6, <1>11
<1>13. invocations'[i].state = "RUNNING" => \A j \in Task!Of(t)' : j <= i BY <1>5 DEF Task!Of
<1>14. PICK a : a = invocations'[i] OBVIOUS
<1>15. /\ a.task = t /\ a.prior = p /\ a.cond.outs = outs /\ a.purpose = purpose /\ a.saw = invocations[i].saw
       /\ a.state = "RUNNING" => \A j \in Task!Of(t)' : j <= i
  BY <1>5, <1>13, <1>14
<1>16. /\ Lawful(invocations[i].task, invocations[i].purpose)'
       /\ Covers(t, outs)' => Covers(invocations[i].task, invocations[i].cond.outs)'
       /\ Succeeds(outs, p)' => Succeeds(invocations[i].cond.outs, invocations[i].prior)'
       /\ Recovers(p)' => Recovers(invocations[i].prior)'
       /\ Built(invocations[i].cond.outs)' = Built(outs)'
       /\ Task!Of(invocations[i].task)' = Task!Of(t)'
  <2>1. Lawful(invocations[i].task, invocations[i].purpose)' BY <1>5, <1>9 DEF Lawful, Settled, Task!Of
  <2>2. Covers(t, outs)' => Covers(invocations[i].task, invocations[i].cond.outs)' BY <1>5 DEF Covers
  <2>3. Succeeds(outs, p)' => Succeeds(invocations[i].cond.outs, invocations[i].prior)' BY <1>5 DEF Succeeds
  <2>4. Recovers(p)' => Recovers(invocations[i].prior)' BY <1>5 DEF Recovers
  <2>5. Built(invocations[i].cond.outs)' = Built(outs)' BY <1>5 DEF Built
  <2>6. Task!Of(invocations[i].task)' = Task!Of(t)' BY <1>5 DEF Task!Of
  <2> QED BY <2>1, <2>2, <2>3, <2>4, <2>5, <2>6
<1> QED BY <1>5, <1>6, <1>10, <1>12, <1>13, <1>16 DEF AttemptOK

(* A job that only waits: it may fall behind, but not catch up.             *)
LEMMA JobKept ==
  ASSUME Keeps, NEW j \in JobType, JobOK(j), NEW x \in JobType, x.cmds = j.cmds,
         \A t \in x.fresh \cap plan : t \in j.fresh /\ task'[t].scope = task[t].scope
  PROVE  JobOK(x)'
<1>1. PICK s \in Seq(CommandType) : s = j.cmds BY DEF JobType
<1>2. PICK n \in Nat : n = Len(s) OBVIOUS
<1>3. PICK c : c = s[n] OBVIOUS
<1>4. s /= <<>> /\ (\A k \in 1 .. n : CommandOK(s[k])) /\ (\A k \in 1 .. (n - 1) : s[k].op /= "authorize")
  BY <1>1, <1>2 DEF JobOK
<1>5. \A k \in 1 .. n : CommandOK(s[k])'
  <2> SUFFICES ASSUME NEW k \in 1 .. n PROVE CommandOK(s[k])' OBVIOUS
  <2>1. PICK d : d = s[k] OBVIOUS
  <2>2. CommandOK(d)' BY <2>1, <1>4, CommandKept
  <2> QED BY <2>1, <2>2
<1>6. n \in 1 .. n BY <1>2, <1>4
<1>7. CommandOK(c) BY <1>3, <1>4, <1>6
<1>8. ASSUME c.op = "authorize", PurposeOf(c.task) = "VALIDATION"
      PROVE  \/ Recovers(c.arg.prior)'
             \/ Binds(s, n - 1, c.task, Built(c.arg.outs)')
             \/ Bound(s, n - 1, x.fresh, c.task, Built(c.arg.outs))'
  <2>1. PICK t \in plan : t = c.task BY <1>7 DEF CommandOK
  <2>2. PICK a \in AuthorizationType : a = c.arg BY <1>7, <1>8 DEF CommandOK
  <2>3. AuthorizationOK(t, a) BY <2>1, <2>2, <1>7, <1>8 DEF CommandOK
  <2>4. PICK p \in Nat : p = a.prior BY DEF AuthorizationType
  <2>5. p <= Len(invocations) /\ Covers(t, a.outs) BY <2>1, <2>3, <2>4, <1>8 DEF AuthorizationOK
  <2>6. PICK need : need = Built(a.outs) OBVIOUS
  <2>7. Built(a.outs)' = need BY <2>5, <2>6, OutputsKept DEF Covers
  <2>8. Recovers(p) \/ Binds(s, n - 1, t, need) \/ Bound(s, n - 1, j.fresh, t, need)
    BY <1>1, <1>2, <1>3, <1>8, <2>1, <2>2, <2>4, <2>6 DEF JobOK, ScopeBound
  <2>9. CASE Recovers(p)
    <3>1. Recovers(p)' BY <2>5, <2>9, RecoversKept
    <3> QED BY <3>1, <2>2, <2>4
  <2>10. CASE Binds(s, n - 1, t, need) BY <2>10, <2>1, <2>2, <2>7
  <2>11. CASE Bound(s, n - 1, j.fresh, t, need)
    <3>1. (\A k \in 1 .. (n - 1) : s[k].op \notin Rebinding) /\ (t \in x.fresh => need \subseteq task'[t].scope)
      BY <2>11 DEF Bound
    <3> QED BY <3>1, <2>1, <2>2, <2>7 DEF Bound
  <2> QED BY <2>8, <2>9, <2>10, <2>11
<1>9. ScopeBound(x)'
  <2>1. x.cmds = s /\ Len(x.cmds) = n /\ x.cmds[n] = c BY <1>1, <1>2, <1>3
  <2>2. (Binds(s, n - 1, c.task, Built(c.arg.outs)))' <=> Binds(s, n - 1, c.task, Built(c.arg.outs)') BY DEF Binds
  <2> QED BY <2>1, <2>2, <1>8 DEF ScopeBound
<1> QED BY <1>1, <1>2, <1>4, <1>5, <1>9 DEF JobOK

(* A step that begins no attempt.                                           *)
LEMMA TaskFrame ==
  ASSUME Keeps, LastKnown',
         \A i \in Task!Indices : invocations'[i].state = "RUNNING" => \A k \in Task!Of(invocations[i].task)' : k <= i,
         \A i \in Task!Indices' : i \notin Task!Indices => AttemptOK(i)',
         \A p \in Task!Processes : job'[p] /= Nil => JobOK(job[p])',
         \A t \in plan : task'[t].phase = "COMPLETED" => DoneOK(t, task[t].done)'
  PROVE  TaskInv'
<1>1. \A i \in Task!Indices' : AttemptOK(i)' BY AttemptKept
<1>2. TaskTypes' /\ plan' = plan BY DEF Keeps
<1> QED BY <1>1, <1>2 DEF TaskInv, Task!Processes

-----------------------------------------------------------------------------
(* The steps.                                                               *)

LEMMA TaskInit == ASSUME Task!Init PROVE TaskInv
<1>1. plan \in TaskPlans /\ task = [t \in plan |-> Task!Planned] /\ invocations = <<>> /\ job = [p \in Task!Processes |-> Nil]
  BY DEF Task!Init
<1>2. Task!Planned \in TaskType BY DEF Task!Planned, TaskType
<1>3. Task!Indices = {} BY <1>1 DEF Task!Indices
<1>4. TaskTypes BY <1>1, <1>2, <1>3 DEF TaskTypes
<1>5. LastKnown BY <1>3 DEF LastKnown, HasLast, Task!Of, Task!Attempts
<1>6. \A p \in Task!Processes : job[p] = Nil BY <1>1
<1>7. \A t \in plan : task[t].phase = "PLANNED" BY <1>1 DEF Task!Planned
<1> QED BY <1>3, <1>4, <1>5, <1>6, <1>7 DEF TaskInv

(* The attempts as they are.                                                *)
LEMMA SameAttempts ==
  ASSUME TaskInv, TaskTypes', plan' = plan, invocations' = invocations
  PROVE  /\ Keeps /\ LastKnown'
         /\ \A i \in Task!Indices : invocations'[i].state = "RUNNING" => \A k \in Task!Of(invocations[i].task)' : k <= i
         /\ \A i \in Task!Indices' : i \in Task!Indices
<1>1. Task!Indices' = Task!Indices BY DEF Task!Indices
<1>2. \A t : Task!Of(t)' = Task!Of(t) BY <1>1 DEF Task!Of
<1>3. \A t, p : Task!Attempts(t, p)' = Task!Attempts(t, p) BY <1>2 DEF Task!Attempts
<1>4. LastKnown' BY <1>2, <1>3 DEF TaskInv, LastKnown, HasLast
<1>5. \A t : Settled(t)' <=> Settled(t) BY <1>2 DEF Settled
<1>6. Keeps BY <1>1, <1>5 DEF Keeps
<1>7. ASSUME NEW i \in Task!Indices, invocations'[i].state = "RUNNING" PROVE \A k \in Task!Of(invocations[i].task)' : k <= i
  <2>1. PICK t : t = invocations[i].task OBVIOUS
  <2>2. \A k \in Task!Of(t) : k <= i BY <1>7, <2>1 DEF TaskInv, AttemptOK
  <2>3. Task!Of(invocations[i].task)' = Task!Of(t) BY <1>1, <2>1 DEF Task!Of
  <2> QED BY <2>2, <2>3
<1> QED BY <1>1, <1>4, <1>6, <1>7

(* Tasks and attempts as they are; jobs begin, end or go on.                *)
LEMMA JobsOnly ==
  ASSUME TaskInv, UNCHANGED <<plan, task, invocations>>, job' \in [Task!Processes -> JobType \cup {Nil}],
         \A p \in Task!Processes : job'[p] = job[p] \/ job'[p] = Nil \/ GoodJob(job'[p])
  PROVE  TaskInv'
<1>0. TaskTypes BY DEF TaskInv
<1>1. TaskTypes' BY <1>0 DEF TaskTypes, Task!Indices
<1>2. /\ Keeps /\ LastKnown'
      /\ \A i \in Task!Indices : invocations'[i].state = "RUNNING" => \A k \in Task!Of(invocations[i].task)' : k <= i
      /\ \A i \in Task!Indices' : i \in Task!Indices
  BY <1>1, SameAttempts
<1>3. ASSUME NEW p \in Task!Processes, job'[p] /= Nil PROVE JobOK(job[p])'
  <2>1. PICK j : j = job'[p] OBVIOUS
  <2>2. j \in JobType BY <2>1, <1>3
  <2>3. JobOK(j) BY <2>1, <1>3 DEF TaskInv, GoodJob
  <2>4. JobOK(j)' BY <2>2, <2>3, <1>2, JobKept
  <2> QED BY <2>1, <2>4 DEF JobOK, ScopeBound, Bound, Binds
<1>4. ASSUME NEW t \in plan, task'[t].phase = "COMPLETED" PROVE DoneOK(t, task[t].done)'
  <2>1. PICK d : d = task[t].done OBVIOUS
  <2>2. DoneOK(t, d) BY <2>1, <1>4 DEF TaskInv
  <2>3. DoneOK(t, d)' BY <2>2, <1>2, DoneKept
  <2> QED BY <2>1, <2>3 DEF DoneOK
<1> QED BY <1>2, <1>3, <1>4, TaskFrame

LEMMA TaskJobs ==
  ASSUME TaskInv, Task!reconcileFeaturePlan \/ \E t \in plan : Task!OperatorRecovers(t) \/ Task!Recommend(t)
  PROVE  TaskInv'
<1>0. job \in [Task!Processes -> JobType \cup {Nil}] BY DEF TaskInv, TaskTypes
<1>1. CASE Task!reconcileFeaturePlan
  <2>1. PICK j \in Task!Jobs \cup {Task!ExtendDeadline(t) : t \in {u \in plan : Task!Extendable(u)}} :
          job' = [job EXCEPT !["reconciler"] = j] /\ UNCHANGED <<plan, task, invocations>>
    BY <1>1 DEF Task!reconcileFeaturePlan
  <2>2. GoodJob(j) BY ReconcilerJobs
  <2>3. j \in JobType BY <2>2 DEF GoodJob
  <2> QED BY <1>0, <2>1, <2>2, <2>3, JobsOnly
<1>2. ASSUME NEW t \in plan, Task!OperatorRecovers(t) PROVE TaskInv'
  <2>1. PICK b \in BOOLEAN : /\ Task!Retried(t, b) /\ job' = [job EXCEPT !["operator"] = Task!RetryFailedTask(t, b)]
                             /\ UNCHANGED <<plan, task, invocations>>
    BY <1>2 DEF Task!OperatorRecovers
  <2>2. PICK j : j = Task!RetryFailedTask(t, b) OBVIOUS
  <2>3. GoodJob(j) BY <2>1, <2>2, RetryJob
  <2>4. j \in JobType BY <2>3 DEF GoodJob
  <2> QED BY <1>0, <2>1, <2>2, <2>3, <2>4, JobsOnly
<1>3. ASSUME NEW t \in plan, Task!Recommend(t) PROVE TaskInv'
  <2>1. UNCHANGED <<plan, task, invocations, job>> BY <1>3 DEF Task!Recommend
  <2> QED BY <1>0, <2>1, JobsOnly
<1> QED BY <1>1, <1>2, <1>3

LEMMA TaskAbandon ==
  ASSUME TaskInv, NEW p \in Task!Processes, Task!Abandon(p)
  PROVE  TaskInv'
<1>0. job \in [Task!Processes -> JobType \cup {Nil}] BY DEF TaskInv, TaskTypes
<1>1. job' = [job EXCEPT ![p] = Nil] /\ UNCHANGED <<plan, task, invocations>> BY DEF Task!Abandon
<1> QED BY <1>0, <1>1, JobsOnly

(* An attempt ends.                                                         *)
LEMMA TaskReport ==
  ASSUME TaskInv, NEW i \in Task!Indices, NEW state \in AttemptStates, state /= "RUNNING",
         NEW verdict \in {"PASS", "FAIL", "INVALID", "REPORTED", Nil},
         NEW class \in {"repeated", "retryable", "glitch", "fatal", Nil}, NEW late \in BOOLEAN,
         Task!Report(i, state, verdict, class, late)
  PROVE  TaskInv'
<1>0. TaskTypes BY DEF TaskInv
<1>1. PICK a \in AttemptType : a = invocations[i] BY <1>0, AttemptFacts
<1>2. PICK r : r = [a EXCEPT !.state = state, !.verdict = verdict, !.class = class, !.late = late] OBVIOUS
<1>3. /\ invocations' = [invocations EXCEPT ![i] = r] /\ a.state = "RUNNING" /\ UNCHANGED <<plan, task, job>>
  BY <1>1, <1>2 DEF Task!Report, Task!Terminal
<1>4. /\ r \in AttemptType /\ r.task = a.task /\ r.purpose = a.purpose /\ r.prior = a.prior /\ r.cond = a.cond /\ r.saw = a.saw
      /\ r.state = state
  <2>1. r = [task |-> a.task, purpose |-> a.purpose, attempt |-> a.attempt, prior |-> a.prior, cond |-> a.cond, prof |-> a.prof,
             gen |-> a.gen, saw |-> a.saw, state |-> state, verdict |-> verdict, class |-> class, late |-> late]
    BY <1>2 DEF AttemptType
  <2> QED BY <2>1 DEF AttemptType
<1> HIDE DEF AttemptType
<1>5. /\ invocations' \in Seq(AttemptType) /\ Len(invocations') = Len(invocations) /\ invocations'[i] = r
      /\ \A k \in Task!Indices : k /= i => invocations'[k] = invocations[k]
  BY <1>0, <1>3, <1>4 DEF TaskTypes, Task!Indices
<1>6. Task!Indices' = Task!Indices BY <1>5 DEF Task!Indices
<1>7. \A k \in Task!Indices :
        /\ invocations'[k].task = invocations[k].task /\ invocations'[k].purpose = invocations[k].purpose
        /\ invocations'[k].prior = invocations[k].prior /\ invocations'[k].cond = invocations[k].cond
        /\ invocations'[k].saw = invocations[k].saw
        /\ invocations[k].state /= "RUNNING" => invocations'[k] = invocations[k]
  BY <1>1, <1>3, <1>4, <1>5
<1>8. TaskTypes' BY <1>0, <1>3, <1>5, <1>6, <1>7 DEF TaskTypes
<1>9. \A t : Task!Of(t)' = Task!Of(t) BY <1>6, <1>7 DEF Task!Of
<1>10. \A t, p : Task!Attempts(t, p)' = Task!Attempts(t, p)
  <2>1. \A t, k : k \in Task!Of(t) => k \in Task!Indices BY <1>0, OfFacts
  <2> QED BY <2>1, <1>7, <1>9 DEF Task!Attempts
<1>11. LastKnown' BY <1>3, <1>9, <1>10 DEF TaskInv, LastKnown, HasLast
<1>12. ASSUME NEW t, Settled(t) PROVE Settled(t)'
  <2>1. PICK m \in Task!Of(t) :
          /\ invocations[m].purpose = PurposeOf(t) /\ invocations[m].state = "SUCCEEDED"
          /\ \A k \in Task!Of(t) : invocations[k].purpose = PurposeOf(t) => k <= m
    BY <1>12 DEF Settled
  <2>2. \A k \in Task!Of(t) : k \in Task!Indices BY <1>0, OfFacts
  <2>3. invocations'[m] = invocations[m] BY <2>1, <2>2, <1>7
  <2>4. \A k \in Task!Of(t) : invocations'[k].purpose = PurposeOf(t) => k <= m BY <2>1, <2>2, <1>7
  <2> QED BY <2>1, <2>3, <2>4, <1>9 DEF Settled
<1>13. Keeps BY <1>3, <1>6, <1>7, <1>8, <1>12 DEF Keeps
<1>14. ASSUME NEW k \in Task!Indices, invocations'[k].state = "RUNNING" PROVE \A x \in Task!Of(invocations[k].task)' : x <= k
  <2>1. invocations[k].state = "RUNNING" BY <1>4, <1>5, <1>7, <1>14
  <2>2. PICK t : t = invocations[k].task OBVIOUS
  <2>3. \A x \in Task!Of(t) : x <= k BY <2>1, <2>2 DEF TaskInv, AttemptOK
  <2>4. Task!Of(invocations[k].task)' = Task!Of(t)' BY <2>2, <1>7 DEF Task!Of
  <2> QED BY <2>3, <2>4, <1>9
<1>15. ASSUME NEW p \in Task!Processes, job'[p] /= Nil PROVE JobOK(job[p])'
  <2>1. PICK j : j = job[p] OBVIOUS
  <2>2. job'[p] = j /\ j /= Nil BY <2>1, <1>3, <1>15
  <2>3. j \in JobType /\ JobOK(j) BY <2>1, <2>2, <1>0 DEF TaskInv, TaskTypes
  <2>4. \A t \in j.fresh \cap plan : t \in j.fresh /\ task'[t].scope = task[t].scope BY <1>3
  <2>5. JobOK(j)' BY <2>3, <2>4, <1>13, JobKept
  <2> QED BY <2>2, <2>5 DEF JobOK, ScopeBound, Bound, Binds
<1>16. ASSUME NEW t \in plan, task'[t].phase = "COMPLETED" PROVE DoneOK(t, task[t].done)'
  <2>1. PICK d : d = task[t].done OBVIOUS
  <2>2. DoneOK(t, d) BY <2>1, <1>3, <1>16 DEF TaskInv
  <2>3. DoneOK(t, d)' BY <2>2, <1>13, DoneKept
  <2> QED BY <2>1, <2>3, <1>3 DEF DoneOK
<1> QED BY <1>6, <1>11, <1>13, <1>14, <1>15, <1>16, TaskFrame

LEMMA TaskEnds ==
  ASSUME TaskInv, NEW i \in Task!Indices, Task!Succeed(i) \/ Task!Fail(i) \/ Task!TimeOut(i)
  PROVE  TaskInv'
<1>0. \A s \in {"SUCCEEDED", "FAILED", "TIMED_OUT"} : s \in AttemptStates /\ s /= "RUNNING" BY DEF AttemptStates
<1>1. CASE Task!Succeed(i)
  <2>1. PICK v \in Task!Verdicts(invocations[i].task), c \in {Nil, "repeated"} : Task!Report(i, "SUCCEEDED", v, c, FALSE)
    BY <1>1 DEF Task!Succeed
  <2>2. v \in {"PASS", "FAIL", "INVALID", "REPORTED", Nil} BY DEF Task!Verdicts
  <2>3. c \in {"repeated", "retryable", "glitch", "fatal", Nil} OBVIOUS
  <2> QED BY <1>0, <2>1, <2>2, <2>3, TaskReport
<1>2. CASE Task!Fail(i)
  <2>1. PICK c \in {"retryable", "glitch", "fatal"}, late \in BOOLEAN : Task!Report(i, "FAILED", Nil, c, late)
    BY <1>2 DEF Task!Fail
  <2>2. c \in {"repeated", "retryable", "glitch", "fatal", Nil} OBVIOUS
  <2>3. Nil \in {"PASS", "FAIL", "INVALID", "REPORTED", Nil} OBVIOUS
  <2> QED BY <1>0, <2>1, <2>2, <2>3, TaskReport
<1>3. CASE Task!TimeOut(i)
  <2>1. PICK c \in {"retryable", "fatal"} : Task!Report(i, "TIMED_OUT", Nil, c, FALSE) BY <1>3 DEF Task!TimeOut
  <2>2. c \in {"repeated", "retryable", "glitch", "fatal", Nil} OBVIOUS
  <2>3. Nil \in {"PASS", "FAIL", "INVALID", "REPORTED", Nil} OBVIOUS
  <2> QED BY <1>0, <2>1, <2>2, <2>3, TaskReport
<1> QED BY <1>1, <1>2, <1>3

(* Who is admitted has no rival: for the purpose of the task nothing runs   *)
(* because the kernel looks, for the other because a repair follows a       *)
(* success and no attempt of the task itself follows a success.             *)
LEMMA NoRival ==
  ASSUME TaskInv, NEW t \in plan, NEW a \in AuthorizationType, AuthorizationOK(t, a), Task!Admitted(t, a)
  PROVE  /\ PurposeOf(t) = "IMPLEMENTATION" /\ a.purpose /= "REPAIR" => ~Settled(t)
         /\ \A i \in Task!Of(t) : invocations[i].state /= "RUNNING"
<1>0. TaskTypes BY DEF TaskInv
<1>1. \A i \in Task!Of(t) : i \in Nat /\ i \in Task!Indices /\ invocations[i].task = t BY <1>0, OfFacts
<1>2. PICK p \in Nat : p = a.prior BY DEF AuthorizationType
<1>3. \A i \in Task!Of(t) : invocations[i].purpose = a.purpose => invocations[i].state /= "RUNNING" /\ i <= p
  BY <1>0, <1>2, OfFacts DEF Task!Admitted, Task!Terminal
<1>4. Lawful(t, a.purpose) BY DEF AuthorizationOK
<1>5. \A i \in Task!Of(t) : Lawful(t, invocations[i].purpose) BY <1>1 DEF TaskInv, AttemptOK
<1>6. ASSUME PurposeOf(t) = "IMPLEMENTATION", a.purpose /= "REPAIR", Settled(t) PROVE FALSE
  <2>1. a.purpose = PurposeOf(t) BY <1>4, <1>6 DEF Lawful
  <2>2. PICK m \in Task!Of(t) :
          /\ invocations[m].purpose = PurposeOf(t) /\ invocations[m].state = "SUCCEEDED"
          /\ \A i \in Task!Of(t) : invocations[i].purpose = PurposeOf(t) => i <= m
    BY <1>6 DEF Settled
  <2>3. m <= p /\ m \in Nat /\ m >= 1 BY <2>1, <2>2, <1>1, <1>3, <1>0, AttemptFacts
  <2>4. p /= 0 BY <2>3
  <2>5. Recovers(p) /\ invocations[p].purpose = PurposeOf(t) /\ invocations[p].task = t /\ p <= Len(invocations)
    BY <2>1, <2>4, <1>2, <1>6 DEF AuthorizationOK
  <2>6. p \in Task!Of(t) BY <2>4, <2>5, <1>0, AttemptFacts, OfFacts
  <2>7. p <= m BY <2>2, <2>5, <2>6
  <2>8. p = m BY <2>3, <2>7
  <2> QED BY <2>2, <2>5, <2>8 DEF Recovers
<1>7. ASSUME NEW i \in Task!Of(t), invocations[i].state = "RUNNING" PROVE FALSE
  <2>1. invocations[i].purpose /= a.purpose BY <1>3, <1>7
  <2>2. invocations[i].purpose \in {PurposeOf(t), "REPAIR"} /\ a.purpose \in {PurposeOf(t), "REPAIR"} BY <1>4, <1>5 DEF Lawful
  <2>3. CASE invocations[i].purpose = "REPAIR"
    <3>1. PurposeOf(t) = "IMPLEMENTATION" /\ Settled(t) BY <2>3, <1>5 DEF Lawful
    <3> QED BY <3>1, <2>1, <2>3, <1>6
  <2>4. CASE invocations[i].purpose = PurposeOf(t) /\ a.purpose = "REPAIR"
    <3>1. Settled(t) BY <2>4, <1>4 DEF Lawful
    <3>2. PICK m \in Task!Of(t) :
            /\ invocations[m].state = "SUCCEEDED"
            /\ \A k \in Task!Of(t) : invocations[k].purpose = PurposeOf(t) => k <= m
      BY <3>1 DEF Settled
    <3>3. i <= m BY <2>4, <3>2
    <3>4. m <= i BY <1>1, <1>7 DEF TaskInv, AttemptOK
    <3>5. m = i BY <3>3, <3>4, <1>1
    <3> QED BY <3>2, <3>5, <1>7
  <2> QED BY <2>1, <2>2, <2>3, <2>4
<1> QED BY <1>6, <1>7

(* The next command of a job has been submitted.                            *)
LEMMA RestKept ==
  ASSUME Keeps, NEW j \in JobType, JobOK(j), NEW s, s = j.cmds, Len(s) /= 1, NEW x \in JobType, x.cmds = Tail(s),
         \A t \in x.fresh \cap plan : t \in j.fresh \/ s[1].op = "reread",
         s[1].op /= "scope" => \A t \in plan : task'[t].scope = task[t].scope,
         s[1].op = "scope" => task'[s[1].task].scope = s[1].arg
  PROVE  JobOK(x)'
<1>1. s \in Seq(CommandType) BY DEF JobType
<1>2. PICK n \in Nat : n = Len(s) BY <1>1
<1>3. n >= 2
  <2>1. s /= <<>> BY DEF JobOK
  <2>2. Len(s) /= 0 BY <2>1, <1>1, EmptySeq
  <2>3. n /= 0 /\ n /= 1 BY <2>2, <1>2
  <2> QED BY <2>3
<1>4. PICK u : u = Tail(s) OBVIOUS
<1>5. u \in Seq(CommandType) /\ Len(u) = n - 1 /\ \A k \in 1 .. (n - 1) : u[k] = s[k + 1] BY <1>1, <1>2, <1>3, <1>4
<1>6. (\A k \in 1 .. n : CommandOK(s[k])) /\ (\A k \in 1 .. (n - 1) : s[k].op /= "authorize") BY <1>2 DEF JobOK
<1>7. \A k \in 1 .. (n - 1) : CommandOK(u[k])'
  <2> SUFFICES ASSUME NEW k \in 1 .. (n - 1) PROVE CommandOK(u[k])' OBVIOUS
  <2>1. PICK d : d = u[k] OBVIOUS
  <2>2. k + 1 \in 1 .. n BY <1>2
  <2>3. CommandOK(d) BY <2>1, <2>2, <1>5, <1>6
  <2>4. CommandOK(d)' BY <2>3, CommandKept
  <2> QED BY <2>1, <2>4
<1>8. \A k \in 1 .. (n - 2) : u[k] = s[k + 1] /\ k + 1 \in 1 .. (n - 1) /\ s[k + 1].op /= "authorize" BY <1>2, <1>5, <1>6
<1>9. PICK c : c = s[n] OBVIOUS
<1>10. u[n - 1] = c /\ CommandOK(c)
  <2>1. n - 1 \in 1 .. (n - 1) /\ (n - 1) + 1 = n /\ n \in 1 .. n BY <1>2, <1>3
  <2> QED BY <2>1, <1>5, <1>6, <1>9
<1>11. ASSUME c.op = "authorize", PurposeOf(c.task) = "VALIDATION"
      PROVE  \/ Recovers(c.arg.prior)'
             \/ Binds(u, n - 2, c.task, Built(c.arg.outs)')
             \/ Bound(u, n - 2, x.fresh, c.task, Built(c.arg.outs))'
  <2>1. PICK t \in plan : t = c.task BY <1>10 DEF CommandOK
  <2>2. PICK a \in AuthorizationType : a = c.arg BY <1>10, <1>11 DEF CommandOK
  <2>3. AuthorizationOK(t, a) BY <2>1, <2>2, <1>10, <1>11 DEF CommandOK
  <2>4. PICK p \in Nat : p = a.prior BY DEF AuthorizationType
  <2>5. p <= Len(invocations) /\ Covers(t, a.outs) BY <2>1, <2>3, <2>4, <1>11 DEF AuthorizationOK
  <2>6. PICK need : need = Built(a.outs) OBVIOUS
  <2>7. Built(a.outs)' = need BY <2>5, <2>6, OutputsKept DEF Covers
  <2>8. Recovers(p) \/ Binds(s, n - 1, t, need) \/ Bound(s, n - 1, j.fresh, t, need)
    BY <1>2, <1>9, <1>11, <2>1, <2>2, <2>4, <2>6 DEF JobOK, ScopeBound
  <2>9. CASE Recovers(p)
    <3>1. Recovers(p)' BY <2>5, <2>9, RecoversKept
    <3> QED BY <3>1, <2>2, <2>4
  <2>10. CASE Binds(s, n - 1, t, need)
    <3>1. PICK m \in 1 .. (n - 1) :
            /\ s[m].op = "scope" /\ s[m].task = t /\ need \subseteq s[m].arg
            /\ \A k \in (m + 1) .. (n - 1) : s[k].op \notin Rebinding
      BY <2>10 DEF Binds
    <3>2. CASE m = 1
      <4>1. need \subseteq task'[t].scope BY <3>1, <3>2
      <4>2. ASSUME NEW k \in 1 .. (n - 2) PROVE u[k].op \notin Rebinding
        <5>1. k + 1 \in (m + 1) .. (n - 1) BY <3>2, <1>2
        <5> QED BY <5>1, <3>1, <1>8
      <4> QED BY <4>1, <4>2, <2>1, <2>2, <2>7 DEF Bound
    <3>3. CASE m /= 1
      <4>1. m - 1 \in 1 .. (n - 2) /\ (m - 1) + 1 = m BY <3>3, <1>2
      <4>2. u[m - 1] = s[m] BY <4>1, <1>8
      <4>3. ASSUME NEW k \in ((m - 1) + 1) .. (n - 2) PROVE u[k].op \notin Rebinding
        <5>1. k \in 1 .. (n - 2) /\ k + 1 \in (m + 1) .. (n - 1) BY <1>2
        <5> QED BY <5>1, <3>1, <1>8
      <4>4. Binds(u, n - 2, t, need) BY <4>1, <4>2, <4>3, <3>1 DEF Binds
      <4> QED BY <4>4, <2>1, <2>2, <2>7
    <3> QED BY <3>2, <3>3
  <2>11. CASE Bound(s, n - 1, j.fresh, t, need)
    <3>1. (\A k \in 1 .. (n - 1) : s[k].op \notin Rebinding) /\ (t \in j.fresh => need \subseteq task[t].scope) BY <2>11 DEF Bound
    <3>2. 1 \in 1 .. (n - 1) BY <1>2, <1>3
    <3>3. s[1].op /= "scope" /\ s[1].op /= "reread" BY <3>1, <3>2 DEF Rebinding
    <3>4. t \in x.fresh => need \subseteq task'[t].scope BY <3>1, <3>3
    <3>5. \A k \in 1 .. (n - 2) : u[k].op \notin Rebinding BY <3>1, <1>8
    <3> QED BY <3>4, <3>5, <2>1, <2>2, <2>7 DEF Bound
  <2> QED BY <2>8, <2>9, <2>10, <2>11
<1>12. ScopeBound(x)'
  <2>0. (n - 1) - 1 = n - 2 BY <1>2
  <2>1. x.cmds = u /\ Len(x.cmds) = n - 1 /\ x.cmds[n - 1] = c /\ (n - 1) - 1 = n - 2 BY <2>0, <1>4, <1>5, <1>10, Zenon
  <2>2. (Binds(u, n - 2, c.task, Built(c.arg.outs)))' <=> Binds(u, n - 2, c.task, Built(c.arg.outs)') BY DEF Binds
  <2> QED BY <2>1, <2>2, <1>11 DEF ScopeBound
<1>13. u /= <<>> BY <1>2, <1>3, <1>5
<1>14. x.cmds = u /\ Len(u) = n - 1 /\ Len(u) - 1 = n - 2 BY <1>2, <1>4, <1>5
<1> QED BY <1>7, <1>8, <1>12, <1>13, <1>14 DEF JobOK

LEMMA ChangedFacts ==
  ASSUME TaskTypes, NEW c, CommandOK(c), c.op \in Task!TaskCommands, NEW w, w = task[c.task], NEW r, r = Task!Changed(c)
  PROVE  /\ r \in TaskType
         /\ r.scope = IF c.op = "scope" THEN c.arg ELSE w.scope
         /\ r.phase = "COMPLETED" =>
              (c.op = "complete" /\ r.done = c.arg) \/ (w.phase = "COMPLETED" /\ r.done = w.done)
<1>1. w \in TaskType BY DEF CommandOK, TaskTypes
<1>2. CASE c.op = "reopen"
  <2>1. PICK g \in Nat : g = w.gen + 1 BY <1>1 DEF TaskType
  <2>2. r = [w EXCEPT !.phase = "ACTIVE", !.gen = g] BY <1>2, <2>1 DEF Task!Changed
  <2> QED BY <1>1, <1>2, <2>2 DEF TaskType
<1>3. CASE c.op = "profile"
  <2>1. PICK g \in Nat : g = w.prof + 1 BY <1>1 DEF TaskType
  <2>2. PICK e \in Nat : e = w.gen BY <1>1 DEF TaskType
  <2>3. r = [w EXCEPT !.prof = g, !.profGen = e] BY <1>3, <2>1, <2>2 DEF Task!Changed
  <2> QED BY <1>1, <1>3, <2>3 DEF TaskType
<1>4. CASE c.op = "scope"
  <2>1. r = [w EXCEPT !.scope = c.arg] /\ c.arg \in SUBSET Nat BY <1>4 DEF Task!Changed, CommandOK
  <2> QED BY <1>1, <1>4, <2>1 DEF TaskType
<1>5. CASE c.op = "unblock"
  <2>1. r = [w EXCEPT !.blocked = Nil, !.unblocked = c.arg] /\ c.arg \in Nat BY <1>5 DEF Task!Changed, CommandOK
  <2> QED BY <1>1, <1>5, <2>1 DEF TaskType
<1>6. CASE c.op = "block"
  <2>1. PICK b : b = [by |-> c.arg.by, why |-> c.arg.why] OBVIOUS
  <2>2. b \in BlockType BY <1>6, <2>1 DEF CommandOK, BlockType
  <2>3. r = [w EXCEPT !.blocked = b] BY <1>6, <2>1 DEF Task!Changed
  <2> QED BY <1>1, <1>6, <2>2, <2>3 DEF TaskType
<1>7. CASE c.op = "activate"
  <2>1. r = [w EXCEPT !.phase = "ACTIVE"] BY <1>7 DEF Task!Changed
  <2> QED BY <1>1, <1>7, <2>1 DEF TaskType
<1>8. CASE c.op = "complete"
  <2>1. r = [w EXCEPT !.phase = "COMPLETED", !.done = c.arg] /\ c.arg \in DoneType BY <1>8 DEF Task!Changed, CommandOK
  <2> QED BY <1>1, <1>8, <2>1 DEF TaskType
<1> QED BY <1>2, <1>3, <1>4, <1>5, <1>6, <1>7, <1>8 DEF Task!TaskCommands

(* The jobs after a command.                                                *)
LEMMA RestType ==
  ASSUME TaskInv, NEW p \in Task!Processes, NEW j, j = job[p], j /= Nil, NEW c, c = Head(j.cmds), NEW x, x = Task!Rest(p, c)
  PROVE  /\ j \in JobType /\ JobOK(j) /\ c = j.cmds[1] /\ CommandOK(c) /\ c.op \in CommandOps
         /\ x \in JobType \cup {Nil}
         /\ x /= Nil => /\ x \in JobType /\ Len(j.cmds) /= 1 /\ x.cmds = Tail(j.cmds)
                        /\ \A t \in x.fresh : t \in j.fresh \/ c.op = "reread"
<1>1. j \in JobType /\ JobOK(j) BY DEF TaskInv, TaskTypes
<1>2. PICK s \in Seq(CommandType) : s = j.cmds BY <1>1 DEF JobType
<1>3. s /= <<>> /\ Len(s) \in Nat \ {0} BY <1>1, <1>2, EmptySeq DEF JobOK
<1>4. 1 \in 1 .. Len(s) BY <1>3
<1>5. c = s[1] /\ c \in CommandType BY <1>2, <1>3, <1>4
<1>6. CommandOK(c) BY <1>1, <1>2, <1>4, <1>5 DEF JobOK
<1>7. c.op \in CommandOps /\ c.task \in PlannedTasks BY <1>5 DEF CommandType
<1>8. Tail(s) \in Seq(CommandType) BY <1>2, <1>3
<1>9. CASE Len(s) = 1
  <2>1. x = Nil BY <1>2, <1>9 DEF Task!Rest
  <2> QED BY <2>1, <1>1, <1>2, <1>5, <1>6, <1>7
<1>10. CASE Len(s) /= 1
  <2>1. PICK f : f = IF c.op = "reread" THEN j.fresh \cup {c.task} ELSE j.fresh OBVIOUS
  <2>2. f \in SUBSET PlannedTasks BY <2>1, <1>1, <1>7 DEF JobType
  <2>3. x = [fresh |-> f, cmds |-> Tail(s)] BY <2>1, <1>2, <1>10 DEF Task!Rest
  <2>4. x \in JobType /\ x.cmds = Tail(s) /\ x.fresh = f BY <2>2, <2>3, <1>8 DEF JobType
  <2>5. \A t \in f : t \in j.fresh \/ c.op = "reread" BY <2>1
  <2> QED BY <2>4, <2>5, <1>1, <1>2, <1>5, <1>6, <1>7, <1>10
<1> QED BY <1>9, <1>10

LEMMA OvertakenType ==
  ASSUME TaskInv, NEW q \in Task!Processes, NEW c, NEW j, j = job[q], NEW y, y = Task!Overtaken(q, c)
  PROVE  /\ y \in JobType \cup {Nil}
         /\ c.op \notin Task!TaskCommands => y = j
         /\ y /= Nil =>
              /\ j /= Nil /\ j \in JobType /\ JobOK(j) /\ y \in JobType /\ y.cmds = j.cmds /\ y.fresh \subseteq j.fresh
              /\ c.op \in Task!TaskCommands => c.task \notin y.fresh
<1>1. j \in JobType \cup {Nil} /\ (j /= Nil => JobOK(j)) BY DEF TaskInv, TaskTypes
<1>2. CASE j = Nil \/ c.op \notin Task!TaskCommands
  <2>1. y = j BY <1>2 DEF Task!Overtaken
  <2> QED BY <2>1, <1>1, <1>2
<1>3. CASE ~(j = Nil \/ c.op \notin Task!TaskCommands) /\ y /= Nil
  <2>1. y = [j EXCEPT !.fresh = @ \ {c.task}] BY <1>3 DEF Task!Overtaken
  <2>2. j \in JobType BY <1>1, <1>3
  <2>3. PICK f \in SUBSET PlannedTasks : f = j.fresh \ {c.task} BY <2>2 DEF JobType
  <2>4. y = [j EXCEPT !.fresh = f] BY <2>1, <2>3
  <2>5. y \in JobType /\ y.cmds = j.cmds /\ y.fresh = f BY <2>2, <2>4 DEF JobType
  <2> QED BY <2>2, <2>3, <2>5, <1>1, <1>3
<1> QED BY <1>1, <1>2, <1>3

(* The jobs after a command that was accepted and began no attempt.         *)
LEMMA JobsAfter ==
  ASSUME Keeps, NEW p \in Task!Processes, NEW j, j = job[p], j /= Nil, NEW c, c = Head(j.cmds),
         \A q \in Task!Processes : job'[q] = IF q = p THEN Task!Rest(p, c) ELSE Task!Overtaken(q, c),
         c.op /= "scope" => \A t \in plan : task'[t].scope = task[t].scope,
         c.op = "scope" => task'[c.task].scope = c.arg /\ c.op \in Task!TaskCommands,
         \A t \in plan : t /= c.task => task'[t].scope = task[t].scope,
         NEW q \in Task!Processes, job'[q] /= Nil
  PROVE  JobOK(job[q])'
<1>0. TaskInv BY DEF Keeps
<1>1. CASE q = p
  <2>1. PICK x : x = Task!Rest(p, c) OBVIOUS
  <2>2. job'[q] = x BY <1>1, <2>1
  <2>3. /\ j \in JobType /\ JobOK(j) /\ c = j.cmds[1] /\ x \in JobType /\ Len(j.cmds) /= 1 /\ x.cmds = Tail(j.cmds)
        /\ \A t \in x.fresh : t \in j.fresh \/ c.op = "reread"
    BY <1>0, <2>1, <2>2, RestType
  <2>4. PICK s : s = j.cmds OBVIOUS
  <2>5. \A t \in x.fresh \cap plan : t \in j.fresh \/ s[1].op = "reread" BY <2>3, <2>4
  <2>6. s[1].op /= "scope" => \A t \in plan : task'[t].scope = task[t].scope BY <2>3, <2>4
  <2>7. s[1].op = "scope" => task'[s[1].task].scope = s[1].arg BY <2>3, <2>4
  <2>8. Len(s) /= 1 /\ x.cmds = Tail(s) BY <2>3, <2>4
  <2>9. JobOK(x)' BY <2>3, <2>4, <2>5, <2>6, <2>7, <2>8, RestKept
  <2> QED BY <2>2, <2>9 DEF JobOK, ScopeBound, Bound, Binds
<1>2. CASE q /= p
  <2>1. PICK y : y = Task!Overtaken(q, c) OBVIOUS
  <2>2. job'[q] = y BY <1>2, <2>1
  <2>3. PICK k : k = job[q] OBVIOUS
  <2>4. /\ k \in JobType /\ JobOK(k) /\ y \in JobType /\ y.cmds = k.cmds /\ y.fresh \subseteq k.fresh
        /\ c.op \in Task!TaskCommands => c.task \notin y.fresh
    BY <1>0, <2>1, <2>2, <2>3, OvertakenType
  <2>5. ASSUME NEW t \in y.fresh \cap plan PROVE t \in k.fresh /\ task'[t].scope = task[t].scope
    <3>1. CASE c.op = "scope"
      <4>1. t /= c.task BY <3>1, <2>4
      <4> QED BY <4>1, <2>4
    <3>2. CASE c.op /= "scope" BY <3>2, <2>4
    <3> QED BY <3>1, <3>2
  <2>6. JobOK(y)' BY <2>4, <2>5, JobKept
  <2> QED BY <2>2, <2>6 DEF JobOK, ScopeBound, Bound, Binds
<1> QED BY <1>1, <1>2

(* A command that changes its task.                                         *)
LEMMA TaskCommanded ==
  ASSUME TaskInv, NEW p \in Task!Processes, NEW j, j = job[p], j /= Nil, NEW c, c = Head(j.cmds),
         job' \in [Task!Processes -> JobType \cup {Nil}],
         \A q \in Task!Processes : job'[q] = IF q = p THEN Task!Rest(p, c) ELSE Task!Overtaken(q, c),
         plan' = plan, invocations' = invocations,
         \/ c.op \in Task!TaskCommands /\ task' = [task EXCEPT ![c.task] = Task!Changed(c)]
         \/ c.op \notin Task!TaskCommands /\ task' = task
  PROVE  TaskInv'
<1>0. TaskTypes BY DEF TaskInv
<1>1. CommandOK(c) BY RestType
<1>2. PICK t \in plan : t = c.task BY <1>1 DEF CommandOK
<1>3. PICK w : w = task[t] OBVIOUS
<1>4. PICK r : r = IF c.op \in Task!TaskCommands THEN Task!Changed(c) ELSE w OBVIOUS
<1>5. /\ r \in TaskType
      /\ r.scope = IF c.op = "scope" THEN c.arg ELSE w.scope
      /\ r.phase = "COMPLETED" =>
           (c.op = "complete" /\ r.done = c.arg) \/ (w.phase = "COMPLETED" /\ r.done = w.done)
  <2>1. CASE c.op \in Task!TaskCommands
    <3>1. r = Task!Changed(c) BY <2>1, <1>4
    <3> QED BY <3>1, <2>1, <1>0, <1>1, <1>2, <1>3, ChangedFacts
  <2>2. CASE c.op \notin Task!TaskCommands
    <3>1. r = w /\ c.op /= "scope" BY <2>2, <1>4 DEF Task!TaskCommands
    <3> QED BY <3>1, <1>0, <1>3 DEF TaskTypes
  <2> QED BY <2>1, <2>2
<1>6. task \in [plan -> TaskType] BY <1>0 DEF TaskTypes
<1>7. task' \in [plan -> TaskType] /\ task'[t] = r /\ \A u \in plan : u /= t => task'[u] = task[u]
  <2>1. CASE c.op \in Task!TaskCommands
    <3>1. task' = [task EXCEPT ![t] = r] BY <2>1, <1>2, <1>4
    <3> HIDE DEF TaskType
    <3> QED BY <3>1, <1>5, <1>6
  <2>2. CASE c.op \notin Task!TaskCommands BY <2>2, <1>3, <1>4, <1>6
  <2> QED BY <2>1, <2>2
<1>8. Task!Indices' = Task!Indices BY DEF Task!Indices
<1>9. TaskTypes' BY <1>0, <1>7, <1>8 DEF TaskTypes
<1>10. /\ Keeps /\ LastKnown'
       /\ \A i \in Task!Indices : invocations'[i].state = "RUNNING" => \A k \in Task!Of(invocations[i].task)' : k <= i
       /\ \A i \in Task!Indices' : i \in Task!Indices
  BY <1>9, SameAttempts
<1>11. \A u \in plan : u /= c.task => task'[u].scope = task[u].scope BY <1>2, <1>7
<1>12. c.op /= "scope" => \A u \in plan : task'[u].scope = task[u].scope BY <1>3, <1>5, <1>7
<1>13. c.op = "scope" => task'[c.task].scope = c.arg /\ c.op \in Task!TaskCommands BY <1>2, <1>5, <1>7 DEF Task!TaskCommands
<1>14. ASSUME NEW q \in Task!Processes, job'[q] /= Nil PROVE JobOK(job[q])'
  BY <1>10, <1>11, <1>12, <1>13, <1>14, JobsAfter
<1>15. ASSUME NEW u \in plan, task'[u].phase = "COMPLETED" PROVE DoneOK(u, task[u].done)'
  <2>1. PICK d : d = task'[u].done OBVIOUS
  <2>2. DoneOK(u, d)
    <3>1. CASE u /= t BY <3>1, <2>1, <1>7, <1>15 DEF TaskInv
    <3>2. CASE u = t
      <4>1. (c.op = "complete" /\ d = c.arg) \/ (w.phase = "COMPLETED" /\ d = w.done) BY <3>2, <2>1, <1>5, <1>7, <1>15
      <4>2. CASE c.op = "complete" /\ d = c.arg BY <4>2, <3>2, <1>1, <1>2 DEF CommandOK
      <4>3. CASE w.phase = "COMPLETED" /\ d = w.done BY <4>3, <3>2, <1>3 DEF TaskInv
      <4> QED BY <4>1, <4>2, <4>3
    <3> QED BY <3>1, <3>2
  <2>3. DoneOK(u, d)' BY <2>2, <1>10, DoneKept
  <2> QED BY <2>1, <2>3 DEF DoneOK
<1> QED BY <1>10, <1>14, <1>15, TaskFrame

LEMMA InvocationFacts ==
  ASSUME TaskTypes, NEW t \in plan, NEW a \in AuthorizationType, NEW r, r = Task!Invocation(t, a)
  PROVE  /\ r \in AttemptType /\ r.task = t /\ r.purpose = a.purpose /\ r.prior = a.prior /\ r.cond.outs = a.outs
         /\ r.saw = task[t].scope /\ r.state = "RUNNING"
<1>1. PICK w \in TaskType : w = task[t] BY DEF TaskTypes
<1>2. PICK cd : cd = [prof |-> w.prof, outs |-> a.outs, extra |-> a.extra] OBVIOUS
<1>3. cd \in ConditionType /\ cd.outs = a.outs BY <1>1, <1>2 DEF ConditionType, TaskType, AuthorizationType
<1>4. r = [task |-> t, purpose |-> a.purpose, attempt |-> a.attempt, prior |-> a.prior, cond |-> cd, prof |-> w.prof,
           gen |-> w.gen, saw |-> w.scope, state |-> "RUNNING", verdict |-> Nil, class |-> Nil, late |-> FALSE]
  BY <1>1, <1>2 DEF Task!Invocation, Task!Condition
<1>5. w.prof \in Nat /\ w.gen \in Nat /\ w.scope \in SUBSET Nat BY <1>1 DEF TaskType
<1>6. a.purpose \in Purposes /\ a.attempt \in Nat /\ a.prior \in Nat BY DEF AuthorizationType
<1>7. t \in PlannedTasks BY PlanFacts
<1>8. r \in AttemptType BY <1>3, <1>4, <1>5, <1>6, <1>7 DEF AttemptType, AttemptStates
<1> QED BY <1>1, <1>3, <1>4, <1>8

LEMMA SucceedsAs ==
  ASSUME NEW n, NEW outs, NEW q, invocations'[n].cond.outs = outs, invocations'[n].prior = q, Succeeds(outs, q)'
  PROVE  Succeeds(invocations[n].cond.outs, invocations[n].prior)'
  BY DEF Succeeds

(* A new attempt.                                                           *)
LEMMA TaskAuthorized ==
  ASSUME TaskInv, NEW p \in Task!Processes, NEW j, j = job[p], j /= Nil, NEW c, c = Head(j.cmds),
         job' \in [Task!Processes -> JobType \cup {Nil}],
         \A q \in Task!Processes : job'[q] = IF q = p THEN Task!Rest(p, c) ELSE Task!Overtaken(q, c),
         c.op = "authorize", c.task \in j.fresh, Task!Admitted(c.task, c.arg),
         plan' = plan, task' = task, invocations' = Append(invocations, Task!Invocation(c.task, c.arg))
  PROVE  TaskInv'
<1>0. TaskTypes BY DEF TaskInv
<1>1. /\ j \in JobType /\ JobOK(j) /\ c = j.cmds[1] /\ CommandOK(c) BY RestType
<1>2. PICK t \in plan : t = c.task BY <1>1 DEF CommandOK
<1>3. PICK a \in AuthorizationType : a = c.arg BY <1>1 DEF CommandOK
<1>4. AuthorizationOK(t, a) BY <1>1, <1>2, <1>3 DEF CommandOK
<1>5. PICK r : r = Task!Invocation(t, a) OBVIOUS
<1>6. /\ r \in AttemptType /\ r.task = t /\ r.purpose = a.purpose /\ r.prior = a.prior /\ r.cond.outs = a.outs
      /\ r.saw = task[t].scope /\ r.state = "RUNNING"
  BY <1>0, <1>5, InvocationFacts
<1>7. PICK n : n = Len(invocations) + 1 OBVIOUS
<1>8. invocations \in Seq(AttemptType) /\ Len(invocations) \in Nat BY <1>0 DEF TaskTypes
<1>9. /\ invocations' \in Seq(AttemptType) /\ Len(invocations') = n /\ invocations'[n] = r
      /\ \A i \in 1 .. Len(invocations) : invocations'[i] = invocations[i]
  <2>1. invocations' = Append(invocations, r) BY <1>2, <1>3, <1>5
  <2> HIDE DEF AttemptType
  <2> QED BY <2>1, <1>6, <1>7, <1>8
<1>10. /\ \A i : i \in Task!Indices' <=> i \in Task!Indices \/ i = n
       /\ \A i \in Task!Indices : i < n /\ i \in Nat /\ invocations'[i] = invocations[i]
       /\ n \notin Task!Indices /\ n \in Nat
  BY <1>7, <1>8, <1>9 DEF Task!Indices
<1>11. (\A i \in Task!Of(t) : invocations[i].state /= "RUNNING") /\ (PurposeOf(t) = "IMPLEMENTATION" /\ a.purpose /= "REPAIR" => ~Settled(t))
  BY <1>2, <1>3, <1>4, NoRival
<1>12. /\ \A u : \A i : i \in Task!Of(u)' <=> i \in Task!Of(u) \/ (u = t /\ i = n)
       /\ \A u : u /= t => Task!Of(u)' = Task!Of(u)
  <2>1. (\A i \in Task!Indices : invocations'[i].task = invocations[i].task) /\ invocations'[n].task = t BY <1>6, <1>9, <1>10
  <2>2. ASSUME NEW u, NEW i PROVE i \in Task!Of(u)' <=> i \in Task!Of(u) \/ (u = t /\ i = n)
    <3>1. i \in Task!Of(u)' <=> i \in Task!Indices' /\ invocations'[i].task = u BY DEF Task!Of
    <3>2. i \in Task!Of(u) <=> i \in Task!Indices /\ invocations[i].task = u BY DEF Task!Of
    <3>3. i \in Task!Indices' <=> i \in Task!Indices \/ i = n BY <1>10
    <3> QED BY <3>1, <3>2, <3>3, <2>1, <1>10
  <2>3. ASSUME NEW u, u /= t PROVE Task!Of(u)' = Task!Of(u)
    <3>1. \A i : i \in Task!Of(u)' <=> i \in Task!Of(u) BY <2>2, <2>3
    <3> QED BY <3>1 DEF Task!Of
  <2> QED BY <2>2, <2>3
<1>13. /\ \A u, q : \A i : i \in Task!Attempts(u, q)' <=> i \in Task!Attempts(u, q) \/ (u = t /\ q = a.purpose /\ i = n)
       /\ \A u, q : ~(u = t /\ q = a.purpose) => Task!Attempts(u, q)' = Task!Attempts(u, q)
  <2>1. (\A i \in Task!Indices : invocations'[i].purpose = invocations[i].purpose) /\ invocations'[n].purpose = a.purpose
    BY <1>6, <1>9, <1>10
  <2>2. ASSUME NEW u, NEW q, NEW i
        PROVE  i \in Task!Attempts(u, q)' <=> i \in Task!Attempts(u, q) \/ (u = t /\ q = a.purpose /\ i = n)
    <3>1. i \in Task!Attempts(u, q)' <=> i \in Task!Of(u)' /\ invocations'[i].purpose = q BY DEF Task!Attempts
    <3>2. i \in Task!Attempts(u, q) <=> i \in Task!Of(u) /\ invocations[i].purpose = q BY DEF Task!Attempts
    <3>3. i \in Task!Of(u)' <=> i \in Task!Of(u) \/ (u = t /\ i = n) BY <1>12
    <3>4. i \in Task!Of(u) => i \in Task!Indices BY DEF Task!Of
    <3> QED BY <3>1, <3>2, <3>3, <3>4, <2>1, <1>10
  <2>3. ASSUME NEW u, NEW q, ~(u = t /\ q = a.purpose) PROVE Task!Attempts(u, q)' = Task!Attempts(u, q)
    <3>1. \A i : i \in Task!Attempts(u, q)' <=> i \in Task!Attempts(u, q) BY <2>2, <2>3
    <3> QED BY <3>1 DEF Task!Attempts
  <2> QED BY <2>2, <2>3
<1>14. TaskTypes'
  <2>1. ASSUME NEW i \in Task!Indices' PROVE invocations'[i].task \in plan'
    <3>1. CASE i = n BY <3>1, <1>6, <1>9
    <3>2. CASE i \in Task!Indices
      <4>1. invocations'[i] = invocations[i] BY <3>2, <1>10
      <4> QED BY <3>2, <4>1, <1>0 DEF TaskTypes
    <3> QED BY <3>1, <3>2, <1>10
  <2> QED BY <2>1, <1>0, <1>9 DEF TaskTypes
<1>15. \A u : \A i \in Task!Of(u) : i \in Task!Indices /\ i < n /\ i \in Nat BY <1>10 DEF Task!Of
<1>16. LastKnown'
  <2>1. ASSUME NEW u \in plan PROVE HasLast(Task!Of(u))'
    <3>1. CASE u = t
      <4>1. n \in Task!Of(u)' /\ \A i \in Task!Of(u)' : i <= n BY <3>1, <1>10, <1>12, <1>15
      <4> QED BY <4>1 DEF HasLast
    <3>2. CASE u /= t
      <4>1. Task!Of(u)' = Task!Of(u) BY <3>2, <1>12
      <4> QED BY <4>1 DEF TaskInv, LastKnown, HasLast
    <3> QED BY <3>1, <3>2
  <2>2. ASSUME NEW u \in plan, NEW q \in Purposes PROVE HasLast(Task!Attempts(u, q))'
    <3>0. \A i \in Task!Attempts(u, q) : i \in Task!Of(u) BY DEF Task!Attempts
    <3>1. CASE u = t /\ q = a.purpose
      <4>1. n \in Task!Attempts(u, q)' /\ \A i \in Task!Attempts(u, q)' : i <= n BY <3>0, <3>1, <1>10, <1>13, <1>15
      <4> QED BY <4>1 DEF HasLast
    <3>2. CASE ~(u = t /\ q = a.purpose)
      <4>1. Task!Attempts(u, q)' = Task!Attempts(u, q) BY <3>2, <1>13
      <4> QED BY <4>1 DEF TaskInv, LastKnown, HasLast
    <3> QED BY <3>1, <3>2
  <2> QED BY <2>1, <2>2 DEF LastKnown
<1>17. ASSUME NEW u \in plan, PurposeOf(u) = "IMPLEMENTATION", Settled(u) PROVE Settled(u)'
  <2>1. PICK m \in Task!Of(u) :
          /\ invocations[m].purpose = PurposeOf(u) /\ invocations[m].state = "SUCCEEDED"
          /\ \A i \in Task!Of(u) : invocations[i].purpose = PurposeOf(u) => i <= m
    BY <1>17 DEF Settled
  <2>2. m \in Task!Of(u)' /\ invocations'[m] = invocations[m] BY <1>10, <1>12, <1>15
  <2>3. ASSUME NEW i \in Task!Of(u)', invocations'[i].purpose = PurposeOf(u) PROVE i <= m
    <3>1. CASE i \in Task!Of(u)
      <4>1. invocations'[i] = invocations[i] BY <3>1, <1>10, <1>15
      <4> QED BY <3>1, <4>1, <2>1, <2>3
    <3>2. CASE u = t /\ i = n
      <4>1. a.purpose = "IMPLEMENTATION" BY <3>2, <2>3, <1>6, <1>9, <1>17
      <4> QED BY <3>2, <4>1, <1>11, <1>17
    <3> QED BY <3>1, <3>2, <1>12
  <2> QED BY <2>1, <2>2, <2>3 DEF Settled
<1>18. Keeps BY <1>10, <1>14, <1>17 DEF Keeps
<1>19. ASSUME NEW i \in Task!Indices, invocations'[i].state = "RUNNING" PROVE \A k \in Task!Of(invocations[i].task)' : k <= i
  <2>1. invocations'[i] = invocations[i] BY <1>10
  <2>2. PICK u : u = invocations[i].task OBVIOUS
  <2>3. i \in Task!Of(u) BY <2>2 DEF Task!Of
  <2>4. u /= t BY <2>1, <2>3, <1>11, <1>19
  <2>5. \A k \in Task!Of(u) : k <= i BY <2>1, <2>2, <1>19 DEF TaskInv, AttemptOK
  <2>6. Task!Of(u)' = Task!Of(u) BY <2>4, <1>12
  <2>7. Task!Of(invocations[i].task)' = Task!Of(u)' BY <2>1, <2>2 DEF Task!Of
  <2> QED BY <2>5, <2>6, <2>7
<1>20. AttemptOK(n)'
  <2>1. PICK q \in Nat : q = a.prior BY DEF AuthorizationType
  <2>2. PICK outs : outs = a.outs OBVIOUS
  <2>3. /\ Lawful(t, a.purpose) /\ q <= Len(invocations)
        /\ q /= 0 => invocations[q].task = t /\ invocations[q].state /= "RUNNING"
        /\ PurposeOf(t) = "VALIDATION" => Covers(t, outs) /\ Succeeds(outs, q)
    BY <2>1, <2>2, <1>4 DEF AuthorizationOK
  <2>4. q < n BY <2>3, <1>7, <1>8
  <2>5. q /= 0 => invocations'[q].task = t /\ invocations'[q].state /= "RUNNING"
    <3> SUFFICES ASSUME q /= 0 PROVE invocations'[q].task = t /\ invocations'[q].state /= "RUNNING" OBVIOUS
    <3>1. q \in Task!Indices BY <2>3, <1>0, AttemptFacts
    <3> QED BY <3>1, <2>3, <1>10
  <2>6. Lawful(t, a.purpose)' BY <2>3, <1>18, LawfulKept
  <2>7. Lawful(invocations[n].task, invocations[n].purpose)'
    <3>1. PICK pu : pu = a.purpose OBVIOUS
    <3>2. Lawful(t, pu)' BY <2>3, <3>1, <1>18, LawfulKept
    <3>3. invocations'[n].task = t /\ invocations'[n].purpose = pu BY <3>1, <1>6, <1>9
    <3> QED BY <3>2, <3>3 DEF Lawful, Settled, Task!Of
  <2>8. ASSUME PurposeOf(t) = "VALIDATION"
        PROVE  /\ Covers(t, outs)' /\ Succeeds(outs, q)'
               /\ Recovers(q)' \/ Built(outs)' \subseteq r.saw
    <3>1. outs \subseteq Task!Indices BY <2>3, <2>8 DEF Covers
    <3>2. Covers(t, outs)' /\ Built(outs)' = Built(outs) BY <3>1, <2>3, <2>8, <1>18, OutputsKept
    <3>3. Succeeds(outs, q)' BY <3>1, <2>3, <2>8, <1>18, SucceedsKept
    <3>4. PICK s \in Seq(CommandType) : s = j.cmds BY <1>1 DEF JobType
    <3>5. s /= <<>> /\ Len(s) \in Nat /\ Len(s) >= 1
      <4>1. s /= <<>> BY <3>4, <1>1 DEF JobOK
      <4>2. Len(s) \in Nat \ {0} BY <4>1, EmptySeq
      <4> QED BY <4>1, <4>2
    <3>6. Len(s) = 1
      <4>1. Len(s) > 1 => 1 \in 1 .. (Len(s) - 1) BY <3>5
      <4>2. ~(Len(s) > 1) BY <4>1, <3>4, <1>1 DEF JobOK
      <4>3. PICK l \in Nat : l = Len(s) BY <3>5
      <4>4. l >= 1 /\ ~(l > 1) BY <4>2, <4>3, <3>5
      <4>5. l = 1 BY <4>4
      <4> QED BY <4>3, <4>5
    <3>7. PICK need : need = Built(outs) OBVIOUS
    <3>8. Recovers(q) \/ Binds(s, 1 - 1, t, need) \/ Bound(s, 1 - 1, j.fresh, t, need)
      <4>1. s[1] = c BY <3>4, <1>1
      <4> QED BY <4>1, <3>4, <3>6, <3>7, <2>1, <2>2, <2>8, <1>1, <1>2, <1>3 DEF JobOK, ScopeBound
    <3>9. ~Binds(s, 1 - 1, t, need) BY DEF Binds
    <3>10. Bound(s, 1 - 1, j.fresh, t, need) => need \subseteq r.saw BY <1>2, <1>6 DEF Bound
    <3>11. Recovers(q) => Recovers(q)' BY <2>3, <1>18, RecoversKept
    <3> QED BY <3>2, <3>3, <3>7, <3>8, <3>9, <3>10, <3>11
  <2>9. /\ Covers(t, outs)' => Covers(invocations[n].task, invocations[n].cond.outs)'
        /\ Succeeds(outs, q)' => Succeeds(invocations[n].cond.outs, invocations[n].prior)'
        /\ Recovers(q)' => Recovers(invocations[n].prior)'
        /\ Built(invocations[n].cond.outs)' = Built(outs)'
        /\ Task!Of(invocations[n].task)' = Task!Of(t)'
    <3>0. invocations'[n].task = t /\ invocations'[n].cond.outs = outs /\ invocations'[n].prior = q BY <2>1, <2>2, <1>6, <1>9
    <3>1. Covers(t, outs)' => Covers(invocations[n].task, invocations[n].cond.outs)' BY <3>0 DEF Covers
    <3>2. Succeeds(outs, q)' => Succeeds(invocations[n].cond.outs, invocations[n].prior)' BY <3>0, SucceedsAs
    <3>3. Recovers(q)' => Recovers(invocations[n].prior)' BY <3>0 DEF Recovers
    <3>4. Built(invocations[n].cond.outs)' = Built(outs)' BY <3>0 DEF Built
    <3>5. Task!Of(invocations[n].task)' = Task!Of(t)' BY <3>0 DEF Task!Of
    <3> QED BY <3>1, <3>2, <3>3, <3>4, <3>5
  <2>10. \A k \in Task!Of(t)' : k <= n BY <1>10, <1>12, <1>15
  <2>11. invocations'[n] = r /\ r.task = t /\ r.prior = q BY <2>1, <1>6, <1>9
  <2> QED BY <2>4, <2>5, <2>7, <2>8, <2>9, <2>10, <2>11 DEF AttemptOK
<1>21. \A i \in Task!Indices' : i \notin Task!Indices => AttemptOK(i)' BY <1>10, <1>20
<1>22. ASSUME NEW q \in Task!Processes, job'[q] /= Nil PROVE JobOK(job[q])'
  <2>1. \A u \in plan : task'[u].scope = task[u].scope OBVIOUS
  <2>2. c.op /= "scope" OBVIOUS
  <2> QED BY <2>1, <2>2, <1>18, <1>22, JobsAfter
<1>23. ASSUME NEW u \in plan, task'[u].phase = "COMPLETED" PROVE DoneOK(u, task[u].done)'
  <2>1. PICK d : d = task[u].done OBVIOUS
  <2>2. DoneOK(u, d) BY <2>1, <1>23 DEF TaskInv
  <2>3. DoneOK(u, d)' BY <2>2, <1>18, DoneKept
  <2> QED BY <2>1, <2>3 DEF DoneOK
<1> QED BY <1>16, <1>18, <1>19, <1>21, <1>22, <1>23, TaskFrame

LEMMA TaskSubmit == ASSUME TaskInv, NEW p \in Task!Processes, Task!Submit(p) PROVE TaskInv'
<1>0. job \in [Task!Processes -> JobType \cup {Nil}] BY DEF TaskInv, TaskTypes
<1>1. PICK j : j = job[p] OBVIOUS
<1>2. PICK c : c = Head(j.cmds) OBVIOUS
<1>3. PICK mine \in BOOLEAN : mine <=> Task!Accepts(c) /\ (Task!Guarded(c) => c.task \in j.fresh) OBVIOUS
<1>4. /\ j /= Nil
      /\ job' = [q \in Task!Processes |-> IF q = p THEN (IF mine THEN Task!Rest(p, c) ELSE Nil)
                                          ELSE IF mine THEN Task!Overtaken(q, c) ELSE job[q]]
      /\ task' = IF mine /\ c.op \in Task!TaskCommands THEN [task EXCEPT ![c.task] = Task!Changed(c)] ELSE task
      /\ invocations' = IF mine /\ c.op = "authorize" THEN Append(invocations, Task!Invocation(c.task, c.arg)) ELSE invocations
      /\ plan' = plan
  BY <1>1, <1>2, <1>3 DEF Task!Submit
<1>5. CASE ~mine
  <2>1. UNCHANGED <<plan, task, invocations>> BY <1>4, <1>5
  <2>2. \A q \in Task!Processes : job'[q] = job[q] \/ job'[q] = Nil BY <1>4, <1>5
  <2>3. job' = [q \in Task!Processes |-> IF q = p THEN Nil ELSE job[q]] BY <1>4, <1>5
  <2>4. job' \in [Task!Processes -> JobType \cup {Nil}] BY <2>3, <1>0
  <2> QED BY <2>1, <2>2, <2>4, JobsOnly
<1>6. CASE mine
  <2>1. \A q \in Task!Processes : job'[q] = IF q = p THEN Task!Rest(p, c) ELSE Task!Overtaken(q, c) BY <1>4, <1>6
  <2>2. Task!Rest(p, c) \in JobType \cup {Nil} BY <1>1, <1>2, <1>4, RestType
  <2>3. \A q \in Task!Processes : Task!Overtaken(q, c) \in JobType \cup {Nil} BY OvertakenType
  <2>4. job' \in [Task!Processes -> JobType \cup {Nil}]
    <3>1. job' = [q \in Task!Processes |-> IF q = p THEN Task!Rest(p, c) ELSE Task!Overtaken(q, c)] BY <1>4, <1>6
    <3> QED BY <3>1, <2>2, <2>3
  <2>5. CASE c.op = "authorize"
    <3>1. Task!Admitted(c.task, c.arg) BY <1>3, <1>6, <2>5 DEF Task!Accepts
    <3>2. c.task \in j.fresh BY <1>3, <1>6, <2>5 DEF Task!Guarded
    <3>3. c.op \notin Task!TaskCommands BY <2>5 DEF Task!TaskCommands
    <3>4. task' = task /\ invocations' = Append(invocations, Task!Invocation(c.task, c.arg)) BY <3>3, <2>5, <1>4, <1>6
    <3> QED BY <3>1, <3>2, <3>4, <2>1, <2>4, <2>5, <1>1, <1>2, <1>4, TaskAuthorized
  <2>6. CASE c.op /= "authorize"
    <3>1. invocations' = invocations BY <2>6, <1>4
    <3>2. \/ c.op \in Task!TaskCommands /\ task' = [task EXCEPT ![c.task] = Task!Changed(c)]
          \/ c.op \notin Task!TaskCommands /\ task' = task
      BY <1>4, <1>6
    <3> QED BY <3>1, <3>2, <2>1, <2>4, <1>1, <1>2, <1>4, TaskCommanded
  <2> QED BY <2>5, <2>6
<1> QED BY <1>5, <1>6

LEMMA TaskNext == ASSUME TaskInv, Task!Next PROVE TaskInv'
  BY TaskJobs, TaskSubmit, TaskAbandon, TaskEnds DEF Task!Next

TaskPart == agent = "task" => TaskInv

LEMMA TaskOrganized == AgentsSpec => []TaskPart
<1>1. AgentsInit => TaskPart BY TaskInit DEF AgentsInit, TaskPart
<1>2. TaskPart /\ [AgentsNext]_agentVars => TaskPart'
  <2> SUFFICES ASSUME TaskPart, [AgentsNext]_agentVars, agent' = "task" PROVE TaskInv' BY DEF TaskPart
  <2>1. CASE NativeStep \/ HostStep BY <2>1 DEF NativeStep, HostStep
  <2>2. CASE TaskStep BY <2>2, TaskNext DEF TaskStep, TaskPart
  <2>3. CASE UNCHANGED agentVars
    <3>1. TaskInv /\ UNCHANGED <<plan, task, invocations, job>> BY <2>3 DEF TaskPart, agentVars, taskVars
    <3>2. job \in [Task!Processes -> JobType \cup {Nil}] BY <3>1 DEF TaskInv, TaskTypes
    <3> QED BY <3>1, <3>2, JobsOnly
  <2> QED BY <2>1, <2>2, <2>3 DEF AgentsNext
<1> QED BY <1>1, <1>2, PTL DEF AgentsSpec

(* At no time do two attempts run for one task: an attempt is authorized    *)
(* only when none runs for its purpose, and the reconciler and the operator *)
(* authorize repairs only of a success that no attempt of the task itself   *)
(* follows (feature_work_recovery.go, task_recovery.go, task_completion.go).*)
THEOREM OneAttemptAtATime == AgentsSpec => []OneAttemptPerTask
<1>1. TaskPart => OneAttemptPerTask
  <2> SUFFICES ASSUME TaskInv, NEW i \in Task!Indices, NEW k \in Task!Indices, invocations[i].task = invocations[k].task,
                      invocations[i].state = "RUNNING", invocations[k].state = "RUNNING"
      PROVE  i = k
    BY DEF TaskPart, OneAttemptPerTask, Task!OneAttemptPerTask, Task!Terminal
  <2>1. TaskTypes BY DEF TaskInv
  <2>2. i \in Task!Of(invocations[k].task) /\ k \in Task!Of(invocations[i].task) BY DEF Task!Of
  <2>3. k <= i /\ i <= k BY <2>2 DEF TaskInv, AttemptOK
  <2>4. i \in Nat /\ k \in Nat BY <2>1, AttemptFacts
  <2> QED BY <2>3, <2>4
<1> QED BY <1>1, TaskOrganized, PTL

(* A task that has validators is completed on verdicts of all of them that  *)
(* it passes, each by an attempt that saw its output or that recovers a     *)
(* failed attempt (reconcileTaskCompletions, finalizeTaskReview and         *)
(* validatorConditionMatches).                                              *)
THEOREM ReviewsComplete == AgentsSpec => []CompletedOnVerdicts
<1>1. TaskPart => CompletedOnVerdicts
  <2> SUFFICES ASSUME TaskInv, NEW t \in plan, task[t].phase = "COMPLETED", Task!TaskValidators(t) /= {}
      PROVE  /\ {invocations[i].task : i \in task[t].done.by} = Task!TaskValidators(t)
             /\ \A i \in task[t].done.by :
                  \/ Task!Inspected(i, task[t].done.cand)
                  \/ /\ invocations[i].verdict = "PASS" /\ invocations[i].prior /= 0
                     /\ Task!recoverableTaskTerminal(invocations[i].prior)
    BY DEF TaskPart, CompletedOnVerdicts, Task!CompletedOnVerdicts
  <2>1. DoneOK(t, task[t].done) BY DEF TaskInv
  <2> QED BY <2>1 DEF DoneOK, Recovers, Task!Inspected, Task!recoverableTaskTerminal
<1> QED BY <1>1, TaskOrganized, PTL

-----------------------------------------------------------------------------
(* The native agent.  A call is known by its place in the journal, which    *)
(* only grows; whoever created its reservation is the only one to perform   *)
(* it, and until its result is entered the ledger has it as reserved.       *)

WorkerPoints ==
  {"claim", "prepare", "load", "turn", "lock", "reserve", "perform", "complete", "append", "finish", "reconcile", "record"}
WorkerType ==
  [pc : WorkerPoints, epoch : Nat, view : Nat, cause : {"none", "lost", "cancel", "deadline"},
   err : {"none", "failed", "uncertain"}, out : {"OK", "FAILED", "ERROR", Nil}]
EntryType ==
  [kind : {"STARTED"}, by : {"runner", "boundary"}] \cup [kind : {"TURN"}, tool : AllTools, expect : Int]
  \cup [kind : {"DONE"}, out : {"OK", "FAILED", "ERROR"}] \cup [kind : Native!TerminalKinds]

SharedTypes ==
  /\ limits \in Limits
  /\ journal \in Seq(EntryType)
  /\ ledger \in [Native!Calls -> {Nil, "RESERVED", "OK", "FAILED"}]
  /\ checkout \in Nat /\ performed \in [Native!Calls -> Nat]
  /\ control \in [epoch : Nat, live : BOOLEAN, cancel : BOOLEAN]

(* The entries of calls.                                                    *)
Turns == {v \in 1..Len(journal) : journal[v].kind = "TURN"}

(* What the ledger, the answer and the workspace say of a call.             *)
CallOK(v, n) ==
  /\ n \in Native!Calls /\ performed[n] \in {0, 1}
  /\ ledger[n] = Nil => performed[n] = 0
  /\ journal[v].tool \in Native!Mutations /\ ledger[n] = "FAILED" => performed[n] = 0
  /\ journal[v].tool \in Native!Effects /\ (ledger[n] = "OK" \/ Native!Answered(v, "OK")) => performed[n] = 1
  /\ checkout = n => performed[n] = 1

(* Nothing is known of the calls to come.                                   *)
Fresh(n) == ledger[n] = Nil /\ performed[n] = 0 /\ checkout /= n

SharedInv ==
  /\ SharedTypes
  /\ Native!TurnsIn(Len(journal)) <= Native!MaxTurns
  /\ \A v \in Turns : CallOK(v, Native!TurnsIn(v))
  /\ \A n \in Native!Calls : n > Native!TurnsIn(Len(journal)) => Fresh(n)
  /\ \A v \in 1..Len(journal) : journal[v].kind \in Native!TerminalKinds => v = Len(journal)

(* Between the entry of a call and its answer.                              *)
Underway == {"lock", "reserve", "perform", "complete", "append"}

(* What a worker knows of the call v, the n-th, that it executes.           *)
WorkerKnows(x, v, n) ==
  /\ v <= Len(journal)
  /\ x.pc \in Underway => v \in Turns /\ journal[v].tool \in Native!Effects
  /\ x.pc = "perform" => ledger[n] = "RESERVED" /\ performed[n] = 0
  /\ x.pc = "complete" =>
       /\ x.out \in {"OK", "FAILED"} /\ ledger[n] /= Nil
       /\ x.out = "OK" => performed[n] = 1
       /\ x.out = "FAILED" /\ journal[v].tool \in Native!Mutations => performed[n] = 0
  /\ x.pc = "append" => x.out /= Nil /\ (x.out = "OK" => performed[n] = 1)
WorkerOK(x) == WorkerKnows(x, x.view, Native!TurnsIn(x.view))

(* Two that may not be at the same call.                                    *)
Failing(x) == x.pc = "complete" /\ x.out = "FAILED"
Apart(x, y) == x.pc = "perform" /\ (y.pc = "perform" \/ Failing(y)) => x.view /= y.view

WorkersInv ==
  /\ workers \in [Workers -> WorkerType \cup {Nil}]
  /\ \A w \in Workers : workers[w] /= Nil => WorkerOK(workers[w])
  /\ \A w, u \in Workers : w /= u /\ workers[w] /= Nil /\ workers[u] /= Nil => Apart(workers[w], workers[u])

NativeInv == SharedInv /\ WorkersInv

-----------------------------------------------------------------------------
(* The numbers of the calls.                                                *)

LEMMA NativeCardinality == \A S : Native!Cardinality(S) = Cardinality(S)
  BY DEF Native!Cardinality, Cardinality

(* The calls up to an entry, as the number of a set.                        *)
UpTo(j, v) == {i \in 1..v : j[i].kind = "TURN"}

LEMMA TurnsInUpTo == \A v : Native!TurnsIn(v) = Cardinality(UpTo(journal, v))
  BY NativeCardinality DEF Native!TurnsIn, UpTo

LEMMA UpToFinite == ASSUME NEW j, NEW v \in Nat PROVE IsFiniteSet(UpTo(j, v)) /\ Cardinality(UpTo(j, v)) \in Nat
<1>1. IsFiniteSet(1..v) BY FS_Interval
<1>2. UpTo(j, v) \subseteq 1..v BY DEF UpTo
<1> QED BY <1>1, <1>2, FS_Subset, FS_CardinalityType

LEMMA UpToGrows ==
  ASSUME NEW j, NEW u \in Nat, NEW v \in Nat, u <= v
  PROVE  /\ Cardinality(UpTo(j, u)) <= Cardinality(UpTo(j, v))
         /\ u < v /\ j[v].kind = "TURN" => Cardinality(UpTo(j, u)) < Cardinality(UpTo(j, v))
<1>1. UpTo(j, u) \subseteq UpTo(j, v) BY DEF UpTo
<1>2. /\ Cardinality(UpTo(j, u)) <= Cardinality(UpTo(j, v))
      /\ Cardinality(UpTo(j, u)) = Cardinality(UpTo(j, v)) => UpTo(j, u) = UpTo(j, v)
  BY <1>1, UpToFinite, FS_Subset
<1>3. u < v /\ j[v].kind = "TURN" => v \in UpTo(j, v) /\ v \notin UpTo(j, u) BY DEF UpTo
<1>4. Cardinality(UpTo(j, u)) \in Nat /\ Cardinality(UpTo(j, v)) \in Nat BY UpToFinite
<1> QED BY <1>2, <1>3, <1>4

LEMMA UpToNext ==
  ASSUME NEW j, NEW v \in Nat
  PROVE  Cardinality(UpTo(j, v + 1)) = Cardinality(UpTo(j, v)) + (IF j[v + 1].kind = "TURN" THEN 1 ELSE 0)
<1>1. PICK next : next = v + 1 OBVIOUS
<1>2. CASE j[next].kind = "TURN"
  <2>1. UpTo(j, next) = UpTo(j, v) \cup {next} BY <1>1, <1>2 DEF UpTo
  <2>2. next \notin UpTo(j, v) BY <1>1 DEF UpTo
  <2>3. Cardinality(UpTo(j, next)) = Cardinality(UpTo(j, v)) + 1 BY <2>1, <2>2, UpToFinite, FS_AddElement
  <2> QED BY <1>1, <1>2, <2>3
<1>3. CASE j[next].kind /= "TURN"
  <2>1. UpTo(j, next) = UpTo(j, v) BY <1>1, <1>3 DEF UpTo
  <2>2. Cardinality(UpTo(j, v)) \in Nat BY UpToFinite
  <2> QED BY <1>1, <1>3, <2>1, <2>2
<1> QED BY <1>2, <1>3

(* Calls have different numbers, no larger than their count.                *)
LEMMA Numbers ==
  ASSUME SharedTypes
  PROVE  /\ \A v \in 0..Len(journal) :
              Native!TurnsIn(v) \in Nat /\ Native!TurnsIn(v) <= Native!TurnsIn(Len(journal))
         /\ \A v \in Turns : Native!TurnsIn(v) >= 1
         /\ \A u, v \in Turns : Native!TurnsIn(u) = Native!TurnsIn(v) => u = v
<1>1. Len(journal) \in Nat BY DEF SharedTypes
<1>2. \A v \in 0..Len(journal) : Native!TurnsIn(v) \in Nat /\ Native!TurnsIn(v) <= Native!TurnsIn(Len(journal))
  BY <1>1, TurnsInUpTo, UpToFinite, UpToGrows
<1>3. \A v \in Turns : v \in Nat /\ v >= 1 /\ journal[v].kind = "TURN" BY <1>1 DEF Turns
<1>4. \A u, v \in Turns : u < v => Native!TurnsIn(u) < Native!TurnsIn(v) BY <1>3, TurnsInUpTo, UpToGrows
<1>5. \A v \in Turns : Native!TurnsIn(0) < Native!TurnsIn(v) BY <1>3, TurnsInUpTo, UpToGrows
<1>6. \A v \in Turns : Native!TurnsIn(v) \in Nat /\ Native!TurnsIn(0) \in Nat BY <1>3, TurnsInUpTo, UpToFinite
<1>7. \A v \in Turns : Native!TurnsIn(v) >= 1 BY <1>5, <1>6
<1>8. \A u, v \in Turns : Native!TurnsIn(u) = Native!TurnsIn(v) => u = v BY <1>3, <1>4, <1>6
<1> QED BY <1>2, <1>7, <1>8

-----------------------------------------------------------------------------
(* Steps of a worker.                                                       *)

(* How a worker's step leaves its record.                                   *)
Becomes(w, x) == x \in WorkerType /\ workers' = [workers EXCEPT ![w] = x]

LEMMA GoForm ==
  ASSUME WorkersInv, NEW w \in Workers, workers[w] /= Nil, NEW pc \in WorkerPoints, Native!Go(w, pc)
  PROVE  \E x : Becomes(w, x) /\ x.pc = pc /\ x.view = workers[w].view /\ x.out = workers[w].out
<1>1. PICK r \in WorkerType : r = workers[w] BY DEF WorkersInv
<1>2. PICK x : x = [r EXCEPT !.pc = pc] OBVIOUS
<1>3. x \in WorkerType /\ x.pc = pc /\ x.view = r.view /\ x.out = r.out BY <1>2 DEF WorkerType
<1>4. workers' = [workers EXCEPT ![w] = x] BY <1>1, <1>2 DEF Native!Go
<1> QED BY <1>1, <1>3, <1>4 DEF Becomes

LEMMA StopForm ==
  ASSUME WorkersInv, NEW w \in Workers, workers[w] /= Nil, NEW err \in {"none", "failed", "uncertain"}, Native!Stop(w, err)
  PROVE  \E x : Becomes(w, x) /\ x.pc = "finish" /\ x.view = 0
<1>1. PICK r \in WorkerType : r = workers[w] BY DEF WorkersInv
<1>2. PICK x : x = [r EXCEPT !.pc = "finish", !.err = err, !.out = Nil, !.view = 0] OBVIOUS
<1>3. x \in WorkerType /\ x.pc = "finish" /\ x.view = 0 BY <1>2 DEF WorkerType, WorkerPoints
<1>4. workers' = [workers EXCEPT ![w] = x]
  BY <1>1, <1>2 DEF Native!Stop, WorkersInv
<1> QED BY <1>3, <1>4 DEF Becomes

Results(w, pc, out) == workers' = [workers EXCEPT ![w].pc = pc, ![w].out = out]
LEMMA OutForm ==
  ASSUME WorkersInv, NEW w \in Workers, workers[w] /= Nil, NEW pc \in WorkerPoints, NEW out \in {"OK", "FAILED", "ERROR", Nil},
         Results(w, pc, out)
  PROVE  \E x : Becomes(w, x) /\ x.pc = pc /\ x.view = workers[w].view /\ x.out = out
<1>1. PICK r \in WorkerType : r = workers[w] BY DEF WorkersInv
<1>2. PICK x : x = [r EXCEPT !.pc = pc, !.out = out] OBVIOUS
<1>3. x \in WorkerType /\ x.pc = pc /\ x.view = r.view /\ x.out = out BY <1>2 DEF WorkerType
<1>4. workers' = [workers EXCEPT ![w] = x] BY <1>1, <1>2 DEF WorkersInv, Results
<1> QED BY <1>1, <1>3, <1>4 DEF Becomes

Reads(w, pc, v) == workers' = [workers EXCEPT ![w].pc = pc, ![w].view = v]
LEMMA ReadForm ==
  ASSUME WorkersInv, NEW w \in Workers, workers[w] /= Nil, NEW pc \in WorkerPoints, NEW v \in Nat, Reads(w, pc, v)
  PROVE  \E x : Becomes(w, x) /\ x.pc = pc /\ x.view = v
<1>1. PICK r \in WorkerType : r = workers[w] BY DEF WorkersInv
<1>2. PICK x : x = [r EXCEPT !.pc = pc, !.view = v] OBVIOUS
<1>3. x \in WorkerType /\ x.pc = pc /\ x.view = v BY <1>2 DEF WorkerType
<1>4. workers' = [workers EXCEPT ![w] = x] BY <1>1, <1>2 DEF WorkersInv, Reads
<1> QED BY <1>3, <1>4 DEF Becomes

Appends(w, pc, v) == workers' = [workers EXCEPT ![w].pc = pc, ![w].view = v, ![w].out = Nil]
LEMMA AppendForm ==
  ASSUME WorkersInv, NEW w \in Workers, workers[w] /= Nil, NEW pc \in WorkerPoints, NEW v \in Nat, Appends(w, pc, v)
  PROVE  \E x : Becomes(w, x) /\ x.pc = pc /\ x.view = v
<1>1. PICK r \in WorkerType : r = workers[w] BY DEF WorkersInv
<1>2. PICK x : x = [r EXCEPT !.pc = pc, !.view = v, !.out = Nil] OBVIOUS
<1>3. x \in WorkerType /\ x.pc = pc /\ x.view = v BY <1>2 DEF WorkerType
<1>4. workers' = [workers EXCEPT ![w] = x] BY <1>1, <1>2 DEF WorkersInv, Appends
<1> QED BY <1>3, <1>4 DEF Becomes

(* One worker moves; what the others know stays true.                       *)
OthersKnow(w) == \A u \in Workers : u /= w /\ workers[u] /= Nil => \A y : y = workers[u] => WorkerOK(y)'
Alone(w, x) ==
  \A u \in Workers : u /= w /\ workers[u] /= Nil => Apart(x, workers[u]) /\ Apart(workers[u], x)

LEMMA OneMoves ==
  ASSUME WorkersInv, NEW w \in Workers, NEW x, Becomes(w, x), OthersKnow(w), WorkerOK(x)', Alone(w, x)
  PROVE  WorkersInv'
<1>1. /\ workers' \in [Workers -> WorkerType \cup {Nil}] /\ workers'[w] = x
      /\ \A u \in Workers : u /= w => workers'[u] = workers[u]
  BY DEF WorkersInv, Becomes
<1>2. ASSUME NEW u \in Workers, workers'[u] /= Nil PROVE \A y : y = workers'[u] => WorkerOK(y)'
  BY <1>1, <1>2 DEF OthersKnow
<1>3. ASSUME NEW u \in Workers, NEW t \in Workers, u /= t, workers'[u] /= Nil, workers'[t] /= Nil
      PROVE  \A y, z : y = workers'[u] /\ z = workers'[t] => Apart(y, z)
  BY <1>1, <1>3 DEF Alone, WorkersInv
<1>4. \A u \in Workers : workers'[u] /= Nil => WorkerOK(workers[u])'
  <2> TAKE u \in Workers
  <2> HAVE workers'[u] /= Nil
  <2>1. PICK y : y = workers'[u] OBVIOUS
  <2>2. WorkerOK(y)' BY <1>2, <2>1
  <2> QED BY <2>1, <2>2 DEF WorkerOK
<1>5. \A u, t \in Workers : u /= t /\ workers'[u] /= Nil /\ workers'[t] /= Nil => Apart(workers'[u], workers'[t])
  BY <1>3
<1> QED BY <1>1, <1>4, <1>5 DEF WorkersInv, Apart, Failing

LEMMA OneLeaves ==
  ASSUME WorkersInv, NEW w \in Workers, Native!Leave(w), OthersKnow(w)
  PROVE  WorkersInv'
<1>1. /\ workers' \in [Workers -> WorkerType \cup {Nil}] /\ workers'[w] = Nil
      /\ \A u \in Workers : u /= w => workers'[u] = workers[u]
  BY DEF WorkersInv, Native!Leave
<1>4. \A u \in Workers : workers'[u] /= Nil => WorkerOK(workers[u])'
  <2> TAKE u \in Workers
  <2> HAVE workers'[u] /= Nil
  <2>1. PICK y : y = workers'[u] OBVIOUS
  <2>2. WorkerOK(y)' BY <1>1, <2>1 DEF OthersKnow
  <2> QED BY <2>1, <2>2 DEF WorkerOK
<1>5. \A u, t \in Workers : u /= t /\ workers'[u] /= Nil /\ workers'[t] /= Nil => Apart(workers'[u], workers'[t])
  BY <1>1 DEF WorkersInv
<1> QED BY <1>1, <1>4, <1>5 DEF WorkersInv, Apart, Failing

-----------------------------------------------------------------------------
(* What the steps do to what is stored.                                     *)

ControlType == [epoch : Nat, live : BOOLEAN, cancel : BOOLEAN]

(* Nothing, but for the lease.                                              *)
LEMMA Standing ==
  ASSUME SharedInv, UNCHANGED <<limits, journal, ledger, checkout, performed>>, control' \in ControlType
  PROVE  /\ SharedInv'
         /\ \A y : WorkerOK(y) => WorkerOK(y)'
<1>1. \A v : Native!TurnsIn(v)' = Native!TurnsIn(v) BY DEF Native!TurnsIn
<1>2. Turns' = Turns /\ Native!Calls' = Native!Calls /\ Native!MaxTurns' = Native!MaxTurns
  BY DEF Turns, Native!Calls, Native!MaxTurns
<1>3. SharedTypes' BY <1>2 DEF SharedInv, SharedTypes, ControlType
<1>4. \A v, n : CallOK(v, n)' = CallOK(v, n) BY <1>2 DEF CallOK, Native!Answered
<1>5. \A v, n : Fresh(n)' = Fresh(n) BY DEF Fresh
<1>6. \A y, v, n : WorkerKnows(y, v, n)' = WorkerKnows(y, v, n) BY <1>2 DEF WorkerKnows
<1>7. \A y : WorkerOK(y) => WorkerOK(y)' BY <1>1, <1>6 DEF WorkerOK
<1>8. Len(journal') = Len(journal) OBVIOUS
<1> QED BY <1>1, <1>2, <1>3, <1>4, <1>5, <1>7, <1>8 DEF SharedInv

(* One entry more.                                                          *)
LEMMA JournalGrows ==
  ASSUME SharedTypes, UNCHANGED limits, NEW e \in EntryType, journal' = Append(journal, e)
  PROVE  /\ journal' \in Seq(EntryType) /\ Len(journal') = Len(journal) + 1 /\ Len(journal) \in Nat
         /\ \A v \in 1..Len(journal) : journal'[v] = journal[v]
         /\ journal'[Len(journal) + 1] = e
         /\ \A v \in 0..Len(journal) : Native!TurnsIn(v)' = Native!TurnsIn(v)
         /\ Native!TurnsIn(Len(journal))' = Native!TurnsIn(Len(journal)) + (IF e.kind = "TURN" THEN 1 ELSE 0)
         /\ Turns' = Turns \cup (IF e.kind = "TURN" THEN {Len(journal) + 1} ELSE {})
<1>0. PICK j : j = journal' OBVIOUS
<1>1. /\ j \in Seq(EntryType) /\ Len(j) = Len(journal) + 1 /\ Len(journal) \in Nat
      /\ \A v \in 1..Len(journal) : j[v] = journal[v]
      /\ j[Len(journal) + 1] = e
  BY <1>0, AppendProperties DEF SharedTypes
<1>2. ASSUME NEW v \in 0..Len(journal) PROVE UpTo(j, v) = UpTo(journal, v) BY <1>1 DEF UpTo
<1>3. \A v : Native!TurnsIn(v)' = Cardinality(UpTo(j, v))
  BY <1>0, NativeCardinality DEF Native!TurnsIn, UpTo, Native!Cardinality, Cardinality
<1>4. \A v \in 0..Len(journal) : Native!TurnsIn(v)' = Native!TurnsIn(v) BY <1>2, <1>3, TurnsInUpTo
<1>5. PICK l : l = Len(journal) OBVIOUS
<1>6. l \in Nat /\ l \in 0..Len(journal) BY <1>1, <1>5
<1>7. Cardinality(UpTo(j, l + 1)) = Cardinality(UpTo(j, l)) + (IF j[l + 1].kind = "TURN" THEN 1 ELSE 0) BY <1>6, UpToNext
<1>8. Native!TurnsIn(l)' = Native!TurnsIn(l) /\ Native!TurnsIn(l)' = Cardinality(UpTo(j, l)) BY <1>3, <1>4, <1>6
<1>9. PICK k : k = l + 1 OBVIOUS
<1>10. Native!TurnsIn(k)' = Native!TurnsIn(l) + (IF e.kind = "TURN" THEN 1 ELSE 0)
  <2>1. Native!TurnsIn(k)' = Cardinality(UpTo(j, k)) BY <1>3
  <2>2. j[k] = e BY <1>1, <1>5, <1>9
  <2> QED BY <1>7, <1>8, <1>9, <2>1, <2>2
<1>11. Native!TurnsIn(Len(journal))' = Native!TurnsIn(k)' 
  <2>1. Len(journal') = k BY <1>0, <1>1, <1>5, <1>9
  <2> QED BY <2>1 DEF Native!TurnsIn
<1>12. Turns' = Turns \cup (IF e.kind = "TURN" THEN {Len(journal) + 1} ELSE {})
  <2>1. Turns' = {v \in 1..Len(j) : j[v].kind = "TURN"} BY <1>0 DEF Turns
  <2> QED BY <1>1, <2>1 DEF Turns
<1> QED BY <1>0, <1>1, <1>4, <1>5, <1>8, <1>10, <1>11, <1>12

LEMMA Appended ==
  ASSUME SharedInv, UNCHANGED <<limits, ledger, checkout, performed>>, control' \in ControlType,
         NEW e \in EntryType, journal' = Append(journal, e), ~Native!IsTerminal,
         e.kind = "TURN" => Native!TurnsIn(Len(journal)) < Native!MaxTurns,
         e = Native!Done("OK") /\ Len(journal) \in Turns /\ journal[Len(journal)].tool \in Native!Effects =>
           performed[Native!TurnsIn(Len(journal))] = 1
  PROVE  /\ SharedInv'
         /\ \A y \in WorkerType : WorkerOK(y) => WorkerOK(y)'
<1>0. SharedTypes BY DEF SharedInv
<1>1. PICK l, k, j : l = Len(journal) /\ k = l + 1 /\ j = journal' OBVIOUS
<1>2. /\ j \in Seq(EntryType) /\ Len(j) = k /\ l \in Nat
      /\ \A v \in 1..l : j[v] = journal[v]
      /\ j[k] = e
      /\ \A v \in 0..l : Native!TurnsIn(v)' = Native!TurnsIn(v)
      /\ Native!TurnsIn(Len(journal))' = Native!TurnsIn(l) + (IF e.kind = "TURN" THEN 1 ELSE 0)
      /\ Turns' = Turns \cup (IF e.kind = "TURN" THEN {k} ELSE {})
  BY <1>0, <1>1, JournalGrows
<1>3. Native!Calls' = Native!Calls /\ Native!MaxTurns' = Native!MaxTurns /\ Native!MaxTurns \in Nat
  BY <1>0, LimitsAssumption DEF SharedTypes, Native!Calls, Native!MaxTurns
<1>4. SharedTypes' BY <1>0, <1>1, <1>2, <1>3 DEF SharedTypes, ControlType
<1>5. Native!TurnsIn(l) \in Nat /\ Native!TurnsIn(l) <= Native!MaxTurns BY <1>0, <1>1, <1>2, Numbers DEF SharedInv
<1>6. Native!TurnsIn(Len(journal))' <= Native!MaxTurns BY <1>1, <1>2, <1>3, <1>5
<1>7. \A v \in 1..l : Native!Answered(v, "OK")' => Native!Answered(v, "OK") \/ (v = l /\ e = Native!Done("OK"))
  <2> SUFFICES ASSUME NEW v \in 1..l, v < Len(j), j[v + 1] = Native!Done("OK")
      PROVE  (v < l /\ journal[v + 1] = Native!Done("OK")) \/ (v = l /\ e = Native!Done("OK"))
    BY <1>1 DEF Native!Answered, Native!Done
  <2>1. CASE v < l BY <2>1, <1>2
  <2>2. CASE v = l BY <2>2, <1>1, <1>2
  <2> QED BY <2>1, <2>2, <1>2
<1>8. ASSUME NEW v \in Turns, NEW n, n = Native!TurnsIn(v) PROVE CallOK(v, n)'
  <2>1. v \in 1..l /\ j[v] = journal[v] BY <1>1, <1>2 DEF Turns
  <2>2. CallOK(v, n) BY <1>8 DEF SharedInv
  <2>3. Native!Answered(v, "OK")' /\ journal[v].tool \in Native!Effects => performed[n] = 1
    <3>1. v = l /\ e = Native!Done("OK") /\ journal[v].tool \in Native!Effects => performed[n] = 1 BY <1>1, <1>8
    <3> QED BY <1>7, <2>1, <2>2, <3>1 DEF CallOK
  <2> QED BY <1>1, <1>3, <2>1, <2>2, <2>3 DEF CallOK, Native!Effects, Native!Mutations
<1>9. ASSUME e.kind = "TURN", NEW n, n = Native!TurnsIn(l) + 1 PROVE CallOK(k, n)'
  <2>1. n \in Native!Calls /\ n > Native!TurnsIn(l) BY <1>1, <1>3, <1>5, <1>9 DEF Native!Calls
  <2>2. Fresh(n) BY <1>1, <2>1 DEF SharedInv
  <2>3. ~Native!Answered(k, "OK")' BY <1>1, <1>2 DEF Native!Answered
  <2>4. Nil \notin {"OK", "FAILED", "RESERVED"} BY NilAssumption
  <2> QED BY <1>3, <2>1, <2>2, <2>3, <2>4 DEF CallOK, Fresh
<1>10. \A v \in Turns' : CallOK(v, Native!TurnsIn(v))'
  <2> SUFFICES ASSUME NEW v \in Turns' PROVE CallOK(v, Native!TurnsIn(v))' OBVIOUS
  <2>0. PICK n : n = Native!TurnsIn(v)' OBVIOUS
  <2>1. CASE v \in Turns
    <3>1. v \in 0..l BY <1>1, <1>2, <2>1 DEF Turns
    <3>2. CallOK(v, n)' BY <1>2, <1>8, <2>0, <2>1, <3>1
    <3> QED BY <2>0, <3>2 DEF CallOK
  <2>2. CASE v \notin Turns
    <3>1. v = k /\ e.kind = "TURN" BY <1>2, <2>2
    <3>2. Native!TurnsIn(k)' = Native!TurnsIn(l) + 1
      <4>1. Native!TurnsIn(Len(journal))' = Native!TurnsIn(k)'
        <5>1. Len(journal') = k BY <1>1, <1>2
        <5> QED BY <5>1 DEF Native!TurnsIn
      <4> QED BY <1>2, <3>1, <4>1
    <3>3. CallOK(v, n)' BY <1>9, <2>0, <3>1, <3>2
    <3> QED BY <2>0, <3>3 DEF CallOK
  <2> QED BY <2>1, <2>2
<1>11. \A n \in Native!Calls' : n > Native!TurnsIn(Len(journal))' => Fresh(n)'
  <2> SUFFICES ASSUME NEW n \in Native!Calls, n > Native!TurnsIn(Len(journal))' PROVE Fresh(n)' BY <1>3
  <2>1. n \in Nat BY <1>3 DEF Native!Calls
  <2>2. n > Native!TurnsIn(l) BY <1>2, <1>5, <2>1
  <2>3. Fresh(n) BY <1>1, <2>2 DEF SharedInv
  <2> QED BY <2>3 DEF Fresh
<1>12. \A v \in 1..Len(journal') : journal'[v].kind \in Native!TerminalKinds => v = Len(journal')
  <2> SUFFICES ASSUME NEW v \in 1..k, j[v].kind \in Native!TerminalKinds, v /= k PROVE FALSE BY <1>1, <1>2
  <2>1. v \in 1..l /\ j[v] = journal[v] BY <1>1, <1>2
  <2>2. v = l BY <1>1, <2>1 DEF SharedInv
  <2> QED BY <1>1, <2>1, <2>2 DEF Native!IsTerminal, Native!LastKind
<1>13. SharedInv' BY <1>3, <1>4, <1>6, <1>10, <1>11, <1>12 DEF SharedInv
<1>14. ASSUME NEW y \in WorkerType, WorkerOK(y) PROVE WorkerOK(y)'
  <2>1. PICK v, n : v = y.view /\ n = Native!TurnsIn(v) OBVIOUS
  <2>2. WorkerKnows(y, v, n) BY <1>14, <2>1 DEF WorkerOK
  <2>3. v \in 0..l BY <1>1, <1>2, <2>1, <2>2 DEF WorkerType, WorkerKnows
  <2>4. v \in Turns => v \in Turns' /\ j[v] = journal[v] BY <1>1, <1>2 DEF Turns
  <2>5. v <= k BY <1>1, <1>2, <2>3
  <2>6. WorkerKnows(y, v, n)'
    BY <1>1, <1>2, <2>2, <2>4, <2>5 DEF WorkerKnows, Underway, Native!Effects, Native!Mutations
  <2>7. n = Native!TurnsIn(v)' BY <1>2, <2>1, <2>3
  <2> QED BY <2>1, <2>6, <2>7 DEF WorkerOK
<1> QED BY <1>13, <1>14

(* One call.                                                                *)
LEMMA OneCall ==
  ASSUME SharedInv, UNCHANGED <<limits, journal, control>>, NEW v \in Turns, NEW n, n = Native!TurnsIn(v),
         ledger' \in [Native!Calls -> {Nil, "RESERVED", "OK", "FAILED"}], performed' \in [Native!Calls -> Nat],
         \A m \in Native!Calls : m /= n => ledger'[m] = ledger[m] /\ performed'[m] = performed[m],
         checkout' \in {checkout, n}, CallOK(v, n)'
  PROVE  /\ SharedInv'
         /\ \A y \in WorkerType : WorkerOK(y) /\ y.view /= v => WorkerOK(y)'
         /\ \A y : y.view = v => WorkerOK(y)' = WorkerKnows(y, v, n)'
<1>0. SharedTypes BY DEF SharedInv
<1>1. \A u : Native!TurnsIn(u)' = Native!TurnsIn(u) BY DEF Native!TurnsIn
<1>2. Turns' = Turns /\ Native!Calls' = Native!Calls /\ Native!MaxTurns' = Native!MaxTurns
  BY DEF Turns, Native!Calls, Native!MaxTurns
<1>3. n \in Nat /\ n >= 1 /\ n <= Native!TurnsIn(Len(journal)) /\ Native!TurnsIn(Len(journal)) \in Nat
  BY <1>0, Numbers DEF SharedTypes, Turns
<1>4. n \in Native!Calls BY DEF SharedInv, CallOK
<1>5. SharedTypes' BY <1>0, <1>2, <1>3 DEF SharedTypes
<1>6. ASSUME NEW u \in Turns, u /= v, NEW m, m = Native!TurnsIn(u)
      PROVE  m \in Native!Calls /\ m /= n /\ CallOK(u, m)'
  <2>1. m /= n BY <1>0, <1>6, Numbers
  <2>2. CallOK(u, m) BY <1>6 DEF SharedInv
  <2>3. m \in Native!Calls BY <2>2 DEF CallOK
  <2>4. ledger'[m] = ledger[m] /\ performed'[m] = performed[m] /\ (checkout' = m => checkout = m) BY <2>1, <2>3
  <2>5. Native!Answered(u, "OK")' = Native!Answered(u, "OK") BY DEF Native!Answered
  <2>6. CallOK(u, m)' BY <1>2, <2>2, <2>4, <2>5 DEF CallOK, Native!Effects, Native!Mutations
  <2> QED BY <2>1, <2>3, <2>6
<1>7. \A u \in Turns' : CallOK(u, Native!TurnsIn(u))'
  <2> SUFFICES ASSUME NEW u \in Turns PROVE CallOK(u, Native!TurnsIn(u))' BY <1>2
  <2>1. PICK m : m = Native!TurnsIn(u) OBVIOUS
  <2>2. CallOK(u, m)' BY <1>6, <2>1
  <2>3. m = Native!TurnsIn(u)' BY <1>1, <2>1
  <2> QED BY <2>2, <2>3 DEF CallOK
<1>8. ASSUME NEW m \in Native!Calls, m > Native!TurnsIn(Len(journal)) PROVE Fresh(m)'
  <2>1. Fresh(m) BY <1>8 DEF SharedInv
  <2>2. m /= n BY <1>3, <1>8 DEF Native!Calls
  <2> QED BY <2>1, <2>2 DEF Fresh
<1>9. Len(journal') = Len(journal) OBVIOUS
<1>10. Native!TurnsIn(Len(journal))' = Native!TurnsIn(Len(journal)) BY DEF Native!TurnsIn
<1>11. SharedInv' BY <1>2, <1>5, <1>7, <1>8, <1>9, <1>10 DEF SharedInv
<1>12. ASSUME NEW y \in WorkerType, WorkerOK(y), y.view /= v PROVE WorkerOK(y)'
  <2>1. PICK u, m : u = y.view /\ m = Native!TurnsIn(u) OBVIOUS
  <2>2. WorkerKnows(y, u, m) BY <1>12, <2>1 DEF WorkerOK
  <2>3. u \in Turns => m \in Native!Calls /\ m /= n BY <1>6, <1>12, <2>1
  <2>4. WorkerKnows(y, u, m)' BY <1>2, <1>9, <2>2, <2>3 DEF WorkerKnows, Underway, Native!Effects, Native!Mutations
  <2> QED BY <1>1, <2>1, <2>4 DEF WorkerOK
<1>13. \A y : y.view = v => WorkerOK(y)' = WorkerKnows(y, v, n)' BY <1>1 DEF WorkerOK
<1> QED BY <1>11, <1>12, <1>13

-----------------------------------------------------------------------------
(* A worker moves while what is stored stays as others know it.             *)

Kept == SharedInv' /\ \A y \in WorkerType : WorkerOK(y) => WorkerOK(y)'

LEMMA Unstored ==
  ASSUME NativeInv, UNCHANGED <<limits, journal, ledger, checkout, performed>>, control' \in ControlType
  PROVE  Kept
  BY Standing DEF NativeInv, Kept

LEMMA KeptOthers == ASSUME WorkersInv, Kept PROVE \A w \in Workers : OthersKnow(w)
  BY DEF WorkersInv, Kept, OthersKnow

LEMMA NoneMoves == ASSUME NativeInv, Kept, UNCHANGED workers PROVE NativeInv'
<1>1. \A u \in Workers : workers'[u] /= Nil => WorkerOK(workers[u])'
  <2> SUFFICES ASSUME NEW u \in Workers, workers[u] /= Nil PROVE WorkerOK(workers[u])' OBVIOUS
  <2>1. PICK y : y = workers[u] OBVIOUS
  <2>2. y \in WorkerType /\ WorkerOK(y) BY <2>1 DEF NativeInv, WorkersInv
  <2>3. WorkerOK(y)' BY <2>2 DEF Kept
  <2> QED BY <2>1, <2>3 DEF WorkerOK
<1> QED BY <1>1 DEF NativeInv, WorkersInv, Kept, Apart, Failing

LEMMA Leaving == ASSUME NativeInv, Kept, NEW w \in Workers, Native!Leave(w) PROVE NativeInv'
  BY KeptOthers, OneLeaves DEF NativeInv, Kept

(* It has no call to care for.                                              *)
LEMMA Idling ==
  ASSUME NativeInv, Kept, NEW w \in Workers, NEW x, Becomes(w, x), x.pc \notin Underway, x.view <= Len(journal')
  PROVE  NativeInv'
<1>1. WorkerOK(x)' BY DEF WorkerOK, WorkerKnows, Underway
<1>2. Alone(w, x) BY DEF Alone, Apart, Failing, Underway
<1> QED BY <1>1, <1>2, KeptOthers, OneMoves DEF NativeInv, Kept

(* It goes on with its call, or has it still to reserve.                    *)
LEMMA Knowing ==
  ASSUME NativeInv, Kept, NEW w \in Workers, NEW x, Becomes(w, x), WorkerOK(x),
         \/ x.pc /= "perform" /\ ~Failing(x)
         \/ workers[w] /= Nil /\ x.pc = workers[w].pc /\ x.view = workers[w].view /\ x.out = workers[w].out
  PROVE  NativeInv'
<1>1. WorkerOK(x)' BY DEF Kept, Becomes
<1>2. Alone(w, x) BY DEF Alone, Apart, Failing, NativeInv, WorkersInv
<1> QED BY <1>1, <1>2, KeptOthers, OneMoves DEF NativeInv, Kept

LEMMA Halting ==
  ASSUME NativeInv, Kept, NEW w \in Workers, workers[w] /= Nil, NEW err \in {"none", "failed", "uncertain"}, Native!Stop(w, err)
  PROVE  NativeInv'
<1>1. PICK x : Becomes(w, x) /\ x.pc = "finish" /\ x.view = 0 BY StopForm DEF NativeInv
<1>2. Len(journal') \in Nat BY DEF Kept, SharedInv, SharedTypes
<1> QED BY <1>1, <1>2, Idling DEF Underway

LEMMA GoingIdle ==
  ASSUME NativeInv, Kept, UNCHANGED journal, NEW w \in Workers, workers[w] /= Nil, NEW pc \in WorkerPoints \ Underway, Native!Go(w, pc)
  PROVE  NativeInv'
<1>1. PICK x : Becomes(w, x) /\ x.pc = pc /\ x.view = workers[w].view BY GoForm DEF NativeInv
<1>2. WorkerOK(workers[w]) BY DEF NativeInv, WorkersInv
<1> QED BY <1>1, <1>2, Idling DEF WorkerOK, WorkerKnows

(* What a worker is at.                                                     *)
LEMMA AtFacts ==
  ASSUME NativeInv, NEW w \in Workers, workers[w] /= Nil
  PROVE  /\ workers[w] \in WorkerType /\ WorkerOK(workers[w])
         /\ workers[w].view \in 0..Len(journal) /\ Len(journal) \in Nat
         /\ Native!Pending(workers[w].view) <=> workers[w].view \in Turns
<1>1. workers[w] \in WorkerType /\ WorkerOK(workers[w]) BY DEF NativeInv, WorkersInv
<1>2. Len(journal) \in Nat BY DEF NativeInv, SharedInv, SharedTypes
<1>3. workers[w].view \in 0..Len(journal) BY <1>1, <1>2 DEF WorkerType, WorkerOK, WorkerKnows
<1> QED BY <1>1, <1>2, <1>3 DEF Native!Pending, Native!LastKind, Turns

(* A worker appends what may follow, or finds the journal longer.           *)
LEMMA Appending ==
  ASSUME NativeInv, NEW w \in Workers, workers[w] /= Nil, NEW e \in EntryType, NEW next \in {"turn", "finish"},
         Native!Append1(w, e, next), UNCHANGED <<limits, ledger, checkout, performed, control>>,
         workers[w].view = Len(journal) =>
           /\ ~Native!IsTerminal
           /\ e.kind = "TURN" => Native!TurnsIn(Len(journal)) < Native!MaxTurns
           /\ e = Native!Done("OK") /\ Len(journal) \in Turns /\ journal[Len(journal)].tool \in Native!Effects =>
                performed[Native!TurnsIn(Len(journal))] = 1
  PROVE  NativeInv'
<1>0. /\ control' \in ControlType /\ Len(journal) \in Nat /\ journal \in Seq(EntryType)
      /\ next \in WorkerPoints /\ next \notin Underway /\ workers[w].view \in Nat
  BY AtFacts DEF NativeInv, SharedInv, SharedTypes, ControlType, WorkerPoints, Underway, WorkerType
<1>1. CASE /\ workers[w].view = Len(journal) /\ journal' = Append(journal, e)
           /\ workers' = [workers EXCEPT ![w].pc = next, ![w].view = workers[w].view + 1, ![w].out = Nil]
  <2>1. Kept BY <1>0, <1>1, Appended DEF NativeInv, Kept
  <2>2. PICK v \in Nat : v = workers[w].view + 1 BY <1>0
  <2>3. PICK x : Becomes(w, x) /\ x.pc = next /\ x.view = v
    <3>1. Appends(w, next, v) BY <1>1, <2>2, Zenon DEF Appends
    <3>2. WorkersInv BY DEF NativeInv
    <3> QED BY <1>0, <3>1, <3>2, AppendForm
  <2>4. Len(journal') = Len(journal) + 1 BY <1>0, <1>1, AppendProperties
  <2> QED BY <1>0, <1>1, <2>1, <2>2, <2>3, <2>4, Idling
<1>2. CASE /\ workers' = [workers EXCEPT ![w].pc = next, ![w].view = Len(journal), ![w].out = Nil]
           /\ UNCHANGED journal
  <2>1. Kept BY <1>0, <1>2, Unstored
  <2>2. PICK v \in Nat : v = Len(journal) BY <1>0
  <2>3. PICK x : Becomes(w, x) /\ x.pc = next /\ x.view = v
    <3>1. Appends(w, next, v) BY <1>2, <2>2, Zenon DEF Appends
    <3>2. WorkersInv BY DEF NativeInv
    <3> QED BY <1>0, <3>1, <3>2, AppendForm
  <2> QED BY <1>0, <1>2, <2>1, <2>2, <2>3, Idling
<1>3. CASE Native!Stop(w, "failed") /\ UNCHANGED journal
  <2>1. Kept BY <1>0, <1>3, Unstored
  <2> QED BY <1>3, <2>1, Halting
<1> QED BY <1>1, <1>2, <1>3 DEF Native!Append1

(* The answer to a call is known.                                           *)
LEMMA Answering ==
  ASSUME NativeInv, Kept, UNCHANGED journal, NEW w \in Workers, workers[w] /= Nil,
         workers[w].view \in Turns, journal[workers[w].view].tool \in Native!Effects,
         NEW out \in {"OK", "FAILED", "ERROR"}, Native!Answer(w, out),
         out = "OK" => performed[Native!TurnsIn(workers[w].view)] = 1
  PROVE  NativeInv'
<1>1. Results(w, "append", out) BY DEF Results, Native!Answer
<1>2. PICK x : Becomes(w, x) /\ x.pc = "append" /\ x.view = workers[w].view /\ x.out = out
  BY <1>1, OutForm DEF NativeInv, WorkerPoints
<1>3. WorkerOK(x)
  <2>1. workers[w].view <= Len(journal) BY AtFacts
  <2> QED BY <1>2, <2>1, NilAssumption DEF WorkerOK, WorkerKnows
<1> QED BY <1>2, <1>3, Knowing DEF Failing

-----------------------------------------------------------------------------
(* The actions.                                                             *)

LEMMA ControlKept == ASSUME NativeInv, UNCHANGED control PROVE control' \in ControlType
  BY DEF NativeInv, SharedInv, SharedTypes, ControlType

LEMMA Released == ASSUME NativeInv, NEW w \in Workers, Native!Release(w) PROVE control' \in ControlType
  BY DEF NativeInv, SharedInv, SharedTypes, ControlType, Native!Release

LEMMA NativeEnsure == ASSUME NativeInv, UNCHANGED limits, NEW w \in Workers, Native!Ensure(w) PROVE NativeInv'
<1>1. Kept BY ControlKept, Unstored DEF Native!Ensure
<1>2. PICK x : x = [pc |-> "claim", epoch |-> 0, view |-> 0, cause |-> "none", err |-> "none", out |-> Nil] OBVIOUS
<1>3. x \in WorkerType /\ x.pc = "claim" /\ x.view = 0 BY <1>2 DEF WorkerType, WorkerPoints
<1>4. Becomes(w, x) BY <1>2, <1>3 DEF Native!Ensure, Becomes
<1>5. Len(journal') \in Nat BY <1>1 DEF Kept, SharedInv, SharedTypes
<1> QED BY <1>1, <1>3, <1>4, <1>5, Idling DEF Underway

LEMMA NativeClaim == ASSUME NativeInv, UNCHANGED limits, NEW w \in Workers, Native!Claim(w) PROVE NativeInv'
<1>1. CASE Native!Leave(w) /\ UNCHANGED control
  <2>1. Kept BY <1>1, ControlKept, Unstored DEF Native!Claim
  <2> QED BY <1>1, <2>1, Leaving
<1>2. CASE /\ control' = [control EXCEPT !.live = TRUE, !.epoch = @ + 1]
           /\ workers' = [workers EXCEPT ![w] =
                [@ EXCEPT !.epoch = control.epoch + 1, !.pc = IF control.cancel THEN "reconcile" ELSE "prepare",
                          !.cause = IF control.cancel THEN "cancel" ELSE "none",
                          !.err = IF control.cancel THEN "failed" ELSE "none"]]
  <2>1. control \in ControlType BY DEF NativeInv, SharedInv, SharedTypes, ControlType
  <2>2. PICK k \in Nat : k = control.epoch + 1 BY <2>1 DEF ControlType
  <2>3. control' \in ControlType BY <1>2, <2>1, <2>2 DEF ControlType
  <2>4. Kept BY <2>3, Unstored DEF Native!Claim
  <2>5. workers[w] /= Nil BY DEF Native!Claim, Native!At
  <2>6. PICK r \in WorkerType : r = workers[w] BY <2>5, AtFacts
  <2>7. PICK pc, cause, err : /\ pc = IF control.cancel THEN "reconcile" ELSE "prepare"
                              /\ cause = IF control.cancel THEN "cancel" ELSE "none"
                              /\ err = IF control.cancel THEN "failed" ELSE "none"
    OBVIOUS
  <2>8. pc \in {"reconcile", "prepare"} /\ cause \in {"cancel", "none"} /\ err \in {"failed", "none"} BY <2>7
  <2>9. PICK x : x = [r EXCEPT !.epoch = k, !.pc = pc, !.cause = cause, !.err = err] OBVIOUS
  <2>10. x \in WorkerType /\ x.pc = pc /\ x.view = r.view BY <2>8, <2>9 DEF WorkerType, WorkerPoints
  <2>11. workers' = [workers EXCEPT ![w] = x] BY <1>2, <2>2, <2>6, <2>7, <2>9
  <2>12. r.view <= Len(journal') BY <2>5, <2>6, AtFacts DEF Native!Claim
  <2> QED BY <2>4, <2>8, <2>10, <2>11, <2>12, Idling DEF Becomes, Underway
<1> QED BY <1>1, <1>2 DEF Native!Claim

LEMMA NativePrepare == ASSUME NativeInv, UNCHANGED limits, NEW w \in Workers, Native!Prepare(w) PROVE NativeInv'
<1>0. workers[w] /= Nil BY DEF Native!Prepare, Native!At
<1>1. CASE (Native!Release(w) \/ UNCHANGED control) /\ Native!Leave(w)
  <2>1. Kept BY <1>1, ControlKept, Released, Unstored DEF Native!Prepare
  <2> QED BY <1>1, <2>1, Leaving
<1>2. CASE UNCHANGED control /\ workers' = [workers EXCEPT ![w].pc = "reconcile", ![w].cause = "cancel", ![w].err = "failed"]
  <2>1. Kept BY <1>2, ControlKept, Unstored DEF Native!Prepare
  <2>2. PICK r \in WorkerType : r = workers[w] BY <1>0, AtFacts
  <2>3. PICK x : x = [r EXCEPT !.pc = "reconcile", !.cause = "cancel", !.err = "failed"] OBVIOUS
  <2>4. x \in WorkerType /\ x.pc = "reconcile" /\ x.view = r.view BY <2>3 DEF WorkerType, WorkerPoints
  <2>5. workers' = [workers EXCEPT ![w] = x] BY <1>2, <2>2, <2>3 DEF NativeInv, WorkersInv
  <2>6. r.view <= Len(journal') BY <1>0, <2>2, AtFacts DEF Native!Prepare
  <2> QED BY <2>1, <2>4, <2>5, <2>6, Idling DEF Becomes, Underway
<1>3. CASE UNCHANGED control /\ Native!Go(w, "load")
  <2>1. Kept BY <1>3, ControlKept, Unstored DEF Native!Prepare
  <2>2. "load" \in WorkerPoints \ Underway BY DEF WorkerPoints, Underway
  <2> QED BY <1>0, <1>3, <2>1, <2>2, GoingIdle DEF Native!Prepare
<1> QED BY <1>1, <1>2, <1>3 DEF Native!Prepare

LEMMA NativeInterrupt ==
  ASSUME NativeInv, UNCHANGED limits, NEW w \in Workers, NEW cause \in {"lost", "cancel", "deadline"}, Native!Interrupt(w, cause)
  PROVE  NativeInv'
<1>0. workers[w] /= Nil BY DEF Native!Interrupt
<1>1. Kept BY ControlKept, Unstored DEF Native!Interrupt
<1>2. PICK r \in WorkerType : r = workers[w] BY <1>0, AtFacts
<1>3. PICK x : x = [r EXCEPT !.cause = cause] OBVIOUS
<1>4. x \in WorkerType /\ x.pc = r.pc /\ x.view = r.view /\ x.out = r.out BY <1>3 DEF WorkerType
<1>5. workers' = [workers EXCEPT ![w] = x] BY <1>2, <1>3 DEF Native!Interrupt
<1>6. WorkerOK(x)
  <2>1. WorkerOK(r) BY <1>0, <1>2, AtFacts
  <2> QED BY <1>4, <2>1 DEF WorkerOK, WorkerKnows
<1> QED BY <1>0, <1>1, <1>2, <1>4, <1>5, <1>6, Knowing DEF Becomes

LEMMA NativeCutShort == ASSUME NativeInv, UNCHANGED limits, NEW w \in Workers, Native!CutShort(w) PROVE NativeInv'
<1>1. Kept BY ControlKept, Unstored DEF Native!CutShort
<1> QED BY <1>1, Halting DEF Native!CutShort

LEMMA NativeFinish == ASSUME NativeInv, UNCHANGED limits, NEW w \in Workers, Native!finishWorker(w) PROVE NativeInv'
<1>0. workers[w] /= Nil BY DEF Native!finishWorker, Native!At
<1>1. CASE (Native!Release(w) \/ UNCHANGED control) /\ Native!Leave(w)
  <2>1. Kept BY <1>1, ControlKept, Released, Unstored DEF Native!finishWorker
  <2> QED BY <1>1, <2>1, Leaving
<1>2. CASE UNCHANGED control /\ Native!Go(w, "reconcile")
  <2>1. Kept BY <1>2, ControlKept, Unstored DEF Native!finishWorker
  <2>2. "reconcile" \in WorkerPoints \ Underway BY DEF WorkerPoints, Underway
  <2> QED BY <1>0, <1>2, <2>1, <2>2, GoingIdle DEF Native!finishWorker
<1>3. workers[w].cause = "none" => workers[w].cause /= "lost" OBVIOUS
<1> QED BY <1>1, <1>2, <1>3 DEF Native!finishWorker

LEMMA EntryTypes ==
  /\ \A by \in {"runner", "boundary"} : Native!Started(by) \in EntryType /\ Native!Started(by).kind = "STARTED"
  /\ \A tool \in AllTools, expect \in Int :
       Native!Turn(tool, expect) \in EntryType /\ Native!Turn(tool, expect).kind = "TURN"
  /\ \A out \in {"OK", "FAILED", "ERROR"} :
       Native!Done(out) \in EntryType /\ Native!Done(out).kind = "DONE" /\ (Native!Done(out) = Native!Done("OK") => out = "OK")
  /\ \A kind \in Native!TerminalKinds : Native!Terminal(kind) \in EntryType /\ Native!Terminal(kind).kind = kind
<1>1. \A by \in {"runner", "boundary"} : Native!Started(by) \in EntryType /\ Native!Started(by).kind = "STARTED"
  BY DEF EntryType, Native!Started
<1>2. \A tool \in AllTools, expect \in Int :
       Native!Turn(tool, expect) \in EntryType /\ Native!Turn(tool, expect).kind = "TURN"
  BY DEF EntryType, Native!Turn
<1>3. \A out \in {"OK", "FAILED", "ERROR"} :
       Native!Done(out) \in EntryType /\ Native!Done(out).kind = "DONE" /\ Native!Done(out).out = out
  BY DEF EntryType, Native!Done
<1>4. \A kind \in Native!TerminalKinds : Native!Terminal(kind) \in EntryType /\ Native!Terminal(kind).kind = kind
  BY DEF EntryType, Native!Terminal
<1>5. \A out \in {"OK", "FAILED", "ERROR"} : Native!Done(out) = Native!Done("OK") => out = "OK" BY <1>3
<1> QED BY <1>1, <1>2, <1>3, <1>4, <1>5

LEMMA NoTurn ==
  /\ \A out \in {"OK", "FAILED", "ERROR"} : Native!Done(out).kind /= "TURN"
  /\ \A kind \in Native!TerminalKinds : Native!Terminal(kind).kind /= "TURN" /\ Native!Terminal(kind) /= Native!Done("OK")
  /\ Native!Started("runner").kind /= "TURN" /\ Native!Started("runner") /= Native!Done("OK")
  /\ Native!Started("boundary").kind /= "TURN" /\ Native!Started("boundary") /= Native!Done("OK")
<1>1. Native!Done("OK").kind = "DONE" BY EntryTypes
<1>2. "DONE" \notin Native!TerminalKinds /\ "TURN" \notin Native!TerminalKinds BY DEF Native!TerminalKinds
<1>3. \A kind \in Native!TerminalKinds : Native!Terminal(kind).kind = kind BY EntryTypes
<1>4. Native!Started("runner").kind = "STARTED" /\ Native!Started("boundary").kind = "STARTED" BY EntryTypes
<1>5. \A out \in {"OK", "FAILED", "ERROR"} : Native!Done(out).kind = "DONE" BY EntryTypes
<1>6. \A kind \in Native!TerminalKinds : Native!Terminal(kind) /= Native!Done("OK") BY <1>1, <1>2, <1>3
<1> QED BY <1>1, <1>2, <1>3, <1>4, <1>5, <1>6

LEMMA NativeReconcile ==
  ASSUME NativeInv, UNCHANGED limits, NEW w \in Workers, Native!reconcileBeforeTerminal(w) PROVE NativeInv'
<1>0. /\ workers[w] /= Nil /\ UNCHANGED <<limits, checkout, performed, control>> /\ control' \in ControlType
      /\ "record" \in WorkerPoints \ Underway
  BY ControlKept DEF Native!reconcileBeforeTerminal, Native!At, WorkerPoints, Underway
<1>1. CASE Native!Leave(w) /\ UNCHANGED <<journal, ledger>>
  <2>1. Kept BY <1>0, <1>1, Unstored
  <2> QED BY <1>1, <2>1, Leaving
<1>2. CASE Native!Go(w, "record") /\ UNCHANGED <<journal, ledger>>
  <2>1. Kept BY <1>0, <1>2, Unstored
  <2> QED BY <1>0, <1>2, <2>1, GoingIdle
<1>3. ASSUME Native!Pending(Len(journal)), Native!Call(Len(journal)).tool \in Native!Effects
      PROVE  Len(journal) \in Turns /\ journal[Len(journal)].tool \in Native!Effects /\ ~Native!IsTerminal
  <2>1. Len(journal) \in Nat BY DEF NativeInv, SharedInv, SharedTypes
  <2> QED BY <1>3, <2>1 DEF Native!Pending, Native!LastKind, Native!Call, Turns, Native!IsTerminal, Native!TerminalKinds
<1>4. CASE /\ Native!Pending(Len(journal)) /\ Native!Call(Len(journal)).tool \in Native!Effects
           /\ Native!Entered(Native!TurnsIn(Len(journal)))
           /\ journal' = Append(journal, Native!Done(ledger[Native!TurnsIn(Len(journal))])) /\ UNCHANGED <<ledger, workers>>
  <2>1. PICK n : n = Native!TurnsIn(Len(journal)) OBVIOUS
  <2>2. CallOK(Len(journal), n) BY <1>3, <1>4, <2>1 DEF NativeInv, SharedInv
  <2>3. PICK out \in {"OK", "FAILED"} : out = ledger[n] BY <1>4, <2>1 DEF Native!Entered
  <2>4. PICK e \in EntryType : e = Native!Done(out) BY EntryTypes
  <2>5. e.kind /= "TURN" BY <2>4, NoTurn
  <2>6. e = Native!Done("OK") => performed[n] = 1
    <3>1. e = Native!Done("OK") => out = "OK" BY <2>4, EntryTypes
    <3> QED BY <1>3, <1>4, <2>2, <2>3, <3>1 DEF CallOK
  <2>7. journal' = Append(journal, e) BY <1>4, <2>1, <2>3, <2>4
  <2>8. Kept BY <1>0, <1>3, <1>4, <2>1, <2>5, <2>6, <2>7, Appended DEF NativeInv, Kept
  <2> QED BY <1>4, <2>8, NoneMoves
<1>5. CASE /\ Native!Pending(Len(journal)) /\ Native!Call(Len(journal)).tool \in Native!Effects
           /\ Native!Call(Len(journal)).tool \in Native!Mutations /\ ledger[Native!TurnsIn(Len(journal))] = "RESERVED"
           /\ Native!Applied(Native!TurnsIn(Len(journal)))
           /\ ledger' = [ledger EXCEPT ![Native!TurnsIn(Len(journal))] = "OK"] /\ UNCHANGED <<workers, journal>>
  <2>1. PICK v, n : v = Len(journal) /\ n = Native!TurnsIn(v) OBVIOUS
  <2>2. v \in Turns BY <1>3, <1>5, <2>1
  <2>3. CallOK(v, n) /\ SharedTypes BY <2>1, <2>2 DEF NativeInv, SharedInv
  <2>4. n \in Native!Calls /\ performed[n] = 1 BY <1>5, <2>1, <2>3 DEF CallOK, Native!Applied
  <2>5. ledger' = [ledger EXCEPT ![n] = "OK"] BY <1>5, <2>1
  <2>6. /\ ledger' \in [Native!Calls -> {Nil, "RESERVED", "OK", "FAILED"}] /\ performed' \in [Native!Calls -> Nat]
        /\ \A m \in Native!Calls : m /= n => ledger'[m] = ledger[m] /\ performed'[m] = performed[m]
        /\ ledger'[n] = "OK"
    BY <1>0, <2>3, <2>4, <2>5 DEF SharedTypes
  <2>7. Native!Calls' = Native!Calls BY <1>0 DEF Native!Calls, Native!MaxTurns
  <2>8. CallOK(v, n)' BY <1>0, <1>5, <2>4, <2>6, <2>7, NilAssumption DEF CallOK
  <2>9. checkout' \in {checkout, n} /\ UNCHANGED <<limits, journal, control>> /\ SharedInv BY <1>0, <1>5 DEF NativeInv
  <2>10. /\ SharedInv'
         /\ \A y \in WorkerType : WorkerOK(y) /\ y.view /= v => WorkerOK(y)'
         /\ \A y : y.view = v => WorkerOK(y)' = WorkerKnows(y, v, n)'
    BY <2>1, <2>2, <2>6, <2>8, <2>9, OneCall
  <2>11. ASSUME NEW y \in WorkerType, WorkerOK(y), y.view = v PROVE WorkerOK(y)'
    <3>1. WorkerKnows(y, v, n) BY <2>1, <2>11 DEF WorkerOK
    <3>2. Turns' = Turns /\ Len(journal') = Len(journal) BY <1>5 DEF Turns
    <3>3. WorkerKnows(y, v, n)'
      BY <1>0, <1>5, <2>4, <2>6, <3>1, <3>2, NilAssumption DEF WorkerKnows, Native!Effects, Native!Mutations
    <3> QED BY <2>10, <2>11, <3>3
  <2>12. Kept BY <2>10, <2>11 DEF Kept
  <2> QED BY <1>5, <2>12, NoneMoves
<1> QED BY <1>1, <1>2, <1>4, <1>5 DEF Native!reconcileBeforeTerminal, Native!ReconcilePendingEffects

LEMMA NativeRecord == ASSUME NativeInv, UNCHANGED limits, NEW w \in Workers, Native!recordTerminal(w) PROVE NativeInv'
<1>0. workers[w] /= Nil /\ UNCHANGED <<limits, ledger, checkout, performed>> BY DEF Native!recordTerminal, Native!At
<1>1. CASE Native!Leave(w) /\ UNCHANGED journal /\ (UNCHANGED control \/ Native!Release(w))
  <2>1. Kept BY <1>0, <1>1, ControlKept, Released, Unstored
  <2> QED BY <1>1, <2>1, Leaving
<1>2. CASE journal = <<>> /\ ~Native!IsTerminal /\ journal' = <<Native!Started("boundary")>> /\ UNCHANGED <<workers, control>>
  <2>1. PICK e \in EntryType : e = Native!Started("boundary") BY EntryTypes
  <2>2. journal' = Append(journal, e) BY <1>2, <2>1
  <2>3. e.kind /= "TURN" /\ e /= Native!Done("OK") BY <2>1, NoTurn
  <2>4. Kept BY <1>0, <1>2, <2>2, <2>3, ControlKept, Appended DEF NativeInv, Kept
  <2> QED BY <1>2, <2>4, NoneMoves
<1>3. ASSUME NEW kind \in Native!TerminalKinds, ~Native!IsTerminal, journal' = Append(journal, Native!Terminal(kind)),
             Native!Leave(w), Native!Release(w)
      PROVE  NativeInv'
  <2>1. PICK e \in EntryType : e = Native!Terminal(kind) BY EntryTypes
  <2>2. journal' = Append(journal, e) BY <1>3, <2>1
  <2>3. e.kind /= "TURN" /\ e /= Native!Done("OK") BY <2>1, NoTurn
  <2>4. Kept BY <1>0, <1>3, <2>2, <2>3, Released, Appended DEF NativeInv, Kept
  <2> QED BY <1>3, <2>4, Leaving
<1>4. PICK kind : kind = CASE workers[w].cause = "deadline" -> "TIMED_OUT"
                           [] workers[w].cause = "cancel" -> "CANCELLED"
                           [] OTHER -> "FAILED"
  OBVIOUS
<1>5. kind \in Native!TerminalKinds BY <1>4 DEF Native!TerminalKinds
<1> QED BY <1>1, <1>2, <1>3, <1>4, <1>5 DEF Native!recordTerminal

LEMMA NativeSuperseded ==
  ASSUME NativeInv, UNCHANGED limits, NEW w \in Workers, Native!ReconcileSuperseded(w) PROVE NativeInv'
<1>0. UNCHANGED <<limits, journal, ledger, checkout, performed>> BY DEF Native!ReconcileSuperseded
<1>1. control \in ControlType BY DEF NativeInv, SharedInv, SharedTypes, ControlType
<1>2. control' \in ControlType
  <2>1. PICK k \in Nat : k = control.epoch + 1 BY <1>1 DEF ControlType
  <2>2. CASE control' = [control EXCEPT !.cancel = TRUE] BY <2>2, <1>1 DEF ControlType
  <2>3. CASE control' = [control EXCEPT !.cancel = TRUE, !.live = TRUE, !.epoch = @ + 1]
    <3>1. control' = [control EXCEPT !.cancel = TRUE, !.live = TRUE, !.epoch = k] BY <1>1, <2>1, <2>3 DEF ControlType
    <3> QED BY <1>1, <3>1 DEF ControlType
  <2> QED BY <2>2, <2>3 DEF Native!ReconcileSuperseded
<1>3. Kept BY <1>0, <1>2, Unstored
<1>4. CASE UNCHANGED workers BY <1>3, <1>4, NoneMoves
<1>5. CASE workers' = [workers EXCEPT ![w] = [pc |-> "record", epoch |-> control.epoch + 1, view |-> 0,
                                              cause |-> "cancel", err |-> "failed", out |-> Nil]]
  <2>1. PICK x : x = [pc |-> "record", epoch |-> control.epoch + 1, view |-> 0,
                      cause |-> "cancel", err |-> "failed", out |-> Nil]
    OBVIOUS
  <2>2. x \in WorkerType /\ x.pc = "record" /\ x.view = 0 BY <1>1, <2>1 DEF WorkerType, WorkerPoints, ControlType
  <2>3. Becomes(w, x) BY <1>5, <2>1, <2>2 DEF Becomes
  <2>4. Len(journal') \in Nat BY <1>3 DEF Kept, SharedInv, SharedTypes
  <2> QED BY <1>3, <2>2, <2>3, <2>4, Idling DEF Underway
<1> QED BY <1>4, <1>5 DEF Native!ReconcileSuperseded

LEMMA NativeControl ==
  ASSUME NativeInv, UNCHANGED limits, Native!RequestCancel \/ Native!LeaseExpires PROVE NativeInv'
<1>1. control' \in ControlType
  BY DEF NativeInv, SharedInv, SharedTypes, ControlType, Native!RequestCancel, Native!LeaseExpires
<1>2. Kept BY <1>1, Unstored DEF Native!RequestCancel, Native!LeaseExpires
<1> QED BY <1>2, NoneMoves DEF Native!RequestCancel, Native!LeaseExpires

LEMMA NativeCrash == ASSUME NativeInv, UNCHANGED limits, NEW w \in Workers, Native!Crash(w) PROVE NativeInv'
<1>1. Kept BY ControlKept, Unstored DEF Native!Crash
<1> QED BY <1>1, Leaving DEF Native!Crash

LEMMA NativeLoad == ASSUME NativeInv, UNCHANGED limits, NEW w \in Workers, Native!Load(w) PROVE NativeInv'
<1>0. workers[w] /= Nil /\ UNCHANGED <<limits, ledger, checkout, performed, control>>
  BY DEF Native!Load, Native!Alive, Native!At
<1>1. CASE Native!Stop(w, "failed") /\ UNCHANGED journal
  <2>1. Kept BY <1>0, <1>1, ControlKept, Unstored
  <2> QED BY <1>0, <1>1, <2>1, Halting
<1>2. CASE journal = <<>> /\ Native!Append1(w, Native!Started("runner"), "turn")
  <2>1. PICK e \in EntryType : e = Native!Started("runner") BY EntryTypes
  <2>2. e.kind /= "TURN" /\ e /= Native!Done("OK") BY <2>1, NoTurn
  <2>3. Native!Append1(w, e, "turn") BY <1>2, <2>1
  <2>4. ~Native!IsTerminal BY <1>2 DEF Native!IsTerminal, Native!LastKind, Native!TerminalKinds
  <2> QED BY <1>0, <2>2, <2>3, <2>4, Appending
<1>3. CASE workers' = [workers EXCEPT ![w].pc = "turn", ![w].view = Len(journal)] /\ UNCHANGED journal
  <2>1. Kept BY <1>0, <1>3, ControlKept, Unstored
  <2>2. PICK v \in Nat : v = Len(journal) BY <1>0, AtFacts
  <2>3. Reads(w, "turn", v) BY <1>3, <2>2, Zenon DEF Reads
  <2>4. PICK x : Becomes(w, x) /\ x.pc = "turn" /\ x.view = v BY <1>0, <2>3, ReadForm DEF NativeInv, WorkerPoints
  <2> QED BY <1>3, <2>1, <2>2, <2>4, Idling DEF Underway
<1> QED BY <1>1, <1>2, <1>3 DEF Native!Load

LEMMA NativeReplayed == ASSUME NativeInv, UNCHANGED limits, NEW w \in Workers, Native!Replayed(w) PROVE NativeInv'
<1>0. workers[w] /= Nil BY DEF Native!Replayed, Native!Alive, Native!At
<1>1. Kept BY ControlKept, Unstored DEF Native!Replayed
<1>2. PICK err \in {"none", "failed"} : Native!Stop(w, err) BY DEF Native!Replayed
<1> QED BY <1>0, <1>1, <1>2, Halting

LEMMA NativeModelTurn == ASSUME NativeInv, UNCHANGED limits, NEW w \in Workers, Native!ModelTurn(w) PROVE NativeInv'
<1>0. workers[w] /= Nil /\ UNCHANGED <<limits, ledger, checkout, performed, control>>
  BY DEF Native!ModelTurn, Native!Alive, Native!At
<1>1. CASE Native!Stop(w, "failed") /\ UNCHANGED journal
  <2>1. Kept BY <1>0, <1>1, ControlKept, Unstored
  <2> QED BY <1>0, <1>1, <2>1, Halting
<1>2. ASSUME Native!Number(w) < Native!MaxTurns, NEW tool \in Native!Tools,
             NEW expect \in IF tool \in Native!Mutations THEN {checkout, Native!Absent} ELSE {0},
             Native!Append1(w, Native!Turn(tool, expect), "turn")
      PROVE  NativeInv'
  <2>1. tool \in AllTools /\ expect \in Int
    BY <1>2, LimitsAssumption DEF NativeInv, SharedInv, SharedTypes, Native!Tools, Native!Absent
  <2>2. PICK e \in EntryType : e = Native!Turn(tool, expect) BY <2>1, EntryTypes
  <2>3. e /= Native!Done("OK")
    <3>1. e.kind = "TURN" /\ Native!Done("OK").kind = "DONE" BY <2>1, <2>2, EntryTypes
    <3> QED BY <3>1
  <2>4. Native!Append1(w, e, "turn") BY <1>2, <2>2
  <2>5. workers[w].view = Len(journal) => ~Native!IsTerminal
    BY DEF Native!ModelTurn, Native!IsTerminal, Native!TerminalKinds
  <2>6. workers[w].view = Len(journal) => Native!TurnsIn(Len(journal)) < Native!MaxTurns BY <1>2 DEF Native!Number
  <2> QED BY <1>0, <2>3, <2>4, <2>5, <2>6, Appending
<1> QED BY <1>1, <1>2 DEF Native!ModelTurn

(* A pending call is answered.                                              *)
LEMMA PendingOpen ==
  ASSUME NativeInv, NEW w \in Workers, workers[w] /= Nil, Native!Pending(workers[w].view)
  PROVE  workers[w].view = Len(journal) => ~Native!IsTerminal
  BY DEF Native!Pending, Native!IsTerminal, Native!TerminalKinds

LEMMA NativeSubmit == ASSUME NativeInv, UNCHANGED limits, NEW w \in Workers, Native!Submit(w) PROVE NativeInv'
<1>0. workers[w] /= Nil /\ UNCHANGED <<limits, ledger, checkout, performed, control>> /\ Native!Pending(workers[w].view)
  BY DEF Native!Submit, Native!Alive, Native!At
<1>1. CASE Native!Stop(w, "failed") /\ UNCHANGED journal
  <2>1. Kept BY <1>0, <1>1, ControlKept, Unstored
  <2> QED BY <1>0, <1>1, <2>1, Halting
<1>2. CASE Native!Append1(w, Native!Terminal("FINISHED"), "finish")
  <2>1. "FINISHED" \in Native!TerminalKinds BY DEF Native!TerminalKinds
  <2>2. PICK e \in EntryType : e = Native!Terminal("FINISHED") BY <2>1, EntryTypes
  <2>3. e.kind /= "TURN" /\ e /= Native!Done("OK") BY <2>1, <2>2, NoTurn
  <2>4. Native!Append1(w, e, "finish") BY <1>2, <2>2
  <2> QED BY <1>0, <2>3, <2>4, PendingOpen, Appending
<1>3. CASE Native!Append1(w, Native!Done("ERROR"), "turn")
  <2>1. PICK e \in EntryType : e = Native!Done("ERROR") BY EntryTypes
  <2>2. e.kind /= "TURN" BY <2>1, NoTurn
  <2>3. e /= Native!Done("OK") BY <2>1, EntryTypes
  <2>4. Native!Append1(w, e, "turn") BY <1>3, <2>1
  <2> QED BY <1>0, <2>2, <2>3, <2>4, PendingOpen, Appending
<1> QED BY <1>1, <1>2, <1>3 DEF Native!Submit

LEMMA NativeReadOnly == ASSUME NativeInv, UNCHANGED limits, NEW w \in Workers, Native!ExecuteReadOnly(w) PROVE NativeInv'
<1>0. /\ workers[w] /= Nil /\ UNCHANGED <<limits, ledger, checkout, performed, control>> /\ Native!Pending(workers[w].view)
      /\ journal[workers[w].view].tool = "read"
  BY DEF Native!ExecuteReadOnly, Native!Alive, Native!At, Native!Asked, Native!Call
<1>1. PICK out \in {"OK", "ERROR"} : Native!Append1(w, Native!Done(out), "turn") BY DEF Native!ExecuteReadOnly
<1>2. PICK e \in EntryType : e = Native!Done(out) BY EntryTypes
<1>3. e.kind /= "TURN" BY <1>2, NoTurn
<1>4. Native!Append1(w, e, "turn") BY <1>1, <1>2
<1>5. workers[w].view = Len(journal) => journal[Len(journal)].tool \notin Native!Effects
  BY <1>0 DEF Native!Effects, Native!Mutations
<1> QED BY <1>0, <1>3, <1>4, <1>5, PendingOpen, Appending

LEMMA NativeToolDone == ASSUME NativeInv, UNCHANGED limits, NEW w \in Workers, Native!ToolDone(w) PROVE NativeInv'
<1>0. workers[w] /= Nil /\ UNCHANGED <<limits, ledger, checkout, performed, control>> /\ workers[w].pc = "append"
  BY DEF Native!ToolDone, Native!Alive, Native!At
<1>1. PICK out, v : out = workers[w].out /\ v = workers[w].view OBVIOUS
<1>2. /\ v \in Turns /\ out \in {"OK", "FAILED", "ERROR"}
      /\ out = "OK" => performed[Native!TurnsIn(v)] = 1
  BY <1>0, <1>1, AtFacts DEF WorkerOK, WorkerKnows, WorkerType, Underway
<1>3. PICK e \in EntryType : e = Native!Done(out) BY <1>2, EntryTypes
<1>4. e.kind /= "TURN" BY <1>2, <1>3, NoTurn
<1>5. Native!Append1(w, e, "turn") BY <1>1, <1>3 DEF Native!ToolDone
<1>6. e = Native!Done("OK") => out = "OK" BY <1>2, <1>3, EntryTypes
<1>7. Native!Pending(workers[w].view) BY <1>0, <1>1, <1>2, AtFacts
<1>8. workers[w].view = Len(journal) /\ e = Native!Done("OK") => performed[Native!TurnsIn(Len(journal))] = 1
  BY <1>1, <1>2, <1>6
<1> QED BY <1>0, <1>4, <1>5, <1>7, <1>8, PendingOpen, Appending

-----------------------------------------------------------------------------
(* The effects.                                                             *)

LEMMA NativeBind == ASSUME NativeInv, UNCHANGED limits, NEW w \in Workers, Native!BindToolInvocation(w) PROVE NativeInv'
<1>0. /\ workers[w] /= Nil /\ UNCHANGED journal
      /\ workers[w].view \in Turns /\ journal[workers[w].view].tool \in Native!Effects
  BY AtFacts DEF Native!BindToolInvocation, Native!Alive, Native!At, Native!Asked, Native!Call
<1>1. Kept BY ControlKept, Unstored DEF Native!BindToolInvocation
<1>2. CASE Native!Answer(w, "ERROR") BY <1>0, <1>1, <1>2, Answering
<1>3. ASSUME NEW pc \in {"lock", "reserve"}, Native!Go(w, pc) PROVE NativeInv'
  <2>1. PICK x : Becomes(w, x) /\ x.pc = pc /\ x.view = workers[w].view BY <1>0, <1>3, GoForm DEF NativeInv, WorkerPoints
  <2>2. workers[w].view <= Len(journal) BY <1>0, AtFacts
  <2>3. WorkerOK(x) BY <1>0, <2>1, <2>2 DEF WorkerOK, WorkerKnows
  <2> QED BY <1>1, <2>1, <2>3, Knowing DEF Failing
<1> QED BY <1>2, <1>3 DEF Native!BindToolInvocation

LEMMA CallFacts ==
  ASSUME NativeInv, NEW w \in Workers, workers[w] /= Nil, workers[w].pc \in Underway, NEW v, v = workers[w].view,
         NEW n, n = Native!Number(w)
  PROVE  /\ v \in Turns /\ v <= Len(journal) /\ journal[v].tool \in Native!Effects /\ n = Native!TurnsIn(v)
         /\ CallOK(v, n) /\ n \in Native!Calls /\ WorkerKnows(workers[w], v, n) /\ workers[w] \in WorkerType
         /\ ledger \in [Native!Calls -> {Nil, "RESERVED", "OK", "FAILED"}] /\ performed \in [Native!Calls -> Nat]
         /\ \A u \in Workers : u /= w /\ workers[u] /= Nil /\ workers[u].view = v => WorkerKnows(workers[u], v, n)
<1>1. n = Native!TurnsIn(v) BY DEF Native!Number
<1>2. WorkerKnows(workers[w], v, n) /\ workers[w] \in WorkerType BY <1>1, AtFacts DEF WorkerOK
<1>3. v \in Turns /\ v <= Len(journal) /\ journal[v].tool \in Native!Effects BY <1>2 DEF WorkerKnows
<1>4. CallOK(v, n) BY <1>1, <1>3 DEF NativeInv, SharedInv
<1>5. \A u \in Workers : u /= w /\ workers[u] /= Nil /\ workers[u].view = v => WorkerKnows(workers[u], v, n)
  BY <1>1 DEF NativeInv, WorkersInv, WorkerOK
<1> QED BY <1>1, <1>2, <1>3, <1>4, <1>5 DEF CallOK, NativeInv, SharedInv, SharedTypes

LEMMA NativeLock == ASSUME NativeInv, UNCHANGED limits, NEW w \in Workers, Native!lockEffectPath(w) PROVE NativeInv'
<1>0. workers[w] /= Nil /\ workers[w].pc = "lock" /\ UNCHANGED journal BY DEF Native!lockEffectPath, Native!Alive, Native!At
<1>1. Kept BY ControlKept, Unstored DEF Native!lockEffectPath
<1>2. PICK v, n : v = workers[w].view /\ n = Native!Number(w) OBVIOUS
<1>3. v \in Turns /\ v <= Len(journal) /\ journal[v].tool \in Native!Effects BY <1>0, <1>2, CallFacts DEF Underway
<1>4. CASE Native!Answer(w, "ERROR") BY <1>0, <1>1, <1>2, <1>3, <1>4, Answering
<1>5. CASE Native!Go(w, "reserve")
  <2>1. PICK x : Becomes(w, x) /\ x.pc = "reserve" /\ x.view = v BY <1>0, <1>2, <1>5, GoForm DEF NativeInv, WorkerPoints
  <2>2. WorkerOK(x) BY <1>3, <2>1 DEF WorkerOK, WorkerKnows
  <2> QED BY <1>1, <2>1, <2>2, Knowing DEF Failing
<1> QED BY <1>4, <1>5 DEF Native!lockEffectPath

(* A reservation disturbs nobody.                                           *)
LEMMA Reserved ==
  ASSUME NativeInv, UNCHANGED <<limits, journal, checkout, performed, control>>, NEW v \in Turns, NEW n, n = Native!TurnsIn(v),
         ledger' \in {ledger, [ledger EXCEPT ![n] = IF @ = Nil THEN "RESERVED" ELSE @]}
  PROVE  Kept
<1>1. CASE ledger' = ledger BY <1>1, ControlKept, Unstored
<1>2. CASE ledger' = [ledger EXCEPT ![n] = IF @ = Nil THEN "RESERVED" ELSE @]
  <2>1. CallOK(v, n) /\ SharedTypes /\ SharedInv BY DEF NativeInv, SharedInv
  <2>2. n \in Native!Calls BY <2>1 DEF CallOK
  <2>3. /\ ledger' \in [Native!Calls -> {Nil, "RESERVED", "OK", "FAILED"}] /\ performed' \in [Native!Calls -> Nat]
        /\ \A m \in Native!Calls : m /= n => ledger'[m] = ledger[m] /\ performed'[m] = performed[m]
        /\ ledger'[n] = IF ledger[n] = Nil THEN "RESERVED" ELSE ledger[n]
    BY <1>2, <2>1, <2>2 DEF SharedTypes
  <2>4. Native!Calls' = Native!Calls /\ Turns' = Turns /\ Len(journal') = Len(journal) /\ checkout' \in {checkout, n}
        /\ Native!Answered(v, "OK")' = Native!Answered(v, "OK")
    BY DEF Native!Calls, Native!MaxTurns, Turns, Native!Answered
  <2>5. CallOK(v, n)' BY <2>1, <2>3, <2>4, NilAssumption DEF CallOK, Native!Effects, Native!Mutations
  <2>6. /\ SharedInv'
        /\ \A y \in WorkerType : WorkerOK(y) /\ y.view /= v => WorkerOK(y)'
        /\ \A y : y.view = v => WorkerOK(y)' = WorkerKnows(y, v, n)'
    BY <2>1, <2>3, <2>4, <2>5, OneCall
  <2>7. ASSUME NEW y \in WorkerType, WorkerOK(y), y.view = v PROVE WorkerOK(y)'
    <3>1. WorkerKnows(y, v, n) BY <2>7 DEF WorkerOK
    <3>2. WorkerKnows(y, v, n)' BY <2>3, <2>4, <3>1, NilAssumption DEF WorkerKnows, Native!Effects, Native!Mutations
    <3> QED BY <2>6, <2>7, <3>2
  <2> QED BY <2>6, <2>7 DEF Kept
<1> QED BY <1>1, <1>2

LEMMA NativeReserve == ASSUME NativeInv, UNCHANGED limits, NEW w \in Workers, Native!Reserve(w) PROVE NativeInv'
<1>0. /\ workers[w] /= Nil /\ workers[w].pc = "reserve" /\ workers[w].pc \in Underway
      /\ UNCHANGED <<limits, journal, checkout, performed, control>>
  BY DEF Native!Reserve, Native!At, Underway
<1>1. PICK v, n : v = workers[w].view /\ n = Native!Number(w) OBVIOUS
<1>2. /\ v \in Turns /\ v <= Len(journal) /\ journal[v].tool \in Native!Effects /\ n = Native!TurnsIn(v)
      /\ CallOK(v, n) /\ n \in Native!Calls
      /\ ledger \in [Native!Calls -> {Nil, "RESERVED", "OK", "FAILED"}]
      /\ \A u \in Workers : u /= w /\ workers[u] /= Nil /\ workers[u].view = v => WorkerKnows(workers[u], v, n)
  BY <1>0, <1>1, CallFacts
<1>3. PICK reserved : reserved = [ledger EXCEPT ![n] = IF @ = Nil THEN "RESERVED" ELSE @] OBVIOUS
<1>4. ledger' \in {ledger, reserved} BY <1>1, <1>3 DEF Native!Reserve
<1>5. Kept BY <1>0, <1>2, <1>3, <1>4, Reserved
<1>6. CASE Native!Stop(w, "uncertain") BY <1>0, <1>5, <1>6, Halting
<1>7. CASE ledger' = reserved /\ Native!IsNew(n) /\ Native!Go(w, "perform")
  <2>1. ledger[n] = Nil /\ ledger'[n] = "RESERVED" /\ performed'[n] = 0
    BY <1>0, <1>2, <1>3, <1>7 DEF Native!IsNew, CallOK
  <2>2. PICK x : Becomes(w, x) /\ x.pc = "perform" /\ x.view = v BY <1>0, <1>1, <1>7, GoForm DEF NativeInv, WorkerPoints
  <2>3. WorkerOK(x)'
    <3>1. n = Native!TurnsIn(v)' BY <1>0, <1>2 DEF Native!TurnsIn
    <3>2. Turns' = Turns /\ Len(journal') = Len(journal) BY <1>0 DEF Turns
    <3>3. WorkerKnows(x, v, n)' BY <1>0, <1>2, <2>1, <2>2, <3>2 DEF WorkerKnows, Native!Effects, Native!Mutations
    <3> QED BY <2>2, <3>1, <3>3 DEF WorkerOK
  <2>4. Alone(w, x)
    <3>1. \A u \in Workers : u /= w /\ workers[u] /= Nil /\ workers[u].view = v => workers[u].pc /= "perform" /\ ~Failing(workers[u])
      BY <1>2, <2>1, NilAssumption DEF WorkerKnows, Failing
    <3> QED BY <2>2, <3>1 DEF Alone, Apart
  <2> QED BY <1>5, <2>2, <2>3, <2>4, KeptOthers, OneMoves DEF NativeInv, Kept
<1>8. CASE Native!Entered(n) /\ Native!Answer(w, ledger[n])
  <2>1. PICK out \in {"OK", "FAILED"} : out = ledger[n] BY <1>8 DEF Native!Entered
  <2>2. out = "OK" => performed[n] = 1 BY <1>2, <2>1 DEF CallOK
  <2>3. Native!Answer(w, out) BY <1>8, <2>1
  <2> QED BY <1>0, <1>1, <1>2, <1>5, <2>2, <2>3, Answering
<1>9. CASE /\ ~Native!IsNew(n) /\ Native!Applied(n)
           /\ workers' = [workers EXCEPT ![w].pc = "complete", ![w].out = "OK"]
  <2>1. Results(w, "complete", "OK") BY <1>9, Zenon DEF Results
  <2>2. PICK x : Becomes(w, x) /\ x.pc = "complete" /\ x.view = v /\ x.out = "OK"
    BY <1>0, <1>1, <2>1, OutForm DEF NativeInv, WorkerPoints
  <2>3. performed[n] = 1 /\ ledger[n] /= Nil BY <1>2, <1>9 DEF CallOK, Native!Applied, Native!IsNew
  <2>4. WorkerOK(x) BY <1>2, <2>2, <2>3 DEF WorkerOK, WorkerKnows
  <2> QED BY <1>5, <2>2, <2>4, Knowing DEF Failing
<1> QED
  <2>1. SUFFICES ASSUME ~Native!Stop(w, "uncertain") PROVE NativeInv' BY <1>6
  <2>2. /\ ledger' = reserved
        /\ CASE Native!IsNew(n) -> Native!Go(w, "perform") /\ UNCHANGED lock
             [] Native!Entered(n) -> Native!Answer(w, ledger[n]) /\ Native!Unlock(w)
             [] OTHER -> IF Native!Asked(w).tool \in Native!Mutations /\ Native!Applied(n)
                         THEN workers' = [workers EXCEPT ![w].pc = "complete", ![w].out = "OK"] /\ UNCHANGED lock
                         ELSE Native!Stop(w, "uncertain") /\ Native!Unlock(w)
    BY <1>1, <1>3, <2>1 DEF Native!Reserve
  <2>3. ~(Native!IsNew(n) /\ Native!Entered(n)) BY NilAssumption DEF Native!IsNew, Native!Entered
  <2>4. CASE Native!IsNew(n) BY <1>7, <2>2, <2>3, <2>4
  <2>5. CASE Native!Entered(n) BY <1>8, <2>2, <2>3, <2>5
  <2>6. CASE ~Native!IsNew(n) /\ ~Native!Entered(n) BY <1>9, <2>1, <2>2, <2>6
  <2> QED BY <2>4, <2>5, <2>6

(* The one that may perform a call does.                                    *)
LEMMA Performed ==
  ASSUME NativeInv, UNCHANGED <<limits, journal, ledger, control>>, NEW w \in Workers, workers[w] /= Nil,
         workers[w].pc = "perform", NEW v, v = workers[w].view, NEW n, n = Native!Number(w),
         performed' = [performed EXCEPT ![n] = @ + 1], checkout' \in {checkout, n}
  PROVE  SharedInv' /\ OthersKnow(w) /\ performed'[n] = 1 /\ ledger'[n] = "RESERVED"
<1>0. workers[w].pc \in Underway BY DEF Underway
<1>1. /\ v \in Turns /\ v <= Len(journal) /\ n = Native!TurnsIn(v) /\ CallOK(v, n) /\ n \in Native!Calls
      /\ WorkerKnows(workers[w], v, n) /\ performed \in [Native!Calls -> Nat]
      /\ ledger \in [Native!Calls -> {Nil, "RESERVED", "OK", "FAILED"}]
      /\ \A u \in Workers : u /= w /\ workers[u] /= Nil /\ workers[u].view = v => WorkerKnows(workers[u], v, n)
  BY <1>0, CallFacts
<1>2. performed[n] = 0 /\ ledger[n] = "RESERVED" BY <1>1 DEF WorkerKnows
<1>3. /\ performed' \in [Native!Calls -> Nat] /\ performed'[n] = 1
      /\ \A m \in Native!Calls : m /= n => performed'[m] = performed[m]
  BY <1>1, <1>2
<1>4. Native!Calls' = Native!Calls /\ Turns' = Turns /\ Len(journal') = Len(journal)
  BY DEF Native!Calls, Native!MaxTurns, Turns
<1>5. CallOK(v, n)' BY <1>1, <1>2, <1>3, <1>4, NilAssumption DEF CallOK
<1>6. /\ ledger' \in [Native!Calls -> {Nil, "RESERVED", "OK", "FAILED"}] /\ SharedInv
      /\ \A m \in Native!Calls : m /= n => ledger'[m] = ledger[m] /\ performed'[m] = performed[m]
  BY <1>1, <1>3 DEF NativeInv
<1>7. /\ SharedInv'
      /\ \A y \in WorkerType : WorkerOK(y) /\ y.view /= v => WorkerOK(y)'
      /\ \A y : y.view = v => WorkerOK(y)' = WorkerKnows(y, v, n)'
  BY <1>1, <1>3, <1>5, <1>6, OneCall
<1>8. ASSUME NEW u \in Workers, u /= w, workers[u] /= Nil, NEW y, y = workers[u] PROVE WorkerOK(y)'
  <2>1. y \in WorkerType /\ WorkerOK(y) BY <1>8, AtFacts
  <2>2. CASE y.view /= v BY <1>7, <2>1, <2>2
  <2>3. CASE y.view = v
    <3>1. WorkerKnows(y, v, n) BY <1>1, <1>8, <2>3
    <3>2. y.pc /= "perform" /\ ~Failing(y) BY <1>8, <2>3 DEF NativeInv, WorkersInv, Apart
    <3>3. WorkerKnows(y, v, n)'
      BY <1>2, <1>3, <1>4, <3>1, <3>2, NilAssumption DEF WorkerKnows, Failing, Native!Effects, Native!Mutations
    <3> QED BY <1>7, <2>3, <3>3
  <2> QED BY <2>2, <2>3
<1> QED BY <1>2, <1>3, <1>7, <1>8 DEF OthersKnow

(* It has the result, or does not know.                                     *)
LEMMA Resulting ==
  ASSUME NativeInv, SharedInv', UNCHANGED <<limits, journal>>, NEW w \in Workers, OthersKnow(w), workers[w] /= Nil,
         workers[w].pc = "perform", NEW v, v = workers[w].view, NEW n, n = Native!Number(w), ledger'[n] = "RESERVED",
         NEW out \in {"OK", "FAILED"}, Native!Completing(w, out), out = "OK" => performed'[n] = 1,
         out = "FAILED" /\ journal[v].tool \in Native!Mutations => performed'[n] = 0
  PROVE  NativeInv'
<1>0. workers[w].pc \in Underway BY DEF Underway
<1>1. v \in Turns /\ v <= Len(journal) /\ n = Native!TurnsIn(v) /\ journal[v].tool \in Native!Effects BY <1>0, CallFacts
<1>2. Results(w, "complete", out) BY DEF Results, Native!Completing
<1>3. PICK x : Becomes(w, x) /\ x.pc = "complete" /\ x.view = v /\ x.out = out
  BY <1>2, OutForm DEF NativeInv, WorkerPoints
<1>4. WorkerOK(x)'
  <2>1. n = Native!TurnsIn(v)' BY <1>1 DEF Native!TurnsIn
  <2>2. Turns' = Turns /\ Len(journal') = Len(journal) BY DEF Turns
  <2>3. WorkerKnows(x, v, n)' BY <1>1, <1>3, <2>2, NilAssumption DEF WorkerKnows, Native!Effects, Native!Mutations
  <2> QED BY <1>3, <2>1, <2>3 DEF WorkerOK
<1>5. Alone(w, x)
  <2>1. \A u \in Workers : u /= w /\ workers[u] /= Nil /\ workers[u].pc = "perform" => workers[u].view /= v
    BY DEF NativeInv, WorkersInv, Apart
  <2> QED BY <1>3, <2>1 DEF Alone, Apart
<1> QED BY <1>3, <1>4, <1>5, OneMoves DEF NativeInv

LEMMA HaltingAlone ==
  ASSUME NativeInv, SharedInv', NEW w \in Workers, OthersKnow(w), workers[w] /= Nil, Native!Stop(w, "uncertain")
  PROVE  NativeInv'
<1>1. PICK x : Becomes(w, x) /\ x.pc = "finish" /\ x.view = 0 BY StopForm DEF NativeInv
<1>2. Len(journal') \in Nat BY DEF SharedInv, SharedTypes
<1>3. WorkerOK(x)' BY <1>1, <1>2 DEF WorkerOK, WorkerKnows, Underway
<1>4. Alone(w, x) BY <1>1 DEF Alone, Apart, Failing
<1> QED BY <1>1, <1>3, <1>4, OneMoves DEF NativeInv

(* It has not been performed.                                               *)
LEMMA Unperformed ==
  ASSUME NativeInv, UNCHANGED <<limits, journal, ledger, checkout, performed, control>>, NEW w \in Workers, workers[w] /= Nil,
         workers[w].pc = "perform", Native!Completing(w, "FAILED")
  PROVE  NativeInv'
<1>1. Kept BY ControlKept, Unstored
<1>2. OthersKnow(w) /\ SharedInv' BY <1>1, KeptOthers DEF NativeInv, Kept
<1>3. PICK v, n : v = workers[w].view /\ n = Native!Number(w) OBVIOUS
<1>4. WorkerKnows(workers[w], v, n) BY <1>3, CallFacts DEF Underway
<1>5. ledger'[n] = "RESERVED" /\ performed'[n] = 0 BY <1>4 DEF WorkerKnows
<1> QED BY <1>2, <1>3, <1>5, Resulting

LEMMA NativeMutate == ASSUME NativeInv, UNCHANGED limits, NEW w \in Workers, Native!Mutate(w) PROVE NativeInv'
<1>0. workers[w] /= Nil /\ workers[w].pc = "perform" /\ UNCHANGED <<limits, journal, ledger, control>>
  BY DEF Native!Mutate, Native!At
<1>1. PICK v, n : v = workers[w].view /\ n = Native!Number(w) OBVIOUS
<1>2. CASE /\ checkout' = n /\ performed' = [performed EXCEPT ![n] = @ + 1]
           /\ Native!Completing(w, "OK") \/ Native!Stop(w, "uncertain")
  <2>1. SharedInv' /\ OthersKnow(w) /\ performed'[n] = 1 /\ ledger'[n] = "RESERVED" BY <1>0, <1>1, <1>2, Performed
  <2>2. CASE Native!Completing(w, "OK") BY <1>0, <1>1, <2>1, <2>2, Resulting
  <2>3. CASE Native!Stop(w, "uncertain") BY <1>0, <2>1, <2>3, HaltingAlone
  <2> QED BY <1>2, <2>2, <2>3
<1>3. CASE UNCHANGED <<checkout, performed>> /\ (Native!Completing(w, "FAILED") \/ Native!Stop(w, "uncertain"))
  <2>1. CASE Native!Completing(w, "FAILED") BY <1>0, <1>3, <2>1, Unperformed
  <2>2. CASE Native!Stop(w, "uncertain")
    <3>1. Kept BY <1>0, <1>3, ControlKept, Unstored
    <3> QED BY <1>0, <2>2, <3>1, Halting
  <2> QED BY <1>3, <2>1, <2>2
<1> QED BY <1>1, <1>2, <1>3 DEF Native!Mutate

LEMMA NativeTests == ASSUME NativeInv, UNCHANGED limits, NEW w \in Workers, Native!RunTests(w) PROVE NativeInv'
<1>0. /\ workers[w] /= Nil /\ workers[w].pc = "perform" /\ UNCHANGED <<limits, journal, ledger, checkout, control>>
      /\ journal[workers[w].view].tool = "test"
  BY DEF Native!RunTests, Native!At, Native!Asked, Native!Call
<1>1. PICK v, n : v = workers[w].view /\ n = Native!Number(w) OBVIOUS
<1>2. ASSUME performed' = [performed EXCEPT ![n] = @ + 1], NEW out \in {"OK", "FAILED"}, Native!Completing(w, out)
      PROVE  NativeInv'
  <2>1. SharedInv' /\ OthersKnow(w) /\ performed'[n] = 1 /\ ledger'[n] = "RESERVED" BY <1>0, <1>1, <1>2, Performed
  <2>2. journal[v].tool \notin Native!Mutations BY <1>0, <1>1 DEF Native!Mutations
  <2> QED BY <1>0, <1>1, <1>2, <2>1, <2>2, Resulting
<1>3. CASE UNCHANGED performed /\ Native!Completing(w, "FAILED") BY <1>0, <1>3, Unperformed
<1> QED BY <1>1, <1>2, <1>3 DEF Native!RunTests

(* A result is entered.                                                     *)
LEMMA Entering ==
  ASSUME NativeInv, UNCHANGED <<limits, journal, checkout, performed, control>>, NEW w \in Workers, workers[w] /= Nil,
         workers[w].pc = "complete", NEW n, n = Native!Number(w),
         ledger' \in {ledger, [ledger EXCEPT ![n] = IF @ = "RESERVED" THEN workers[w].out ELSE @]}
  PROVE  SharedInv' /\ OthersKnow(w)
<1>0. PICK v : v = workers[w].view OBVIOUS
<1>1. /\ v \in Turns /\ v <= Len(journal) /\ n = Native!TurnsIn(v) /\ CallOK(v, n) /\ n \in Native!Calls
      /\ WorkerKnows(workers[w], v, n) /\ performed \in [Native!Calls -> Nat]
      /\ ledger \in [Native!Calls -> {Nil, "RESERVED", "OK", "FAILED"}]
      /\ \A u \in Workers : u /= w /\ workers[u] /= Nil /\ workers[u].view = v => WorkerKnows(workers[u], v, n)
  BY <1>0, CallFacts DEF Underway
<1>2. PICK out \in {"OK", "FAILED"} : out = workers[w].out BY <1>1 DEF WorkerKnows
<1>3. /\ ledger' \in [Native!Calls -> {Nil, "RESERVED", "OK", "FAILED"}] /\ SharedInv
      /\ \A m \in Native!Calls : m /= n => ledger'[m] = ledger[m] /\ performed'[m] = performed[m]
      /\ ledger'[n] = ledger[n] \/ (ledger[n] = "RESERVED" /\ ledger'[n] = out)
  BY <1>1, <1>2 DEF NativeInv
<1>4. /\ Native!Calls' = Native!Calls /\ Turns' = Turns /\ Len(journal') = Len(journal)
      /\ Native!Answered(v, "OK")' = Native!Answered(v, "OK")
  BY DEF Native!Calls, Native!MaxTurns, Turns, Native!Answered
<1>5. /\ out = "OK" => performed[n] = 1
      /\ out = "FAILED" /\ journal[v].tool \in Native!Mutations => performed[n] = 0
  BY <1>1, <1>2 DEF WorkerKnows
<1>6. CallOK(v, n)'
  BY <1>1, <1>3, <1>4, <1>5, NilAssumption DEF CallOK, Native!Effects, Native!Mutations
<1>7. /\ SharedInv'
      /\ \A y \in WorkerType : WorkerOK(y) /\ y.view /= v => WorkerOK(y)'
      /\ \A y : y.view = v => WorkerOK(y)' = WorkerKnows(y, v, n)'
  BY <1>1, <1>3, <1>6, OneCall
<1>8. ASSUME NEW u \in Workers, u /= w, workers[u] /= Nil, NEW y, y = workers[u] PROVE WorkerOK(y)'
  <2>1. y \in WorkerType /\ WorkerOK(y) BY <1>8, AtFacts
  <2>2. CASE y.view /= v BY <1>7, <2>1, <2>2
  <2>3. CASE y.view = v
    <3>1. WorkerKnows(y, v, n) BY <1>1, <1>8, <2>3
    <3>2. y.pc = "perform" => out /= "FAILED" BY <1>0, <1>2, <1>8, <2>3 DEF NativeInv, WorkersInv, Apart, Failing
    <3>3. y.pc /= "perform" BY <1>5, <3>1, <3>2 DEF WorkerKnows
    <3>4. WorkerKnows(y, v, n)'
      BY <1>2, <1>3, <1>4, <3>1, <3>3, NilAssumption DEF WorkerKnows, Native!Effects, Native!Mutations
    <3> QED BY <1>7, <2>3, <3>4
  <2> QED BY <2>2, <2>3
<1> QED BY <1>7, <1>8 DEF OthersKnow

LEMMA NativeComplete == ASSUME NativeInv, UNCHANGED limits, NEW w \in Workers, Native!Complete(w) PROVE NativeInv'
<1>0. /\ workers[w] /= Nil /\ workers[w].pc = "complete" /\ workers[w].pc \in Underway
      /\ UNCHANGED <<limits, journal, checkout, performed, control>>
  BY DEF Native!Complete, Native!At, Underway
<1>1. PICK v, n, out : v = workers[w].view /\ n = Native!Number(w) /\ out = workers[w].out OBVIOUS
<1>2. ledger' \in {ledger, [ledger EXCEPT ![n] = IF @ = "RESERVED" THEN workers[w].out ELSE @]}
  BY <1>1 DEF Native!Complete
<1>3. SharedInv' /\ OthersKnow(w) BY <1>0, <1>1, <1>2, Entering
<1>4. CASE Native!Stop(w, "uncertain") BY <1>0, <1>3, <1>4, HaltingAlone
<1>5. CASE Native!Answer(w, out)
  <2>1. /\ v \in Turns /\ v <= Len(journal) /\ journal[v].tool \in Native!Effects /\ n = Native!TurnsIn(v)
        /\ WorkerKnows(workers[w], v, n)
    BY <1>0, <1>1, CallFacts
  <2>2. out \in {"OK", "FAILED"} /\ (out = "OK" => performed[n] = 1) BY <1>0, <1>1, <2>1 DEF WorkerKnows
  <2>3. Results(w, "append", out) BY <1>5 DEF Results, Native!Answer
  <2>4. PICK x : Becomes(w, x) /\ x.pc = "append" /\ x.view = v /\ x.out = out
    BY <1>0, <1>1, <2>2, <2>3, OutForm DEF NativeInv, WorkerPoints
  <2>5. WorkerOK(x)'
    <3>1. n = Native!TurnsIn(v)' BY <1>0, <2>1 DEF Native!TurnsIn
    <3>2. Turns' = Turns /\ Len(journal') = Len(journal) BY <1>0 DEF Turns
    <3>3. WorkerKnows(x, v, n)'
      BY <1>0, <2>1, <2>2, <2>4, <3>2, NilAssumption DEF WorkerKnows, Native!Effects, Native!Mutations
    <3> QED BY <2>4, <3>1, <3>3 DEF WorkerOK
  <2>6. Alone(w, x) BY <2>4 DEF Alone, Apart, Failing
  <2> QED BY <1>3, <2>4, <2>5, <2>6, OneMoves DEF NativeInv
<1> QED BY <1>1, <1>4, <1>5 DEF Native!Complete

-----------------------------------------------------------------------------
LEMMA NativeInit == ASSUME Native!Init PROVE NativeInv
<1>1. limits \in Limits /\ journal = <<>> /\ Len(journal) = 0 /\ Native!MaxTurns \in Nat
  BY LimitsAssumption DEF Native!Init, Native!MaxTurns
<1>2. Turns = {} BY <1>1 DEF Turns
<1>3. Native!TurnsIn(Len(journal)) = 0
  <2>1. UpTo(journal, 0) = {} BY DEF UpTo
  <2> QED BY <1>1, <2>1, TurnsInUpTo, FS_EmptySet
<1>4. SharedTypes BY <1>1 DEF SharedTypes, Native!Init
<1>5. \A n \in Native!Calls : Fresh(n) BY <1>1 DEF Fresh, Native!Init, Native!Calls
<1>6. SharedInv BY <1>1, <1>2, <1>3, <1>4, <1>5 DEF SharedInv
<1>7. WorkersInv BY DEF WorkersInv, Native!Init
<1> QED BY <1>6, <1>7 DEF NativeInv

LEMMA NativeNext == ASSUME NativeInv, Native!Next PROVE NativeInv'
<1>0. UNCHANGED limits BY DEF Native!Next
<1>1. CASE Native!RequestCancel \/ Native!LeaseExpires BY <1>0, <1>1, NativeControl
<1>2. ASSUME NEW w \in Workers,
             \/ Native!Ensure(w) \/ Native!Claim(w) \/ Native!Prepare(w) \/ Native!CutShort(w)
             \/ \E cause \in {"lost", "cancel", "deadline"} : Native!Interrupt(w, cause)
             \/ Native!finishWorker(w) \/ Native!reconcileBeforeTerminal(w) \/ Native!recordTerminal(w)
             \/ Native!ReconcileSuperseded(w) \/ Native!Crash(w)
      PROVE  NativeInv'
  BY <1>0, <1>2, NativeEnsure, NativeClaim, NativePrepare, NativeCutShort, NativeInterrupt, NativeFinish, NativeReconcile,
     NativeRecord, NativeSuperseded, NativeCrash
<1>3. ASSUME NEW w \in Workers,
             \/ Native!Load(w) \/ Native!Replayed(w) \/ Native!ModelTurn(w) \/ Native!Submit(w) \/ Native!ExecuteReadOnly(w)
             \/ Native!ToolDone(w) \/ Native!BindToolInvocation(w) \/ Native!lockEffectPath(w) \/ Native!Reserve(w)
             \/ Native!Mutate(w) \/ Native!RunTests(w) \/ Native!Complete(w)
      PROVE  NativeInv'
  BY <1>0, <1>3, NativeLoad, NativeReplayed, NativeModelTurn, NativeSubmit, NativeReadOnly, NativeToolDone, NativeBind,
     NativeLock, NativeReserve, NativeMutate, NativeTests, NativeComplete
<1> QED BY <1>1, <1>2, <1>3 DEF Native!Next, Native!Step

LEMMA NativeUnchanged == ASSUME NativeInv, UNCHANGED nativeVars PROVE NativeInv'
<1>1. Kept BY ControlKept, Unstored DEF nativeVars
<1> QED BY <1>1, NoneMoves DEF nativeVars

(* The invariant while the native agent is what runs.                       *)
NativePart == agent = "native" => NativeInv

LEMMA NativeInvariant == AgentsSpec => []NativePart
<1>1. AgentsInit => NativePart BY NativeInit DEF AgentsInit, NativePart
<1>2. NativePart /\ [AgentsNext]_agentVars => NativePart'
  <2> SUFFICES ASSUME NativePart, [AgentsNext]_agentVars, agent' = "native" PROVE NativeInv' BY DEF NativePart
  <2>1. agent = "native" BY DEF AgentsNext, NativeStep, HostStep, TaskStep, agentVars
  <2>2. NativeInv BY <2>1 DEF NativePart
  <2>3. CASE NativeStep BY <2>2, <2>3, NativeNext DEF NativeStep
  <2>4. CASE UNCHANGED nativeVars BY <2>2, <2>4, NativeUnchanged
  <2> QED BY <2>1, <2>3, <2>4 DEF AgentsNext, HostStep, TaskStep, agentVars
<1> QED BY <1>1, <1>2, PTL DEF AgentsSpec

(* Whatever dies, whoever takes over and whichever acknowledgement is lost, *)
(* the effect of a call happens at most once and is what the ledger and the *)
(* journal say of it, and nothing follows a terminal entry (Reserve,        *)
(* Complete, ReconcilePendingEffects and the appends of runner and          *)
(* boundary).                                                               *)
THEOREM EffectsHappenOnce == AgentsSpec => []EffectsAsRecorded
<1>1. NativePart => EffectsAsRecorded
  <2> SUFFICES ASSUME NativeInv PROVE Native!EffectsAsRecorded BY DEF NativePart, EffectsAsRecorded
  <2>1. Len(journal) \in Nat BY DEF NativeInv, SharedInv, SharedTypes
  <2> SUFFICES ASSUME NEW v \in 1..Len(journal), NEW n, n = Native!TurnsIn(v)
      PROVE  /\ Native!Pending(v) =>
                  /\ performed[n] <= 1
                  /\ Native!Call(v).tool \in Native!Mutations /\ ledger[n] = "FAILED" => performed[n] = 0
                  /\ Native!Call(v).tool \in Native!Effects /\ (ledger[n] = "OK" \/ Native!Answered(v, "OK")) => performed[n] = 1
             /\ Native!LastKind(v) \in Native!TerminalKinds => v = Len(journal)
    BY DEF Native!EffectsAsRecorded
  <2>2. Native!LastKind(v) = journal[v].kind BY <2>1 DEF Native!LastKind
  <2>3. Native!Pending(v) => CallOK(v, n) BY <2>2 DEF Native!Pending, Turns, NativeInv, SharedInv
  <2>4. journal[v].kind \in Native!TerminalKinds => v = Len(journal) BY DEF NativeInv, SharedInv
  <2> QED BY <2>2, <2>3, <2>4 DEF CallOK, Native!Call
<1> QED BY <1>1, NativeInvariant, PTL
=============================================================================
