---------------------------- MODULE WorkLifecycle ----------------------------
(***************************************************************************)
(* One story or task aggregate of the kernel: how an accepted command       *)
(* evolves the stored state (kernel/evaluator.go, evolveState), and how     *)
(* the deterministic fold of the event that command emits evolves the       *)
(* state that replay, projection rebuild and VerifyAggregate reconstruct    *)
(* (kernel/fold.go, foldEvent).                                             *)
(*                                                                          *)
(* Commands carry the exact expected revision and lifecycle epoch, so only  *)
(* commands formed on the current state reach evolveState; a rejected       *)
(* command changes nothing here.  The concurrent path that command takes    *)
(* through the handler and the store is module DecisionKernel.              *)
(***************************************************************************)
EXTENDS Integers, Sequences, FiniteSets

CONSTANTS Actors,        \* the durable actor FQNs
          NoActor,       \* the nil OwnerFQN
          MaxRevision,   \* bound on the events of the aggregate
          MaxScope       \* bound on new_scope_revision

ASSUME ActorsAssumption == NoActor \notin Actors
ASSUME BoundsAssumption == MaxRevision \in Nat /\ MaxScope \in Nat

VARIABLES stored,  \* the snapshot the store keeps (AggregateState)
          folded,  \* FoldAggregate's loop variable after the events so far
          log      \* the accepted events of the aggregate, in order

vars == <<stored, folded, log>>

Kinds == {"STORY", "TASK"}
Phases == {"DRAFT", "PLANNED", "READY", "PLANNING", "ACTIVE", "COMPLETED",
           "ACCEPTED", "CLOSED"}
Conditions == {"RUNNABLE", "BLOCKED"}

(* The absent aggregate, a rejected evolution, and a stream that            *)
(* FoldAggregate refuses with ErrCorruptEventStream.                        *)
Absent == [phase |-> "ABSENT"]
Rejected == [phase |-> "REJECTED"]
Corrupt == [phase |-> "CORRUPT"]

AggregateState ==
  [kind : Kinds, revision : Nat, epoch : Nat, scope : Nat, phase : Phases,
   condition : Conditions, owner : Actors \cup {NoActor}, version : Nat,
   assigned : Nat]

Terminal == {"COMPLETED", "ACCEPTED", "CLOSED"}

(* The lifecycle action a command or its event stands for.                  *)
LifecycleActions == {"authorize", "begin_planning", "activate", "complete", "accept",
                     "mark_ready", "block", "unblock", "reopen", "close"}
OwnershipCommands == {"acquire", "release", "handoff", "force_reassign"}

(* The accepted commands with the part of the payload the rules read.       *)
Command ==
  [type : {"create", "authorize", "begin_planning", "activate", "mark_ready", "complete",
           "accept", "block", "unblock", "close", "create_successor", "approve_release",
           "bind"}]
  \cup [type : {"reopen"}, scope : Nat, carry : BOOLEAN]
  \cup [type : {"activate", "acquire", "release"}, owner : Actors, version : Nat]
  \cup [type : {"handoff", "force_reassign"}, owner : Actors, next : Actors, version : Nat]
  \cup [type : {"correct"}, target : Nat]

(***************************************************************************)
(* lifecycleTransition: the forward table of a story and of a task, as a    *)
(* relation between phase, action and next phase.                           *)
(***************************************************************************)
LifecycleTransition(kind) ==
  IF kind = "STORY"
    THEN { <<"DRAFT", "authorize", "READY">>,
           <<"READY", "begin_planning", "PLANNING">>,
           <<"PLANNING", "activate", "ACTIVE">>,
           <<"ACTIVE", "complete", "COMPLETED">>,
           <<"COMPLETED", "accept", "ACCEPTED">> }
    ELSE { <<"PLANNED", "mark_ready", "READY">>,
           <<"READY", "activate", "ACTIVE">>,
           <<"ACTIVE", "complete", "COMPLETED">> }

Reopenable(kind) == IF kind = "STORY" THEN {"COMPLETED", "ACCEPTED"} ELSE {"COMPLETED"}

(* applyLifecycleAction: s after action a, or Rejected.                     *)
ApplyLifecycleAction(s, a) ==
  CASE a = "block" ->
         IF s.condition = "RUNNABLE" /\ s.phase # "CLOSED"
           THEN [s EXCEPT !.condition = "BLOCKED"] ELSE Rejected
    [] a = "unblock" ->
         IF s.condition = "BLOCKED" /\ s.phase # "CLOSED"
           THEN [s EXCEPT !.condition = "RUNNABLE"] ELSE Rejected
    [] a = "reopen" ->
         IF s.phase \in Reopenable(s.kind)
           THEN [s EXCEPT !.phase = "ACTIVE", !.epoch = @ + 1] ELSE Rejected
    [] a = "close" ->
         IF s.phase # "CLOSED" THEN [s EXCEPT !.phase = "CLOSED"] ELSE Rejected
    [] OTHER ->
         IF \E p \in Phases : <<s.phase, a, p>> \in LifecycleTransition(s.kind)
           THEN [s EXCEPT !.phase =
                   CHOOSE p \in Phases : <<s.phase, a, p>> \in LifecycleTransition(s.kind)]
           ELSE Rejected

(* Mutated: the ownership version stays.                                    *)
SetOwnerUnversioned(s, owner, id) == [s EXCEPT !.owner = owner, !.assigned = id]

(* Every ownership transition moves the owner, the version and the          *)
(* assigning event together.                                                *)
SetOwner(s, owner, id) ==
  [s EXCEPT !.owner = owner, !.version = @ + 1, !.assigned = id]

(***************************************************************************)
(* applyOwnership: the ownership part of command c on s; id is the event    *)
(* the decision emits.  Commands that are not about ownership leave it.     *)
(***************************************************************************)
OwnedAs(c, s) == s.owner # NoActor /\ s.owner = c.owner /\ c.version = s.version

ApplyOwnership(c, s, id) ==
  CASE c.type = "acquire" ->
         IF s.owner = NoActor /\ c.version = s.version THEN SetOwner(s, c.owner, id) ELSE Rejected
    [] c.type = "release" ->
         IF OwnedAs(c, s) THEN SetOwner(s, NoActor, 0) ELSE Rejected
    [] c.type \in {"handoff", "force_reassign"} ->
         IF OwnedAs(c, s) THEN SetOwner(s, c.next, id) ELSE Rejected
    [] c.type = "activate" /\ s.kind = "TASK" ->
         IF OwnedAs(c, s) THEN s ELSE Rejected
    [] OTHER -> s

(* Mutated: completed work still takes any command.                         *)
CompletedNotTerminal(type, phase) ==
  /\ phase \in {"ACCEPTED", "CLOSED"}
  /\ type \notin {"reopen", "create_successor", "correct"}

(* terminalCommandProhibited.  story.request-acceptance is "accept",        *)
(* story.approve-release is "approve_release".                              *)
TerminalCommandProhibited(type, phase) ==
  /\ phase \in Terminal
  /\ type \notin {"reopen", "create_successor", "correct"}
  /\ ~ (type \in {"accept", "approve_release"} /\ phase = "COMPLETED")

(* What validateCommandPolicy adds for the commands modelled here: a reopen *)
(* names the current epoch and a larger scope revision, a successor is only *)
(* created of terminal work, a correction names an accepted event, a        *)
(* release is approved of a completed story.  What it asks of reviews,      *)
(* evidence and release plans is left open: those commands may or may not   *)
(* come.                                                                    *)
CommandPolicy(c, s) ==
  CASE c.type = "reopen" -> c.scope > s.scope
    [] c.type = "create_successor" -> s.phase \in Terminal
    [] c.type = "correct" -> c.target \in 1 .. s.revision
    [] c.type = "approve_release" -> s.kind = "STORY" /\ s.phase = "COMPLETED"
    [] c.type = "bind" -> s.kind = "TASK"
    [] OTHER -> TRUE

(* Mutated: owner_carry_forward is ignored; the version moves although no   *)
(* ownership event says so; the assigning event outlives the owner.         *)
ReopenDropsCarriedOwner(c, s) ==
  IF c.type # "reopen" THEN s
  ELSE [s EXCEPT !.scope = c.scope, !.owner = NoActor, !.assigned = 0]

(* The part of evolveState a reopen adds to the lifecycle action: the new   *)
(* scope, and an owner dropped unless owner_carry_forward says otherwise.   *)
ReopenScope(c, s) ==
  IF c.type # "reopen" THEN s
  ELSE IF c.carry THEN [s EXCEPT !.scope = c.scope]
  ELSE [s EXCEPT !.scope = c.scope, !.owner = NoActor, !.assigned = 0]

(***************************************************************************)
(* evolveState: the next stored state for an accepted command, or Rejected. *)
(***************************************************************************)
EvolveState(c, s) ==
  LET acted == IF c.type \in LifecycleActions THEN ApplyLifecycleAction(s, c.type) ELSE s
      owned == IF acted = Rejected THEN Rejected
               ELSE ApplyOwnership(c, ReopenScope(c, acted), s.revision + 1)
  IN IF TerminalCommandProhibited(c.type, s.phase) \/ owned = Rejected
       THEN Rejected
       ELSE [owned EXCEPT !.revision = s.revision + 1]

(* The first state of a story or task.                                      *)
Created(kind) ==
  [kind |-> kind, revision |-> 1, epoch |-> 1, scope |-> 1,
   phase |-> IF kind = "STORY" THEN "DRAFT" ELSE "PLANNED",
   condition |-> "RUNNABLE", owner |-> NoActor, version |-> 0, assigned |-> 0]

(***************************************************************************)
(* foldEvent: event e = [cmd, epoch] folded into s.  The payload of an      *)
(* event is the payload of its command.  task.activated carries no          *)
(* ownership command, and work.reopened takes the scope of its payload.     *)
(***************************************************************************)
FoldEvent(s, e) ==
  LET c == e.cmd
      scoped == IF c.type # "reopen" THEN s
                ELSE IF c.scope <= s.scope THEN Corrupt
                ELSE [s EXCEPT !.scope = c.scope]
      acted == IF scoped = Corrupt \/ c.type \notin LifecycleActions THEN scoped
               ELSE ApplyLifecycleAction(scoped, c.type)
      owned == IF acted \in {Corrupt, Rejected} \/ c.type \notin OwnershipCommands THEN acted
               ELSE ApplyOwnership(c, acted, s.revision + 1)
  IN IF s = Corrupt \/ owned \in {Corrupt, Rejected} \/ owned.epoch # e.epoch
       THEN Corrupt
       ELSE [owned EXCEPT !.revision = s.revision + 1]

-----------------------------------------------------------------------------
Init == stored = Absent /\ folded = Absent /\ log = <<>>

(* story.create, task.create                                                *)
Create(kind) ==
  /\ stored = Absent
  /\ MaxRevision > 0
  /\ stored' = Created(kind)
  /\ folded' = Created(kind)
  /\ log' = <<[cmd |-> [type |-> "create"], epoch |-> 1]>>

(* An existing aggregate decides command c: evolveState, one event with the *)
(* resulting epoch, and the fold of that event.                             *)
Decide(c) ==
  /\ stored # Absent
  /\ stored.revision < MaxRevision
  /\ CommandPolicy(c, stored)
  /\ EvolveState(c, stored) # Rejected
  /\ stored' = EvolveState(c, stored)
  /\ LET event == [cmd |-> c, epoch |-> EvolveState(c, stored).epoch]
     IN folded' = FoldEvent(folded, event) /\ log' = Append(log, event)

Authorize == Decide([type |-> "authorize"])
BeginPlanning == Decide([type |-> "begin_planning"])
MarkReady == Decide([type |-> "mark_ready"])
ActivateStory == /\ stored # Absent /\ stored.kind = "STORY"
                 /\ Decide([type |-> "activate"])
ActivateTask == \E a \in Actors, v \in 0 .. MaxRevision :
            /\ stored # Absent /\ stored.kind = "TASK"
            /\ Decide([type |-> "activate", owner |-> a, version |-> v])
RequestCompletion == Decide([type |-> "complete"])
RequestAcceptance == Decide([type |-> "accept"])
Block == Decide([type |-> "block"])
Unblock == Decide([type |-> "unblock"])
Close == Decide([type |-> "close"])
Reopen == \E n \in 1 .. MaxScope, carry \in BOOLEAN :
            Decide([type |-> "reopen", scope |-> n, carry |-> carry])
AcquireOwnership == \E a \in Actors, v \in 0 .. MaxRevision :
            /\ stored # Absent /\ stored.kind = "TASK"
            /\ Decide([type |-> "acquire", owner |-> a, version |-> v])
ReleaseOwnership == \E a \in Actors, v \in 0 .. MaxRevision :
            Decide([type |-> "release", owner |-> a, version |-> v])
Handoff == \E a, b \in Actors, v \in 0 .. MaxRevision :
            Decide([type |-> "handoff", owner |-> a, next |-> b, version |-> v])
ForceReassign == \E a, b \in Actors, v \in 0 .. MaxRevision :
            Decide([type |-> "force_reassign", owner |-> a, next |-> b, version |-> v])
CreateSuccessor == Decide([type |-> "create_successor"])

(* Which accepted event is corrected makes no difference to the aggregate.  *)
CorrectRecord == Decide([type |-> "correct", target |-> 1])
ApproveRelease == Decide([type |-> "approve_release"])

(* task.bind-work-profile, bind-work-budget, bind-operational-scope,        *)
(* authorize-qualified-assignment and dispatch: an event and a revision.    *)
BindTask == Decide([type |-> "bind"])

Next ==
  \/ \E kind \in Kinds : Create(kind)
  \/ Authorize \/ BeginPlanning \/ MarkReady \/ ActivateStory \/ ActivateTask
  \/ RequestCompletion \/ RequestAcceptance
  \/ Block \/ Unblock \/ Close \/ Reopen
  \/ AcquireOwnership \/ ReleaseOwnership \/ Handoff \/ ForceReassign
  \/ CreateSuccessor \/ CorrectRecord \/ ApproveRelease \/ BindTask

Spec == Init /\ [][Next]_vars

-----------------------------------------------------------------------------
(* Every value has its type: in particular the fold never leaves the set of *)
(* states evolveState produces except by refusing the stream.               *)
TypeOK ==
  /\ stored \in AggregateState \cup {Absent}
  /\ folded \in AggregateState \cup {Absent, Corrupt}
  /\ log \in Seq([cmd : Command, epoch : Nat])

(* The fold of the accepted events reproduces the stored snapshot, which is *)
(* what VerifyAggregate compares (adapters/mongo/store.go, VerifyAggregate) *)
(* and what validateProjectionSourceStreams requires before a rebuild.      *)
(* It holds as long as every reopening carried the owner forward.           *)
OwnersCarried == \A i \in DOMAIN log : log[i].cmd.type = "reopen" => log[i].cmd.carry
FoldReproducesState == OwnersCarried => folded = stored

(* What the contract freeze asks of every history: a deterministic fold of  *)
(* the accepted events reproduces the semantic aggregate state.             *)
FoldAlwaysReproducesState == folded = stored

(* Terminal work is frozen: from COMPLETED, ACCEPTED or CLOSED a step       *)
(* records an event and changes nothing else, or reopens work that is not   *)
(* closed under a new epoch, or accepts a completed story                   *)
(* (terminalCommandProhibited with applyLifecycleAction).                   *)
TerminalFrozen ==
  [][(stored # Absent /\ stored.phase \in Terminal) =>
       \/ stored' = [stored EXCEPT !.revision = @ + 1]
       \/ stored.phase # "CLOSED" /\ stored'.phase = "ACTIVE" /\ stored'.epoch = stored.epoch + 1
       \/ stored' = [stored EXCEPT !.revision = @ + 1, !.phase = "ACCEPTED"]
             /\ stored.phase = "COMPLETED"]_vars

(* An owner is replaced only under a new ownership version, or dropped by a *)
(* reopening that starts a new epoch; the pair (epoch, version) is never    *)
(* reused for another owner.                                                *)
OwnerChangesAreVersioned ==
  [][(stored # Absent /\ stored'.owner # stored.owner) =>
       \/ stored'.version = stored.version + 1 /\ stored'.epoch = stored.epoch
       \/ stored'.owner = NoActor /\ stored'.epoch = stored.epoch + 1]_vars
=============================================================================
