------------------------------ MODULE RoleHost ------------------------------
(***************************************************************************)
(* The host of one role (organization/host.go) over its durable state       *)
(* (memory_store.go, adapters/mongo/role_store.go), the runtime that holds  *)
(* its process (inprocess_runtime.go) and the execution registry its        *)
(* executions are entered in (registerExecution).  Writers of the durable   *)
(* state hold the host's mutex; its readers, and the inspections of the     *)
(* process, do not.  The process dies with the daemon.                      *)
(*                                                                          *)
(* An execution is known by its fencing epoch: only the start whose write   *)
(* of the epoch succeeded uses it.  Reading the registry and submitting the *)
(* replacement is one step, for the submission expects the revision read.   *)
(***************************************************************************)
EXTENDS Integers

CONSTANTS Callers,      \* operators and services that ask for the role
          None, MaxEpoch, MaxRevision

VARIABLES role,      \* the durable RoleInstanceState, or None
          process,   \* the process in the runtime's table, or None, and
                     \* whether the store ever recorded that it runs
          mutex,     \* the call that holds host.mu, or None
          calls,     \* per caller: the call under way, or None
          registry,  \* the epoch of the registered execution, 0 for none
          up         \* whether the daemon runs

vars == <<role, process, mutex, calls, registry, up>>

Recovery == "recovery"        \* runRoleRecovery's loop, the only one to reconcile
AllCallers == Callers \cup {Recovery}

Statuses == {"STARTING", "IDLE", "PAUSED", "STOPPING", "STOPPED", "FAILED"}
Active(r) == r.status \in {"IDLE", "PAUSED"}

TypeOK ==
  /\ role = None \/ role \in [status : Statuses, epoch : 1..MaxEpoch, revision : Nat]
  /\ process = None \/ process \in [epoch : 1..MaxEpoch, state : {"RUNNING", "CLEAN", "ERROR"}, recorded : BOOLEAN]
  /\ mutex \in AllCallers \cup {None} /\ registry \in 0..MaxEpoch /\ up \in BOOLEAN

-----------------------------------------------------------------------------
(* The store and the runtime.                                               *)

CompareAndSwapRole(next) == role.revision < MaxRevision /\ role' = [next EXCEPT !.revision = role.revision + 1]

(* What inspecting the process of an execution finds.  A process that has   *)
(* ended leaves the table with its inspection.                              *)
Inspect(epoch) ==
  IF process = None THEN "STOPPED"
  ELSE IF process.epoch /= epoch THEN "CONFLICT"
  ELSE CASE process.state = "RUNNING" -> "RUNNING"
         [] process.state = "CLEAN" -> "STOPPED"
         [] process.state = "ERROR" -> "UNKNOWN"
Inspected(epoch) == IF process /= None /\ process.epoch = epoch /\ process.state /= "RUNNING" THEN None ELSE process

-----------------------------------------------------------------------------
(* Calls.  `seen' is the state read without the mutex.  A failing call ends *)
(* there; in the recovery loop its error ends the loop.                     *)

At(c, pc) == up /\ calls[c] /= None /\ calls[c].pc = pc
Go(c, pc) == calls' = [calls EXCEPT ![c].pc = pc]
Return(c) == calls' = [calls EXCEPT ![c] = None]
Fail(c) == IF c = Recovery THEN Go(c, "failed") ELSE Return(c)
Free == mutex = None

(* Messages pending for a role that is stopped have the loop start it.      *)
Begin(c, op) ==
  /\ up /\ calls[c] = None
  /\ op \in {"STOP", "RECONCILE"} => role /= None
  /\ IF c /= Recovery THEN op /= "RECONCILE"
     ELSE op /= "RECONCILE" => op = "ENSURE" /\ (role /= None => role.status = "STOPPED")
  /\ LET first == CASE op = "RECONCILE" -> "reconcile"
                     [] op = "ENSURE" -> "ensure"
                     [] op = "STOP" -> "stop"
                     [] OTHER -> IF role = None \/ role.status = "STOPPED" THEN "start" ELSE "stop"
     IN calls' = [calls EXCEPT ![c] = [op |-> op, pc |-> first, seen |-> None, paused |-> FALSE]]
  /\ UNCHANGED <<role, process, mutex, registry, up>>

(* The state to return and to register; a role that was paused is paused    *)
(* again first.                                                             *)
Ensured(c, state) ==
  calls' = [calls EXCEPT ![c].pc = IF calls[c].paused THEN "pause" ELSE "register", ![c].seen = state]

(* EnsureStarted reads the state, inspects the process, and starts another  *)
(* one where there is none.                                                 *)
EnsureLoad(c) ==
  /\ At(c, "ensure")
  /\ calls' = [calls EXCEPT ![c].pc = IF role = None \/ role.status \in {"STOPPED", "FAILED"} THEN "start" ELSE "inspect",
                            ![c].seen = role]
  /\ UNCHANGED <<role, process, mutex, registry, up>>

EnsureInspect(c) ==
  /\ At(c, "inspect")
  /\ LET seen == calls[c].seen found == Inspect(seen.epoch) IN
     /\ process' = Inspected(seen.epoch)
     /\ CASE found = "RUNNING" -> Ensured(c, seen)
          [] found = "STOPPED" -> Go(c, "gone")
          [] OTHER -> Fail(c)
  /\ UNCHANGED <<role, mutex, registry, up>>

Unchecked(seen) == TRUE
AsSeen(seen) == role.revision = seen.revision /\ role.epoch = seen.epoch

EnsureStopped(c) ==
  /\ At(c, "gone") /\ Free
  /\ IF AsSeen(calls[c].seen) THEN CompareAndSwapRole([role EXCEPT !.status = "STOPPED"]) /\ Go(c, "start")
     ELSE Fail(c) /\ UNCHANGED role
  /\ UNCHANGED <<process, mutex, registry, up>>

(* Start.  The next epoch is durable before the process is asked for.       *)
Start(c) ==
  /\ At(c, "start") /\ Free
  /\ IF role /= None /\ role.status \in {"IDLE", "PAUSED", "STARTING"} THEN Fail(c) /\ UNCHANGED <<role, mutex>>
     ELSE /\ IF role = None THEN role' = [status |-> "STARTING", epoch |-> 1, revision |-> 1]
             ELSE role.epoch < MaxEpoch /\ CompareAndSwapRole([role EXCEPT !.status = "STARTING", !.epoch = @ + 1])
          /\ mutex' = c
          /\ Go(c, "starting")
  /\ UNCHANGED <<process, registry, up>>

(* The runtime refuses when the actor's table entry is taken, and when the  *)
(* caller has gone.                                                         *)
RuntimeStart(c) ==
  /\ At(c, "starting")
  /\ \/ process = None /\ process' = [epoch |-> role.epoch, state |-> "RUNNING", recorded |-> FALSE] /\ Go(c, "started")
     \/ UNCHANGED process /\ Go(c, "start failed")
  /\ UNCHANGED <<role, mutex, registry, up>>

(* A caller that goes now leaves a process nothing has recorded.            *)
Started(c) ==
  /\ At(c, "started")
  /\ \/ /\ CompareAndSwapRole([role EXCEPT !.status = "IDLE"])
        /\ Ensured(c, role')
        /\ process' = IF process = None THEN None ELSE [process EXCEPT !.recorded = TRUE]
     \/ Fail(c) /\ UNCHANGED <<role, process>>
  /\ mutex' = None
  /\ UNCHANGED <<registry, up>>

(* The failure is written without a deadline: the in-memory store takes the *)
(* write, the Mongo store refuses it.                                       *)
RecordFailure(c) ==
  /\ calls[c] /= None /\ calls[c].pc \in {"start failed", "stop failed"} /\ up
  /\ CompareAndSwapRole([role EXCEPT !.status = "FAILED"]) \/ UNCHANGED role
  /\ mutex' = None /\ Fail(c)
  /\ UNCHANGED <<process, registry, up>>

Stop(c) ==
  /\ At(c, "stop") /\ Free
  /\ IF Active(role) \/ role.status = "FAILED"
     THEN CompareAndSwapRole([role EXCEPT !.status = "STOPPING"]) /\ mutex' = c /\ Go(c, "stopping")
     ELSE Return(c) /\ UNCHANGED <<role, mutex>>
  /\ UNCHANGED <<process, registry, up>>

(* The worker is cancelled and waited for; the caller may go first.         *)
RuntimeStop(c) ==
  /\ At(c, "stopping")
  /\ \/ process = None /\ UNCHANGED process /\ Go(c, "stopped")
     \/ process /= None /\ process.epoch = role.epoch /\ process' = None /\ Go(c, "stopped")
     \/ process /= None /\ Inspect(role.epoch) /= "STOPPED" /\ process' = Inspected(role.epoch) /\ Go(c, "stop failed")
  /\ UNCHANGED <<role, mutex, registry, up>>

Stopped(c) ==
  /\ At(c, "stopped")
  /\ CompareAndSwapRole([role EXCEPT !.status = "STOPPED"])
  /\ mutex' = None
  /\ IF calls[c].op = "RESTART" THEN Go(c, "start") ELSE Return(c)
  /\ UNCHANGED <<process, registry, up>>

(* Pause, Resume, and the heartbeat and checkpoint of an active role.       *)
Transition(from, to) ==
  /\ up /\ Free /\ role /= None /\ role.status = from
  /\ CompareAndSwapRole([role EXCEPT !.status = to])
  /\ UNCHANGED <<process, mutex, calls, registry, up>>

Checkpoint == \E status \in {"IDLE", "PAUSED"} : Transition(status, status)

-----------------------------------------------------------------------------
(* The recovery loop's Reconcile.                                           *)

(* Where it goes with what it found.                                        *)
Found(r, found) ==
  IF r.status = "STOPPED" THEN "register"
  ELSE IF r.status = "FAILED" THEN "ensure"
  ELSE CASE found = "RUNNING" -> IF Active(r) THEN "heartbeat" ELSE "register"
         [] found = "STOPPED" -> IF r.status = "STOPPING" THEN "interrupted" ELSE "ensure"
         [] found \in {"CONFLICT", "UNKNOWN"} -> "failed"

Reconcile ==
  /\ At(Recovery, "reconcile")
  /\ IF role.status \in {"STOPPED", "FAILED"} THEN UNCHANGED process ELSE process' = Inspected(role.epoch)
  /\ calls' = [calls EXCEPT ![Recovery] = [@ EXCEPT !.pc = Found(role, Inspect(role.epoch)), !.seen = role,
                                                    !.paused = role.status = "PAUSED"]]
  /\ UNCHANGED <<role, mutex, registry, up>>

Heartbeat ==
  /\ At(Recovery, "heartbeat") /\ Free
  /\ IF Active(role) /\ role.epoch = calls[Recovery].seen.epoch
     THEN CompareAndSwapRole(role) /\ Go(Recovery, "register")
     ELSE UNCHANGED role /\ Go(Recovery, "failed")
  /\ UNCHANGED <<process, mutex, registry, up>>

(* An interrupted stop is completed.                                        *)
CompleteStop ==
  /\ At(Recovery, "interrupted") /\ Free
  /\ IF role.revision = calls[Recovery].seen.revision
     THEN CompareAndSwapRole([role EXCEPT !.status = "STOPPED"]) /\ Go(Recovery, "register")
     ELSE UNCHANGED role /\ Go(Recovery, "failed")
  /\ UNCHANGED <<process, mutex, registry, up>>

PauseAgain ==
  /\ At(Recovery, "pause") /\ Free
  /\ IF role.status = "IDLE" THEN CompareAndSwapRole([role EXCEPT !.status = "PAUSED"]) /\ Go(Recovery, "register")
     ELSE UNCHANGED role /\ Go(Recovery, "failed")
  /\ UNCHANGED <<process, mutex, registry, up>>

(* The first error ends the loop, and the daemon with it.                   *)
RecoveryFailed ==
  /\ At(Recovery, "failed")
  /\ up' = FALSE /\ process' = None /\ mutex' = None /\ calls' = [c \in AllCallers |-> None]
  /\ UNCHANGED <<role, registry>>

-----------------------------------------------------------------------------
(* The registry.                                                            *)

Registrable(epoch) == registry \in {0, epoch, epoch - 1}

registerExecution(c) ==
  /\ At(c, "register")
  /\ IF Registrable(calls[c].seen.epoch) THEN registry' = calls[c].seen.epoch /\ Return(c)
     ELSE UNCHANGED registry /\ Fail(c)
  /\ UNCHANGED <<role, process, mutex, up>>

(* A starting daemon enters the recorded execution first.                   *)
reconcileDurableRoleExecutions ==
  /\ ~up
  /\ role /= None => Registrable(role.epoch)
  /\ up' = TRUE /\ registry' = (IF role = None THEN registry ELSE role.epoch)
  /\ UNCHANGED <<role, process, mutex, calls>>

Crash ==
  /\ up /\ up' = FALSE
  /\ process' = None /\ mutex' = None /\ calls' = [c \in AllCallers |-> None]
  /\ UNCHANGED <<role, registry>>

(* The worker ends by itself, or because its feed failed.                   *)
WorkerExits(state) ==
  /\ process /= None /\ process.state = "RUNNING"
  /\ process' = [process EXCEPT !.state = state]
  /\ UNCHANGED <<role, mutex, calls, registry, up>>

-----------------------------------------------------------------------------
Init ==
  /\ role = None /\ process = None /\ mutex = None /\ registry = 0 /\ up = FALSE
  /\ calls = [c \in AllCallers |-> None]

Next ==
  \/ \E c \in AllCallers :
       \/ \E op \in {"ENSURE", "STOP", "RESTART", "RECONCILE"} : Begin(c, op)
       \/ EnsureLoad(c) \/ EnsureInspect(c) \/ EnsureStopped(c)
       \/ Start(c) \/ RuntimeStart(c) \/ Started(c) \/ RecordFailure(c)
       \/ Stop(c) \/ RuntimeStop(c) \/ Stopped(c)
       \/ registerExecution(c)
  \/ Transition("IDLE", "PAUSED") \/ Transition("PAUSED", "IDLE") \/ Checkpoint
  \/ Reconcile \/ Heartbeat \/ CompleteStop \/ PauseAgain \/ RecoveryFailed
  \/ reconcileDurableRoleExecutions \/ Crash
  \/ \E state \in {"CLEAN", "ERROR"} : WorkerExits(state)

Spec == Init /\ [][Next]_vars

(* A role is recorded as stopped only when the process recorded for it has  *)
(* gone, although the process is inspected without the host's mutex and the *)
(* state written later under it, by whoever comes first (EnsureStarted,     *)
(* Stop, Reconcile).                                                        *)
StoppedHasNoProcess ==
  role /= None /\ role.status = "STOPPED" => ~(process /= None /\ process.state = "RUNNING" /\ process.recorded)

(* A daemon that is down can start: the execution of the role is the        *)
(* registered one or the next (reconcileDurableRoleExecutions, "so fencing  *)
(* epochs remain contiguous").  Refuted: a start that fails has used up an  *)
(* epoch nobody registers, and the start after it skips it.                 *)
NeverLockedOut == ~up /\ role /= None => Registrable(role.epoch)
=============================================================================
