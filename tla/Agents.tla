------------------------------- MODULE Agents -------------------------------
(***************************************************************************)
(* The agents at work: the runtime of the tasks they are given, the native  *)
(* agent that executes an invocation and the host of a role.  They share no *)
(* state in the code, so a behaviour is one of any of them: agent says      *)
(* which, and the variables of the others are Nil.                          *)
(***************************************************************************)
EXTENDS Integers, Sequences, FiniteSets

CONSTANTS Nil

CONSTANTS Workers, Limits, MaxLease                             \* NativeAgent

CONSTANTS HostCallers, MaxFence, MaxRoleRevision                \* RoleHost

CONSTANTS TaskPlans, PurposeOf(_), TargetsOf(_), DependenciesOf(_), OwnerOf(_), AttemptLimit, ReviewRoundLimit,
          MaxInvocations, MaxProfile, MaxDisturbances           \* TaskRuntime

VARIABLES agent,
          limits, journal, ledger, checkout, performed, control, workers, lock,  \* NativeAgent
          role, process, mutex, hosted, registry, daemon,                        \* RoleHost
          plan, task, invocations, job, recommended, disturbances                \* TaskRuntime

Native == INSTANCE NativeAgent WITH tree <- checkout, None <- Nil, MaxEpoch <- MaxLease

Host == INSTANCE RoleHost WITH
  calls <- hosted, up <- daemon, Callers <- HostCallers, None <- Nil, MaxEpoch <- MaxFence, MaxRevision <- MaxRoleRevision

Task == INSTANCE TaskRuntime WITH
  Plans <- TaskPlans, Purpose <- PurposeOf, Validates <- TargetsOf, DependsOn <- DependenciesOf, Owner <- OwnerOf, None <- Nil

-----------------------------------------------------------------------------
(* What is stored.                                                          *)

RoleType == [status : Host!Statuses, epoch : Nat, revision : Nat]
ProcessType == [epoch : Nat, state : {"RUNNING", "CLEAN", "ERROR"}, recorded : BOOLEAN]
HostPoints ==
  {"reconcile", "ensure", "stop", "start", "inspect", "gone", "starting", "started", "start failed", "stop failed",
   "stopping", "stopped", "heartbeat", "interrupted", "pause", "register", "failed"}
HostCall ==
  [op : {"ENSURE", "STOP", "RESTART", "RECONCILE"}, pc : HostPoints, seen : RoleType \cup {Nil}, paused : BOOLEAN]

ASSUME NilAssumption ==
  /\ Nil \notin Host!AllCallers /\ Nil \notin RoleType /\ Nil \notin ProcessType /\ Nil \notin HostCall
  /\ Nil \notin {"RESERVED", "OK", "FAILED", "ERROR"}

(* The tools there are, and a number of turns.                              *)
AllTools == {"write", "git", "test", "read", "submit_result"}
ASSUME LimitsAssumption == \A l \in Limits : l.tools \subseteq AllTools /\ l.turns \in Nat

(* A plan is closed under dependencies; tasks that validate others depend   *)
(* on them, and what they validate is implementation                        *)
(* (organization.FeaturePlan's Validate; Teams adds the validations).       *)
ASSUME TaskPlansAssumption ==
  \A P \in TaskPlans : Nil \notin P /\ \A t \in P :
    /\ PurposeOf(t) \in {"IMPLEMENTATION", "VALIDATION", "PROMOTION"}
    /\ DependenciesOf(t) \subseteq P /\ TargetsOf(t) \subseteq DependenciesOf(t)
    /\ TargetsOf(t) /= {} => PurposeOf(t) = "VALIDATION"
    /\ \A u \in TargetsOf(t) : PurposeOf(u) = "IMPLEMENTATION"

-----------------------------------------------------------------------------
(* The composition.                                                         *)

nativeVars == <<limits, journal, ledger, checkout, performed, control, workers, lock>>
hostVars == <<role, process, mutex, hosted, registry, daemon>>
taskVars == <<plan, task, invocations, job, recommended, disturbances>>
agentVars == <<agent, nativeVars, hostVars, taskVars>>

NoNative ==
  /\ limits = Nil /\ journal = Nil /\ ledger = Nil /\ checkout = Nil /\ performed = Nil /\ control = Nil
  /\ workers = Nil /\ lock = Nil
NoHost == role = Nil /\ process = Nil /\ mutex = Nil /\ hosted = Nil /\ registry = Nil /\ daemon = Nil
NoTask == plan = Nil /\ task = Nil /\ invocations = Nil /\ job = Nil /\ recommended = Nil /\ disturbances = Nil

AgentsInit ==
  \/ agent = "native" /\ Native!Init /\ NoHost /\ NoTask
  \/ agent = "host" /\ Host!Init /\ NoNative /\ NoTask
  \/ agent = "task" /\ Task!Init /\ NoNative /\ NoHost

NativeStep == agent = "native" /\ Native!Next /\ UNCHANGED <<agent, hostVars, taskVars>>
HostStep == agent = "host" /\ Host!Next /\ UNCHANGED <<agent, nativeVars, taskVars>>
TaskStep == agent = "task" /\ Task!Next /\ UNCHANGED <<agent, nativeVars, hostVars>>

AgentsNext == NativeStep \/ HostStep \/ TaskStep

AgentsSpec == AgentsInit /\ [][AgentsNext]_agentVars

-----------------------------------------------------------------------------
(* The properties of the components.                                        *)

(* Effects happen once and are what is recorded of them: see NativeAgent.   *)
EffectsAsRecorded == agent = "native" => Native!EffectsAsRecorded

(* Completed tasks were passed by their validators: see TaskRuntime.        *)
CompletedOnVerdicts == agent = "task" => Task!CompletedOnVerdicts

(* A task runs one attempt at a time: see TaskRuntime.                      *)
OneAttemptPerTask == agent = "task" => Task!OneAttemptPerTask

(* A stopped role has no process on record: see RoleHost.                   *)
StoppedHasNoProcess == agent = "host" => Host!StoppedHasNoProcess
=============================================================================
