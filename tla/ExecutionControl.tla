-------------------------- MODULE ExecutionControl --------------------------
(***************************************************************************)
(* The provider-neutral execution coordinator: an execution is reserved     *)
(* against the capacity limits, authorized by the kernel, claimed, started  *)
(* at the engine under a timeout, stopped and reconciled; every change of   *)
(* its control record is a compare-and-swap on its version                  *)
(* (application/execution_coordinator.go, adapters/memory/execution_control.go, *)
(* the engine contract of adapters/fake/execution.go).                      *)
(*                                                                          *)
(* An engine call that times out is not cancelled: it may still take effect *)
(* later.  A caller may stop at any point; others act on the same key.      *)
(***************************************************************************)
EXTENDS Integers, FiniteSets

CONSTANTS Keys, Callers, Actors, None,
          ActorOf(_),              \* the actor an execution is started for
          MaxActiveTotal, MaxActivePerActor, MaxReconciliations,
          MaxVersion               \* bound

VARIABLES record,     \* per key: the control record, or None
          receipt,    \* per key: the kernel's receipt of the authorization, or None
          engine,     \* per key: the engine's execution: NONE, RUNNING, STOPPED
          pending,    \* engine calls that have not taken effect: <<kind, key>>
          caller,     \* per caller: the operation it carries out, or None
          asked       \* per key: how often the engine was asked to start it

vars == <<record, receipt, engine, pending, caller, asked>>

(* Mutated: an uncertain execution gives its capacity back.                 *)
CapacityUnlessUncertain(state) ==
  state \in {"PENDING_AUTHORIZATION", "AUTHORIZED", "STARTING", "RUNNING", "STOPPING"}

controlConsumesCapacity(state) ==
  state \in {"PENDING_AUTHORIZATION", "AUTHORIZED", "STARTING", "RUNNING", "STOPPING", "UNCERTAIN"}

validControlTransition(s, t) ==
  \/ s = t /\ s \in {"STARTING", "STOPPING", "UNCERTAIN"}
  \/ s = "PENDING_AUTHORIZATION" /\ t \in {"AUTHORIZED", "REJECTED"}
  \/ s = "AUTHORIZED" /\ t = "STARTING"
  \/ s = "STARTING" /\ t \in {"RUNNING", "STOPPED", "UNCERTAIN"}
  \/ s = "RUNNING" /\ t \in {"STOPPING", "UNCERTAIN"}
  \/ s = "STOPPING" /\ t \in {"STOPPED", "RUNNING", "UNCERTAIN"}
  \/ s = "UNCERTAIN" /\ t \in {"RUNNING", "STOPPED", "STOPPING"}

Active == {k \in Keys : record[k] /= None /\ controlConsumesCapacity(record[k].state)}
Taken(k) == record[k] /= None

CompareAndSwap(k, prior, state, attempts) ==
  /\ Taken(k) /\ record[k].version = prior.version /\ validControlTransition(record[k].state, state)
  /\ record' = [record EXCEPT ![k] = [state |-> state, version |-> prior.version + 1, attempts |-> attempts]]

Lost(k, prior, state) ==
  ~ (Taken(k) /\ record[k].version = prior.version /\ validControlTransition(record[k].state, state))

Goto(c, at, seen) == caller' = [caller EXCEPT ![c].at = at, ![c].seen = seen]
Leave(c) == caller' = [caller EXCEPT ![c] = None]
At(c, op, at) == caller[c] /= None /\ caller[c].op = op /\ caller[c].at = at

(* Start: the reservation, or the record an earlier call reserved.          *)
Prepare(c, k) ==
  /\ caller[c] = None
  /\ \/ Taken(k) /\ UNCHANGED record
     \/ /\ ~ Taken(k)
        /\ Cardinality(Active) < MaxActiveTotal
        /\ Cardinality({j \in Active : ActorOf(j) = ActorOf(k)}) < MaxActivePerActor
        /\ record' = [record EXCEPT ![k] = [state |-> "PENDING_AUTHORIZATION", version |-> 1, attempts |-> 0]]
  /\ record'[k].state \in {"PENDING_AUTHORIZATION", "AUTHORIZED"}
  /\ caller' = [caller EXCEPT ![c] =
       [op |-> "start", key |-> k, seen |-> record'[k],
        at |-> IF record'[k].state = "AUTHORIZED" THEN "claim" ELSE "authorize"]]
  /\ UNCHANGED <<receipt, engine, pending, asked>>

(* The kernel decides once; a repeated command gets the first receipt.      *)
Authorize(c) ==
  /\ At(c, "start", "authorize")
  /\ LET k == caller[c].key
     IN  \E outcome \in IF receipt[k] /= None THEN {receipt[k]} ELSE {"APPLIED", "REJECTED"} :
           /\ receipt' = [receipt EXCEPT ![k] = outcome]
           /\ caller' = [caller EXCEPT ![c].at = IF outcome = "APPLIED" THEN "authorized" ELSE "rejected"]
  /\ UNCHANGED <<record, engine, pending, asked>>

RecordAuthorization(c) ==
  /\ At(c, "start", "authorized") \/ At(c, "start", "rejected")
  /\ LET k == caller[c].key
         state == IF caller[c].at = "authorized" THEN "AUTHORIZED" ELSE "REJECTED"
     IN  \/ /\ CompareAndSwap(k, caller[c].seen, state, 0)
            /\ IF state = "AUTHORIZED" THEN Goto(c, "claim", record'[k]) ELSE Leave(c)
         \/ /\ Lost(k, caller[c].seen, state) /\ UNCHANGED record
            /\ IF record[k].state = "AUTHORIZED" THEN Goto(c, "claim", record[k]) ELSE Leave(c)
  /\ UNCHANGED <<receipt, engine, pending, asked>>

(* Whoever claims the record asks the engine; the others leave.             *)
Claim(c) ==
  /\ At(c, "start", "claim")
  /\ LET k == caller[c].key
     IN  \/ /\ CompareAndSwap(k, caller[c].seen, "STARTING", 0)
            /\ pending' = pending \cup {<<"start", k>>} /\ asked' = [asked EXCEPT ![k] = @ + 1]
            /\ Goto(c, "effect", record'[k])
         \/ /\ Lost(k, caller[c].seen, "STARTING") /\ Leave(c) /\ UNCHANGED <<record, pending, asked>>
  /\ UNCHANGED <<receipt, engine>>

Stop(c, k) ==
  /\ caller[c] = None /\ Taken(k) /\ record[k].state \in {"RUNNING", "UNCERTAIN"} /\ record[k].version < MaxVersion
  /\ CompareAndSwap(k, record[k], "STOPPING", record[k].attempts)
  /\ pending' = pending \cup {<<"stop", k>>}
  /\ caller' = [caller EXCEPT ![c] = [op |-> "stop", key |-> k, at |-> "effect", seen |-> record'[k]]]
  /\ UNCHANGED <<receipt, engine, asked>>

Reconcile(c, k) ==
  /\ caller[c] = None /\ Taken(k) /\ record[k].state \in {"UNCERTAIN", "STARTING", "STOPPING"} /\ record[k].version < MaxVersion
  /\ record[k].attempts < MaxReconciliations
  /\ CompareAndSwap(k, record[k], record[k].state, record[k].attempts + 1)
  /\ caller' = [caller EXCEPT ![c] = [op |-> "reconcile", key |-> k, at |-> "effect", seen |-> record'[k]]]
  /\ UNCHANGED <<receipt, engine, pending, asked>>

(* The engine: a start of a key it knows answers with that execution; a     *)
(* stop of one it does not know is an error.                                *)
EngineEffect(kind, k) ==
  /\ <<kind, k>> \in pending
  /\ engine' = [engine EXCEPT ![k] = CASE kind = "start" -> IF @ = "NONE" THEN "RUNNING" ELSE @
                                       [] kind = "stop" -> IF @ = "NONE" THEN @ ELSE "STOPPED"]
  /\ pending' = pending \ {<<kind, k>>}
  /\ UNCHANGED <<record, receipt, caller, asked>>

(* What an effect's caller learns: the engine's state once its call took    *)
(* effect, or nothing: an error, a timeout, an unknown execution.           *)
Observed(c) ==
  LET k == caller[c].key
      answered == caller[c].op = "reconcile" \/ <<caller[c].op, k>> \notin pending
  IN  {"UNCERTAIN"} \cup (IF answered /\ engine[k] /= "NONE" THEN {engine[k]} ELSE {})

recordEffect(c) ==
  /\ caller[c] /= None
  /\ caller[c].at = "effect"
  /\ \E state \in Observed(c) :
       \/ CompareAndSwap(caller[c].key, caller[c].seen, state, caller[c].seen.attempts)
       \/ Lost(caller[c].key, caller[c].seen, state) /\ UNCHANGED record
  /\ Leave(c)
  /\ UNCHANGED <<receipt, engine, pending, asked>>

(* The caller is cancelled or its process ends.                             *)
Abandon(c) == caller[c] /= None /\ Leave(c) /\ UNCHANGED <<record, receipt, engine, pending, asked>>

Init ==
  /\ record = [k \in Keys |-> None] /\ receipt = [k \in Keys |-> None] /\ engine = [k \in Keys |-> "NONE"]
  /\ pending = {} /\ caller = [c \in Callers |-> None] /\ asked = [k \in Keys |-> 0]

Next ==
  \/ \E c \in Callers, k \in Keys : Prepare(c, k) \/ Stop(c, k) \/ Reconcile(c, k)
  \/ \E c \in Callers : Authorize(c) \/ RecordAuthorization(c) \/ Claim(c) \/ recordEffect(c) \/ Abandon(c)
  \/ \E kind \in {"start", "stop"}, k \in Keys : EngineEffect(kind, k)

Spec == Init /\ [][Next]_vars

-----------------------------------------------------------------------------
(* Whatever runs at the engine, or may still come to run there after a      *)
(* timeout, holds capacity, was authorized by the kernel and was asked for  *)
(* once: late effects and crashed callers never let more run than the       *)
(* limits allow (Prepare, controlConsumesCapacity).                         *)
MayRun == {k \in Keys : engine[k] = "RUNNING" \/ (<<"start", k>> \in pending /\ engine[k] = "NONE")}

RunningHoldsCapacity ==
  /\ \A k \in Keys : asked[k] <= 1
  /\ \A k \in MayRun : receipt[k] = "APPLIED"
  /\ Cardinality(MayRun) <= MaxActiveTotal
=============================================================================
