---------------------------- MODULE NativeAgent ----------------------------
(***************************************************************************)
(* One invocation of the native agent: the boundary that leases it to a     *)
(* worker (adapters/nativeagent/boundary.go), the runner that replays its   *)
(* journal and takes turns with the model (agentruntime/runtime.go), and    *)
(* the effects its tool calls have on the workspace, each entered in a      *)
(* ledger before and after (agenttools/effects.go, git_effects.go,          *)
(* test_effect.go).  The lease, the journal and the ledger are durable      *)
(* (adapters/mongo/run_control.go, turn_journal.go, tool_effects.go).       *)
(*                                                                          *)
(* A turn of the model asks for one call, known by the turn's number.  The  *)
(* workspace is known by the number of the last call that changed it: the   *)
(* content a call asks for is new, and its preimage is what it expects.     *)
(***************************************************************************)
EXTENDS Integers, Sequences, FiniteSets

CONSTANTS Workers,              \* slots for the callers of ensure and their workers
          Limits,               \* of an invocation: the tools the model may call (of
                                \* Effects, read, submit_result), how many turns it
                                \* may take and how often it may submit a result
          None, MaxEpoch

VARIABLES limits,     \* those of this one
          journal,    \* sequence of entries
          ledger,     \* per call: None, RESERVED, or its result
          tree,       \* the workspace
          performed,  \* per call: how often the workspace or the tests saw it
          control,    \* the run control document
          workers,    \* per slot: the worker, or None
          lock        \* the worker that holds the workspace's effect lock, or None

vars == <<limits, journal, ledger, tree, performed, control, workers, lock>>

Tools == limits.tools
MaxTurns == limits.turns
MaxFinalSubmissions == limits.submissions
Calls == 1..MaxTurns
Mutations == {"write", "git"}       \* write_file; git_stage_files and git_commit
Effects == Mutations \cup {"test"}  \* and run_go_tests, without a preimage or the lock
Absent == -1                        \* a preimage the workspace never had

Started(by) == [kind |-> "STARTED", by |-> by]
Turn(tool, expect) == [kind |-> "TURN", tool |-> tool, expect |-> expect]
Done(out) == [kind |-> "DONE", out |-> out]
Terminal(kind) == [kind |-> kind]
TerminalKinds == {"FINISHED", "FAILED", "CANCELLED", "TIMED_OUT"}

Running == {"load", "turn", "lock", "reserve", "perform", "complete", "append"}

TypeOK ==
  /\ \A i \in 1..Len(journal) : journal[i].kind \in {"STARTED", "TURN", "DONE"} \cup TerminalKinds
  /\ ledger \in [Calls -> {None, "RESERVED", "OK", "FAILED"}]
  /\ tree \in 0..MaxTurns /\ performed \in [Calls -> Nat]
  /\ control \in [epoch : 0..MaxEpoch, live : BOOLEAN, cancel : BOOLEAN]
  /\ lock \in Workers \cup {None}
  /\ \A w \in Workers : workers[w] /= None =>
       workers[w].pc \in Running \cup {"claim", "prepare", "finish", "reconcile", "record"}

-----------------------------------------------------------------------------
(* What a replay of the first v entries finds.                              *)

LastKind(v) == IF v = 0 THEN "NONE" ELSE journal[v].kind
TurnsIn(v) == Cardinality({i \in 1..v : journal[i].kind = "TURN"})
Pending(v) == LastKind(v) = "TURN"
Call(v) == journal[v]
Rejections(v) == Cardinality({i \in 2..v : journal[i] = Done("ERROR") /\ journal[i - 1] = Turn("submit_result", 0)})
IsTerminal == LastKind(Len(journal)) \in TerminalKinds
RecordedPrompt == journal /= <<>> => journal[1] = Started("runner")

-----------------------------------------------------------------------------
(* Workers.                                                                 *)

At(w, pc) == workers[w] /= None /\ workers[w].pc = pc
Alive(w, pc) == At(w, pc) /\ workers[w].cause = "none"
Go(w, pc) == workers' = [workers EXCEPT ![w].pc = pc]
Leave(w) == workers' = [workers EXCEPT ![w] = None]
Stop(w, err) == workers' = [workers EXCEPT ![w].pc = "finish", ![w].err = err, ![w].out = None, ![w].view = 0]
Answer(w, out) == workers' = [workers EXCEPT ![w].pc = "append", ![w].out = out]
Number(w) == TurnsIn(workers[w].view)
Asked(w) == Call(workers[w].view)

Held(w) == control.live /\ control.epoch = workers[w].epoch
Release(w) == control' = IF control.epoch = workers[w].epoch THEN [control EXCEPT !.live = FALSE] ELSE control
Unlock(w) == lock' = IF lock = w THEN None ELSE lock

(* An entry is appended at the sequence the worker has read up to.  When    *)
(* that fails the journal is read again: the entry may be there.            *)
Append1(w, entry, next) ==
  LET v == workers[w].view IN
  \/ /\ v = Len(journal)
     /\ journal' = Append(journal, entry)
     /\ workers' = [workers EXCEPT ![w].pc = next, ![w].view = v + 1, ![w].out = None]
  \/ /\ v < Len(journal) /\ journal[v + 1] = entry
     /\ workers' = [workers EXCEPT ![w].pc = next, ![w].view = Len(journal), ![w].out = None]
     /\ UNCHANGED journal
  \/ /\ v < Len(journal) => journal[v + 1] /= entry
     /\ Stop(w, "failed") /\ UNCHANGED journal

-----------------------------------------------------------------------------
(* The boundary.                                                            *)

(* Start, ReconcileStart and Inspect: the journal is read before the lease  *)
(* is asked for.                                                            *)
Ensure(w) ==
  /\ workers[w] = None /\ ~IsTerminal /\ control.epoch < MaxEpoch
  /\ workers' = [workers EXCEPT ![w] =
       [pc |-> "claim", epoch |-> 0, view |-> 0, cause |-> "none", err |-> "none", out |-> None]]
  /\ UNCHANGED <<journal, ledger, tree, performed, control, lock>>

Claim(w) ==
  /\ At(w, "claim")
  /\ IF control.live THEN Leave(w) /\ UNCHANGED control
     ELSE /\ control.epoch < MaxEpoch
          /\ control' = [control EXCEPT !.live = TRUE, !.epoch = @ + 1]
          /\ workers' = [workers EXCEPT ![w] =
               [@ EXCEPT !.epoch = control.epoch + 1, !.pc = IF control.cancel THEN "reconcile" ELSE "prepare",
                         !.cause = IF control.cancel THEN "cancel" ELSE "none",
                         !.err = IF control.cancel THEN "failed" ELSE "none"]]
  /\ UNCHANGED <<journal, ledger, tree, performed, lock>>

(* Configure and prepare bind the invocation to its authority and to the    *)
(* prompt of its journal; a failure is answered REJECTED.  The lease is     *)
(* renewed before the worker starts.                                        *)
Prepare(w) ==
  /\ At(w, "prepare")
  /\ \/ Release(w) /\ Leave(w)
     \/ /\ RecordedPrompt /\ UNCHANGED control
        /\ IF ~Held(w) THEN Leave(w)
           ELSE IF control.cancel
           THEN workers' = [workers EXCEPT ![w].pc = "reconcile", ![w].cause = "cancel", ![w].err = "failed"]
           ELSE Go(w, "load")
  /\ UNCHANGED <<journal, ledger, tree, performed, lock>>

(* The heartbeat finds the lease lost or cannot renew it, or finds the      *)
(* cancellation, which a caller in the same process delivers at once; the   *)
(* deadline of the brief passes.  The worker's context is done.             *)
Interrupt(w, cause) ==
  /\ workers[w] /= None /\ workers[w].pc \in Running /\ workers[w].cause = "none"
  /\ cause = "cancel" => control.cancel
  /\ workers' = [workers EXCEPT ![w].cause = cause]
  /\ UNCHANGED <<journal, ledger, tree, performed, control, lock>>

(* Under a context that is done, every call that is not past its            *)
(* reservation fails.                                                       *)
CutShort(w) ==
  /\ workers[w] /= None /\ workers[w].pc \in {"load", "turn", "lock", "append"} /\ workers[w].cause /= "none"
  /\ Stop(w, "failed")
  /\ UNCHANGED <<journal, ledger, tree, performed, control, lock>>

finishWorker(w) ==
  /\ At(w, "finish")
  /\ CASE workers[w].cause = "lost" -> Leave(w) /\ UNCHANGED control
       [] workers[w].cause = "none" /\ workers[w].err = "none" -> Leave(w) /\ Release(w)
       [] OTHER -> Go(w, "reconcile") /\ UNCHANGED control
  /\ UNCHANGED <<journal, ledger, tree, performed, lock>>

(* What an inspection of the workspace finds of a call, and what the        *)
(* ledger says of it.                                                       *)
Applied(n) == tree = n
Unapplied(call) == tree = call.expect
Entered(n) == ledger[n] \in {"OK", "FAILED"}

(* The effect that is pending is inspected under the workspace's lock,      *)
(* never started, and its outcome entered; a call that is not an effect,    *)
(* or was never reserved, needs nothing.                                    *)
ReconcilePendingEffects(w) ==
  LET v == Len(journal) n == TurnsIn(v) effect == Pending(v) /\ Call(v).tool \in Effects IN
  /\ effect /\ Call(v).tool \in Mutations => lock = None
  /\ \/ ~Pending(v) /\ ~(IsTerminal /\ LastKind(v) /= "FINISHED" /\ RecordedPrompt) /\ Go(w, "record") /\ UNCHANGED <<journal, ledger>>
     \/ Pending(v) /\ (effect => ledger[n] = None) /\ Go(w, "record") /\ UNCHANGED <<journal, ledger>>
     \/ effect /\ Entered(n) /\ journal' = Append(journal, Done(ledger[n])) /\ UNCHANGED <<ledger, workers>>
     \/ /\ effect /\ Call(v).tool \in Mutations /\ ledger[n] = "RESERVED"
        /\ \/ Applied(n) /\ ledger' = [ledger EXCEPT ![n] = "OK"] /\ UNCHANGED workers
           \/ Unapplied(Call(v)) /\ Go(w, "record") /\ UNCHANGED ledger
        /\ UNCHANGED journal

(* An error keeps the lease.                                                *)
reconcileBeforeTerminal(w) ==
  /\ At(w, "reconcile")
  /\ \/ Leave(w) /\ UNCHANGED <<journal, ledger>>
     \/ ReconcilePendingEffects(w)
  /\ UNCHANGED <<tree, performed, control, lock>>

(* recordTerminal, unless the run ended with an uncertain effect and        *)
(* nothing asks for its end; then the lease is released.                    *)
recordTerminal(w) ==
  /\ At(w, "record")
  /\ LET uncertain == workers[w].err = "uncertain" /\ workers[w].cause = "none"
         kind == CASE workers[w].cause = "deadline" -> "TIMED_OUT"
                   [] workers[w].cause = "cancel" -> "CANCELLED"
                   [] OTHER -> "FAILED" IN
     \/ Leave(w) /\ UNCHANGED <<journal, control>>
     \/ /\ uncertain \/ workers[w].err = "none" \/ IsTerminal
        /\ Leave(w) /\ Release(w) /\ UNCHANGED journal
     \/ /\ ~uncertain /\ workers[w].err /= "none" /\ ~IsTerminal
        /\ IF journal = <<>> THEN journal' = <<Started("boundary")>> /\ UNCHANGED <<workers, control>>
           ELSE journal' = Append(journal, Terminal(kind)) /\ Leave(w) /\ Release(w)
  /\ UNCHANGED <<ledger, tree, performed, lock>>

RequestCancel ==
  /\ ~control.cancel
  /\ control' = [control EXCEPT !.cancel = TRUE]
  /\ UNCHANGED <<journal, ledger, tree, performed, workers, lock>>

(* ReconcileSuperseded cancels the invocation of an earlier brief.  The     *)
(* prompt of the journal is that brief's: once a turn was taken the         *)
(* reconciliation refuses it.                                               *)
ReconcileSuperseded(w) ==
  /\ workers[w] = None /\ ~IsTerminal
  /\ IF control.live \/ control.epoch = MaxEpoch
     THEN control' = [control EXCEPT !.cancel = TRUE] /\ UNCHANGED workers
     ELSE /\ control' = [control EXCEPT !.cancel = TRUE, !.live = TRUE, !.epoch = @ + 1]
          /\ IF Len(journal) > 1 THEN UNCHANGED workers
             ELSE workers' = [workers EXCEPT ![w] = [pc |-> "record", epoch |-> control.epoch + 1, view |-> 0,
                                                     cause |-> "cancel", err |-> "failed", out |-> None]]
  /\ UNCHANGED <<journal, ledger, tree, performed, lock>>

LeaseExpires ==
  /\ control.live /\ control' = [control EXCEPT !.live = FALSE]
  /\ UNCHANGED <<journal, ledger, tree, performed, workers, lock>>

(* A worker dies with its process; the lock is the process's.               *)
Crash(w) ==
  /\ workers[w] /= None /\ Leave(w) /\ Unlock(w)
  /\ UNCHANGED <<journal, ledger, tree, performed, control>>

-----------------------------------------------------------------------------
(* The runner.                                                              *)

Load(w) ==
  /\ Alive(w, "load")
  /\ \/ Stop(w, "failed") /\ UNCHANGED journal
     \/ journal = <<>> /\ Append1(w, Started("runner"), "turn")
     \/ journal /= <<>> /\ workers' = [workers EXCEPT ![w].pc = "turn", ![w].view = Len(journal)] /\ UNCHANGED journal
  /\ UNCHANGED <<ledger, tree, performed, control, lock>>

(* The replay finds the journal closed by another worker.                   *)
Replayed(w) ==
  /\ Alive(w, "turn") /\ LastKind(workers[w].view) \in TerminalKinds
  /\ Stop(w, IF LastKind(workers[w].view) = "FINISHED" THEN "none" ELSE "failed")
  /\ UNCHANGED <<journal, ledger, tree, performed, control, lock>>

(* The model is asked when no call is pending, within the limits on its     *)
(* turns and on rejected results; it may fail or answer nonsense.           *)
ModelTurn(w) ==
  /\ Alive(w, "turn") /\ LastKind(workers[w].view) \in {"STARTED", "DONE"}
  /\ \/ Stop(w, "failed") /\ UNCHANGED journal
     \/ /\ Number(w) < MaxTurns
        /\ Rejections(workers[w].view) < MaxFinalSubmissions
        /\ \E tool \in Tools : \E expect \in IF tool \in Mutations THEN {tree, Absent} ELSE {0} :
             Append1(w, Turn(tool, expect), "turn")
  /\ UNCHANGED <<ledger, tree, performed, control, lock>>

(* A submitted result is validated against its contract and, for an         *)
(* implementation, against the state and the build of the repository.       *)
Submit(w) ==
  /\ Alive(w, "turn") /\ Pending(workers[w].view) /\ Asked(w).tool = "submit_result"
  /\ \/ Append1(w, Terminal("FINISHED"), "finish")
     \/ MaxFinalSubmissions <= 1 /\ Stop(w, "failed") /\ UNCHANGED journal
     \/ MaxFinalSubmissions > 1 /\ Append1(w, Done("ERROR"), "turn")
  /\ UNCHANGED <<ledger, tree, performed, control, lock>>

ExecuteReadOnly(w) ==
  /\ Alive(w, "turn") /\ Pending(workers[w].view) /\ Asked(w).tool = "read"
  /\ \E out \in {"OK", "ERROR"} : Append1(w, Done(out), "turn")
  /\ UNCHANGED <<ledger, tree, performed, control, lock>>

ToolDone(w) ==
  /\ Alive(w, "append") /\ Append1(w, Done(workers[w].out), "turn")
  /\ UNCHANGED <<ledger, tree, performed, control, lock>>

-----------------------------------------------------------------------------
(* The effects.  An error before the reservation is an answer to the model, *)
(* also when the call is executed again after a crash.                      *)

BindToolInvocation(w) ==
  /\ Alive(w, "turn") /\ Pending(workers[w].view) /\ Asked(w).tool \in Effects
  /\ \/ Answer(w, "ERROR")
     \/ Go(w, IF Asked(w).tool \in Mutations THEN "lock" ELSE "reserve")
  /\ UNCHANGED <<journal, ledger, tree, performed, control, lock>>

(* Waiting for the lock has a timeout.  A write whose preimage is wrong is  *)
(* refused before it is reserved.                                           *)
lockEffectPath(w) ==
  /\ Alive(w, "lock")
  /\ \/ Answer(w, "ERROR") /\ UNCHANGED lock
     \/ /\ lock = None
        /\ IF Asked(w).tool = "write" /\ ledger[Number(w)] = None /\ tree /= Asked(w).expect
           THEN Answer(w, "ERROR") /\ UNCHANGED lock
           ELSE lock' = w /\ Go(w, "reserve")
  /\ UNCHANGED <<journal, ledger, tree, performed, control>>

Created(n) == ledger[n] \in {None, "RESERVED"}
IsNew(n) == ledger[n] = None

(* Only the caller that created the record performs the effect.  Whoever    *)
(* finds it inspects the workspace.  The reservation may commit and its     *)
(* acknowledgement be lost.                                                 *)
Reserve(w) ==
  /\ At(w, "reserve")
  /\ LET n == Number(w) reserved == [ledger EXCEPT ![n] = IF @ = None THEN "RESERVED" ELSE @] IN
     \/ ledger' \in {ledger, reserved} /\ Stop(w, "uncertain") /\ Unlock(w)
     \/ /\ workers[w].cause = "none" /\ ledger' = reserved
        /\ CASE IsNew(n) -> Go(w, "perform") /\ UNCHANGED lock
             [] Entered(n) -> Answer(w, ledger[n]) /\ Unlock(w)
             [] OTHER -> IF Asked(w).tool \in Mutations /\ Applied(n)
                         THEN workers' = [workers EXCEPT ![w].pc = "complete", ![w].out = "OK"] /\ UNCHANGED lock
                         ELSE Stop(w, "uncertain") /\ Unlock(w)
  /\ UNCHANGED <<journal, tree, performed, control>>

Completing(w, out) == workers' = [workers EXCEPT ![w].pc = "complete", ![w].out = out]

(* A mutation checks its preimage; when the host reports an error the       *)
(* workspace is inspected.                                                  *)
Mutate(w) ==
  /\ At(w, "perform") /\ Asked(w).tool \in Mutations
  /\ LET n == Number(w) uncertain == Stop(w, "uncertain") /\ Unlock(w) IN
     \/ /\ Unapplied(Asked(w))
        /\ tree' = n /\ performed' = [performed EXCEPT ![n] = @ + 1]
        /\ (Completing(w, "OK") /\ UNCHANGED lock) \/ uncertain
     \/ /\ (Completing(w, "FAILED") /\ UNCHANGED lock) \/ uncertain
        /\ UNCHANGED <<tree, performed>>
  /\ UNCHANGED <<journal, ledger, control>>

(* Tests that are reported as failed may have run.                          *)
RunTests(w) ==
  /\ At(w, "perform") /\ Asked(w).tool = "test"
  /\ \/ /\ performed' = [performed EXCEPT ![Number(w)] = @ + 1]
        /\ \E out \in {"OK", "FAILED"} : Completing(w, out)
     \/ Completing(w, "FAILED") /\ UNCHANGED performed
  /\ UNCHANGED <<journal, ledger, tree, control, lock>>

(* A result is entered once, whatever becomes of the worker's context.      *)
Complete(w) ==
  /\ At(w, "complete")
  /\ LET n == Number(w) entered == [ledger EXCEPT ![n] = IF @ = "RESERVED" THEN workers[w].out ELSE @] IN
     \/ ledger' \in {ledger, entered} /\ Stop(w, "uncertain")
     \/ entered[n] = workers[w].out /\ ledger' = entered /\ Answer(w, workers[w].out)
  /\ Unlock(w)
  /\ UNCHANGED <<journal, tree, performed, control>>

-----------------------------------------------------------------------------
Init ==
  /\ limits \in Limits
  /\ journal = <<>> /\ ledger = [n \in Calls |-> None] /\ tree = 0 /\ performed = [n \in Calls |-> 0]
  /\ control = [epoch |-> 0, live |-> FALSE, cancel |-> FALSE]
  /\ workers = [w \in Workers |-> None] /\ lock = None

Step ==
  \/ \E w \in Workers :
       \/ Ensure(w) \/ Claim(w) \/ Prepare(w) \/ CutShort(w)
       \/ \E cause \in {"lost", "cancel", "deadline"} : Interrupt(w, cause)
       \/ finishWorker(w) \/ reconcileBeforeTerminal(w) \/ recordTerminal(w)
       \/ ReconcileSuperseded(w) \/ Crash(w)
       \/ Load(w) \/ Replayed(w) \/ ModelTurn(w) \/ Submit(w) \/ ExecuteReadOnly(w) \/ ToolDone(w)
       \/ BindToolInvocation(w) \/ lockEffectPath(w) \/ Reserve(w) \/ Mutate(w) \/ RunTests(w) \/ Complete(w)
  \/ RequestCancel \/ LeaseExpires

Next == Step /\ UNCHANGED limits

Spec == Init /\ [][Next]_vars

-----------------------------------------------------------------------------
Answered(v, out) == v < Len(journal) /\ journal[v + 1] = Done(out)

(* Whatever dies, whoever takes over and whichever acknowledgement is lost, *)
(* a call's effect happens at most once (Reserve), a mutation entered as    *)
(* failed did not happen, an effect answered or entered as done did, and    *)
(* nothing follows a terminal entry (Append, recordTerminal).               *)
EffectsAsRecorded ==
  \A v \in 1..Len(journal) :
    /\ LET n == TurnsIn(v) tool == Call(v).tool IN
       Pending(v) =>
         /\ performed[n] <= 1
         /\ tool \in Mutations /\ ledger[n] = "FAILED" => performed[n] = 0
         /\ tool \in Effects /\ (ledger[n] = "OK" \/ Answered(v, "OK")) => performed[n] = 1
    /\ LastKind(v) \in TerminalKinds => v = Len(journal)

(* A mutation the model was told had failed did not happen ("ErrEffect-     *)
(* Uncertain stops the turn rather than recording a tool error").  Refuted: *)
(* a call that is executed again after a crash answers an error of its      *)
(* binding, or of waiting for the lock, before it looks at the ledger.      *)
ErrorMeansNotDone ==
  \A v \in 1..Len(journal) :
    Pending(v) /\ Call(v).tool \in Mutations /\ Answered(v, "ERROR") => performed[TurnsIn(v)] = 0
=============================================================================
