-------------------------- MODULE RuntimeContinuity --------------------------
(***************************************************************************)
(* Host suspension and the deadlines of running work.  The daemon records a *)
(* heartbeat; a gap in it, or the time between two processes, is kept as a  *)
(* suspension window, which extends the deadline of a started invocation    *)
(* and is added to the feature's budget, once                               *)
(* (adapters/mongo/runtime_continuity.go,                                   *)
(* adapters/operationalruntime/runtime_continuity.go, the deadline check of *)
(* application/operational_execution_coordinator.go).                       *)
(*                                                                          *)
(* The host sleeps at any moment and for any time, also between two reads   *)
(* of a goroutine; awake time is what the work really had (inv.had).  While *)
(* the host is awake the heartbeat keeps within its threshold, which the    *)
(* configuration makes at least two of its intervals.  A sleep after which  *)
(* the heartbeat is still within it leaves no trace: it is time charged to  *)
(* the work (inv.nap until the next heartbeat, then inv.charged).           *)
(***************************************************************************)
EXTENDS Integers, FiniteSets, FiniteSetsExt

CONSTANTS Threshold,    \* the gap above which a live process was suspended
          Allowance,    \* the time an invocation is authorized for
          None,
          MaxTime       \* bound

VARIABLES now,          \* wall clock
          up,           \* the daemon runs
          session,      \* the runtime session document, or None
          windows,      \* the suspension ledger
          todo,         \* windows the reconciliation in progress still has to visit
          inv,          \* the invocation, or None
          check,        \* the deadline check in progress, or None
          budget        \* amended: the windows added; burnt: those whose command was refused; rev

vars == <<now, up, session, windows, todo, inv, check, budget>>

Window(from, to) == [from |-> from, to |-> to]
Idle == check = None
Live == inv /= None /\ inv.state \in {"AUTHORIZED", "STARTED"}
During(slept) == check' = IF check = None THEN None ELSE [check EXCEPT !.slept = @ \/ slept]

-----------------------------------------------------------------------------
(* Time.                                                                    *)

Tick ==
  /\ now < MaxTime /\ now' = now + 1
  /\ up => (now' - session.hb <= Threshold)
  /\ inv' = IF Live /\ up THEN [inv EXCEPT !.had = @ + 1] ELSE inv
  /\ UNCHANGED <<up, session, windows, todo, check, budget>>

Sleep(d) ==
  /\ up /\ now + d <= MaxTime
  /\ now' = now + d /\ During(TRUE)
  /\ inv' = IF ~ Live THEN inv ELSE [inv EXCEPT !.nap = IF now' - session.hb > Threshold THEN 0 ELSE @ + d]
  /\ UNCHANGED <<up, session, windows, todo, budget>>

-----------------------------------------------------------------------------
(* Sessions.                                                                *)

SuspendedAt(s) == IF s.state = "STOPPED" THEN s.stopped ELSE s.hb

(* A starting process records any gap, a live one only a gap above the      *)
(* threshold; the ledger is keyed by the interval.                          *)
advanceRuntimeSession(starting) ==
  LET from == SuspendedAt(session)
      observe == now > from /\ (starting \/ now - from > Threshold)
  IN  /\ windows' = IF observe THEN windows \cup {Window(from, now)} ELSE windows
      /\ session' = [state |-> "RUNNING", hb |-> now, stopped |-> 0]
      /\ todo' = IF observe \/ starting THEN windows' ELSE todo

(* The gap is closed and, when one was observed, the budgets are            *)
(* reconciled before the next heartbeat (continuityMu).                     *)
HeartbeatRuntimeSession ==
  /\ up /\ todo = {} /\ session.hb /= now
  /\ advanceRuntimeSession(FALSE)
  /\ inv' = IF Live THEN [inv EXCEPT !.charged = @ + inv.nap, !.nap = 0] ELSE inv
  /\ UNCHANGED <<now, up, check, budget>>

StartRuntimeSession ==
  /\ ~ up /\ up' = TRUE
  /\ advanceRuntimeSession(TRUE)
  /\ inv' = IF Live THEN [inv EXCEPT !.nap = 0] ELSE inv
  /\ UNCHANGED <<now, check, budget>>

(* The stop overwrites the heartbeat: a sleep that ended just before it is  *)
(* never recorded (unseen remembers that).                                  *)
StopRuntimeSession ==
  /\ up /\ todo = {} /\ Idle /\ up' = FALSE
  /\ session' = [state |-> "STOPPED", hb |-> now, stopped |-> now]
  /\ inv' = IF Live THEN [inv EXCEPT !.unseen = @ \/ now - session.hb > Threshold, !.charged = @ + inv.nap, !.nap = 0]
            ELSE inv
  /\ UNCHANGED <<now, windows, todo, check, budget>>

Crash ==
  /\ up /\ up' = FALSE /\ todo' = {} /\ check' = None
  /\ UNCHANGED <<now, session, windows, inv, budget>>

-----------------------------------------------------------------------------
(* The budget.                                                              *)

startedInvocationExists == inv /= None /\ inv.state = "STARTED"
InOrder(w) == \A v \in todo : w.to <= v.to

(* One window of the ledger: passed over while an invocation runs, already  *)
(* added, or added now; a refused command is found refused for ever, and    *)
(* ends the reconciliation.                                                 *)
reconcileFeatureRuntimeSuspension(w) ==
  /\ up /\ w \in todo /\ InOrder(w)
  /\ IF startedInvocationExists \/ w \in budget.amended
     THEN todo' = todo \ {w} /\ UNCHANGED budget
     ELSE IF w \in budget.burnt THEN todo' = {} /\ UNCHANGED budget
     ELSE \/ /\ budget' = [budget EXCEPT !.amended = @ \cup {w}, !.extra = @ + (w.to - w.from)]
             /\ todo' = todo \ {w}
          \/ budget' = [budget EXCEPT !.burnt = @ \cup {w}] /\ todo' = {}
  /\ UNCHANGED <<now, up, session, windows, inv, check>>

-----------------------------------------------------------------------------
(* The invocation and its deadline check.                                   *)

Authorize ==
  /\ up /\ inv = None
  /\ inv' = [state |-> "AUTHORIZED", at |-> now, deadline |-> now + Allowance, had |-> 0, nap |-> 0, charged |-> 0, unseen |-> FALSE]
  /\ UNCHANGED <<now, up, session, windows, todo, check, budget>>

(* Until it is started, the deadline of the brief counts as it stands.      *)
Begin ==
  /\ up /\ inv /= None /\ inv.state = "AUTHORIZED"
  /\ inv' = [inv EXCEPT !.state = IF now < inv.deadline THEN "STARTED" ELSE "EXPIRED_UNSTARTED"]
  /\ UNCHANGED <<now, up, session, windows, todo, check, budget>>

Finish ==
  /\ up /\ Idle /\ startedInvocationExists
  /\ inv' = [inv EXCEPT !.state = "SUCCEEDED"]
  /\ UNCHANGED <<now, up, session, windows, todo, check, budget>>

pendingRuntimeSuspension(s) ==
  IF now - s.hb <= Threshold THEN {} ELSE {Window(s.hb, now)}

runtimeSuspensionCovered(ws, p) == \E w \in ws : w.from = p.from /\ w.to >= p.to

(* The windows in time order (the fold visits the chosen one last), each    *)
(* counted from the authorization on, as long as it began before the        *)
(* deadline reached so far.                                                 *)
Latest(ws) == CHOOSE w \in ws : \A v \in ws : v.from < w.from \/ (v.from = w.from /\ v.to <= w.to)

extendDeadlineAcrossSuspensions(deadline, at, ws) ==
  MapThenFoldSet(LAMBDA w, effective : IF w.to > at /\ w.from < effective
                                       THEN effective + (w.to - IF w.from < at THEN at ELSE w.from) ELSE effective,
                 deadline, LAMBDA w : w, Latest, ws)

EffectiveDeadlineReadSession ==
  /\ up /\ Idle /\ startedInvocationExists
  /\ check' = [pending |-> pendingRuntimeSuspension(session), deadline |-> None, slept |-> FALSE]
  /\ UNCHANGED <<now, up, session, windows, todo, inv, budget>>

(* Mutated: the gap the heartbeat has not recorded yet is left out.         *)
DeadlineOfLedgerOnly ==
  /\ up /\ ~ Idle /\ check.deadline = None
  /\ check' = [check EXCEPT !.deadline = extendDeadlineAcrossSuspensions(inv.deadline, inv.at, windows)]
  /\ UNCHANGED <<now, up, session, windows, todo, inv, budget>>

EffectiveWorkInvocationDeadline ==
  /\ up /\ ~ Idle /\ check.deadline = None
  /\ LET uncovered == {p \in check.pending : ~ runtimeSuspensionCovered(windows, p)}
     IN  check' = [check EXCEPT !.deadline = extendDeadlineAcrossSuspensions(inv.deadline, inv.at, windows \cup uncovered)]
  /\ UNCHANGED <<now, up, session, windows, todo, inv, budget>>

DeadlineExceeded ==
  /\ up /\ ~ Idle /\ check.deadline /= None
  /\ inv' = IF now < check.deadline THEN inv
            ELSE [inv EXCEPT !.state = "TIMED_OUT", !.unseen = @ \/ check.slept]
  /\ check' = None
  /\ UNCHANGED <<now, up, session, windows, todo, budget>>

Init ==
  /\ now = 0 /\ up = TRUE /\ session = [state |-> "RUNNING", hb |-> 0, stopped |-> 0]
  /\ windows = {} /\ todo = {} /\ inv = None /\ check = None
  /\ budget = [amended |-> {}, burnt |-> {}, extra |-> 0]

Next ==
  \/ Tick \/ \E d \in 1 .. Threshold + 1 : Sleep(d)
  \/ HeartbeatRuntimeSession \/ StartRuntimeSession \/ StopRuntimeSession \/ Crash
  \/ Authorize \/ Begin \/ Finish
  \/ EffectiveDeadlineReadSession \/ EffectiveWorkInvocationDeadline \/ DeadlineExceeded
  \/ \E w \in windows : reconcileFeatureRuntimeSuspension(w)

Spec == Init /\ [][Next]_vars

(* The loops of a live daemon go on, and an invocation ends.                *)
FairSpec ==
  /\ Spec
  /\ WF_vars(HeartbeatRuntimeSession) /\ WF_vars(StartRuntimeSession) /\ WF_vars(Finish)
  /\ WF_vars(EffectiveWorkInvocationDeadline) /\ WF_vars(DeadlineExceeded)
  /\ WF_vars(\E w \in windows : reconcileFeatureRuntimeSuspension(w))

-----------------------------------------------------------------------------
(* A started invocation is timed out only after it had its allowance, in    *)
(* awake time and in sleeps too short for the heartbeat to notice, however  *)
(* sleeps, restarts, the heartbeat and the check interleave                 *)
(* (EffectiveWorkInvocationDeadline).  docs/operations/005 excludes every   *)
(* heartbeat gap caused by host sleep; the code does not see three kinds of *)
(* sleep: one after which the gap is still within the threshold             *)
(* (inv.charged and inv.nap, which the invocation pays for), one inside the *)
(* check itself, which compares a clock read after the deadline was         *)
(* computed, and one that ends in a clean stop before the next heartbeat    *)
(* (both inv.unseen).                                                       *)
NoEarlyExpiry ==
  (inv /= None /\ inv.state = "TIMED_OUT" /\ ~ inv.unseen) => inv.had + inv.charged + inv.nap >= Allowance

(* What is added to the budget is of the ledger, whose windows do not       *)
(* overlap whatever is slept, stopped and restarted: no time is added twice *)
(* (advanceRuntimeSession).                                                 *)
WindowsApart ==
  /\ budget.amended \subseteq windows
  /\ \A v, w \in windows : v /= w => (v.to <= w.from \/ w.to <= v.from)

(* The budget is extended by the exact sum of the windows added to it, each *)
(* once (reconcileFeatureRuntimeSuspension).                                *)
ExtendedByWindows ==
  /\ budget.extra = MapThenSumSet(LAMBDA w : w.to - w.from, budget.amended)
  /\ WindowsApart

(* Every recorded window is added to the budget in the end, unless its      *)
(* command was refused: a window passed over because an invocation was      *)
(* running "is amended after that invocation becomes terminal".             *)
EveryWindowCompensated ==
  <>[]up => \A f, t \in 0 .. MaxTime :
    (Window(f, t) \in windows) ~> (Window(f, t) \in budget.amended \cup budget.burnt)
=============================================================================
