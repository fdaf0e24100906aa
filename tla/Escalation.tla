----------------------------- MODULE Escalation -----------------------------
(***************************************************************************)
(* Escalations: policy opens one for a condition of active work; its        *)
(* adjudicator resolves it up to the deadline, policy closes it after       *)
(* (kernel/escalation.go, escalation_planning.go, the escalation cases of   *)
(* decision_policy.go, application/escalation_coordinator.go).              *)
(*                                                                          *)
(* A command is decided and committed in one step: both commands carry the  *)
(* revision of the subject as a precondition, and an escalation has no      *)
(* other writer than its resolution.                                        *)
(***************************************************************************)
EXTENDS Integers

CONSTANTS Escalations, Conditions, RoundLimit, Deadline, None, MaxEpoch, MaxTime

VARIABLES work,   \* the subject: its phase and its epoch
          esc,    \* per identity: the escalation, or None
          now

vars == <<work, esc, now>>

Outcomes == {"RESOLVED", "REJECTED", "SPLIT", "BLOCKED", "HUMAN_REQUIRED"}
Opened(i) == esc[i] /= None
Key(e) == <<e.epoch, e.condition>>

EscalationFromOpenPayload(c) ==
  [epoch |-> work.epoch, condition |-> c, deadline |-> now + Deadline, state |-> "OPEN",
   outcome |-> None, by |-> None, at |-> None]

(* Mutated: only an escalation that is still open counts as equivalent.     *)
OpeningUnlessOpen(c) ==
  /\ work.phase = "ACTIVE"
  /\ \A i \in Escalations : Opened(i) => (Key(esc[i]) /= <<work.epoch, c>> \/ esc[i].state = "TERMINAL")

(* The subject exists, is not terminal, and no escalation was ever opened   *)
(* for the same condition of the same epoch.                                *)
PlanEscalationOpening(c) ==
  /\ work.phase = "ACTIVE"
  /\ \A i \in Escalations : Opened(i) => Key(esc[i]) /= <<work.epoch, c>>

Open(i, c) ==
  /\ ~ Opened(i) /\ PlanEscalationOpening(c)
  /\ esc' = [esc EXCEPT ![i] = EscalationFromOpenPayload(c)]
  /\ UNCHANGED <<work, now>>

EvaluateEscalation(e, role, round, outcome) ==
  /\ e.state /= "TERMINAL"
  /\ \/ role = "ADJUDICATOR" /\ round <= RoundLimit /\ now <= e.deadline
     \/ role = "POLICY_TIMEOUT" /\ now > e.deadline /\ outcome \in {"BLOCKED", "HUMAN_REQUIRED"}

(* The subject is still in the epoch of the escalation and not terminal:    *)
(* an escalation of work that was closed or reopened stays open for ever.   *)
PlanEscalationResolution(e) == work.phase = "ACTIVE" /\ work.epoch = e.epoch

Resolve(i, role, round, outcome) ==
  /\ Opened(i)
  /\ PlanEscalationResolution(esc[i]) /\ EvaluateEscalation(esc[i], role, round, outcome)
  /\ esc' = [esc EXCEPT ![i].state = "TERMINAL", ![i].outcome = outcome, ![i].by = role, ![i].at = now]
  /\ UNCHANGED <<work, now>>

(* The subject is closed and reopened by its own commands.                  *)
MoveSubject ==
  /\ \/ work.phase = "ACTIVE" /\ work' = [work EXCEPT !.phase = "COMPLETED"]
     \/ work.phase = "COMPLETED" /\ work.epoch < MaxEpoch
        /\ work' = [phase |-> "ACTIVE", epoch |-> work.epoch + 1]
  /\ UNCHANGED <<esc, now>>

Tick == now < MaxTime /\ now' = now + 1 /\ UNCHANGED <<work, esc>>

Init ==
  /\ work = [phase |-> "ACTIVE", epoch |-> 1] /\ esc = [i \in Escalations |-> None] /\ now = 0

Next ==
  \/ \E i \in Escalations, c \in Conditions : Open(i, c)
  \/ \E i \in Escalations, role \in {"ADJUDICATOR", "POLICY_TIMEOUT"}, round \in 1 .. (RoundLimit + 1),
        outcome \in Outcomes : Resolve(i, role, round, outcome)
  \/ MoveSubject \/ Tick

Spec == Init /\ [][Next]_vars

-----------------------------------------------------------------------------
(* A condition of an epoch is escalated once and decided once: a second     *)
(* request never gets a second decision, however the first one ended, and   *)
(* whatever a timeout closed was not decided in substance                   *)
(* (PlanEscalationOpening, EvaluateEscalation).                             *)
EscalatedOnce ==
  \A i, j \in Escalations :
    (Opened(i) /\ Opened(j)) =>
      /\ i /= j => Key(esc[i]) /= Key(esc[j])
      /\ (esc[i].outcome \in {"RESOLVED", "REJECTED", "SPLIT"}) => (esc[i].by = "ADJUDICATOR" /\ esc[i].at <= esc[i].deadline)
=============================================================================
