----------------------------- MODULE Governance -----------------------------
(***************************************************************************)
(* What governs work: reviews, releases, escalations, variant groups, human *)
(* interactions, execution control, team continuity and host suspension.    *)
(* They share no state in the code, so a behaviour is one of any of them:   *)
(* subject says which.  A variable that two of them have stands for the     *)
(* one of the component at work; the others are None.                       *)
(***************************************************************************)
EXTENDS Integers, FiniteSets

CONSTANTS None

CONSTANTS Reviews, Branches, Artifacts, Evidence, ReviewResults, \* CompletionReview
          ReviewRounds, AdjudicationRounds, BranchDeadline, AdjudicationDeadline,
          MaxReviewEpoch, MaxReviewTime, MaxReviewRevision

CONSTANTS Callers, Merges, ExecutionRounds, MaxPlanRevision     \* ReleasePlan

CONSTANTS Escalations, Conditions, EscalationRounds, EscalationDeadline,
          MaxEscalationEpoch, MaxEscalationTime                 \* Escalation

CONSTANTS Candidates, Authors, Isolations, Comparator, Count, Replacements, Quorum,
          SubmissionDeadline, DecisionDeadline, MaxVariantTime  \* VariantGroup

CONSTANTS Humans, MaxProfile, MaxInteractionRevision            \* HumanInteraction

CONSTANTS Keys, Actors, ActorOf(_), MaxActiveTotal, MaxActivePerActor,
          MaxReconciliations, MaxVersion                        \* ExecutionControl

CONSTANTS Coordinators, Executions, Cost(_), MaxPowerEpoch, MaxSetBacks  \* TeamContinuity

CONSTANTS Threshold, Allowance, MaxRuntimeTime                  \* RuntimeContinuity

VARIABLES subject,
          work, review, now,                              \* CompletionReview
          story, plan, op, receipt, ref, usable,          \* ReleasePlan
          esc,                                            \* Escalation
          group,                                          \* VariantGroup
          profile, interaction,                           \* HumanInteraction
          record, engine, pending, caller, asked,         \* ExecutionControl
          team, dep, task, late, back,                    \* TeamContinuity
          up, session, windows, todo, inv, check, budget  \* RuntimeContinuity

Review == INSTANCE CompletionReview WITH
  Candidates <- Artifacts, Results <- ReviewResults, RoundLimit <- ReviewRounds, AdjudicationLimit <- AdjudicationRounds,
  MaxEpoch <- MaxReviewEpoch, MaxTime <- MaxReviewTime, MaxRevision <- MaxReviewRevision

Release == INSTANCE ReleasePlan WITH RoundLimit <- ExecutionRounds, MaxRevision <- MaxPlanRevision

Escalate == INSTANCE Escalation WITH
  RoundLimit <- EscalationRounds, Deadline <- EscalationDeadline,
  MaxEpoch <- MaxEscalationEpoch, MaxTime <- MaxEscalationTime

Variant == INSTANCE VariantGroup WITH Actors <- Authors, MaxTime <- MaxVariantTime

Human == INSTANCE HumanInteraction WITH MaxRevision <- MaxInteractionRevision

Control == INSTANCE ExecutionControl

Team == INSTANCE TeamContinuity WITH MaxEpoch <- MaxPowerEpoch

Runtime == INSTANCE RuntimeContinuity WITH MaxTime <- MaxRuntimeTime

-----------------------------------------------------------------------------
(* What is stored, and what the constants are.                              *)

ResultType == [result : ReviewResults, role : Review!Roles, round : Nat, event : Nat, candidate : Artifacts]
ReviewType ==
  [epoch : Nat, evidence : Evidence, required : SUBSET Branches, policy : Review!Policies, candidate : Artifacts,
   record : UNION {[S -> ResultType \cup {None}] : S \in SUBSET Branches}, known : SUBSET Nat, rev : Nat,
   final : [rev : Nat, status : ReviewResults, events : SUBSET Nat] \cup {None},
   deadline : Nat, adjudication : Nat, join : [complete : BOOLEAN, status : ReviewResults \cup {"PENDING"}]]

Changes == {Release!Foreign} \cup (1 .. Merges)
PlanType ==
  [mode : {"CODE", "NO_RELEASE_REQUIRED"}, next : Nat, round : Nat, active : Nat, rev : Nat,
   state : {"PLANNED", "QUALIFIED", "EXECUTING", "RECONCILING", "FAILED", "READY_FOR_ACCEPTANCE", "NO_RELEASE_REQUIRED"},
   tree : SUBSET Changes, asked : SUBSET (1 .. Merges)]
ObservationType == [outcome : {"UNKNOWN", "MERGED", "ALREADY_MERGED", "FAILED"}, tree : SUBSET Changes]
OperationType ==
  [kind : {"execute", "reconcile"}, at : {"request", "merge", "update", "record"}, rev : Nat, merge : 1 .. Merges,
   round : Nat, current : SUBSET Changes, seen : ObservationType \cup {None}]

EscalationType ==
  [epoch : Nat, condition : Conditions, deadline : Nat, state : {"OPEN", "TERMINAL"},
   outcome : Escalate!Outcomes \cup {None}, by : {"ADJUDICATOR", "POLICY_TIMEOUT", None}, at : Nat \cup {None}]

CandidateType == [actor : Authors, isolation : Isolations]

AnswerType == [by : Humans, rev : Nat, active : BOOLEAN]
InteractionType ==
  [phase : {"OPEN", "COLLECTING", "SATISFIED", "CLOSED", "EXPIRED"}, rev : Nat,
   selected : UNION {[S -> Nat] : S \in SUBSET Humans}, kind : Human!Policies, quorum : Nat, effect : Human!Effects,
   delivered : SUBSET Humans, answers : SUBSET AnswerType, closedOn : SUBSET Humans,
   resolved : Human!Effects \cup {"AUTHORIZED_EFFECT", None}]

ControlType ==
  [state : {"PENDING_AUTHORIZATION", "AUTHORIZED", "REJECTED", "STARTING", "RUNNING", "STOPPING", "STOPPED", "UNCERTAIN"},
   version : Nat, attempts : Nat]
CallerType ==
  [op : {"start", "stop", "reconcile"}, key : Keys, seen : ControlType,
   at : {"authorize", "authorized", "rejected", "claim", "effect"}]

CoordinationType ==
  [step : {"ready", "authorize", "dispatch"}, fenced : BOOLEAN, epoch : Nat, rev : Nat,
   actor : {Team!Chosen(eligible) : eligible \in (SUBSET Actors) \ {{}}}]

(* Results are those of validReviewResult.                                  *)
ASSUME ResultsAssumption ==
  ReviewResults \subseteq {"PASS", "FAIL", "BLOCKED", "INCONCLUSIVE", "CANCELLED", "SUPERSEDED"}

ASSUME NumbersAssumption ==
  /\ BranchDeadline \in Nat /\ AdjudicationDeadline \in Nat /\ MaxReviewEpoch \in Nat /\ ReviewRounds \in Nat
  /\ Merges \in Nat /\ EscalationDeadline \in Nat /\ EscalationRounds \in Nat
  /\ Quorum \in Nat /\ MaxActiveTotal \in Nat /\ MaxPowerEpoch \in Nat /\ Threshold \in Nat

ASSUME HumansAssumption == IsFiniteSet(Humans)

ASSUME NoneAssumption ==
  /\ None \notin ReviewType \cup ResultType \cup [rev : Nat, status : ReviewResults, events : SUBSET Nat]
  /\ None \notin PlanType \cup OperationType \cup ObservationType
  /\ None \notin EscalationType \cup Escalate!Outcomes \cup CandidateType \cup Variant!Outcomes
  /\ None \notin InteractionType \cup Human!Effects \cup {"AUTHORIZED_EFFECT"}
  /\ None \notin ControlType \cup CallerType \cup CoordinationType \cup {"APPLIED"}

-----------------------------------------------------------------------------
(* The composition.                                                         *)

reviewVars == <<work, review, now>>
releaseVars == <<story, plan, op, receipt, ref, usable>>
humanVars == <<profile, interaction>>
controlVars == <<record, engine, pending, caller, asked>>
teamVars == <<team, dep, task, late, back>>
runtimeVars == <<up, session, windows, todo, inv, check, budget>>
allVars == <<subject, reviewVars, releaseVars, esc, group, humanVars, controlVars, teamVars, runtimeVars>>

NoReview == review = None
NoWork == work = None
NoRelease == story = None /\ plan = None /\ ref = None /\ usable = None
NoEscalation == esc = None
NoVariant == group = None
NoHuman == profile = None /\ interaction = None
NoControl == record = None /\ engine = None /\ pending = None /\ caller = None /\ asked = None
NoTeam == team = None /\ dep = None /\ task = None /\ late = None /\ back = None
NoRuntime == up = None /\ session = None /\ windows = None /\ todo = None /\ inv = None /\ check = None /\ budget = None

Init ==
  \/ /\ subject = "review" /\ Review!Init
     /\ NoRelease /\ op = None /\ receipt = None /\ NoEscalation /\ NoVariant /\ NoHuman /\ NoControl /\ NoTeam /\ NoRuntime
  \/ /\ subject = "release" /\ Release!Init
     /\ NoReview /\ NoWork /\ now = None /\ NoEscalation /\ NoVariant /\ NoHuman /\ NoControl /\ NoTeam /\ NoRuntime
  \/ /\ subject = "escalation" /\ Escalate!Init
     /\ NoReview /\ NoRelease /\ op = None /\ receipt = None /\ NoVariant /\ NoHuman /\ NoControl /\ NoTeam /\ NoRuntime
  \/ /\ subject = "variant" /\ Variant!Init
     /\ NoReview /\ NoWork /\ NoRelease /\ op = None /\ receipt = None /\ NoEscalation /\ NoHuman /\ NoControl /\ NoTeam /\ NoRuntime
  \/ /\ subject = "human" /\ Human!Init
     /\ NoReview /\ NoWork /\ now = None /\ NoRelease /\ op = None /\ receipt = None /\ NoEscalation /\ NoVariant
     /\ NoControl /\ NoTeam /\ NoRuntime
  \/ /\ subject = "control" /\ Control!Init
     /\ NoReview /\ NoWork /\ now = None /\ NoRelease /\ op = None /\ NoEscalation /\ NoVariant /\ NoHuman /\ NoTeam /\ NoRuntime
  \/ /\ subject = "team" /\ Team!Init
     /\ NoReview /\ NoWork /\ now = None /\ NoRelease /\ receipt = None /\ NoEscalation /\ NoVariant /\ NoHuman /\ NoControl /\ NoRuntime
  \/ /\ subject = "runtime" /\ Runtime!Init
     /\ NoReview /\ NoWork /\ NoRelease /\ op = None /\ receipt = None /\ NoEscalation /\ NoVariant /\ NoHuman /\ NoControl /\ NoTeam

ReviewStep == subject = "review" /\ Review!Next
  /\ UNCHANGED <<subject, releaseVars, esc, group, humanVars, controlVars, teamVars, runtimeVars>>
ReleaseStep == subject = "release" /\ Release!Next
  /\ UNCHANGED <<subject, reviewVars, esc, group, humanVars, controlVars, teamVars, runtimeVars>>
EscalationStep == subject = "escalation" /\ Escalate!Next
  /\ UNCHANGED <<subject, review, releaseVars, group, humanVars, controlVars, teamVars, runtimeVars>>
VariantStep == subject = "variant" /\ Variant!Next
  /\ UNCHANGED <<subject, work, review, releaseVars, esc, humanVars, controlVars, teamVars, runtimeVars>>
HumanStep == subject = "human" /\ Human!Next
  /\ UNCHANGED <<subject, reviewVars, releaseVars, esc, group, controlVars, teamVars, runtimeVars>>
ControlStep == subject = "control" /\ Control!Next
  /\ UNCHANGED <<subject, reviewVars, story, plan, op, ref, usable, esc, group, humanVars, teamVars, runtimeVars>>
TeamStep == subject = "team" /\ Team!Next
  /\ UNCHANGED <<subject, reviewVars, story, plan, receipt, ref, usable, esc, group, humanVars, controlVars, runtimeVars>>
RuntimeStep == subject = "runtime" /\ Runtime!Next
  /\ UNCHANGED <<subject, work, review, releaseVars, esc, group, humanVars, controlVars, teamVars>>

Next ==
  \/ ReviewStep \/ ReleaseStep \/ EscalationStep \/ VariantStep
  \/ HumanStep \/ ControlStep \/ TeamStep \/ RuntimeStep

Spec == Init /\ [][Next]_allVars

-----------------------------------------------------------------------------
(* The properties of the components.                                        *)

(* Completed work was passed by its own review: see CompletionReview.       *)
CompletedWorkWasPassed == subject = "review" => Review!CompletedWorkWasPassed

(* A verdict is the join of the last results: see CompletionReview.         *)
VerdictIsOfLastResults == subject = "review" => Review!VerdictIsOfLastResults

(* A plan never runs ahead of the branch, nor the branch ahead of the       *)
(* persisted intent: see ReleasePlan.                                       *)
ReleaseFollowsBranch == subject = "release" => (Release!PlanFollowsBranch /\ Release!IntentBeforeEffect)

(* A condition of an epoch is escalated and decided once: see Escalation.   *)
EscalatedOnce == subject = "escalation" => Escalate!EscalatedOnce

(* What is selected was compared with all: see VariantGroup.                *)
SelectionIsOfAllCompared == subject = "variant" => Variant!SelectionIsOfAllCompared

(* An interaction closes on sufficient answers: see HumanInteraction.       *)
ClosedOnAnswers == subject = "human" => Human!ClosedOnAnswers

(* What runs or may run holds capacity: see ExecutionControl.               *)
RunningHoldsCapacity == subject = "control" => Control!RunningHoldsCapacity

(* A suspended team gets one late command at most, and one more each time   *)
(* its epoch is set back: see TeamContinuity.                               *)
AtMostOneLateCommand == subject = "team" => Team!AtMostOneLateCommand

(* Nothing started is timed out for time the host is seen to have slept,    *)
(* and the budget is extended by each window once: see RuntimeContinuity.   *)
SuspensionExcluded == subject = "runtime" => (Runtime!NoEarlyExpiry /\ Runtime!ExtendedByWindows)
=============================================================================
