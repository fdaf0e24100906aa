---------------------------- MODULE ReleasePlan ----------------------------
(***************************************************************************)
(* The release of a completed story: a plan of ordered fast-forward merges  *)
(* is created, qualified, executed one merge at a time and finalized        *)
(* (kernel/release.go); the coordinator persists the intent to merge before *)
(* it asks the provider and records what the provider answered, or UNKNOWN, *)
(* which must be reconciled before the next attempt                         *)
(* (application/release_coordinator.go); the provider moves the base branch *)
(* of a bare Git repository (adapters/gitprovider/provider.go).             *)
(*                                                                          *)
(* A caller repeats an operation it does not know the end of: the command   *)
(* handler answers a repeated command with its first receipt (KernelDecision),*)
(* so a repeated request goes on to ask the provider again.  A commit is the *)
(* set of changes it contains: planned change n contains those before it,   *)
(* anybody else's change is Foreign; a tree is named by the same set.     *)
(***************************************************************************)
EXTENDS Integers, FiniteSets

CONSTANTS Callers,
          Merges,          \* the number of ordered merges of the plan
          RoundLimit,      \* ExecutionRoundLimit
          None,
          MaxRevision      \* bound

VARIABLES story,    \* phase of the story
          plan,     \* the release plan, or None
          op,       \* per caller: the operation it carries out, or None
          receipt,  \* the commands decided: <<kind, revision of the plan it was made for>>
          ref,      \* the changes the base branch contains
          usable    \* the qualified Git version and the planned refs are in place

vars == <<story, plan, op, receipt, ref, usable>>

Head(n) == 1 .. n
QualifiedTree == Head(Merges)
Foreign == 0
Planned == plan /= None

-----------------------------------------------------------------------------
(* The plan.                                                                *)

ApproveRelease ==
  /\ story = "COMPLETED" /\ story' = "APPROVED"
  /\ UNCHANGED <<plan, op, receipt, ref, usable>>

ReleasePlanFromCreatePayload(mode) ==
  [mode |-> mode, state |-> "PLANNED", next |-> 1, round |-> 1, active |-> 0,
   tree |-> {}, rev |-> 1, asked |-> {}]

Create(mode) ==
  /\ story = "APPROVED" /\ ~ Planned
  /\ plan' = ReleasePlanFromCreatePayload(mode)
  /\ UNCHANGED <<story, op, receipt, ref, usable>>

Qualify ==
  /\ Planned
  /\ plan.mode = "CODE" /\ plan.state = "PLANNED"
  /\ plan' = [plan EXCEPT !.state = "QUALIFIED", !.rev = @ + 1]
  /\ UNCHANGED <<story, op, receipt, ref, usable>>

(* Mutated: an uncertain answer counts as done.                             *)
applyUncertainAsMerged(p, o, tree) ==
  IF o = "FAILED" THEN [p EXCEPT !.state = "FAILED", !.active = 0, !.rev = @ + 1]
  ELSE [p EXCEPT !.state = "QUALIFIED", !.tree = QualifiedTree, !.next = @ + 1, !.round = 1, !.active = 0, !.rev = @ + 1]

(* What an outcome makes of the plan; an attempt that failed is repeated    *)
(* until the rounds are used up.                                            *)
applyReleaseOutcome(p, o, tree) ==
  CASE o = "UNKNOWN" -> [p EXCEPT !.state = "RECONCILING", !.rev = @ + 1]
    [] o \in {"MERGED", "ALREADY_MERGED"} ->
         [p EXCEPT !.state = "QUALIFIED", !.tree = tree, !.next = @ + 1, !.round = 1, !.active = 0, !.rev = @ + 1]
    [] o = "FAILED" -> [p EXCEPT !.active = 0, !.rev = @ + 1,
                                 !.state = IF p.active >= RoundLimit THEN "FAILED" ELSE "QUALIFIED",
                                 !.round = IF p.active >= RoundLimit THEN @ ELSE p.active + 1]

Finalize ==
  /\ Planned
  /\ \/ /\ plan.mode = "CODE" /\ plan.state = "QUALIFIED" /\ plan.next = Merges + 1
        /\ plan.tree = QualifiedTree
        /\ plan' = [plan EXCEPT !.state = "READY_FOR_ACCEPTANCE", !.rev = @ + 1]
     \/ /\ plan.mode = "NO_RELEASE_REQUIRED" /\ plan.state = "PLANNED"
        /\ plan' = [plan EXCEPT !.state = "NO_RELEASE_REQUIRED", !.rev = @ + 1]
  /\ UNCHANGED <<story, op, receipt, ref, usable>>

RequestAcceptance ==
  /\ Planned /\ story = "APPROVED"
  /\ plan.state \in {"READY_FOR_ACCEPTANCE", "NO_RELEASE_REQUIRED"}
  /\ story' = "ACCEPTED"
  /\ UNCHANGED <<plan, op, receipt, ref, usable>>

-----------------------------------------------------------------------------
(* The provider.                                                            *)

Observation(o, at) == [outcome |-> o, tree |-> IF o \in {"MERGED", "ALREADY_MERGED"} THEN at ELSE {}]

(* What an inspection of a branch that stands at `at' says of change n, and *)
(* whether that ends the merge (`exact': the branch is at the change).      *)
inspect(n, at, exact) ==
  IF ~ usable THEN [outcome |-> "FAILED", terminal |-> TRUE]
  ELSE IF at = Head(n) THEN [outcome |-> exact, terminal |-> TRUE]
  ELSE IF n \in at THEN [outcome |-> "ALREADY_MERGED", terminal |-> TRUE]
  ELSE [outcome |-> "FAILED", terminal |-> ~ (at \subseteq Head(n))]

(* The answer of a merge, once it is known.                                 *)
Answer(c, o) == op' = [op EXCEPT ![c].at = "record", ![c].seen = o]

(* Merge inspects first; any call of Git may fail.                          *)
Inspect(c) ==
  /\ op[c] /= None
  /\ op[c].at = "merge"
  /\ LET seen == inspect(op[c].merge, ref, "ALREADY_MERGED")
     IN  \/ Answer(c, Observation("UNKNOWN", ref))
         \/ seen.terminal /\ Answer(c, Observation(seen.outcome, ref))
         \/ ~ seen.terminal /\ op' = [op EXCEPT ![c].at = "update", ![c].current = ref]
  /\ UNCHANGED <<story, plan, receipt, ref, usable>>

(* The update names the commit it was decided on, which may have been left  *)
(* behind by a push; it may also fail, with or without effect.              *)
updateRef(current, n) == IF ref = current THEN {ref, Head(n)} ELSE {ref}

(* The update, and a second inspection of what it left, which may fail too. *)
Merge(c) ==
  /\ op[c] /= None
  /\ op[c].at = "update"
  /\ ref' \in updateRef(op[c].current, op[c].merge)
  /\ \E o \in {"UNKNOWN", inspect(op[c].merge, ref', "MERGED").outcome} : Answer(c, Observation(o, ref'))
  /\ UNCHANGED <<story, plan, receipt, usable>>

-----------------------------------------------------------------------------
(* The coordinator: ExecuteNext.                                            *)

releaseProviderRequest ==
  Planned /\ plan.mode = "CODE" /\ plan.next <= Merges

Begin(c) ==
  /\ op[c] = None /\ releaseProviderRequest
  /\ plan.state = "QUALIFIED" /\ plan.rev < MaxRevision
  /\ op' = [op EXCEPT ![c] = [kind |-> "execute", at |-> "request", rev |-> plan.rev, merge |-> plan.next,
                              round |-> plan.round, current |-> {}, seen |-> None]]
  /\ UNCHANGED <<story, plan, receipt, ref, usable>>

(* The request is applied, or it repeats one that was: otherwise its plan   *)
(* has moved and the operation ends.                                        *)
Request(c) ==
  /\ op[c] /= None
  /\ op[c].at = "request"
  /\ \/ /\ <<"request", op[c].rev>> \in receipt
        /\ op' = [op EXCEPT ![c].at = "merge"] /\ UNCHANGED <<plan, receipt>>
     \/ /\ <<"request", op[c].rev>> \notin receipt
        /\ plan.rev = op[c].rev /\ plan.state = "QUALIFIED"
        /\ plan' = [plan EXCEPT !.state = "EXECUTING", !.active = op[c].round, !.rev = @ + 1, !.asked = @ \cup {op[c].merge}]
        /\ receipt' = receipt \cup {<<"request", op[c].rev>>}
        /\ op' = [op EXCEPT ![c].at = "merge"]
     \/ /\ <<"request", op[c].rev>> \notin receipt /\ plan.rev /= op[c].rev
        /\ op' = [op EXCEPT ![c] = None] /\ UNCHANGED <<plan, receipt>>
  /\ UNCHANGED <<story, ref, usable>>

(* The answer is recorded once for the attempt; a repeated operation gets   *)
(* the first receipt.                                                       *)
Record(c) ==
  /\ op[c] /= None
  /\ op[c].kind = "execute" /\ op[c].at = "record"
  /\ IF plan.rev = op[c].rev + 1 /\ plan.state = "EXECUTING"
     THEN plan' = applyReleaseOutcome(plan, op[c].seen.outcome, op[c].seen.tree)
     ELSE UNCHANGED plan
  /\ op' = [op EXCEPT ![c] = None]
  /\ UNCHANGED <<story, receipt, ref, usable>>

-----------------------------------------------------------------------------
(* The coordinator: Reconcile asks again and never merges.                  *)

Reconcile(c) ==
  /\ op[c] = None /\ releaseProviderRequest
  /\ plan.state = "RECONCILING" /\ plan.rev < MaxRevision
  /\ \E o \in {inspect(plan.next, ref, "MERGED").outcome, "UNKNOWN"} :
       op' = [op EXCEPT ![c] = [kind |-> "reconcile", at |-> "record", rev |-> plan.rev, merge |-> plan.next,
                                round |-> plan.active, current |-> {}, seen |-> Observation(o, ref)]]
  /\ UNCHANGED <<story, plan, receipt, ref, usable>>

RecordReconciliation(c) ==
  /\ op[c] /= None
  /\ op[c].kind = "reconcile" /\ op[c].at = "record"
  /\ IF plan.rev = op[c].rev /\ plan.state = "RECONCILING"
     THEN plan' = applyReleaseOutcome(plan, op[c].seen.outcome, op[c].seen.tree)
     ELSE UNCHANGED plan
  /\ op' = [op EXCEPT ![c] = None]
  /\ UNCHANGED <<story, receipt, ref, usable>>

-----------------------------------------------------------------------------
(* The caller loses track of an execution and repeats it from the start; a  *)
(* lost reconciliation is begun anew.                                       *)
Repeat(c) ==
  /\ op[c] /= None
  /\ op[c].at /= "request"
  /\ op' = [op EXCEPT ![c] = IF op[c].kind = "execute" THEN [op[c] EXCEPT !.at = "request", !.current = {}, !.seen = None] ELSE None]
  /\ UNCHANGED <<story, plan, receipt, ref, usable>>

(* Someone else pushes to the base branch.                                  *)
Push == ref' = ref \cup {Foreign} /\ ref' /= ref /\ UNCHANGED <<story, plan, op, receipt, usable>>

(* The installed Git or a planned reference is changed, or put right.       *)
Tamper == usable' = ~ usable /\ UNCHANGED <<story, plan, op, receipt, ref>>

Init ==
  /\ story = "COMPLETED" /\ plan = None /\ op = [c \in Callers |-> None]
  /\ receipt = {} /\ ref = {} /\ usable = TRUE

Next ==
  \/ ApproveRelease \/ Qualify \/ Finalize \/ RequestAcceptance \/ Push \/ Tamper
  \/ \E mode \in {"CODE", "NO_RELEASE_REQUIRED"} : Create(mode)
  \/ \E c \in Callers : Begin(c) \/ Request(c) \/ Inspect(c) \/ Merge(c) \/ Record(c)
                        \/ Reconcile(c) \/ RecordReconciliation(c) \/ Repeat(c)

Spec == Init /\ [][Next]_vars

-----------------------------------------------------------------------------
(* Properties.                                                              *)

(* The provider is never asked for a change whose intent is not persisted:  *)
(* a planned change on the base branch was requested by an event of the     *)
(* plan, however its attempts, answers and repetitions were ordered         *)
(* (ExecuteNext).                                                           *)
IntentBeforeEffect == \A n \in 1 .. Merges : n \in ref => (Planned /\ n \in plan.asked)

(* Whatever answers were lost or repeated, the plan only goes past a merge  *)
(* the base branch really contains, and a release is finished with exactly  *)
(* the tree that was qualified (applyReleaseOutcome, inspect).              *)
PlanFollowsBranch ==
  Planned =>
    /\ \A n \in 1 .. Merges : n < plan.next => n \in ref
    /\ plan.state = "READY_FOR_ACCEPTANCE" => (plan.tree = QualifiedTree /\ QualifiedTree \subseteq ref)
=============================================================================
