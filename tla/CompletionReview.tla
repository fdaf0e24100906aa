-------------------------- MODULE CompletionReview --------------------------
(***************************************************************************)
(* Completion reviews: a review of one candidate is opened for active work, *)
(* its branches are answered by validators, corrected by them or by the     *)
(* adjudicator, closed by policy when a deadline has passed, joined and     *)
(* finalized; only a finalized PASS of the work's epoch completes it        *)
(* (kernel/coordination.go, validation.go, completion.go and the review     *)
(* cases of decision_policy.go).                                            *)
(*                                                                          *)
(* A command is decided and committed in one step: opening and completing   *)
(* are guarded by the revision of the work, recording and finalizing by the *)
(* revision of the review, and a finalized review never changes, so nothing *)
(* a decision reads can move before its commit.  A result is identified by  *)
(* the review's revision that it makes, which is the revision of its event. *)
(* The lifecycle epoch stands for the scope revision and the profile, which *)
(* a reopening moves with it.                                               *)
(***************************************************************************)
EXTENDS Integers, FiniteSets

CONSTANTS Reviews,      \* review identities
          Branches,     \* the branches a review may ask, each with its validator
          Candidates,   \* digests of candidate artifacts
          Evidence,     \* digests of evidence sets
          Results,      \* validReviewResult: the results a branch may have
          RoundLimit, AdjudicationLimit,          \* rounds per branch and of adjudication
          BranchDeadline, AdjudicationDeadline,   \* after the opening of any review
          None,
          MaxEpoch, MaxTime, MaxRevision          \* bounds

VARIABLES work,     \* the subject: its phase, whether it is runnable, its epoch
          review,   \* per identity: the review, or None
          now       \* the clock

vars == <<work, review, now>>

Opened(r) == review[r] /= None
Roles == {"VALIDATOR", "ADJUDICATOR", "POLICY_TIMEOUT"}
Policies == {"WAIT_ALL", "FAIL_FAST"}
Severity == <<"FAIL", "BLOCKED", "INCONCLUSIVE", "CANCELLED", "SUPERSEDED">>

-----------------------------------------------------------------------------
(* The join.                                                                *)

(* The first result of the severity order that some branch has, or PASS.    *)
deterministicReviewFailure(observed) ==
  LET has == {i \in DOMAIN Severity : \E b \in DOMAIN observed : observed[b] = Severity[i]}
  IN  IF has = {} THEN "PASS" ELSE Severity[CHOOSE i \in has : \A j \in has : i <= j]

(* Mutated: an unanswered branch counts as passed.                          *)
JoinWithoutWaiting(required, policy, observed) ==
  [complete |-> TRUE, status |-> deterministicReviewFailure(observed)]

EvaluateReviewJoin(required, policy, observed) ==
  LET worst == deterministicReviewFailure(observed) IN
  IF worst /= "PASS" /\ policy = "FAIL_FAST" THEN [complete |-> TRUE, status |-> worst]
  ELSE IF DOMAIN observed /= required THEN [complete |-> FALSE, status |-> "PENDING"]
  ELSE [complete |-> TRUE, status |-> worst]

Recorded(v) == {b \in v.required : v.record[b] /= None}
Observed(v) == [b \in Recorded(v) |-> v.record[b].result]

-----------------------------------------------------------------------------
(* Opening.                                                                 *)

Key(v) == <<v.epoch, v.evidence>>

CompletionReviewFromPayload(required, policy, c, e) ==
  [epoch |-> work.epoch, evidence |-> e, required |-> required, policy |-> policy, candidate |-> c,
   record |-> [b \in required |-> None], known |-> {}, rev |-> 1, final |-> None,
   deadline |-> now + BranchDeadline, adjudication |-> now + AdjudicationDeadline,
   join |-> EvaluateReviewJoin(required, policy, <<>>)]

(* The planner also asks that the work is runnable, the kernel only that it *)
(* is active; a review key is used once for ever.                           *)
PlanValidationReview(r, required) ==
  work.phase = "ACTIVE" /\ work.runnable /\ required /= {} /\ ~ Opened(r)
KeyFree(e) == \A r \in Reviews : Opened(r) => Key(review[r]) /= <<work.epoch, e>>

Open(r, required, policy, c, e) ==
  /\ PlanValidationReview(r, required) /\ KeyFree(e)
  /\ review' = [review EXCEPT ![r] = CompletionReviewFromPayload(required, policy, c, e)]
  /\ UNCHANGED <<work, now>>

-----------------------------------------------------------------------------
(* Recording a result.                                                      *)

(* Who may answer a branch, in which round and when: its validator and the  *)
(* adjudicator up to their deadlines, policy after the branch's.            *)
SourceRoleAdmits(v, x) ==
  CASE x.role = "VALIDATOR" -> x.by = x.branch /\ x.round <= RoundLimit /\ now <= v.deadline
    [] x.role = "ADJUDICATOR" -> x.by = "adjudicator" /\ x.round <= AdjudicationLimit /\ now <= v.adjudication
    [] x.role = "POLICY_TIMEOUT" -> x.by = "policy" /\ now > v.deadline /\ x.result \in {"BLOCKED", "CANCELLED"}

(* A later result names exactly the result it replaces, and in its own role *)
(* comes in a later round.                                                  *)
Supersession(v, x) ==
  LET prior == v.record[x.branch] IN
  IF prior = None THEN x.supersedes = 0
  ELSE x.supersedes = prior.event /\ (x.role = prior.role => x.round > prior.round)

(* RequiredSeparationProven: an answer by the implementer is none.          *)
Independent(x) == x.role = "POLICY_TIMEOUT" \/ x.by /= "implementer"

(* Mutated: a result is still accepted after the verdict.                   *)
ReasonAfterVerdict(v, x) ==
  x.branch \in v.required /\ x.candidate = v.candidate /\ SourceRoleAdmits(v, x) /\ Supersession(v, x)

BoundedReviewResultReason(v, x) ==
  /\ v.final = None
  /\ x.branch \in v.required
  /\ x.candidate = v.candidate
  /\ Independent(x)
  /\ SourceRoleAdmits(v, x)
  /\ Supersession(v, x)

ApplyBoundedReviewBranchResult(v, x) ==
  LET recorded == [v EXCEPT !.record[x.branch] =
                     [result |-> x.result, role |-> x.role, round |-> x.round, event |-> v.rev + 1,
                      candidate |-> x.candidate],
                     !.known = @ \cup {v.rev + 1}, !.rev = @ + 1]
  IN  [recorded EXCEPT !.join = EvaluateReviewJoin(v.required, v.policy, Observed(recorded))]

Answers(v) ==
  [branch : v.required, role : Roles, by : v.required \cup {"adjudicator", "policy", "implementer"},
   round : 1 .. (RoundLimit + 1), result : Results, candidate : Candidates, supersedes : {0} \cup v.known]

RecordResult(r) ==
  /\ Opened(r) /\ review[r].rev < MaxRevision
  /\ \E x \in Answers(review[r]) :
       /\ BoundedReviewResultReason(review[r], x)
       /\ review' = [review EXCEPT ![r] = ApplyBoundedReviewBranchResult(review[r], x)]
  /\ UNCHANGED <<work, now>>

-----------------------------------------------------------------------------
(* Finalizing, completing, reopening.                                       *)

Current(v) == {v.record[b].event : b \in Recorded(v)}

(* The payload of a finalization was prepared from some earlier reading of  *)
(* the review: its revision, the results it names and its status.           *)
ApplyReviewFinalization(v, expected, events, status) ==
  /\ v.final = None
  /\ expected = v.rev /\ v.join.complete /\ status = v.join.status
  /\ events = Current(v)

Finalize(r) ==
  /\ Opened(r)
  /\ \E expected \in 1 .. review[r].rev, events \in SUBSET review[r].known,
        status \in Results :
       /\ events /= {}
       /\ ApplyReviewFinalization(review[r], expected, events, status)
       /\ review' = [review EXCEPT ![r].final = [rev |-> expected, status |-> status, events |-> events]]
  /\ UNCHANGED <<work, now>>

acceptedFinalizedReview(v) ==
  /\ v.epoch = work.epoch
  /\ v.final /= None => v.final.rev = v.rev /\ v.final.status = "PASS"
  /\ v.final /= None

PlanCompletion(v) ==
  /\ work.phase = "ACTIVE" /\ work.runnable
  /\ acceptedFinalizedReview(v)
  /\ v.join = [complete |-> TRUE, status |-> "PASS"]

Complete(r) ==
  /\ Opened(r)
  /\ PlanCompletion(review[r])
  /\ work' = [work EXCEPT !.phase = "COMPLETED"]
  /\ UNCHANGED <<review, now>>

Reopen ==
  /\ work.phase = "COMPLETED" /\ work.epoch < MaxEpoch
  /\ work' = [phase |-> "ACTIVE", runnable |-> TRUE, epoch |-> work.epoch + 1]
  /\ UNCHANGED <<review, now>>

(* Work is blocked and unblocked by its own commands (WorkLifecycle).       *)
SetRunnable ==
  /\ work.phase = "ACTIVE"
  /\ work' = [work EXCEPT !.runnable = ~ @]
  /\ UNCHANGED <<review, now>>

Tick == now < MaxTime /\ now' = now + 1 /\ UNCHANGED <<work, review>>

-----------------------------------------------------------------------------
Init ==
  /\ work = [phase |-> "ACTIVE", runnable |-> TRUE, epoch |-> 1]
  /\ review = [r \in Reviews |-> None]
  /\ now = 0

Next ==
  \/ \E r \in Reviews, required \in SUBSET Branches, policy \in Policies, c \in Candidates, e \in Evidence :
       Open(r, required, policy, c, e)
  \/ \E r \in Reviews : RecordResult(r) \/ Finalize(r) \/ Complete(r)
  \/ Reopen \/ SetRunnable \/ Tick

Spec == Init /\ [][Next]_vars

-----------------------------------------------------------------------------
(* Properties.                                                              *)

(* Completed work was passed in its own epoch: by a review of that epoch    *)
(* that was finalized at its last revision, each of whose branches was last *)
(* answered PASS for the reviewed candidate by someone, not by a timeout    *)
(* (acceptedFinalizedReview, EvaluateReviewJoin).                           *)
CompletedWorkWasPassed ==
  work.phase = "COMPLETED" =>
    \E r \in Reviews :
      /\ Opened(r)
      /\ review[r].epoch = work.epoch /\ review[r].final /= None
      /\ \A b \in review[r].required :
           LET last == review[r].record[b] IN
           last /= None /\ last.result = "PASS" /\ last.role /= "POLICY_TIMEOUT"
                        /\ last.candidate = review[r].candidate

(* A verdict is the join of the results it names, whatever the order they   *)
(* came in and whatever was corrected before: it names the last result of   *)
(* each answered branch, and its status is theirs                           *)
(* (ApplyReviewFinalization, ApplyBoundedReviewBranchResult).               *)
VerdictIsOfLastResults ==
  \A r \in Reviews : (Opened(r) /\ review[r].final /= None) =>
    LET v == review[r]
        results == {v.record[b].result : b \in Recorded(v)} IN
    /\ v.final.events = Current(v) /\ v.final.rev = v.rev
    /\ (v.final.status = "PASS") <=> (results = {"PASS"} /\ Recorded(v) = v.required)
    /\ "FAIL" \in results => v.final.status = "FAIL"
=============================================================================
