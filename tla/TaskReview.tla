----------------------------- MODULE TaskReview -----------------------------
(***************************************************************************)
(* The review on which a finished attempt completes its task                *)
(* (operationalruntime/task_completion.go: completeEvidenceTask and         *)
(* finalizeTaskReview; completion_review_recovery.go).  A pass submits one  *)
(* command after the other and may stop between any two; the next pass      *)
(* derives the same identities and replays what was already accepted.       *)
(*                                                                          *)
(* A review is identified by its evidence, which is that of the attempts    *)
(* plus one receipt per earlier review of the candidate that timed out: the *)
(* n-th review has n - 1 receipts.  All its branches have the deadline      *)
(* postExecutionReviewDeadline computes from the attempts, so every review  *)
(* of a candidate has the same one.                                         *)
(***************************************************************************)
EXTENDS Integers, Sequences, FiniteSets

CONSTANTS Validators,     \* the validators of a task that has some
          Evidence,       \* the branch of a task completed on its evidence
          EvidenceLimit,  \* receipts a review can carry
          Deadline, None, MaxTime

VARIABLES verdict,    \* per branch: what its validator found
          reviews,    \* per identity: results, final status, receipt
          pass,       \* [pc, id], or None between passes
          completed,  \* the review that completed the task, or None
          now

vars == <<verdict, reviews, pass, completed, now>>

Branches == DOMAIN verdict
New == [result |-> [b \in Branches |-> None], at |-> [b \in Branches |-> None], final |-> None, receipt |-> FALSE]
TimedOut(r) == r.final = "BLOCKED" /\ \E b \in Branches : r.result[b] = "POLICY_TIMEOUT"
Missing(r) == {b \in Branches : r.result[b] = None}
Receipts == Cardinality({k \in DOMAIN reviews : reviews[k].receipt})
Unfinished == {k \in DOMAIN reviews : reviews[k].final = None}
Unreceipted == {k \in DOMAIN reviews : TimedOut(reviews[k]) /\ ~reviews[k].receipt}
Goto(pc, id) == pass' = [pc |-> pc, id |-> id]
Stop == pass' = None
At(pc) == pass /= None /\ pass.pc = pc
Status == IF \A b \in Branches : verdict[b] = "PASS" THEN "PASS" ELSE "FAIL"

reusableFinalizedTaskReview == {k \in DOMAIN reviews : reviews[k].final = "PASS"}

(* finalizeTaskReview resumes the review that is open, and completes on one *)
(* that has passed; otherwise the evidence is prepared.                     *)
Begin ==
  /\ pass = None /\ completed = None
  /\ \A k \in DOMAIN reviews : reviews[k].final /= "FAIL"
  /\ \/ \E k \in reusableFinalizedTaskReview : Goto("complete", k)
     \/ /\ reusableFinalizedTaskReview = {}
        /\ IF Evidence \notin Branches /\ Unfinished /= {}
           THEN Goto("open", CHOOSE k \in Unfinished : TRUE) ELSE Goto("prepare", 0)
  /\ UNCHANGED <<verdict, reviews, completed, now>>

(* ensureCompletionReviewTimeoutEvidence, for each closed review.           *)
RegisterReceipt(k) ==
  /\ At("prepare") /\ k \in Unreceipted
  /\ reviews' = [reviews EXCEPT ![k].receipt = TRUE]
  /\ UNCHANGED <<verdict, pass, completed, now>>

Expired(r) == Missing(r) /= {} /\ now > Deadline

(* Mutated: an unfinished review does not stand in the way of the next.     *)
PassedOver == Goto("open", Len(reviews) + 1)

(* recoverExpiredCompletionReviews: an unfinished review is closed if its   *)
(* deadline has passed, resumed if it is the one this evidence identifies,  *)
(* and otherwise in the way.                                                *)
recoverExpiredCompletionReviews ==
  CASE Receipts > EvidenceLimit -> Stop
    [] Receipts <= EvidenceLimit /\ Unfinished = {} -> Goto("open", Receipts + 1)
    [] OTHER -> \E k \in Unfinished :
                  IF Expired(reviews[k]) THEN Goto("close", k) ELSE IF k = Receipts + 1 THEN Goto("open", k) ELSE Stop
prepareCompletionReview ==
  /\ At("prepare") /\ Unreceipted = {}
  /\ recoverExpiredCompletionReviews
  /\ UNCHANGED <<verdict, reviews, completed, now>>

(* closeExpiredCompletionReview: policy times every missing branch out,     *)
(* then finalizes.                                                          *)
closeExpiredCompletionReview(b) ==
  /\ At("close")
  /\ LET k == pass.id IN
     IF Missing(reviews[k]) /= {}
     THEN /\ b \in Missing(reviews[k]) /\ now > Deadline
          /\ reviews' = [reviews EXCEPT ![k].result[b] = "POLICY_TIMEOUT", ![k].at[b] = now]
          /\ UNCHANGED pass
     ELSE /\ reviews' = [reviews EXCEPT ![k].final = "BLOCKED"]
          /\ Goto("prepare", 0)
  /\ UNCHANGED <<verdict, completed, now>>

Open ==
  /\ At("open")
  /\ reviews' = IF pass.id \in DOMAIN reviews THEN reviews ELSE Append(reviews, New)
  /\ Goto("record", pass.id)
  /\ UNCHANGED <<verdict, completed, now>>

(* A result is refused after the deadline, and where policy was faster.     *)
Record(b) ==
  /\ At("record")
  /\ LET r == reviews[pass.id] IN
     CASE r.result[b] = None /\ now <= Deadline ->
            reviews' = [reviews EXCEPT ![pass.id].result[b] = "VALIDATOR", ![pass.id].at[b] = now] /\ UNCHANGED pass
       [] Missing(r) = {} /\ \A c \in Branches : r.result[c] = "VALIDATOR" -> Goto("finalize", pass.id) /\ UNCHANGED reviews
       [] Missing(r) /= {} /\ now <= Deadline -> FALSE
       [] OTHER -> Stop /\ UNCHANGED reviews
  /\ UNCHANGED <<verdict, completed, now>>

Finalize ==
  /\ At("finalize")
  /\ reviews' = [reviews EXCEPT ![pass.id].final = Status]
  /\ IF Status = "PASS" THEN Goto("complete", pass.id) ELSE Stop
  /\ UNCHANGED <<verdict, completed, now>>

(* completeTaskFromFinalizedReview: the owner's role answers for it.        *)
Complete ==
  /\ At("complete")
  /\ completed' = pass.id /\ Stop
  /\ UNCHANGED <<verdict, reviews, now>>

(* The daemon stops, a role is not running or the store does not answer.    *)
Crash == pass /= None /\ Stop /\ UNCHANGED <<verdict, reviews, completed, now>>
Tick == now < MaxTime /\ now' = now + 1 /\ UNCHANGED <<verdict, reviews, pass, completed>>

Init ==
  /\ verdict \in [{Evidence} -> {"PASS"}] \cup [Validators -> {"PASS", "FAIL"}]
  /\ reviews = <<>> /\ pass = None /\ completed = None /\ now = 0

Pass ==
  \/ Begin \/ prepareCompletionReview \/ Open \/ Finalize \/ Complete
  \/ \E k \in DOMAIN reviews : RegisterReceipt(k)
  \/ \E b \in Branches : closeExpiredCompletionReview(b) \/ Record(b)
Next == Pass \/ Crash \/ Tick
Spec == Init /\ [][Next]_vars

(* The daemon may be down for long, but it is up in the end.                *)
FairSpec == Init /\ [][Pass \/ Tick]_vars /\ WF_vars(Pass)

-----------------------------------------------------------------------------
(* The reviews of a candidate follow one another: each but the last was     *)
(* closed by policy after the deadline, and its receipt is evidence of the  *)
(* next; the task is completed on a review every validator passed in time.  *)
ReviewsInSuccession ==
  /\ \A k \in DOMAIN reviews : k < Len(reviews) => TimedOut(reviews[k]) /\ reviews[k].receipt
  /\ \A k \in DOMAIN reviews, b \in Branches :
       (reviews[k].result[b] = "VALIDATOR") <=> (reviews[k].at[b] /= None /\ reviews[k].at[b] <= Deadline)
  /\ completed /= None =>
       \A b \in Branches : reviews[completed].result[b] = "VALIDATOR" /\ verdict[b] = "PASS"

(* Work all validators passed is completed, however long the daemon was     *)
(* down in between.                                                         *)
FinishedWorkIsCompleted == (\A b \in Branches : verdict[b] = "PASS") ~> (completed /= None)
=============================================================================
