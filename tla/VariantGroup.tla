---------------------------- MODULE VariantGroup ----------------------------
(***************************************************************************)
(* Variant groups: independent candidates for one task are submitted, all   *)
(* of them compared, and one selected, or the group escalated               *)
(* (kernel/variant.go and the variant cases of decision_policy.go).         *)
(*                                                                          *)
(* Every command carries the revision of the group, so each is decided and  *)
(* committed in one step; what a caller prepared from an older reading is   *)
(* an input (the candidates a comparison names).  The independent           *)
(* dimensions of a candidate (execution, context, workspace, artifact) are  *)
(* one: its isolation.                                                      *)
(***************************************************************************)
EXTENDS Integers, FiniteSets

CONSTANTS Candidates, Actors, Isolations, Comparator,
          Count, Replacements, Quorum, SubmissionDeadline, DecisionDeadline, None, MaxTime

VARIABLES group, now

vars == <<group, now>>

Outcomes == {"SELECT_CANDIDATE", "REJECT_ALL", "REDESIGN", "SPLIT", "HUMAN_REQUIRED", "ESCALATE"}
Classes == {"MATERIAL_AGREEMENT", "NON_MATERIAL_VARIATION", "MATERIAL_DISAGREEMENT",
            "INSUFFICIENT_VALID_CANDIDATES", "INCONCLUSIVE"}
Submitted == {c \in Candidates : group.cand[c] /= None}

variantCandidateIndependent(c, actor, isolation) ==
  /\ c \notin Submitted
  /\ \A p \in Submitted : group.cand[p].actor /= actor /\ group.cand[p].isolation /= isolation

SubmitCandidate(c, actor, isolation) ==
  /\ group.state = "OPEN" /\ now <= SubmissionDeadline
  /\ Cardinality(Submitted) < Count + Replacements
  /\ variantCandidateIndependent(c, actor, isolation)
  /\ group' = [group EXCEPT !.cand[c] = [actor |-> actor, isolation |-> isolation]]
  /\ UNCHANGED now

(* Mutated: a comparison may leave out candidates that came after it was    *)
(* prepared.                                                                *)
knownCandidates(named) == named \subseteq Submitted

exactCandidateSet(named) == named = Submitted

RecordComparison(named, class) ==
  /\ group.state = "OPEN" /\ now <= DecisionDeadline
  /\ Cardinality(Submitted) >= Quorum /\ Cardinality(named) >= 2
  /\ exactCandidateSet(named)
  /\ group' = [group EXCEPT !.state = "COMPARED", !.compared = named, !.class = class]
  /\ UNCHANGED now

Selectable(outcome, c) ==
  /\ group.class = "MATERIAL_DISAGREEMENT" => outcome = "ESCALATE"
  /\ outcome = "SELECT_CANDIDATE" => (c \in Submitted /\ group.cand[c].actor /= Comparator)
  /\ outcome /= "SELECT_CANDIDATE" => c = None

Select(outcome, c) ==
  /\ group.state = "COMPARED" /\ now <= DecisionDeadline
  /\ Selectable(outcome, c)
  /\ group' = [group EXCEPT !.state = "TERMINAL", !.outcome = outcome, !.selected = c]
  /\ UNCHANGED now

Tick == now < MaxTime /\ now' = now + 1 /\ UNCHANGED group

VariantGroupFromOpenPayload ==
  [state |-> "OPEN", cand |-> [c \in Candidates |-> None], compared |-> {}, class |-> None,
   outcome |-> None, selected |-> None]

Init == group = VariantGroupFromOpenPayload /\ now = 0

Next ==
  \/ \E c \in Candidates, a \in Actors, i \in Isolations : SubmitCandidate(c, a, i)
  \/ \E named \in SUBSET Candidates, class \in Classes : RecordComparison(named, class)
  \/ \E outcome \in Outcomes, c \in Candidates \cup {None} : Select(outcome, c)
  \/ Tick

Spec == Init /\ [][Next]_vars

-----------------------------------------------------------------------------
(* What is selected won against every candidate that was submitted, each by *)
(* its own actor in isolation of the others, and was not judged by its own  *)
(* author (ApplyVariantEvent): no late or overlapping submission escapes    *)
(* the comparison.                                                          *)
SelectionIsOfAllCompared ==
  group.outcome = "SELECT_CANDIDATE" =>
    /\ group.compared = Submitted /\ group.selected \in Submitted
    /\ Cardinality(Submitted) >= Quorum
    /\ \A c, d \in Submitted : c /= d => (group.cand[c].actor /= group.cand[d].actor
                                          /\ group.cand[c].isolation /= group.cand[d].isolation)
    /\ group.cand[group.selected].actor /= Comparator
    /\ group.class /= "MATERIAL_DISAGREEMENT"
=============================================================================
