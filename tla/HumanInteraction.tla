-------------------------- MODULE HumanInteraction --------------------------
(***************************************************************************)
(* Human participants and interactions: a question is put to selected       *)
(* humans under a response policy, deliveries and authenticated answers are *)
(* recorded, and it is closed on those answers or expires                   *)
(* (kernel/human_interaction.go, human_participant.go and the cases of      *)
(* operator_human_continuity_policy.go).                                    *)
(*                                                                          *)
(* A human's profile may be superseded or revoked while a question is open. *)
(* Commands carry the revision of the interaction and are decided and       *)
(* committed in one step; what a closer believes was answered is an input.  *)
(***************************************************************************)
EXTENDS Integers, FiniteSets

CONSTANTS Humans, None, MaxProfile, MaxRevision

VARIABLES profile,       \* per human: the current profile
          interaction    \* the interaction, or None

vars == <<profile, interaction>>

Policies == {"EXACT_ONE", "ANY_ONE", "ALL", "QUORUM"}
Effects == {"ADVISORY_ONLY", "EVIDENCE_ONLY", "AUTHORITY_IF_AUTHORIZED"}
Ended == {"CLOSED", "EXPIRED"}

-----------------------------------------------------------------------------
(* Participants: a binding supersedes the current profile; a revoked one is *)
(* bound again only by a further revision.                                  *)

BindProfile(h) ==
  /\ profile[h].rev < MaxProfile
  /\ profile' = [profile EXCEPT ![h] = [rev |-> @.rev + 1, active |-> TRUE]]
  /\ UNCHANGED interaction

Revoke(h) ==
  /\ profile[h].active
  /\ profile' = [profile EXCEPT ![h].active = FALSE]
  /\ UNCHANGED interaction

-----------------------------------------------------------------------------
(* Interactions.                                                            *)

HumanResponsePolicyValid(kind, quorum, n) ==
  CASE kind = "EXACT_ONE" -> n = 1 /\ quorum = 0
    [] kind \in {"ANY_ONE", "ALL"} -> n > 0 /\ quorum = 0
    [] kind = "QUORUM" -> quorum \in 1 .. n

HumanInteractionFromOpenPayload(selected, kind, quorum, effect) ==
  [phase |-> "OPEN", rev |-> 1, selected |-> [h \in selected |-> profile[h].rev], kind |-> kind,
   quorum |-> quorum, effect |-> effect, delivered |-> {}, answers |-> {}, closedOn |-> {},
   resolved |-> None]

Open(selected, kind, quorum, effect) ==
  /\ interaction = None
  /\ HumanResponsePolicyValid(kind, quorum, Cardinality(selected))
  /\ \A h \in selected : profile[h].active
  /\ interaction' = HumanInteractionFromOpenPayload(selected, kind, quorum, effect)
  /\ UNCHANGED profile

Live == interaction /= None /\ interaction.phase \notin Ended /\ interaction.rev < MaxRevision
Selected(h) == h \in DOMAIN interaction.selected

Respondents(answers) == {a.by : a \in answers}

(* Mutated: the number of deliveries stands in for the number of answers.   *)
DeliveriesSatisfy(i) ==
  IF i.kind = "ALL" THEN i.delivered = DOMAIN i.selected ELSE Respondents(i.answers) /= {}

ResponsePolicySatisfied(i) ==
  LET n == Cardinality(Respondents(i.answers))
  IN  CASE i.kind = "EXACT_ONE" -> Cardinality(DOMAIN i.selected) = 1 /\ n = 1
        [] i.kind = "ANY_ONE" -> n >= 1
        [] i.kind = "ALL" -> n = Cardinality(DOMAIN i.selected)
        [] i.kind = "QUORUM" -> n >= i.quorum

(* Delivered, failed or unknown, an attempt starts the collection; only a   *)
(* DELIVERED one lets the recipient answer.                                 *)
RecordDelivery(h, outcome) ==
  /\ Live /\ Selected(h)
  /\ interaction' = [interaction EXCEPT
       !.rev = @ + 1, !.phase = IF @ = "OPEN" THEN "COLLECTING" ELSE @,
       !.delivered = IF outcome = "DELIVERED" THEN @ \cup {h} ELSE @]
  /\ UNCHANGED profile

(* The recipient's profile is the one that was selected, still active, and  *)
(* the question reached them; one answer each.  An answer after the policy  *)
(* is satisfied still counts.                                               *)
Respond(h) ==
  /\ Live /\ Selected(h)
  /\ profile[h].active /\ profile[h].rev = interaction.selected[h]
  /\ h \in interaction.delivered /\ h \notin Respondents(interaction.answers)
  /\ LET next == [interaction EXCEPT !.rev = @ + 1,
                                     !.answers = @ \cup {[by |-> h, rev |-> profile[h].rev, active |-> profile[h].active]}]
     IN  interaction' = [next EXCEPT !.phase = IF ResponsePolicySatisfied(next) THEN "SATISFIED" ELSE "COLLECTING"]
  /\ UNCHANGED profile

exactAcceptedHumanResponses(accepted) == accepted /= {} /\ accepted = Respondents(interaction.answers)

validResolvedHumanEffect(declared, resolved) ==
  \/ declared \in {"ADVISORY_ONLY", "EVIDENCE_ONLY"} /\ resolved = declared
  \/ declared = "AUTHORITY_IF_AUTHORIZED" /\ resolved \in {"EVIDENCE_ONLY", "AUTHORIZED_EFFECT"}

(* The closer names the answers it read and the revision it read them at.   *)
Close(accepted, resolved) ==
  /\ Live /\ interaction.phase = "SATISFIED" /\ ResponsePolicySatisfied(interaction)
  /\ exactAcceptedHumanResponses(accepted)
  /\ validResolvedHumanEffect(interaction.effect, resolved)
  /\ interaction' = [interaction EXCEPT !.phase = "CLOSED", !.rev = @ + 1, !.closedOn = accepted, !.resolved = resolved]
  /\ UNCHANGED profile

(* The deadline that must have passed is claimed by the command, so expiry  *)
(* is possible at any time, of a satisfied interaction too.                 *)
Expire ==
  /\ Live
  /\ interaction' = [interaction EXCEPT !.phase = "EXPIRED", !.rev = @ + 1]
  /\ UNCHANGED profile

Init == profile = [h \in Humans |-> [rev |-> 1, active |-> TRUE]] /\ interaction = None

Next ==
  \/ \E h \in Humans : BindProfile(h) \/ Revoke(h) \/ Respond(h)
  \/ \E selected \in SUBSET Humans, kind \in Policies, quorum \in 0 .. Cardinality(Humans), effect \in Effects :
        Open(selected, kind, quorum, effect)
  \/ \E h \in Humans, outcome \in {"DELIVERED", "FAILED", "UNKNOWN"} : RecordDelivery(h, outcome)
  \/ \E accepted \in SUBSET Humans, resolved \in Effects \cup {"AUTHORIZED_EFFECT"} : Close(accepted, resolved)
  \/ Expire

Spec == Init /\ [][Next]_vars

-----------------------------------------------------------------------------
(* An interaction is closed only on answers enough for its policy, each of  *)
(* a human the question reached, under the profile that was selected; it    *)
(* has no effect otherwise, and silence is never consent                    *)
(* (ApplyHumanInteractionEvent).                                            *)
ClosedOnAnswers ==
  interaction /= None =>
    /\ interaction.resolved /= None =>
         LET n == Cardinality(interaction.closedOn)
         IN  /\ interaction.phase = "CLOSED" /\ n >= 1
             /\ interaction.closedOn \subseteq interaction.delivered
             /\ interaction.kind = "ALL" => interaction.closedOn = DOMAIN interaction.selected
             /\ interaction.kind = "QUORUM" => n >= interaction.quorum
             /\ interaction.resolved = "AUTHORIZED_EFFECT" => interaction.effect = "AUTHORITY_IF_AUTHORIZED"
    /\ \A a \in interaction.answers : a.active /\ a.rev = interaction.selected[a.by]
=============================================================================
