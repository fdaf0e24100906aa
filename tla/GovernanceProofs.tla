--------------------------- MODULE GovernanceProofs ---------------------------
(***************************************************************************)
(* Proofs about what governs work (Governance).  For each component an      *)
(* inductive invariant: it holds initially, every action preserves it, and  *)
(* it implies the property of the component.  A behaviour of Governance is  *)
(* a behaviour of one of them.                                              *)
(***************************************************************************)
EXTENDS Governance, FiniteSetTheorems, TLAPS

(* The components' cardinality is the one of FiniteSets.                    *)
LEMMA SameCardinality ==
  \A S : /\ Human!Cardinality(S) = Cardinality(S)
         /\ Variant!Cardinality(S) = Cardinality(S)
         /\ Control!Cardinality(S) = Cardinality(S)
BY DEF Human!Cardinality, Variant!Cardinality, Control!Cardinality, Cardinality

-----------------------------------------------------------------------------
(* Escalations.  The property is inductive once the state has its type.     *)

EscalationTypes ==
  /\ work \in [phase : {"ACTIVE", "COMPLETED"}, epoch : Nat]
  /\ esc \in [Escalations -> EscalationType \cup {None}]
  /\ now \in Nat

EscalationInv == EscalationTypes /\ Escalate!EscalatedOnce

LEMMA EscalationInit == Escalate!Init => EscalationInv
BY DEF Escalate!Init, EscalationInv, EscalationTypes, Escalate!EscalatedOnce, Escalate!Opened

LEMMA EscalationOpen ==
  ASSUME EscalationInv, NEW i \in Escalations, NEW c \in Conditions, Escalate!Open(i, c)
  PROVE  EscalationInv'
<1>1. PICK e : e = Escalate!EscalationFromOpenPayload(c)
  OBVIOUS
<1>2. e \in EscalationType /\ e /= None /\ e.epoch = work.epoch /\ e.condition = c /\ e.outcome = None
  BY <1>1, NumbersAssumption, NoneAssumption
     DEF Escalate!EscalationFromOpenPayload, EscalationType, EscalationInv, EscalationTypes
<1>3. esc' = [esc EXCEPT ![i] = e] /\ UNCHANGED <<work, now>> /\ esc[i] = None
  BY <1>1 DEF Escalate!Open, Escalate!Opened
<1>4. EscalationTypes'
  BY <1>2, <1>3 DEF EscalationInv, EscalationTypes
<1>5. /\ esc'[i] = e /\ \A j \in Escalations \ {i} : esc'[j] = esc[j]
  BY <1>3 DEF EscalationInv, EscalationTypes
<1>6. \A j \in Escalations : esc[j] /= None => Escalate!Key(esc[j]) /= Escalate!Key(e)
  BY <1>2 DEF Escalate!Open, Escalate!PlanEscalationOpening, Escalate!Opened, Escalate!Key
<1>7. e.outcome \notin {"RESOLVED", "REJECTED", "SPLIT"}
  BY <1>2, NoneAssumption DEF Escalate!Outcomes
<1> QED BY <1>3, <1>4, <1>5, <1>6, <1>7 DEF EscalationInv, Escalate!EscalatedOnce, Escalate!Opened, Escalate!Key

LEMMA EscalationResolve ==
  ASSUME EscalationInv, NEW i \in Escalations, NEW role \in {"ADJUDICATOR", "POLICY_TIMEOUT"},
         NEW round \in 1 .. (EscalationRounds + 1), NEW outcome \in Escalate!Outcomes,
         Escalate!Resolve(i, role, round, outcome)
  PROVE  EscalationInv'
<1>1. esc[i] \in EscalationType /\ now \in Nat
  BY DEF EscalationInv, EscalationTypes, Escalate!Resolve, Escalate!Opened
<1>2. PICK e : e = [esc[i] EXCEPT !.state = "TERMINAL", !.outcome = outcome, !.by = role, !.at = now]
  OBVIOUS
<1>3. /\ e \in EscalationType /\ e.epoch = esc[i].epoch /\ e.condition = esc[i].condition
      /\ e.outcome = outcome /\ e.by = role /\ e.at = now /\ e.deadline = esc[i].deadline
  BY <1>1, <1>2 DEF EscalationType
<1>4. esc' = [esc EXCEPT ![i] = e] /\ UNCHANGED <<work, now>>
  BY <1>2 DEF Escalate!Resolve
<1>5. EscalationTypes'
  BY <1>3, <1>4 DEF EscalationInv, EscalationTypes
<1>6. esc'[i] = e /\ \A j \in Escalations \ {i} : esc'[j] = esc[j]
  BY <1>4 DEF EscalationInv, EscalationTypes
<1>7. outcome \in {"RESOLVED", "REJECTED", "SPLIT"} => role = "ADJUDICATOR" /\ now <= e.deadline
  BY <1>3 DEF Escalate!Resolve, Escalate!EvaluateEscalation
<1>8. esc[i] /= None
  BY DEF Escalate!Resolve, Escalate!Opened
<1> QED BY <1>3, <1>5, <1>6, <1>7, <1>8 DEF EscalationInv, Escalate!EscalatedOnce, Escalate!Opened, Escalate!Key

LEMMA EscalationNext ==
  ASSUME EscalationInv, Escalate!Next
  PROVE  EscalationInv'
<1>1. ASSUME UNCHANGED esc, work' \in [phase : {"ACTIVE", "COMPLETED"}, epoch : Nat], now' \in Nat
      PROVE  EscalationInv'
  BY <1>1 DEF EscalationInv, EscalationTypes, Escalate!EscalatedOnce, Escalate!Opened
<1>2. CASE Escalate!MoveSubject
  BY <1>1, <1>2 DEF EscalationInv, EscalationTypes, Escalate!MoveSubject
<1>3. CASE Escalate!Tick
  BY <1>1, <1>3 DEF EscalationInv, EscalationTypes, Escalate!Tick
<1> QED BY <1>2, <1>3, EscalationOpen, EscalationResolve DEF Escalate!Next

-----------------------------------------------------------------------------
(* Variant groups.  Once compared the submitted candidates are the compared *)
(* ones, for none is submitted any more.                                    *)

GroupType ==
  [state : {"OPEN", "COMPARED", "TERMINAL"}, cand : [Candidates -> CandidateType \cup {None}],
   compared : SUBSET Candidates, class : Variant!Classes \cup {None},
   outcome : Variant!Outcomes \cup {None}, selected : Candidates \cup {None}]

Independence ==
  \A c, d \in Variant!Submitted : c /= d => /\ group.cand[c].actor /= group.cand[d].actor
                                            /\ group.cand[c].isolation /= group.cand[d].isolation

VariantInv ==
  /\ group \in GroupType
  /\ Independence
  /\ group.state /= "OPEN" => group.compared = Variant!Submitted /\ Cardinality(Variant!Submitted) >= Quorum
  /\ group.outcome = "SELECT_CANDIDATE" =>
       /\ group.state = "TERMINAL" /\ group.selected \in Variant!Submitted
       /\ group.cand[group.selected].actor /= Comparator
       /\ group.class /= "MATERIAL_DISAGREEMENT"

LEMMA VariantProperty == VariantInv => Variant!SelectionIsOfAllCompared
BY SameCardinality DEF VariantInv, Independence, Variant!SelectionIsOfAllCompared

LEMMA VariantInit == Variant!Init => VariantInv
<1> SUFFICES ASSUME Variant!Init PROVE VariantInv
  OBVIOUS
<1>1. group \in GroupType /\ Variant!Submitted = {} /\ group.state = "OPEN" /\ group.outcome = None
  BY DEF Variant!Init, Variant!VariantGroupFromOpenPayload, GroupType, Variant!Submitted
<1>2. group.outcome /= "SELECT_CANDIDATE"
  BY <1>1, NoneAssumption DEF Variant!Outcomes
<1> QED BY <1>1, <1>2 DEF VariantInv, Independence

LEMMA VariantSubmit ==
  ASSUME VariantInv, NEW c \in Candidates, NEW a \in Authors, NEW i \in Isolations, Variant!SubmitCandidate(c, a, i)
  PROVE  VariantInv'
<1>1. PICK x : x = [actor |-> a, isolation |-> i]
  OBVIOUS
<1>2. x \in CandidateType /\ x /= None /\ x.actor = a /\ x.isolation = i
  BY <1>1, NoneAssumption DEF CandidateType
<1>3. PICK f : f = [group.cand EXCEPT ![c] = x]
  OBVIOUS
<1>4. f \in [Candidates -> CandidateType \cup {None}] /\ f[c] = x /\ \A d \in Candidates \ {c} : f[d] = group.cand[d]
  BY <1>2, <1>3 DEF VariantInv, GroupType
<1>5. group' = [group EXCEPT !.cand = f] /\ group.state = "OPEN" /\ Variant!variantCandidateIndependent(c, a, i)
  BY <1>1, <1>3 DEF Variant!SubmitCandidate
<1>6. /\ group' \in GroupType /\ group'.cand = f /\ group'.state = "OPEN" /\ group'.outcome = group.outcome
  BY <1>4, <1>5 DEF VariantInv, GroupType
<1>7. Variant!Submitted' = Variant!Submitted \cup {c}
  BY <1>2, <1>4, <1>6 DEF Variant!Submitted
<1>8. Independence'
  BY <1>2, <1>4, <1>5, <1>6, <1>7 DEF VariantInv, Independence, Variant!variantCandidateIndependent, Variant!Submitted
<1>9. group'.outcome /= "SELECT_CANDIDATE"
  BY <1>5, <1>6 DEF VariantInv
<1> QED BY <1>6, <1>8, <1>9 DEF VariantInv

LEMMA VariantNext ==
  ASSUME VariantInv, Variant!Next
  PROVE  VariantInv'
<1>1. ASSUME NEW named \in SUBSET Candidates, NEW class \in Variant!Classes, Variant!RecordComparison(named, class)
      PROVE  VariantInv'
  <2>1. /\ group' \in GroupType /\ group'.cand = group.cand /\ group'.state = "COMPARED" /\ group'.compared = named
        /\ group'.outcome = group.outcome
    BY <1>1 DEF Variant!RecordComparison, VariantInv, GroupType
  <2>2. Variant!Submitted' = Variant!Submitted
    BY <2>1 DEF Variant!Submitted
  <2>3. group'.outcome /= "SELECT_CANDIDATE"
    BY <1>1, <2>1 DEF Variant!RecordComparison, VariantInv
  <2>4. named = Variant!Submitted /\ Cardinality(Variant!Submitted) >= Quorum
    BY <1>1, SameCardinality DEF Variant!RecordComparison, Variant!exactCandidateSet
  <2> QED BY <2>1, <2>2, <2>3, <2>4 DEF VariantInv, Independence
<1>2. ASSUME NEW outcome \in Variant!Outcomes, NEW c \in Candidates \cup {None}, Variant!Select(outcome, c)
      PROVE  VariantInv'
  <2>1. /\ group' \in GroupType /\ group'.cand = group.cand /\ group'.state = "TERMINAL"
        /\ group'.compared = group.compared /\ group'.class = group.class
        /\ group'.outcome = outcome /\ group'.selected = c
    BY <1>2 DEF Variant!Select, VariantInv, GroupType
  <2>2. Variant!Submitted' = Variant!Submitted
    BY <2>1 DEF Variant!Submitted
  <2>3. Variant!Selectable(outcome, c) /\ group.state = "COMPARED"
    BY <1>2 DEF Variant!Select
  <2> QED BY <2>1, <2>2, <2>3 DEF VariantInv, Independence, Variant!Selectable
<1>3. CASE Variant!Tick
  BY <1>3 DEF Variant!Tick, VariantInv, Independence, Variant!Submitted
<1> QED BY <1>1, <1>2, <1>3, VariantSubmit DEF Variant!Next

-----------------------------------------------------------------------------
(* Human interactions.  Every answer is of a selected human the question    *)
(* reached, and what an interaction is closed on are all of them.           *)

AnswersAuthentic ==
  /\ Human!Respondents(interaction.answers) \subseteq interaction.delivered
  /\ interaction.delivered \subseteq DOMAIN interaction.selected
  /\ \A a \in interaction.answers : a.active /\ a.rev = interaction.selected[a.by]

ClosedProperly ==
  interaction.resolved /= None =>
    /\ interaction.phase = "CLOSED" /\ interaction.closedOn /= {}
    /\ interaction.closedOn = Human!Respondents(interaction.answers)
    /\ Human!ResponsePolicySatisfied(interaction)
    /\ interaction.resolved = "AUTHORIZED_EFFECT" => interaction.effect = "AUTHORITY_IF_AUTHORIZED"

HumanInv ==
  /\ profile \in [Humans -> [rev : Nat, active : BOOLEAN]]
  /\ interaction \in InteractionType \cup {None}
  /\ interaction /= None => AnswersAuthentic /\ ClosedProperly

LEMMA HumanProperty == HumanInv => Human!ClosedOnAnswers
<1> SUFFICES ASSUME HumanInv, interaction /= None PROVE Human!ClosedOnAnswers
  BY DEF Human!ClosedOnAnswers
<1>1. ASSUME interaction.resolved /= None
      PROVE  /\ Cardinality(interaction.closedOn) >= 1
             /\ interaction.closedOn \subseteq interaction.delivered
             /\ interaction.kind = "ALL" => interaction.closedOn = DOMAIN interaction.selected
             /\ interaction.kind = "QUORUM" => Cardinality(interaction.closedOn) >= interaction.quorum
  <2>1. /\ interaction.closedOn \subseteq Humans /\ DOMAIN interaction.selected \subseteq Humans
    BY DEF HumanInv, InteractionType
  <2>2. interaction.closedOn \subseteq interaction.delivered /\ interaction.closedOn \subseteq DOMAIN interaction.selected
    BY <1>1 DEF HumanInv, AnswersAuthentic, ClosedProperly
  <2>3. IsFiniteSet(DOMAIN interaction.selected) /\ IsFiniteSet(interaction.closedOn)
    BY <2>1, HumansAssumption, FS_Subset
  <2>4. Cardinality(interaction.closedOn) >= 1
    <3>1. interaction.closedOn /= {}
      BY <1>1 DEF HumanInv, ClosedProperly
    <3> QED BY <2>3, <3>1, FS_EmptySet, FS_CardinalityType
  <2>5. ASSUME interaction.kind = "ALL" PROVE interaction.closedOn = DOMAIN interaction.selected
    <3>1. Cardinality(interaction.closedOn) = Cardinality(DOMAIN interaction.selected)
      BY <1>1, <2>5, SameCardinality DEF HumanInv, ClosedProperly, Human!ResponsePolicySatisfied
    <3> QED BY <2>2, <2>3, <3>1, FS_Subset
  <2>6. interaction.kind = "QUORUM" => Cardinality(interaction.closedOn) >= interaction.quorum
    BY <1>1, SameCardinality DEF HumanInv, ClosedProperly, Human!ResponsePolicySatisfied
  <2> QED BY <2>2, <2>4, <2>5, <2>6
<1> QED BY <1>1, SameCardinality DEF HumanInv, AnswersAuthentic, ClosedProperly, Human!ClosedOnAnswers

LEMMA HumanInit == Human!Init => HumanInv
BY DEF Human!Init, HumanInv

(* What is not ended has no effect yet, and gets none but by being closed.  *)
LEMMA HumanLive ==
  ASSUME HumanInv, Human!Live, NEW i \in InteractionType, interaction' = i, i.resolved = interaction.resolved,
         UNCHANGED profile, AnswersAuthentic'
  PROVE  HumanInv'
<1>1. interaction.resolved = None
  BY DEF HumanInv, ClosedProperly, Human!Live, Human!Ended
<1>2. ClosedProperly'
  BY <1>1 DEF ClosedProperly
<1> QED BY <1>2 DEF HumanInv

LEMMA HumanOpen ==
  ASSUME HumanInv, NEW S \in SUBSET Humans, NEW kind \in Human!Policies, NEW quorum \in Nat,
         NEW effect \in Human!Effects, Human!Open(S, kind, quorum, effect)
  PROVE  HumanInv'
<1>1. interaction' = Human!HumanInteractionFromOpenPayload(S, kind, quorum, effect) /\ UNCHANGED profile
  BY DEF Human!Open
<1>2. [h \in S |-> profile[h].rev] \in [S -> Nat]
  BY DEF HumanInv
<1>3. interaction' \in InteractionType
  BY <1>1, <1>2 DEF Human!HumanInteractionFromOpenPayload, InteractionType
<1>4. interaction'.answers = {} /\ interaction'.delivered = {} /\ interaction'.resolved = None
  BY <1>1 DEF Human!HumanInteractionFromOpenPayload
<1>5. AnswersAuthentic' /\ ClosedProperly'
  BY <1>4 DEF AnswersAuthentic, ClosedProperly, Human!Respondents
<1> QED BY <1>1, <1>3, <1>5 DEF HumanInv

LEMMA HumanDelivery ==
  ASSUME HumanInv, NEW h \in Humans, NEW outcome, Human!RecordDelivery(h, outcome)
  PROVE  HumanInv'
<1>1. interaction \in InteractionType /\ interaction /= None
  BY DEF HumanInv, Human!RecordDelivery, Human!Live
<1>2. PICK D, p, n : /\ D = IF outcome = "DELIVERED" THEN interaction.delivered \cup {h} ELSE interaction.delivered
                     /\ p = IF interaction.phase = "OPEN" THEN "COLLECTING" ELSE interaction.phase
                     /\ n = interaction.rev + 1
  OBVIOUS
<1>3. interaction' = [interaction EXCEPT !.rev = n, !.phase = p, !.delivered = D] /\ UNCHANGED profile
  BY <1>2 DEF Human!RecordDelivery
<1>4. n \in Nat /\ p \in {"OPEN", "COLLECTING", "SATISFIED", "CLOSED", "EXPIRED"} /\ D \subseteq Humans
      /\ interaction.delivered \subseteq D /\ D \subseteq interaction.delivered \cup {h}
  BY <1>1, <1>2 DEF InteractionType
<1>5. /\ interaction' \in InteractionType /\ interaction'.resolved = interaction.resolved
      /\ interaction'.answers = interaction.answers /\ interaction'.selected = interaction.selected
      /\ interaction'.delivered = D
  BY <1>1, <1>3, <1>4 DEF InteractionType
<1>6. h \in DOMAIN interaction.selected
  BY DEF Human!RecordDelivery, Human!Selected
<1>7. AnswersAuthentic'
  BY <1>1, <1>4, <1>5, <1>6 DEF HumanInv, AnswersAuthentic
<1> QED BY <1>3, <1>5, <1>7, HumanLive DEF Human!RecordDelivery

LEMMA HumanRespond ==
  ASSUME HumanInv, NEW h \in Humans, Human!Respond(h)
  PROVE  HumanInv'
<1>1. interaction \in InteractionType /\ interaction /= None /\ profile[h] \in [rev : Nat, active : BOOLEAN]
  BY DEF HumanInv, Human!Respond, Human!Live
<1>2. PICK a : a = [by |-> h, rev |-> profile[h].rev, active |-> profile[h].active]
  OBVIOUS
<1>3. a \in AnswerType /\ a.by = h /\ a.active /\ a.rev = interaction.selected[h]
  BY <1>1, <1>2 DEF AnswerType, Human!Respond
<1>4. PICK n, A : n = interaction.rev + 1 /\ A = interaction.answers \cup {a}
  OBVIOUS
<1>5. n \in Nat /\ A \in SUBSET AnswerType
  BY <1>1, <1>3, <1>4 DEF InteractionType
<1>6. PICK i : i = [interaction EXCEPT !.rev = n, !.answers = A]
  OBVIOUS
<1>7. /\ i \in InteractionType /\ i.resolved = interaction.resolved /\ i.answers = A
      /\ i.selected = interaction.selected /\ i.delivered = interaction.delivered
  BY <1>1, <1>5, <1>6 DEF InteractionType
<1>8. PICK p : p = IF Human!ResponsePolicySatisfied(i) THEN "SATISFIED" ELSE "COLLECTING"
  OBVIOUS
<1>9. interaction' = [i EXCEPT !.phase = p] /\ UNCHANGED profile
  BY <1>2, <1>4, <1>6, <1>8 DEF Human!Respond
<1>10. /\ interaction' \in InteractionType /\ interaction'.resolved = interaction.resolved /\ interaction'.answers = A
       /\ interaction'.selected = interaction.selected /\ interaction'.delivered = interaction.delivered
  BY <1>7, <1>8, <1>9 DEF InteractionType
<1>11. h \in interaction.delivered
  BY DEF Human!Respond
<1>12. AnswersAuthentic'
  BY <1>1, <1>3, <1>4, <1>10, <1>11 DEF HumanInv, AnswersAuthentic, Human!Respondents
<1> QED BY <1>9, <1>10, <1>12, HumanLive DEF Human!Respond

LEMMA HumanClose ==
  ASSUME HumanInv, NEW A \in SUBSET Humans, NEW e \in Human!Effects \cup {"AUTHORIZED_EFFECT"}, Human!Close(A, e)
  PROVE  HumanInv'
<1>1. interaction \in InteractionType /\ interaction /= None
  BY DEF HumanInv, Human!Close, Human!Live
<1>2. PICK n : n = interaction.rev + 1
  OBVIOUS
<1>3. n \in Nat
  BY <1>1, <1>2 DEF InteractionType
<1>4. /\ interaction' = [interaction EXCEPT !.phase = "CLOSED", !.rev = n, !.closedOn = A, !.resolved = e]
      /\ UNCHANGED profile
  BY <1>2 DEF Human!Close
<1>5. /\ interaction' \in InteractionType /\ interaction'.phase = "CLOSED" /\ interaction'.closedOn = A
      /\ interaction'.resolved = e
  BY <1>1, <1>3, <1>4 DEF InteractionType
<1>6. /\ interaction'.answers = interaction.answers /\ interaction'.effect = interaction.effect
      /\ interaction'.selected = interaction.selected /\ interaction'.delivered = interaction.delivered
      /\ interaction'.kind = interaction.kind /\ interaction'.quorum = interaction.quorum
  BY <1>1, <1>3, <1>4 DEF InteractionType
<1>7. AnswersAuthentic'
  BY <1>1, <1>6 DEF HumanInv, AnswersAuthentic
<1>8. Human!ResponsePolicySatisfied(interaction)'
  BY <1>6 DEF Human!Close, Human!ResponsePolicySatisfied
<1>9. A /= {} /\ A = Human!Respondents(interaction.answers)
  BY DEF Human!Close, Human!exactAcceptedHumanResponses
<1>10. e = "AUTHORIZED_EFFECT" => interaction.effect = "AUTHORITY_IF_AUTHORIZED"
  BY DEF Human!Close, Human!validResolvedHumanEffect
<1>11. ClosedProperly'
  BY <1>5, <1>6, <1>8, <1>9, <1>10 DEF ClosedProperly
<1> QED BY <1>4, <1>5, <1>7, <1>11 DEF HumanInv

LEMMA HumanNext ==
  ASSUME HumanInv, Human!Next
  PROVE  HumanInv'
<1>1. ASSUME NEW h \in Humans, Human!BindProfile(h) \/ Human!Revoke(h)
      PROVE  HumanInv'
  <2>1. profile' \in [Humans -> [rev : Nat, active : BOOLEAN]] /\ UNCHANGED interaction
    <3>1. profile[h] \in [rev : Nat, active : BOOLEAN]
      BY DEF HumanInv
    <3>2. PICK x, y : x = [rev |-> profile[h].rev + 1, active |-> TRUE] /\ y = [profile[h] EXCEPT !.active = FALSE]
      OBVIOUS
    <3>3. x \in [rev : Nat, active : BOOLEAN] /\ y \in [rev : Nat, active : BOOLEAN]
      <4>1. profile[h].rev \in Nat /\ profile[h].rev + 1 \in Nat
        BY <3>1
      <4>2. x \in [rev : Nat, active : BOOLEAN]
        BY <3>2, <4>1
      <4>3. y \in [rev : Nat, active : BOOLEAN]
        BY <3>1, <3>2, Zenon
      <4> QED BY <4>2, <4>3
    <3>4. (profile' = [profile EXCEPT ![h] = x] \/ profile' = [profile EXCEPT ![h] = y]) /\ UNCHANGED interaction
      BY <1>1, <3>2 DEF Human!BindProfile, Human!Revoke
    <3> QED BY <3>3, <3>4 DEF HumanInv
  <2> QED BY <2>1 DEF HumanInv, AnswersAuthentic, ClosedProperly, Human!ResponsePolicySatisfied
<1>2. ASSUME Human!Expire
      PROVE  HumanInv'
  <2>1. interaction \in InteractionType /\ interaction /= None
    BY <1>2 DEF HumanInv, Human!Expire, Human!Live
  <2>2. PICK n : n = interaction.rev + 1
    OBVIOUS
  <2>3. interaction' = [interaction EXCEPT !.phase = "EXPIRED", !.rev = n] /\ UNCHANGED profile /\ n \in Nat
    BY <1>2, <2>1, <2>2 DEF Human!Expire, InteractionType
  <2>4. /\ interaction' \in InteractionType /\ interaction'.resolved = interaction.resolved
        /\ interaction'.answers = interaction.answers /\ interaction'.selected = interaction.selected
        /\ interaction'.delivered = interaction.delivered
    BY <2>1, <2>3 DEF InteractionType
  <2>5. AnswersAuthentic'
    BY <2>1, <2>4 DEF HumanInv, AnswersAuthentic
  <2> QED BY <1>2, <2>3, <2>4, <2>5, HumanLive DEF Human!Expire
<1>3. 0 .. Human!Cardinality(Humans) \subseteq Nat
  OBVIOUS
<1> QED BY <1>1, <1>2, <1>3, HumanRespond, HumanOpen, HumanDelivery, HumanClose DEF Human!Next

-----------------------------------------------------------------------------
(* Team continuity.  The team only closes under a new epoch, so an          *)
(* admission that has ended comes back only when the epoch is set back: a   *)
(* coordination that may still be admitted, or has passed its check, has a  *)
(* late command less than it is allowed.  And a coordination that is up to  *)
(* date with the task knows whom it is authorized for.                      *)

Eligible == {Team!Chosen(eligible) : eligible \in (SUBSET Actors) \ {{}}}
TeamType ==
  [state : {"ACTIVE", "QUIESCING", "SUSPENDED", "RECONCILING"}, epoch : Nat, open : BOOLEAN,
   inflight : SUBSET Executions, unresolved : SUBSET Executions]
TaskType ==
  [phase : {"PLANNED", "READY", "DISPATCHED"}, rev : Nat, authorized : Eligible \cup {None}, dispatched : Eligible \cup {None}]

TeamTypes ==
  /\ team \in TeamType /\ task \in TaskType
  /\ op \in [Coordinators -> CoordinationType \cup {None}] /\ late \in [Coordinators -> Nat]
  /\ back \in [Coordinators -> Nat]

OpenWhenActive ==
  /\ team.open <=> (team.state = "ACTIVE")
  /\ team.open => team.unresolved = {}

Admitted(c) ==
  /\ op[c].fenced \/ op[c].epoch >= team.epoch => late[c] <= back[c]
  /\ op[c].fenced /\ op[c].epoch >= team.epoch /\ ~ Team!EvaluateContinuityAdmission(op[c].epoch) => late[c] < back[c]

UpToDate(c) ==
  /\ op[c].rev <= task.rev
  /\ op[c].rev = task.rev => /\ op[c].step \in {"ready", "authorize"} => task.authorized = None
                             /\ op[c].step = "dispatch" => task.authorized = op[c].actor

DispatchedAsAuthorized == task.dispatched /= None => task.dispatched = task.authorized

TeamInv ==
  /\ TeamTypes /\ OpenWhenActive /\ DispatchedAsAuthorized
  /\ \A c \in Coordinators : late[c] <= 1 + back[c]
  /\ \A c \in Coordinators : op[c] /= None => Admitted(c) /\ UpToDate(c)

LEMMA TeamProperty == TeamInv => Team!AtMostOneLateCommand
<1> SUFFICES ASSUME TeamInv PROVE Team!AtMostOneLateCommand
  OBVIOUS
<1> QED BY DEF TeamInv, OpenWhenActive, DispatchedAsAuthorized, Team!AtMostOneLateCommand

LEMMA TeamInit == Team!Init => TeamInv
<1> SUFFICES ASSUME Team!Init PROVE TeamInv
  OBVIOUS
<1>1. TeamTypes
  BY DEF Team!Init, TeamTypes, TeamType, TaskType
<1>2. OpenWhenActive /\ DispatchedAsAuthorized
  BY DEF Team!Init, OpenWhenActive, DispatchedAsAuthorized
<1>3. \A c \in Coordinators : op[c] = None /\ late[c] <= 1 + back[c]
  BY DEF Team!Init
<1> QED BY <1>1, <1>2, <1>3 DEF TeamInv

(* The team moves and the coordinations do not.                             *)
LEMMA TeamMoves ==
  ASSUME TeamInv, NEW t \in TeamType, team' = t, UNCHANGED <<task, op, late, back>>, OpenWhenActive',
         t.epoch >= team.epoch, t.epoch = team.epoch => t.open = team.open \/ t.open = TRUE
  PROVE  TeamInv'
<1>1. TeamTypes' /\ DispatchedAsAuthorized'
  BY DEF TeamInv, TeamTypes, DispatchedAsAuthorized
<1>2. ASSUME NEW c \in Coordinators, op[c] /= None
      PROVE  Admitted(c)' /\ UpToDate(c)'
  <2>1. op[c].epoch \in Nat /\ team.epoch \in Nat /\ t.epoch \in Nat /\ Admitted(c) /\ UpToDate(c)
    BY <1>2 DEF TeamInv, TeamTypes, CoordinationType, TeamType
  <2>2. op[c].epoch >= t.epoch => op[c].epoch >= team.epoch
    BY <2>1
  <2>3. ASSUME op[c].epoch >= t.epoch, Team!EvaluateContinuityAdmission(op[c].epoch)
        PROVE  Team!EvaluateContinuityAdmission(op[c].epoch)'
    <3>1. op[c].epoch = team.epoch /\ t.epoch = team.epoch /\ team.open = TRUE
      <4>1. op[c].epoch = team.epoch /\ team.open = TRUE
        BY <2>3 DEF Team!EvaluateContinuityAdmission, TeamInv, TeamTypes, TeamType
      <4> QED BY <2>1, <2>3, <4>1
    <3> QED BY <3>1 DEF Team!EvaluateContinuityAdmission
  <2> QED BY <2>1, <2>2, <2>3 DEF Admitted, UpToDate
<1> QED BY <1>1, <1>2 DEF TeamInv

(* The epoch is set back, under the coordinations in progress.              *)
LEMMA TeamSetBack ==
  ASSUME TeamInv, NEW t \in TeamType, team' = t, UNCHANGED <<task, op, late>>, OpenWhenActive',
         back' = [c \in Coordinators |-> IF op[c] /= None THEN back[c] + 1 ELSE back[c]]
  PROVE  TeamInv'
<1>1. \A c \in Coordinators : /\ late[c] \in Nat /\ back[c] \in Nat
                              /\ back'[c] = IF op[c] /= None THEN back[c] + 1 ELSE back[c]
  BY DEF TeamInv, TeamTypes
<1>2. back' \in [Coordinators -> Nat]
  BY <1>1
<1>3. TeamTypes' /\ DispatchedAsAuthorized'
  BY <1>2 DEF TeamInv, TeamTypes, DispatchedAsAuthorized
<1>4. \A c \in Coordinators : late[c] <= 1 + back'[c]
  BY <1>1 DEF TeamInv
<1>5. ASSUME NEW c \in Coordinators, op[c] /= None
      PROVE  Admitted(c)' /\ UpToDate(c)'
  <2>1. back'[c] = back[c] + 1 /\ late[c] <= 1 + back[c] /\ late[c] \in Nat /\ back[c] \in Nat
    BY <1>1, <1>5 DEF TeamInv
  <2>2. late[c] <= back'[c] /\ (op[c].fenced => late[c] < back'[c])
    <3>1. op[c].fenced => late[c] <= back[c]
      BY <1>5 DEF TeamInv, Admitted
    <3> QED BY <2>1, <3>1
  <2>3. UpToDate(c)
    BY <1>5 DEF TeamInv
  <2> QED BY <2>2, <2>3 DEF Admitted, UpToDate
<1> QED BY <1>3, <1>4, <1>5 DEF TeamInv

LEMMA TeamTransition ==
  ASSUME TeamInv,
         \/ \E epoch \in 1 .. MaxPowerEpoch : Team!ConfigureContinuity(epoch)
         \/ \E x \in SUBSET Executions : \/ Team!RequestQuiescence(x) \/ Team!BeginReconciliation(x)
                                         \/ Team!RecordUnexpectedOutage(x) \/ Team!Resume(x)
         \/ \E x, y \in SUBSET Executions : Team!RecordSuspended(x, y)
  PROVE  TeamInv'
<1>0. team \in TeamType /\ team.epoch \in Nat
  BY DEF TeamInv, TeamTypes, TeamType
<1>1. ASSUME NEW epoch \in 1 .. MaxPowerEpoch, Team!ConfigureContinuity(epoch)
      PROVE  TeamInv'
  <2>1. PICK t : t = [team EXCEPT !.epoch = epoch, !.inflight = {}, !.unresolved = {}]
    OBVIOUS
  <2>2. epoch \in Nat
    OBVIOUS
  <2>3. t \in TeamType /\ t.epoch = epoch /\ t.state = team.state /\ t.open = team.open /\ t.unresolved = {}
    BY <1>0, <2>1, <2>2 DEF TeamType
  <2>4. /\ team' = t /\ UNCHANGED <<task, op, late>>
        /\ back' = [c \in Coordinators |-> IF epoch < team.epoch /\ op[c] /= None THEN back[c] + 1 ELSE back[c]]
    BY <1>1, <2>1 DEF Team!ConfigureContinuity
  <2>5. OpenWhenActive'
    BY <2>3, <2>4 DEF TeamInv, OpenWhenActive
  <2>6. CASE epoch < team.epoch
    BY <2>3, <2>4, <2>5, <2>6, TeamSetBack
  <2>7. CASE ~ (epoch < team.epoch)
    <3>1. back' = back
      BY <2>4, <2>7 DEF TeamInv, TeamTypes
    <3>2. t.epoch >= team.epoch
      BY <1>0, <2>2, <2>3, <2>7
    <3> QED BY <2>3, <2>4, <2>5, <3>1, <3>2, TeamMoves
  <2> QED BY <2>6, <2>7
<1>2. ASSUME NEW x \in SUBSET Executions, NEW state \in {"QUIESCING", "RECONCILING"}, NEW left \in SUBSET Executions,
             team' = [state |-> state, epoch |-> team.epoch + 1, open |-> FALSE, inflight |-> x, unresolved |-> left],
             UNCHANGED <<task, op, late, back>>
      PROVE  TeamInv'
  <2>1. PICK t, n : n = team.epoch + 1 /\ t = [state |-> state, epoch |-> n, open |-> FALSE, inflight |-> x, unresolved |-> left]
    OBVIOUS
  <2>2. n \in Nat /\ n > team.epoch
    BY <1>0, <2>1
  <2>3. t \in TeamType /\ t.epoch = n /\ t.state /= "ACTIVE" /\ ~ t.open
    BY <1>2, <2>1, <2>2 DEF TeamType
  <2>4. team' = t
    BY <1>2, <2>1
  <2>5. OpenWhenActive'
    BY <2>3, <2>4 DEF OpenWhenActive
  <2>6. t.epoch >= team.epoch /\ t.epoch /= team.epoch
    BY <1>0, <2>2, <2>3
  <2> QED BY <1>2, <2>3, <2>4, <2>5, <2>6, TeamMoves
<1>3. ASSUME NEW x \in SUBSET Executions, Team!RequestQuiescence(x) \/ Team!RecordUnexpectedOutage(x)
      PROVE  TeamInv'
  BY <1>2, <1>3 DEF Team!RequestQuiescence, Team!RecordUnexpectedOutage
<1>4. ASSUME NEW x \in SUBSET Executions, Team!BeginReconciliation(x)
      PROVE  TeamInv'
  <2>1. PICK t : t = [team EXCEPT !.state = "RECONCILING"]
    OBVIOUS
  <2>2. t \in TeamType /\ t.epoch = team.epoch /\ t.state = "RECONCILING" /\ t.open = team.open
    BY <1>0, <2>1 DEF TeamType
  <2>3. team' = t /\ UNCHANGED <<task, op, late, back>> /\ team.state = "SUSPENDED"
    BY <1>4, <2>1 DEF Team!BeginReconciliation
  <2>4. OpenWhenActive'
    BY <2>2, <2>3 DEF TeamInv, OpenWhenActive
  <2>5. t.epoch >= team.epoch
    BY <1>0, <2>2
  <2> QED BY <2>2, <2>3, <2>4, <2>5, TeamMoves
<1>5. ASSUME NEW x \in SUBSET Executions, Team!Resume(x)
      PROVE  TeamInv'
  <2>1. PICK t : t = [team EXCEPT !.state = "ACTIVE", !.open = TRUE, !.inflight = {}, !.unresolved = {}]
    OBVIOUS
  <2>2. t \in TeamType /\ t.epoch = team.epoch /\ t.state = "ACTIVE" /\ t.open = TRUE /\ t.unresolved = {}
    BY <1>0, <2>1 DEF TeamType
  <2>3. team' = t /\ UNCHANGED <<task, op, late, back>>
    <3>1. team.unresolved \ x = {}
      BY <1>5 DEF Team!Resume, Team!sameUUIDSet
    <3> QED BY <1>5, <2>1, <3>1 DEF Team!Resume
  <2>4. OpenWhenActive'
    BY <2>2, <2>3 DEF OpenWhenActive
  <2>5. t.epoch >= team.epoch
    BY <1>0, <2>2
  <2> QED BY <2>2, <2>3, <2>4, <2>5, TeamMoves
<1>6. ASSUME NEW x \in SUBSET Executions, NEW y \in SUBSET Executions, Team!RecordSuspended(x, y)
      PROVE  TeamInv'
  <2>1. PICK t : t = [team EXCEPT !.state = "SUSPENDED", !.unresolved = y]
    OBVIOUS
  <2>2. t \in TeamType /\ t.epoch = team.epoch /\ t.state = "SUSPENDED" /\ t.open = team.open
    BY <1>0, <2>1 DEF TeamType
  <2>3. team' = t /\ UNCHANGED <<task, op, late, back>> /\ team.state = "QUIESCING"
    BY <1>6, <2>1 DEF Team!RecordSuspended
  <2>4. OpenWhenActive'
    BY <2>2, <2>3 DEF TeamInv, OpenWhenActive
  <2>5. t.epoch >= team.epoch
    BY <1>0, <2>2
  <2> QED BY <2>2, <2>3, <2>4, <2>5, TeamMoves
<1> QED BY <1>1, <1>3, <1>4, <1>5, <1>6

(* A coordination begins.                                                   *)
LEMMA TeamCoordinate ==
  ASSUME TeamInv, NEW c \in Coordinators, NEW eligible \in SUBSET Actors, Team!Coordinate(c, eligible)
  PROVE  TeamInv'
<1>1. /\ team \in TeamType /\ team.epoch \in Nat /\ task \in TaskType /\ task.rev \in Nat
      /\ op \in [Coordinators -> CoordinationType \cup {None}] /\ late \in [Coordinators -> Nat]
      /\ back \in [Coordinators -> Nat]
  BY DEF TeamInv, TeamTypes, TeamType, TaskType
<1>2. PICK s : s = IF task.phase = "PLANNED" THEN "ready" ELSE "authorize"
  OBVIOUS
<1>3. PICK a : a = Team!Chosen(eligible)
  OBVIOUS
<1>4. PICK x : x = [step |-> s, fenced |-> FALSE, epoch |-> team.epoch, rev |-> task.rev, actor |-> a]
  OBVIOUS
<1>5. a \in Eligible /\ s \in {"ready", "authorize"}
  BY <1>2, <1>3 DEF Eligible, Team!Coordinate, Team!PlanAssignment
<1>6. /\ x \in CoordinationType /\ x.step \in {"ready", "authorize"} /\ x.epoch = team.epoch /\ x.rev = task.rev
  BY <1>1, <1>4, <1>5 DEF CoordinationType, Eligible
<1>7. op' = [op EXCEPT ![c] = x] /\ late' = [late EXCEPT ![c] = 0] /\ back' = [back EXCEPT ![c] = 0]
      /\ UNCHANGED <<team, task>>
  BY <1>2, <1>3, <1>4 DEF Team!Coordinate
<1>8. Team!EvaluateContinuityAdmission(team.epoch)' /\ task.authorized = None
  BY <1>7 DEF Team!Coordinate, Team!EvaluateContinuityAdmission, Team!PlanAssignment
<1>9. /\ op'[c] = x /\ late'[c] = 0 /\ back'[c] = 0
      /\ \A d \in Coordinators \ {c} : op'[d] = op[d] /\ late'[d] = late[d] /\ back'[d] = back[d]
  BY <1>1, <1>7
<1>10. TeamTypes' /\ OpenWhenActive' /\ DispatchedAsAuthorized'
  BY <1>1, <1>6, <1>7 DEF TeamInv, TeamTypes, OpenWhenActive, DispatchedAsAuthorized
<1>11. Admitted(c)' /\ UpToDate(c)'
  BY <1>1, <1>6, <1>7, <1>8, <1>9 DEF Admitted, UpToDate
<1>12. \A d \in Coordinators \ {c} : op'[d] /= None => Admitted(d)' /\ UpToDate(d)'
  BY <1>7, <1>9 DEF TeamInv, Admitted, UpToDate, Team!EvaluateContinuityAdmission
<1>13. \A d \in Coordinators : late'[d] <= 1 + back'[d]
  BY <1>9 DEF TeamInv
<1> QED BY <1>10, <1>11, <1>12, <1>13 DEF TeamInv

(* A coordination ends, or one passes its check.                            *)
LEMMA TeamLeaves ==
  ASSUME TeamInv, NEW c \in Coordinators, op' = [op EXCEPT ![c] = None], UNCHANGED <<team, task, late, back>>
  PROVE  TeamInv'
<1>1. op'[c] = None /\ \A d \in Coordinators \ {c} : op'[d] = op[d]
  BY DEF TeamInv, TeamTypes
<1>2. TeamTypes' /\ OpenWhenActive' /\ DispatchedAsAuthorized'
  BY DEF TeamInv, TeamTypes, OpenWhenActive, DispatchedAsAuthorized
<1>3. \A d \in Coordinators \ {c} : op'[d] /= None => Admitted(d)' /\ UpToDate(d)'
  BY <1>1 DEF TeamInv, Admitted, UpToDate, Team!EvaluateContinuityAdmission
<1> QED BY <1>1, <1>2, <1>3 DEF TeamInv

LEMMA TeamRequire ==
  ASSUME TeamInv, NEW c \in Coordinators, Team!Require(c)
  PROVE  TeamInv'
<1>1. op[c] \in CoordinationType /\ op[c] /= None /\ UNCHANGED <<team, task, late, back>>
  BY DEF TeamInv, TeamTypes, Team!Require
<1>2. CASE ~ Team!EvaluateContinuityAdmission(op[c].epoch)
  BY <1>1, <1>2, TeamLeaves DEF Team!Require
<1>3. CASE Team!EvaluateContinuityAdmission(op[c].epoch)
  <2>1. PICK x : x = [op[c] EXCEPT !.fenced = TRUE]
    OBVIOUS
  <2>2. /\ x \in CoordinationType /\ x.epoch = op[c].epoch /\ x.rev = op[c].rev /\ x.step = op[c].step
        /\ x.actor = op[c].actor
    BY <1>1, <2>1 DEF CoordinationType
  <2>3. op' = [op EXCEPT ![c] = x]
    BY <1>3, <2>1 DEF Team!Require
  <2>4. op'[c] = x /\ \A d \in Coordinators \ {c} : op'[d] = op[d]
    BY <2>3 DEF TeamInv, TeamTypes
  <2>5. TeamTypes' /\ OpenWhenActive' /\ DispatchedAsAuthorized'
    BY <1>1, <2>2, <2>3 DEF TeamInv, TeamTypes, OpenWhenActive, DispatchedAsAuthorized
  <2>6. late[c] <= back[c] /\ Team!EvaluateContinuityAdmission(x.epoch)'
    <3>1. op[c].epoch = team.epoch /\ team.epoch \in Nat
      BY <1>3 DEF Team!EvaluateContinuityAdmission, TeamInv, TeamTypes, TeamType
    <3>2. late[c] <= back[c]
      BY <1>1, <3>1 DEF TeamInv, Admitted
    <3> QED BY <1>1, <1>3, <2>2, <3>2 DEF Team!EvaluateContinuityAdmission
  <2>7. Admitted(c)' /\ UpToDate(c)'
    <3>1. Admitted(c)'
      BY <1>1, <2>4, <2>6 DEF Admitted
    <3>2. UpToDate(c)'
      BY <1>1, <2>2, <2>4 DEF TeamInv, UpToDate
    <3> QED BY <3>1, <3>2
  <2>8. \A d \in Coordinators \ {c} : op'[d] /= None => Admitted(d)' /\ UpToDate(d)'
    BY <1>1, <2>4 DEF TeamInv, Admitted, UpToDate, Team!EvaluateContinuityAdmission
  <2>9. \A d \in Coordinators : late'[d] <= 1 + back'[d]
    BY <1>1 DEF TeamInv
  <2> QED BY <2>5, <2>7, <2>8, <2>9 DEF TeamInv
<1> QED BY <1>2, <1>3

(* What a command makes of the task.                                        *)
LEMMA TeamApplied ==
  ASSUME TeamInv, NEW c \in Coordinators, op[c] /= None, op[c].rev = task.rev
  PROVE  LET t == Team!Applied(op[c].step, op[c].actor)
             f == Team!Following(op[c].step)
         IN  /\ t \in TaskType /\ t.rev = task.rev + 1
             /\ t.dispatched /= None => t.dispatched = t.authorized
             /\ f \in {"authorize", "dispatch", "done"}
             /\ f = "authorize" => t.authorized = None
             /\ f = "dispatch" => t.authorized = op[c].actor
<1>1. op[c] \in CoordinationType /\ task \in TaskType /\ UpToDate(c) /\ DispatchedAsAuthorized
  BY DEF TeamInv, TeamTypes
<1>2. PICK n, a : n = task.rev + 1 /\ a = op[c].actor
  OBVIOUS
<1>3. n \in Nat /\ a \in Eligible
  BY <1>1, <1>2 DEF TaskType, CoordinationType, Eligible
<1>4. CASE op[c].step = "ready"
  <2>1. Team!Applied(op[c].step, op[c].actor) = [task EXCEPT !.phase = "READY", !.rev = n] /\ Team!Following(op[c].step) = "authorize"
    BY <1>2, <1>4 DEF Team!Applied, Team!Following
  <2>2. PICK t : t = [task EXCEPT !.phase = "READY", !.rev = n]
    OBVIOUS
  <2>3. t \in TaskType /\ t.rev = n /\ t.authorized = task.authorized /\ t.dispatched = task.dispatched
    BY <1>1, <1>3, <2>2 DEF TaskType
  <2>4. task.authorized = None
    BY <1>1, <1>4, Zenon DEF UpToDate
  <2> QED BY <1>1, <1>2, <2>1, <2>2, <2>3, <2>4 DEF DispatchedAsAuthorized
<1>5. CASE op[c].step = "authorize"
  <2>1. Team!Applied(op[c].step, op[c].actor) = [task EXCEPT !.authorized = a, !.rev = n] /\ Team!Following(op[c].step) = "dispatch"
    BY <1>2, <1>5 DEF Team!Applied, Team!Following
  <2>2. PICK t : t = [task EXCEPT !.authorized = a, !.rev = n]
    OBVIOUS
  <2>3. t \in TaskType /\ t.rev = n /\ t.authorized = a /\ t.dispatched = task.dispatched
    BY <1>1, <1>3, <2>2 DEF TaskType
  <2>4. task.dispatched = None
    BY <1>1, <1>5, Zenon DEF UpToDate, DispatchedAsAuthorized
  <2> QED BY <1>2, <2>1, <2>2, <2>3, <2>4
<1>6. CASE op[c].step = "dispatch"
  <2>1. /\ Team!Applied(op[c].step, op[c].actor) = [task EXCEPT !.phase = "DISPATCHED", !.dispatched = a, !.rev = n]
        /\ Team!Following(op[c].step) = "done"
    BY <1>2, <1>6 DEF Team!Applied, Team!Following
  <2> QED BY <1>1, <1>2, <1>3, <1>6, <2>1 DEF TaskType, UpToDate
<1> QED BY <1>1, <1>4, <1>5, <1>6 DEF CoordinationType

LEMMA TeamHandle ==
  ASSUME TeamInv, NEW c \in Coordinators, Team!Handle(c)
  PROVE  TeamInv'
<1>1. op[c] \in CoordinationType /\ op[c] /= None /\ op[c].fenced /\ UNCHANGED <<team, back>>
  BY DEF TeamInv, TeamTypes, Team!Handle
<1>2. CASE task.rev /= op[c].rev
  BY <1>1, <1>2, TeamLeaves DEF Team!Handle
<1>3. CASE task.rev = op[c].rev
  <2>1. PICK t, f : t = Team!Applied(op[c].step, op[c].actor) /\ f = Team!Following(op[c].step)
    OBVIOUS
  <2>2. /\ t \in TaskType /\ t.rev = task.rev + 1 /\ (t.dispatched /= None => t.dispatched = t.authorized)
        /\ f \in {"authorize", "dispatch", "done"}
        /\ f = "authorize" => t.authorized = None
        /\ f = "dispatch" => t.authorized = op[c].actor
    BY <1>1, <1>3, <2>1, TeamApplied
  <2>3. PICK l : l = IF Team!EvaluateContinuityAdmission(op[c].epoch) THEN late[c] ELSE late[c] + 1
    OBVIOUS
  <2>4. late[c] \in Nat /\ back[c] \in Nat /\ late[c] <= back[c]
    BY <1>1 DEF TeamInv, TeamTypes, Admitted
  <2>5. op[c].epoch \in Nat /\ team.epoch \in Nat /\ task.rev \in Nat
    BY <1>1 DEF TeamInv, TeamTypes, TeamType, TaskType, CoordinationType
  <2>6. l \in Nat /\ l <= 1 + back[c] /\ (op[c].epoch >= team.epoch => l <= back[c])
    <3>1. Team!EvaluateContinuityAdmission(op[c].epoch) => l = late[c]
      BY <2>3
    <3>2. ~ Team!EvaluateContinuityAdmission(op[c].epoch) => l = late[c] + 1 /\ (op[c].epoch >= team.epoch => late[c] < back[c])
      BY <1>1, <2>3 DEF TeamInv, Admitted
    <3> QED BY <2>4, <3>1, <3>2
  <2>7. task' = t /\ late' = [late EXCEPT ![c] = l]
    BY <1>3, <2>1, <2>3 DEF Team!Handle
  <2>8. late' \in [Coordinators -> Nat] /\ late'[c] = l /\ \A d \in Coordinators \ {c} : late'[d] = late[d]
    BY <2>6, <2>7 DEF TeamInv, TeamTypes
  <2>9. PICK x : x = [op[c] EXCEPT !.step = f, !.fenced = FALSE, !.rev = task.rev + 1]
    OBVIOUS
  <2>10. f /= "done" => /\ x \in CoordinationType /\ x.step = f /\ ~ x.fenced /\ x.rev = task.rev + 1
                        /\ x.epoch = op[c].epoch /\ x.actor = op[c].actor
    <3>1. PICK n : n = task.rev + 1
      OBVIOUS
    <3>2. n \in Nat
      BY <2>5, <3>1
    <3>3. x = [op[c] EXCEPT !.step = f, !.fenced = FALSE, !.rev = n]
      BY <2>9, <3>1
    <3> QED BY <1>1, <2>2, <3>1, <3>2, <3>3 DEF CoordinationType
  <2>11. op' = [op EXCEPT ![c] = IF f = "done" THEN None ELSE x]
    BY <1>3, <2>1, <2>9 DEF Team!Handle
  <2>12. /\ op' \in [Coordinators -> CoordinationType \cup {None}] /\ op'[c] = (IF f = "done" THEN None ELSE x)
         /\ \A d \in Coordinators \ {c} : op'[d] = op[d]
    BY <2>10, <2>11 DEF TeamInv, TeamTypes
  <2>13. TeamTypes' /\ OpenWhenActive' /\ DispatchedAsAuthorized'
    BY <1>1, <2>2, <2>7, <2>8, <2>12 DEF TeamInv, TeamTypes, OpenWhenActive, DispatchedAsAuthorized
  <2>14. ASSUME f /= "done" PROVE Admitted(c)' /\ UpToDate(c)'
    <3>1. op'[c] = x /\ x.step = f /\ ~ x.fenced /\ x.rev = t.rev /\ x.epoch = op[c].epoch /\ x.actor = op[c].actor
      BY <2>2, <2>10, <2>12, <2>14
    <3>2. Admitted(c)'
      BY <1>1, <2>6, <2>8, <3>1 DEF Admitted
    <3>3. UpToDate(c)'
      BY <2>2, <2>5, <2>7, <2>14, <3>1 DEF UpToDate, TaskType
    <3> QED BY <3>2, <3>3
  <2>15. ASSUME NEW d \in Coordinators \ {c}, op'[d] /= None PROVE Admitted(d)' /\ UpToDate(d)'
    <3>1. op'[d] = op[d] /\ late'[d] = late[d] /\ Admitted(d) /\ UpToDate(d) /\ op[d].rev \in Nat
      BY <2>8, <2>12, <2>15 DEF TeamInv, TeamTypes, CoordinationType
    <3>2. op[d].rev < t.rev
      BY <2>2, <2>5, <3>1 DEF UpToDate
    <3> QED BY <1>1, <2>2, <2>5, <2>7, <3>1, <3>2 DEF Admitted, UpToDate, Team!EvaluateContinuityAdmission
  <2>16. \A d \in Coordinators : late'[d] <= 1 + back'[d]
    BY <1>1, <2>6, <2>8 DEF TeamInv
  <2> QED BY <2>12, <2>13, <2>14, <2>15, <2>16 DEF TeamInv
<1> QED BY <1>2, <1>3

LEMMA TeamNext ==
  ASSUME TeamInv, Team!Next
  PROVE  TeamInv'
<1>1. ASSUME NEW c \in Coordinators, Team!Abandon(c)
      PROVE  TeamInv'
  BY <1>1, TeamLeaves DEF Team!Abandon
<1>2. ASSUME Team!MoveDependency
      PROVE  TeamInv'
  BY <1>2 DEF Team!MoveDependency, TeamInv, TeamTypes, OpenWhenActive, DispatchedAsAuthorized, Admitted, UpToDate,
              Team!EvaluateContinuityAdmission
<1> QED BY <1>1, <1>2, TeamTransition, TeamCoordinate, TeamRequire, TeamHandle DEF Team!Next

-----------------------------------------------------------------------------
(* Execution control.  What a caller saw of a record is what the record is, *)
(* or the record has moved on; a start was asked for only of a record that  *)
(* was claimed, once, and what was claimed never goes back.                 *)

ControlTypes ==
  /\ record \in [Keys -> ControlType \cup {None}]
  /\ receipt \in [Keys -> {"APPLIED", "REJECTED", None}]
  /\ engine \in [Keys -> {"NONE", "RUNNING", "STOPPED"}]
  /\ pending \subseteq {"start", "stop"} \X Keys
  /\ caller \in [Callers -> CallerType \cup {None}]
  /\ asked \in [Keys -> {0, 1}]

Begun(k) == record[k] /= None /\ record[k].state \in {"STARTING", "RUNNING", "STOPPING", "STOPPED", "UNCERTAIN"}

AskedOfBegun ==
  \A k \in Keys : /\ asked[k] = 1 => Begun(k)
                  /\ (engine[k] /= "NONE" \/ <<"start", k>> \in pending) => asked[k] = 1

RecordsFollow ==
  \A k \in Keys : record[k] /= None =>
    /\ record[k].state \notin {"PENDING_AUTHORIZATION", "REJECTED"} => receipt[k] = "APPLIED"
    /\ record[k].state = "STOPPED" => engine[k] = "STOPPED"

Current(k, seen) ==
  /\ record[k] /= None /\ seen.version <= record[k].version
  /\ seen.version = record[k].version => seen = record[k]

Knows(c) ==
  /\ Current(caller[c].key, caller[c].seen)
  /\ caller[c].at = "claim" => caller[c].seen.state = "AUTHORIZED"
  /\ caller[c].at = "authorized" => receipt[caller[c].key] = "APPLIED"

WithinCapacity == IsFiniteSet(Control!Active) /\ Cardinality(Control!Active) <= MaxActiveTotal

ControlInv ==
  /\ ControlTypes /\ AskedOfBegun /\ RecordsFollow /\ WithinCapacity
  /\ \A c \in Callers : caller[c] /= None => Knows(c)

LEMMA ControlProperty == ControlInv => Control!RunningHoldsCapacity
<1> SUFFICES ASSUME ControlInv PROVE Control!RunningHoldsCapacity
  OBVIOUS
<1>1. \A k \in Keys : asked[k] <= 1
  BY DEF ControlInv, ControlTypes
<1>2. \A k \in Control!MayRun : k \in Keys /\ Begun(k) /\ engine[k] /= "STOPPED"
  BY DEF ControlInv, ControlTypes, AskedOfBegun, Control!MayRun
<1>3. \A k \in Control!MayRun : receipt[k] = "APPLIED"
  BY <1>2 DEF ControlInv, RecordsFollow, Begun
<1>4. Control!MayRun \subseteq Control!Active
  BY <1>2 DEF ControlInv, RecordsFollow, Begun, Control!Active, Control!controlConsumesCapacity
<1>5. Cardinality(Control!MayRun) <= Cardinality(Control!Active) /\ Cardinality(Control!MayRun) \in Nat
      /\ Cardinality(Control!Active) \in Nat
  BY <1>4, FS_Subset, FS_CardinalityType DEF ControlInv, WithinCapacity
<1>6. Cardinality(Control!MayRun) <= MaxActiveTotal
  BY <1>5, NumbersAssumption DEF ControlInv, WithinCapacity
<1> QED BY <1>1, <1>3, <1>6, SameCardinality DEF Control!RunningHoldsCapacity

LEMMA ControlInit == Control!Init => ControlInv
<1> SUFFICES ASSUME Control!Init PROVE ControlInv
  OBVIOUS
<1>1. ControlTypes
  BY DEF Control!Init, ControlTypes
<1>2. AskedOfBegun /\ RecordsFollow
  BY DEF Control!Init, AskedOfBegun, RecordsFollow
<1>3. Control!Active = {}
  BY DEF Control!Init, Control!Active
<1>4. WithinCapacity
  BY <1>3, FS_EmptySet, NumbersAssumption DEF WithinCapacity
<1>5. \A c \in Callers : caller[c] = None
  BY DEF Control!Init
<1> QED BY <1>1, <1>2, <1>4, <1>5 DEF ControlInv

(* A record is replaced by its successor under a valid transition.          *)
LEMMA ControlSwap ==
  ASSUME ControlInv, NEW k \in Keys, record[k] /= None, NEW r \in ControlType,
         record' = [record EXCEPT ![k] = r], r.version = record[k].version + 1,
         Control!validControlTransition(record[k].state, r.state),
         r.state = "AUTHORIZED" => receipt[k] = "APPLIED",
         r.state = "STOPPED" => engine[k] = "STOPPED",
         UNCHANGED <<receipt, engine>>
  PROVE  /\ record' \in [Keys -> ControlType \cup {None}] /\ record'[k] = r
         /\ RecordsFollow' /\ WithinCapacity'
         /\ \A j \in Keys : Begun(j) => Begun(j)'
         /\ \A j \in Keys : \A s \in ControlType : Current(j, s) => Current(j, s)'
         /\ Current(k, r)'
<1>1. /\ record \in [Keys -> ControlType \cup {None}] /\ record[k] \in ControlType
      /\ record' \in [Keys -> ControlType \cup {None}] /\ record'[k] = r
      /\ \A j \in Keys \ {k} : record'[j] = record[j]
  BY DEF ControlInv, ControlTypes
<1>2. r /= None /\ r.version \in Nat /\ record[k].version \in Nat
  BY <1>1, NoneAssumption DEF ControlType
<1>3. RecordsFollow'
  BY <1>1 DEF ControlInv, RecordsFollow, Control!validControlTransition, ControlType
<1>4. Control!Active' \subseteq Control!Active
  BY <1>1 DEF Control!Active, Control!controlConsumesCapacity, Control!validControlTransition
<1>5. WithinCapacity'
  <2>1. IsFiniteSet(Control!Active') /\ Cardinality(Control!Active') <= Cardinality(Control!Active)
        /\ Cardinality(Control!Active') \in Nat /\ Cardinality(Control!Active) \in Nat
    BY <1>4, FS_Subset, FS_CardinalityType DEF ControlInv, WithinCapacity
  <2> QED BY <2>1, NumbersAssumption DEF ControlInv, WithinCapacity
<1>6. \A j \in Keys : Begun(j) => Begun(j)'
  BY <1>1, <1>2 DEF Begun, Control!validControlTransition
<1>7. ASSUME NEW j \in Keys, NEW s \in ControlType, Current(j, s)
      PROVE  Current(j, s)'
  <2>1. CASE j = k
    <3>1. s.version \in Nat /\ s.version <= record[k].version
      BY <1>7, <2>1 DEF Current, ControlType
    <3>2. s.version < r.version
      BY <1>2, <3>1
    <3> QED BY <1>1, <1>2, <2>1, <3>1, <3>2 DEF Current
  <2>2. CASE j /= k
    BY <1>1, <1>7, <2>2 DEF Current
  <2> QED BY <2>1, <2>2
<1>8. Current(k, r)'
  BY <1>1, <1>2 DEF Current
<1> QED BY <1>1, <1>3, <1>5, <1>6, <1>7, <1>8

(* A caller moves, and the others see what they saw.                        *)
LEMMA CallerMoves ==
  ASSUME ControlInv, NEW c \in Callers, NEW x \in CallerType \cup {None}, caller' = [caller EXCEPT ![c] = x],
         ControlTypes', AskedOfBegun', RecordsFollow', WithinCapacity',
         \A j \in Keys : \A s \in ControlType : Current(j, s) => Current(j, s)',
         \A j \in Keys : receipt[j] = "APPLIED" => receipt'[j] = "APPLIED",
         x /= None => /\ Current(x.key, x.seen)'
                      /\ x.at = "claim" => x.seen.state = "AUTHORIZED"
                      /\ x.at = "authorized" => receipt'[x.key] = "APPLIED"
  PROVE  ControlInv'
<1>1. caller'[c] = x /\ \A d \in Callers \ {c} : caller'[d] = caller[d]
  BY DEF ControlInv, ControlTypes
<1>2. x /= None => Knows(c)'
  BY <1>1 DEF Knows, Current
<1>3. ASSUME NEW d \in Callers \ {c}, caller[d] /= None
      PROVE  Knows(d)'
  <2>1. PICK y : y = caller[d]
    OBVIOUS
  <2>2. y.key \in Keys /\ y.seen \in ControlType /\ caller'[d] = y
    BY <1>1, <1>3, <2>1 DEF ControlInv, ControlTypes, CallerType
  <2>3. Current(y.key, y.seen)
    BY <1>3, <2>1 DEF ControlInv, Knows
  <2>4. Current(y.key, y.seen)'
    BY <2>2, <2>3
  <2>5. (y.at = "claim" => y.seen.state = "AUTHORIZED") /\ (y.at = "authorized" => receipt'[y.key] = "APPLIED")
    BY <1>3, <2>1, <2>2 DEF ControlInv, Knows
  <2> QED BY <2>2, <2>4, <2>5 DEF Knows, Current
<1> QED BY <1>1, <1>2, <1>3 DEF ControlInv

LEMMA ControlLeave ==
  ASSUME ControlInv, NEW c \in Callers, caller' = [caller EXCEPT ![c] = None],
         UNCHANGED <<record, receipt, engine, pending, asked>>
  PROVE  ControlInv'
<1>1. ControlTypes' /\ AskedOfBegun' /\ RecordsFollow' /\ WithinCapacity'
  BY DEF ControlInv, ControlTypes, AskedOfBegun, RecordsFollow, WithinCapacity, Begun, Control!Active
<1>2. \A j \in Keys : \A s \in ControlType : Current(j, s) => Current(j, s)'
  BY DEF Current
<1> QED BY <1>1, <1>2, CallerMoves

LEMMA ControlPrepare ==
  ASSUME ControlInv, NEW c \in Callers, NEW k \in Keys, Control!Prepare(c, k)
  PROVE  ControlInv'
<1>1. PICK x : x = [op |-> "start", key |-> k, seen |-> record'[k],
                    at |-> IF record'[k].state = "AUTHORIZED" THEN "claim" ELSE "authorize"]
  OBVIOUS
<1>2. caller' = [caller EXCEPT ![c] = x] /\ UNCHANGED <<receipt, engine, pending, asked>>
  BY <1>1 DEF Control!Prepare
<1>3. /\ record'[k] \in ControlType /\ record'[k] /= None
      /\ record' \in [Keys -> ControlType \cup {None}]
      /\ \A j \in Keys \ {k} : record'[j] = record[j]
      /\ record[k] /= None => record'[k] = record[k]
      /\ record[k] = None => /\ record'[k].state = "PENDING_AUTHORIZATION"
                             /\ Cardinality(Control!Active) < MaxActiveTotal
  <2>1. CASE Control!Taken(k) /\ UNCHANGED record
    BY <2>1 DEF ControlInv, ControlTypes, Control!Taken
  <2>2. CASE /\ ~ Control!Taken(k) /\ Control!Cardinality(Control!Active) < MaxActiveTotal
             /\ record' = [record EXCEPT ![k] = [state |-> "PENDING_AUTHORIZATION", version |-> 1, attempts |-> 0]]
    <3>1. PICK r : r = [state |-> "PENDING_AUTHORIZATION", version |-> 1, attempts |-> 0]
      OBVIOUS
    <3>2. r \in ControlType /\ r /= None /\ r.state = "PENDING_AUTHORIZATION"
      BY <3>1, NoneAssumption DEF ControlType
    <3>3. record' = [record EXCEPT ![k] = r] /\ record[k] = None
      BY <2>2, <3>1 DEF Control!Taken
    <3>4. Cardinality(Control!Active) < MaxActiveTotal
      BY <2>2, SameCardinality
    <3> QED BY <3>2, <3>3, <3>4 DEF ControlInv, ControlTypes
  <2> QED BY <2>1, <2>2 DEF Control!Prepare
<1>4. x \in CallerType /\ x.key = k /\ x.seen = record'[k] /\ x.at /= "authorized"
      /\ (x.at = "claim" => record'[k].state = "AUTHORIZED")
  BY <1>1, <1>3 DEF CallerType
<1>5. ControlTypes'
  BY <1>2, <1>3, <1>4 DEF ControlInv, ControlTypes
<1>6. AskedOfBegun' /\ RecordsFollow'
  BY <1>2, <1>3 DEF ControlInv, AskedOfBegun, RecordsFollow, Begun
<1>7. WithinCapacity'
  <2>1. CASE record[k] /= None
    <3>1. Control!Active' = Control!Active
      BY <1>3, <2>1 DEF Control!Active
    <3> QED BY <3>1 DEF ControlInv, WithinCapacity
  <2>2. CASE record[k] = None
    <3>1. Control!Active' = Control!Active \cup {k} /\ k \notin Control!Active
      BY <1>3, <2>2 DEF Control!Active, Control!controlConsumesCapacity
    <3>2. /\ IsFiniteSet(Control!Active') /\ Cardinality(Control!Active') = Cardinality(Control!Active) + 1
          /\ Cardinality(Control!Active) \in Nat
      BY <3>1, FS_AddElement, FS_CardinalityType DEF ControlInv, WithinCapacity
    <3> QED BY <1>3, <2>2, <3>2, NumbersAssumption DEF WithinCapacity
  <2> QED BY <2>1, <2>2
<1>8. \A j \in Keys : \A s \in ControlType : Current(j, s) => Current(j, s)'
  BY <1>3 DEF Current
<1>9. PICK r \in ControlType : r = record'[k]
  BY <1>3
<1>10. Current(k, r)'
  BY <1>3, <1>9 DEF Current, ControlType
<1>11. Current(x.key, x.seen)'
  BY <1>4, <1>9, <1>10
<1>12. x.at = "claim" => x.seen.state = "AUTHORIZED"
  BY <1>4
<1> QED BY <1>2, <1>4, <1>5, <1>6, <1>7, <1>8, <1>11, <1>12, CallerMoves

LEMMA ControlAuthorize ==
  ASSUME ControlInv, NEW c \in Callers, Control!Authorize(c)
  PROVE  ControlInv'
<1>1. PICK y : y = caller[c]
  OBVIOUS
<1>2. y \in CallerType /\ y /= None /\ Current(y.key, y.seen) /\ UNCHANGED <<record, engine, pending, asked>>
  BY <1>1 DEF Control!Authorize, Control!At, ControlInv, ControlTypes, Knows
<1>3. PICK k \in Keys : k = y.key
  BY <1>2 DEF CallerType
<1>4. PICK o \in IF receipt[k] /= None THEN {receipt[k]} ELSE {"APPLIED", "REJECTED"} :
        /\ receipt' = [receipt EXCEPT ![k] = o]
        /\ caller' = [caller EXCEPT ![c].at = IF o = "APPLIED" THEN "authorized" ELSE "rejected"]
  BY <1>1, <1>3 DEF Control!Authorize
<1>5. PICK a, x : a = (IF o = "APPLIED" THEN "authorized" ELSE "rejected") /\ x = [y EXCEPT !.at = a]
  OBVIOUS
<1>6. x \in CallerType /\ x.key = k /\ x.seen = y.seen /\ x.at = a
  BY <1>2, <1>3, <1>5 DEF CallerType
<1>7. caller' = [caller EXCEPT ![c] = x]
  BY <1>1, <1>4, <1>5
<1>8. /\ receipt' \in [Keys -> {"APPLIED", "REJECTED", None}]
      /\ \A j \in Keys : receipt[j] = "APPLIED" => receipt'[j] = "APPLIED"
      /\ o = "APPLIED" => receipt'[k] = "APPLIED"
  BY <1>4, NoneAssumption DEF ControlInv, ControlTypes
<1>9. ControlTypes' /\ AskedOfBegun' /\ RecordsFollow' /\ WithinCapacity'
  <2>1. ControlTypes'
    BY <1>2, <1>6, <1>7, <1>8 DEF ControlInv, ControlTypes
  <2>2. AskedOfBegun' /\ WithinCapacity'
    BY <1>2 DEF ControlInv, AskedOfBegun, WithinCapacity, Begun, Control!Active
  <2>3. RecordsFollow'
    BY <1>2, <1>8 DEF ControlInv, RecordsFollow
  <2> QED BY <2>1, <2>2, <2>3
<1>10. \A j \in Keys : \A s \in ControlType : Current(j, s) => Current(j, s)'
  BY <1>2 DEF Current
<1>11. Current(x.key, x.seen)'
  BY <1>2, <1>3, <1>6 DEF Current
<1>12. x.at /= "claim" /\ (x.at = "authorized" => receipt'[x.key] = "APPLIED")
  BY <1>5, <1>6, <1>8
<1> QED BY <1>6, <1>7, <1>8, <1>9, <1>10, <1>11, <1>12, CallerMoves

(* A successful compare-and-swap.                                           *)
LEMMA ControlSwapped ==
  ASSUME ControlInv, NEW k \in Keys, NEW prior \in ControlType, NEW state, NEW attempts \in Nat,
         Control!CompareAndSwap(k, prior, state, attempts)
  PROVE  \E r \in ControlType : /\ record' = [record EXCEPT ![k] = r] /\ record[k] /= None
                                /\ r.version = record[k].version + 1 /\ r.state = state
                                /\ record[k].version = prior.version
                                /\ Control!validControlTransition(record[k].state, r.state)
<1>1. PICK n : n = prior.version + 1
  OBVIOUS
<1>2. PICK r : r = [state |-> state, version |-> n, attempts |-> attempts]
  OBVIOUS
<1>3. /\ record[k] /= None /\ record[k].version = prior.version
      /\ Control!validControlTransition(record[k].state, state)
      /\ record' = [record EXCEPT ![k] = r]
  BY <1>1, <1>2 DEF Control!CompareAndSwap, Control!Taken
<1>4. record[k] \in ControlType /\ n \in Nat
  BY <1>1, <1>3 DEF ControlInv, ControlTypes, ControlType
<1>5. state \in {"AUTHORIZED", "REJECTED", "STARTING", "RUNNING", "STOPPING", "STOPPED", "UNCERTAIN"}
  BY <1>3 DEF Control!validControlTransition
<1>6. r \in ControlType /\ r.version = n /\ r.state = state
  BY <1>2, <1>4, <1>5 DEF ControlType
<1>7. r.version = record[k].version + 1
  BY <1>1, <1>3, <1>6
<1> QED BY <1>3, <1>6, <1>7

LEMMA ControlRecordAuthorization ==
  ASSUME ControlInv, NEW c \in Callers, Control!RecordAuthorization(c)
  PROVE  ControlInv'
<1>1. PICK y : y = caller[c]
  OBVIOUS
<1>2. /\ y \in CallerType /\ y /= None /\ Knows(c) /\ UNCHANGED <<receipt, engine, pending, asked>>
      /\ y.at \in {"authorized", "rejected"}
  BY <1>1 DEF Control!RecordAuthorization, Control!At, ControlInv, ControlTypes
<1>3. PICK k \in Keys, prior \in ControlType : k = y.key /\ prior = y.seen
  BY <1>2 DEF CallerType
<1>4. PICK state : state = IF y.at = "authorized" THEN "AUTHORIZED" ELSE "REJECTED"
  OBVIOUS
<1>5. ASSUME NEW r \in ControlType, r.state = "AUTHORIZED", Current(k, r)', record' \in [Keys -> ControlType \cup {None}],
             AskedOfBegun', RecordsFollow', WithinCapacity',
             \A j \in Keys : \A s \in ControlType : Current(j, s) => Current(j, s)',
             caller' = [caller EXCEPT ![c].at = "claim", ![c].seen = r]
      PROVE  ControlInv'
  <2>1. PICK x : x = [y EXCEPT !.at = "claim", !.seen = r]
    OBVIOUS
  <2>2. x \in CallerType /\ x.key = k /\ x.seen = r /\ x.at = "claim"
    BY <1>2, <1>3, <2>1 DEF CallerType
  <2>3. caller' = [caller EXCEPT ![c] = x]
    BY <1>1, <1>5, <2>1
  <2>4. ControlTypes'
    BY <1>2, <1>5, <2>2, <2>3 DEF ControlInv, ControlTypes
  <2>5. Current(x.key, x.seen)'
    BY <1>5, <2>2
  <2> QED BY <1>2, <1>5, <2>2, <2>3, <2>4, <2>5, CallerMoves
<1>6. ASSUME Control!CompareAndSwap(k, prior, state, 0),
             IF state = "AUTHORIZED" THEN Control!Goto(c, "claim", record'[k]) ELSE Control!Leave(c)
      PROVE  ControlInv'
  <2>1. PICK r \in ControlType : /\ record' = [record EXCEPT ![k] = r] /\ record[k] /= None
                                 /\ r.version = record[k].version + 1 /\ r.state = state
                                 /\ Control!validControlTransition(record[k].state, r.state)
    BY <1>6, ControlSwapped
  <2>2. r.state \in {"AUTHORIZED", "REJECTED"} /\ (r.state = "AUTHORIZED" => receipt[k] = "APPLIED")
    BY <1>1, <1>2, <1>3, <1>4, <2>1 DEF Knows
  <2>3. /\ record' \in [Keys -> ControlType \cup {None}] /\ record'[k] = r
        /\ RecordsFollow' /\ WithinCapacity'
        /\ \A j \in Keys : Begun(j) => Begun(j)'
        /\ \A j \in Keys : \A s \in ControlType : Current(j, s) => Current(j, s)'
        /\ Current(k, r)'
    BY <1>2, <2>1, <2>2, ControlSwap
  <2>4. AskedOfBegun'
    BY <1>2, <2>3 DEF ControlInv, AskedOfBegun
  <2>5. CASE state = "AUTHORIZED"
    BY <1>5, <1>6, <2>1, <2>3, <2>4, <2>5 DEF Control!Goto
  <2>6. CASE state /= "AUTHORIZED"
    <3>1. caller' = [caller EXCEPT ![c] = None]
      BY <1>6, <2>6 DEF Control!Leave
    <3>2. ControlTypes'
      BY <1>2, <2>3, <3>1 DEF ControlInv, ControlTypes
    <3> QED BY <1>2, <2>3, <2>4, <3>1, <3>2, CallerMoves
  <2> QED BY <2>5, <2>6
<1>7. ASSUME UNCHANGED record, record[k].state = "AUTHORIZED", Control!Goto(c, "claim", record[k])
      PROVE  ControlInv'
  <2>1. record[k] /= None
    BY <1>1, <1>2, <1>3 DEF Knows, Current
  <2>2. PICK r \in ControlType : r = record[k]
    BY <2>1 DEF ControlInv, ControlTypes
  <2>3. AskedOfBegun' /\ RecordsFollow' /\ WithinCapacity' /\ record' \in [Keys -> ControlType \cup {None}]
    BY <1>2, <1>7 DEF ControlInv, ControlTypes, AskedOfBegun, RecordsFollow, WithinCapacity, Begun, Control!Active
  <2>4. \A j \in Keys : \A s \in ControlType : Current(j, s) => Current(j, s)'
    BY <1>7 DEF Current
  <2>5. Current(k, r)'
    BY <1>7, <2>1, <2>2 DEF Current, ControlType
  <2> QED BY <1>5, <1>7, <2>2, <2>3, <2>4, <2>5 DEF Control!Goto
<1>8. ASSUME UNCHANGED record, Control!Leave(c)
      PROVE  ControlInv'
  BY <1>2, <1>8, ControlLeave DEF Control!Leave
<1> QED BY <1>1, <1>3, <1>4, <1>6, <1>7, <1>8 DEF Control!RecordAuthorization

LEMMA ControlClaim ==
  ASSUME ControlInv, NEW c \in Callers, Control!Claim(c)
  PROVE  ControlInv'
<1>1. PICK y : y = caller[c]
  OBVIOUS
<1>2. y \in CallerType /\ y /= None /\ Knows(c) /\ UNCHANGED <<receipt, engine>> /\ y.at = "claim"
  BY <1>1 DEF Control!Claim, Control!At, ControlInv, ControlTypes
<1>3. PICK k \in Keys, prior \in ControlType : k = y.key /\ prior = y.seen
  BY <1>2 DEF CallerType
<1>4. CASE Control!Leave(c) /\ UNCHANGED <<record, pending, asked>>
  BY <1>2, <1>4, ControlLeave DEF Control!Leave
<1>5. CASE /\ Control!CompareAndSwap(k, prior, "STARTING", 0)
           /\ pending' = pending \cup {<<"start", k>>} /\ asked' = [asked EXCEPT ![k] = asked[k] + 1]
           /\ Control!Goto(c, "effect", record'[k])
  <2>1. PICK r \in ControlType : /\ record' = [record EXCEPT ![k] = r] /\ record[k] /= None
                                 /\ r.version = record[k].version + 1 /\ r.state = "STARTING"
                                 /\ record[k].version = prior.version
                                 /\ Control!validControlTransition(record[k].state, r.state)
    BY <1>5, ControlSwapped
  <2>2. record[k] = prior /\ prior.state = "AUTHORIZED"
    BY <1>1, <1>2, <1>3, <2>1 DEF Knows, Current
  <2>3. asked[k] = 0
    BY <2>2 DEF ControlInv, ControlTypes, AskedOfBegun, Begun
  <2>4. /\ record' \in [Keys -> ControlType \cup {None}] /\ record'[k] = r
        /\ RecordsFollow' /\ WithinCapacity'
        /\ \A j \in Keys : Begun(j) => Begun(j)'
        /\ \A j \in Keys : \A s \in ControlType : Current(j, s) => Current(j, s)'
        /\ Current(k, r)'
    BY <1>2, <2>1, ControlSwap
  <2>5. asked' \in [Keys -> {0, 1}] /\ asked'[k] = 1 /\ \A j \in Keys \ {k} : asked'[j] = asked[j]
    BY <1>5, <2>3 DEF ControlInv, ControlTypes
  <2>6. Begun(k)'
    BY <2>1, <2>4, NoneAssumption DEF Begun
  <2>7. AskedOfBegun'
    BY <1>2, <1>5, <2>4, <2>5, <2>6 DEF ControlInv, AskedOfBegun
  <2>8. PICK x : x = [y EXCEPT !.at = "effect", !.seen = r]
    OBVIOUS
  <2>9. x \in CallerType /\ x.key = k /\ x.seen = r /\ x.at = "effect"
    BY <1>2, <1>3, <2>8 DEF CallerType
  <2>10. caller' = [caller EXCEPT ![c] = x]
    BY <1>1, <1>5, <2>4, <2>8 DEF Control!Goto
  <2>11. ControlTypes'
    BY <1>2, <1>5, <2>4, <2>5, <2>9, <2>10 DEF ControlInv, ControlTypes
  <2>12. Current(x.key, x.seen)'
    BY <2>4, <2>9
  <2> QED BY <1>2, <2>4, <2>7, <2>9, <2>10, <2>11, <2>12, CallerMoves
<1> QED BY <1>1, <1>3, <1>4, <1>5 DEF Control!Claim

(* A caller begins with a successful compare-and-swap of its own: a stop or *)
(* a reconciliation.                                                        *)
LEMMA ControlBegins ==
  ASSUME ControlInv, NEW c \in Callers, NEW k \in Keys, record[k] /= None, NEW state, NEW attempts \in Nat,
         Control!CompareAndSwap(k, record[k], state, attempts), state \notin {"AUTHORIZED", "STOPPED"},
         NEW kind \in {"stop", "reconcile"},
         caller' = [caller EXCEPT ![c] = [op |-> kind, key |-> k, at |-> "effect", seen |-> record'[k]]],
         pending' \in {pending, pending \cup {<<"stop", k>>}}, UNCHANGED <<receipt, engine, asked>>
  PROVE  ControlInv'
<1>1. record[k] \in ControlType
  BY DEF ControlInv, ControlTypes
<1>2. PICK r \in ControlType : /\ record' = [record EXCEPT ![k] = r]
                               /\ r.version = record[k].version + 1 /\ r.state = state
                               /\ Control!validControlTransition(record[k].state, r.state)
  BY <1>1, ControlSwapped
<1>3. /\ record' \in [Keys -> ControlType \cup {None}] /\ record'[k] = r
      /\ RecordsFollow' /\ WithinCapacity'
      /\ \A j \in Keys : Begun(j) => Begun(j)'
      /\ \A j \in Keys : \A s \in ControlType : Current(j, s) => Current(j, s)'
      /\ Current(k, r)'
  BY <1>2, ControlSwap
<1>4. AskedOfBegun'
  <2>1. \A j \in Keys : <<"start", j>> \in pending' => <<"start", j>> \in pending
    OBVIOUS
  <2> QED BY <1>3, <2>1 DEF ControlInv, AskedOfBegun
<1>5. PICK x : x = [op |-> kind, key |-> k, at |-> "effect", seen |-> r]
  OBVIOUS
<1>6. x \in CallerType /\ x.key = k /\ x.seen = r /\ x.at = "effect"
  BY <1>5 DEF CallerType
<1>7. caller' = [caller EXCEPT ![c] = x]
  BY <1>3, <1>5
<1>8. ControlTypes'
  BY <1>3, <1>6, <1>7 DEF ControlInv, ControlTypes
<1>9. Current(x.key, x.seen)'
  BY <1>3, <1>6
<1> QED BY <1>3, <1>4, <1>6, <1>7, <1>8, <1>9, CallerMoves

LEMMA ControlEngine ==
  ASSUME ControlInv, NEW kind \in {"start", "stop"}, NEW k \in Keys, Control!EngineEffect(kind, k)
  PROVE  ControlInv'
<1>1. /\ <<kind, k>> \in pending /\ pending' = pending \ {<<kind, k>>}
      /\ UNCHANGED <<record, receipt, caller, asked>>
  BY DEF Control!EngineEffect
<1>2. PICK e : e = CASE kind = "start" -> IF engine[k] = "NONE" THEN "RUNNING" ELSE engine[k]
                     [] kind = "stop" -> IF engine[k] = "NONE" THEN engine[k] ELSE "STOPPED"
  OBVIOUS
<1>3. engine' = [engine EXCEPT ![k] = e]
  BY <1>2 DEF Control!EngineEffect
<1>4. /\ e \in {"NONE", "RUNNING", "STOPPED"} /\ (engine[k] = "STOPPED" => e = "STOPPED")
      /\ e /= "NONE" => engine[k] /= "NONE" \/ kind = "start"
  BY <1>2 DEF ControlInv, ControlTypes
<1>5. engine' \in [Keys -> {"NONE", "RUNNING", "STOPPED"}] /\ engine'[k] = e /\ \A j \in Keys \ {k} : engine'[j] = engine[j]
  BY <1>3, <1>4 DEF ControlInv, ControlTypes
<1>6. ControlTypes'
  BY <1>1, <1>5 DEF ControlInv, ControlTypes
<1>7. AskedOfBegun'
  BY <1>1, <1>4, <1>5 DEF ControlInv, AskedOfBegun, Begun
<1>8. RecordsFollow'
  BY <1>1, <1>4, <1>5 DEF ControlInv, RecordsFollow
<1>9. WithinCapacity' /\ \A c \in Callers : caller'[c] /= None => Knows(c)'
  BY <1>1 DEF ControlInv, WithinCapacity, Control!Active, Knows, Current
<1> QED BY <1>6, <1>7, <1>8, <1>9 DEF ControlInv

LEMMA ControlEffect ==
  ASSUME ControlInv, NEW c \in Callers, Control!recordEffect(c)
  PROVE  ControlInv'
<1>1. PICK y : y = caller[c]
  OBVIOUS
<1>2. y \in CallerType /\ y /= None /\ UNCHANGED <<receipt, engine, pending, asked>> /\ caller' = [caller EXCEPT ![c] = None]
  BY <1>1 DEF Control!recordEffect, Control!Leave, ControlInv, ControlTypes
<1>3. PICK k \in Keys, prior \in ControlType : k = y.key /\ prior = y.seen
  BY <1>2 DEF CallerType
<1>4. PICK state \in Control!Observed(c) :
        \/ Control!CompareAndSwap(k, prior, state, prior.attempts)
        \/ Control!Lost(k, prior, state) /\ UNCHANGED record
  BY <1>1, <1>3 DEF Control!recordEffect
<1>5. state = "UNCERTAIN" \/ state = engine[k]
  BY <1>1, <1>3, <1>4 DEF Control!Observed
<1>6. CASE UNCHANGED record
  BY <1>2, <1>6, ControlLeave
<1>7. CASE Control!CompareAndSwap(k, prior, state, prior.attempts)
  <2>1. prior.attempts \in Nat
    BY DEF ControlType
  <2>2. PICK r \in ControlType : /\ record' = [record EXCEPT ![k] = r] /\ record[k] /= None
                                 /\ r.version = record[k].version + 1 /\ r.state = state
                                 /\ Control!validControlTransition(record[k].state, r.state)
    BY <1>7, <2>1, ControlSwapped
  <2>3. r.state /= "AUTHORIZED" /\ (r.state = "STOPPED" => engine[k] = "STOPPED")
    BY <1>5, <2>2 DEF ControlInv, ControlTypes
  <2>4. /\ record' \in [Keys -> ControlType \cup {None}]
        /\ RecordsFollow' /\ WithinCapacity'
        /\ \A j \in Keys : Begun(j) => Begun(j)'
        /\ \A j \in Keys : \A s \in ControlType : Current(j, s) => Current(j, s)'
    BY <1>2, <2>2, <2>3, ControlSwap
  <2>5. AskedOfBegun'
    BY <1>2, <2>4 DEF ControlInv, AskedOfBegun
  <2>6. ControlTypes'
    BY <1>2, <2>4 DEF ControlInv, ControlTypes
  <2> QED BY <1>2, <2>4, <2>5, <2>6, CallerMoves
<1> QED BY <1>4, <1>6, <1>7

LEMMA ControlNext ==
  ASSUME ControlInv, Control!Next
  PROVE  ControlInv'
<1>1. ASSUME NEW c \in Callers, NEW k \in Keys, Control!Stop(c, k)
      PROVE  ControlInv'
  <2>1. record[k] /= None /\ record[k].attempts \in Nat
    BY <1>1 DEF Control!Stop, Control!Taken, ControlInv, ControlTypes, ControlType
  <2>2. PICK state, n : state = "STOPPING" /\ n = record[k].attempts
    OBVIOUS
  <2>3. state \notin {"AUTHORIZED", "STOPPED"} /\ n \in Nat
    BY <2>1, <2>2
  <2>4. /\ Control!CompareAndSwap(k, record[k], state, n)
        /\ caller' = [caller EXCEPT ![c] = [op |-> "stop", key |-> k, at |-> "effect", seen |-> record'[k]]]
        /\ pending' \in {pending, pending \cup {<<"stop", k>>}} /\ UNCHANGED <<receipt, engine, asked>>
    BY <1>1, <2>2 DEF Control!Stop
  <2> QED BY <2>1, <2>3, <2>4, ControlBegins
<1>2. ASSUME NEW c \in Callers, NEW k \in Keys, Control!Reconcile(c, k)
      PROVE  ControlInv'
  <2>1. record[k] /= None /\ record[k].attempts + 1 \in Nat /\ record[k].state \in {"UNCERTAIN", "STARTING", "STOPPING"}
    BY <1>2 DEF Control!Reconcile, Control!Taken, ControlInv, ControlTypes, ControlType
  <2>2. /\ Control!CompareAndSwap(k, record[k], record[k].state, record[k].attempts + 1)
        /\ caller' = [caller EXCEPT ![c] = [op |-> "reconcile", key |-> k, at |-> "effect", seen |-> record'[k]]]
        /\ pending' \in {pending, pending \cup {<<"stop", k>>}} /\ UNCHANGED <<receipt, engine, asked>>
    BY <1>2 DEF Control!Reconcile
  <2> QED BY <2>1, <2>2, ControlBegins
<1>3. ASSUME NEW c \in Callers, Control!Abandon(c)
      PROVE  ControlInv'
  BY <1>3, ControlLeave DEF Control!Abandon, Control!Leave
<1> QED BY <1>1, <1>2, <1>3, ControlPrepare, ControlAuthorize, ControlRecordAuthorization, ControlClaim,
           ControlEffect, ControlEngine DEF Control!Next

-----------------------------------------------------------------------------
(* Releases.  Every operation is of a merge the plan has reached: of the    *)
(* next one when it is up to date with the plan, and what it asks the       *)
(* provider for was asked by an event of the plan.                          *)

ReleaseTypes ==
  /\ plan \in PlanType \cup {None} /\ op \in [Callers -> OperationType \cup {None}]
  /\ receipt \subseteq {"request"} \X Nat /\ ref \subseteq Changes

PlanReached ==
  plan /= None => /\ plan.next \in 1 .. (Merges + 1)
                  /\ \A n \in 1 .. Merges : n < plan.next => n \in ref
                  /\ plan.state = "READY_FOR_ACCEPTANCE" => plan.next = Merges + 1 /\ plan.tree = Release!QualifiedTree

ReceiptsPast == \A r \in Nat : <<"request", r>> \in receipt => plan /= None /\ r < plan.rev

Merged == {"MERGED", "ALREADY_MERGED"}

OfThePlan(x) ==
  /\ plan /= None /\ x.rev <= plan.rev /\ x.merge <= plan.next
  /\ x.rev = plan.rev => x.merge = plan.next
  /\ (x.rev + 1 = plan.rev /\ plan.state = "EXECUTING") => x.merge = plan.next
  /\ <<"request", x.rev>> \in receipt => x.merge \in plan.asked
  /\ x.at \in {"merge", "update"} => x.merge \in plan.asked
  /\ x.at = "update" => x.current \subseteq Release!Head(x.merge)
  /\ x.at = "record" => x.seen \in ObservationType /\ (x.seen.outcome \in Merged => x.merge \in ref)

ReleaseInv ==
  /\ ReleaseTypes /\ PlanReached /\ ReceiptsPast /\ Release!IntentBeforeEffect
  /\ \A c \in Callers : op[c] /= None => OfThePlan(op[c])

LEMMA ReleaseProperty == ReleaseInv => Release!PlanFollowsBranch /\ Release!IntentBeforeEffect
<1> SUFFICES ASSUME ReleaseInv PROVE Release!PlanFollowsBranch
  BY DEF ReleaseInv
<1>1. ASSUME plan /= None, plan.state = "READY_FOR_ACCEPTANCE" PROVE Release!QualifiedTree \subseteq ref
  BY <1>1, NumbersAssumption DEF ReleaseInv, PlanReached, Release!QualifiedTree, Release!Head
<1> QED BY <1>1 DEF ReleaseInv, PlanReached, Release!PlanFollowsBranch, Release!Planned

LEMMA ReleaseInit == Release!Init => ReleaseInv
BY DEF Release!Init, ReleaseInv, ReleaseTypes, PlanReached, ReceiptsPast, Release!IntentBeforeEffect, Changes

(* The plan stays, or moves on by one revision.                             *)
PlanAdvances(p) ==
  /\ p.rev = plan.rev + 1 /\ p.next >= plan.next /\ plan.asked \subseteq p.asked
  /\ p.state = "EXECUTING" => p.next = plan.next
  /\ \/ receipt' = receipt
     \/ receipt' = receipt \cup {<<"request", plan.rev>>} /\ plan.next \in p.asked

LEMMA OperationKept ==
  ASSUME ReleaseInv, NEW x \in OperationType, OfThePlan(x), NEW p \in PlanType, plan' = p, ref \subseteq ref',
         (p = plan /\ receipt' = receipt) \/ PlanAdvances(p)
  PROVE  OfThePlan(x)'
<1>1. /\ p /= None /\ plan \in PlanType
      /\ x.rev \in Nat /\ x.merge \in Nat /\ plan.rev \in Nat /\ plan.next \in Nat /\ p.rev \in Nat /\ p.next \in Nat
  BY NoneAssumption DEF OperationType, PlanType, OfThePlan, ReleaseInv, ReleaseTypes
<1>2. x.at = "record" => x.seen \in ObservationType /\ (x.seen.outcome \in Merged => x.merge \in ref')
  BY DEF OfThePlan
<1>3. CASE p = plan /\ receipt' = receipt
  BY <1>1, <1>2, <1>3 DEF OfThePlan
<1>4. CASE PlanAdvances(p)
  <2>1. x.rev < p.rev /\ x.merge <= p.next /\ (x.rev + 1 = p.rev => x.rev = plan.rev)
    BY <1>1, <1>4 DEF OfThePlan, PlanAdvances
  <2>2. (x.rev + 1 = p.rev /\ p.state = "EXECUTING") => x.merge = p.next
    BY <1>1, <1>4, <2>1 DEF OfThePlan, PlanAdvances
  <2>3. ASSUME <<"request", x.rev>> \in receipt' PROVE x.merge \in p.asked
    <3>1. CASE <<"request", x.rev>> \in receipt
      BY <1>4, <3>1 DEF OfThePlan, PlanAdvances
    <3>2. CASE <<"request", x.rev>> \notin receipt
      <4>1. x.rev = plan.rev /\ plan.next \in p.asked
        BY <1>4, <2>3, <3>2 DEF PlanAdvances
      <4> QED BY <4>1 DEF OfThePlan
    <3> QED BY <3>1, <3>2
  <2>4. x.at \in {"merge", "update"} => x.merge \in p.asked
    BY <1>4 DEF OfThePlan, PlanAdvances
  <2>5. x.at = "update" => x.current \subseteq Release!Head(x.merge)
    BY DEF OfThePlan
  <2> QED BY <1>1, <1>2, <2>1, <2>2, <2>3, <2>4, <2>5 DEF OfThePlan
<1> QED BY <1>3, <1>4

(* One operation is replaced and the others are kept.                       *)
LEMMA OperationMoves ==
  ASSUME ReleaseInv, NEW c \in Callers, NEW x \in OperationType \cup {None}, op' = [op EXCEPT ![c] = x],
         NEW p \in PlanType, plan' = p, (p = plan /\ receipt' = receipt) \/ PlanAdvances(p),
         receipt' \subseteq {"request"} \X Nat, ref' \subseteq Changes, ref \subseteq ref',
         PlanReached', ReceiptsPast', Release!IntentBeforeEffect',
         x /= None => OfThePlan(x)'
  PROVE  ReleaseInv'
<1>1. op'[c] = x /\ (\A d \in Callers \ {c} : op'[d] = op[d]) /\ ReleaseTypes'
  BY DEF ReleaseInv, ReleaseTypes
<1>2. ASSUME NEW d \in Callers \ {c}, op[d] /= None PROVE OfThePlan(op[d])'
  <2>1. PICK y \in OperationType : y = op[d]
    BY <1>2 DEF ReleaseInv, ReleaseTypes
  <2>2. OfThePlan(y)
    BY <1>2, <2>1 DEF ReleaseInv
  <2>3. OfThePlan(y)'
    BY <2>2, OperationKept
  <2>4. op'[d] = y
    BY <1>1, <2>1
  <2> QED BY <2>3, <2>4 DEF OfThePlan
<1>3. x /= None => OfThePlan(op[c])'
  BY <1>1 DEF OfThePlan
<1> QED BY <1>1, <1>2, <1>3 DEF ReleaseInv

LEMMA OperationsStay ==
  ASSUME ReleaseInv, UNCHANGED op,
         NEW p \in PlanType, plan' = p, (p = plan /\ receipt' = receipt) \/ PlanAdvances(p),
         receipt' \subseteq {"request"} \X Nat, ref' \subseteq Changes, ref \subseteq ref',
         PlanReached', ReceiptsPast', Release!IntentBeforeEffect'
  PROVE  ReleaseInv'
<1>1. ReleaseTypes'
  BY DEF ReleaseInv, ReleaseTypes
<1>2. ASSUME NEW d \in Callers, op[d] /= None PROVE OfThePlan(op[d])'
  <2>1. PICK y \in OperationType : y = op[d]
    BY <1>2 DEF ReleaseInv, ReleaseTypes
  <2>2. OfThePlan(y)
    BY <1>2, <2>1 DEF ReleaseInv
  <2>3. OfThePlan(y)'
    BY <2>2, OperationKept
  <2>4. op'[d] = y
    BY <2>1
  <2> QED BY <2>3, <2>4 DEF OfThePlan
<1> QED BY <1>1, <1>2 DEF ReleaseInv

LEMMA InspectSays ==
  ASSUME NEW n \in 1 .. Merges, NEW at \in SUBSET Changes, NEW exact \in Merged
  PROVE  /\ Release!inspect(n, at, exact).outcome \in Merged \cup {"FAILED"}
         /\ Release!inspect(n, at, exact).outcome \in Merged => n \in at
         /\ ~ Release!inspect(n, at, exact).terminal => at \subseteq Release!Head(n)
<1>1. n \in Release!Head(n)
  BY NumbersAssumption DEF Release!Head
<1>2. CASE ~ usable
  BY <1>2 DEF Release!inspect, Merged
<1>3. CASE usable
  BY <1>1, <1>3 DEF Release!inspect, Merged
<1> QED BY <1>2, <1>3

LEMMA Observed ==
  ASSUME NEW o \in Merged \cup {"FAILED", "UNKNOWN"}, NEW at \in SUBSET Changes
  PROVE  Release!Observation(o, at) \in ObservationType /\ Release!Observation(o, at).outcome = o
BY DEF Release!Observation, ObservationType, Merged

LEMMA AnOperation ==
  ASSUME ReleaseInv, NEW c \in Callers, op[c] /= None
  PROVE  op[c] \in OperationType /\ OfThePlan(op[c]) /\ plan \in PlanType /\ plan /= None
BY DEF ReleaseInv, ReleaseTypes, OfThePlan

(* The branch only grows under the plan.                                    *)
LEMMA PlanUnmoved ==
  ASSUME ReleaseInv, NEW c \in Callers, NEW x \in OperationType \cup {None}, op' = [op EXCEPT ![c] = x],
         plan /= None, UNCHANGED <<plan, receipt, ref>>, x /= None => OfThePlan(x)
  PROVE  ReleaseInv'
<1>1. plan \in PlanType /\ receipt' \subseteq {"request"} \X Nat /\ ref' \subseteq Changes /\ ref \subseteq ref'
  BY DEF ReleaseInv, ReleaseTypes
<1>2. PlanReached' /\ ReceiptsPast' /\ Release!IntentBeforeEffect'
  BY DEF ReleaseInv, PlanReached, ReceiptsPast, Release!IntentBeforeEffect, Release!Planned, Release!QualifiedTree
<1>3. x /= None => OfThePlan(x)'
  BY DEF OfThePlan
<1>4. PICK p \in PlanType : p = plan
  BY <1>1
<1> QED BY <1>1, <1>2, <1>3, <1>4, OperationMoves

LEMMA ReleaseBegin ==
  ASSUME ReleaseInv, NEW c \in Callers, Release!Begin(c)
  PROVE  ReleaseInv'
<1>1. /\ plan /= None /\ plan \in PlanType /\ UNCHANGED <<plan, receipt, ref>>
      /\ plan.next <= Merges /\ plan.next \in 1 .. (Merges + 1)
  BY DEF Release!Begin, Release!releaseProviderRequest, Release!Planned, ReleaseInv, ReleaseTypes, PlanReached
<1>2. plan.rev \in Nat /\ plan.round \in Nat /\ plan.next \in 1 .. Merges
  BY <1>1, NumbersAssumption DEF PlanType
<1>3. PICK x : x = [kind |-> "execute", at |-> "request", rev |-> plan.rev, merge |-> plan.next,
                    round |-> plan.round, current |-> {}, seen |-> None]
  OBVIOUS
<1>4. op' = [op EXCEPT ![c] = x]
  BY <1>3 DEF Release!Begin
<1>5. x \in OperationType /\ x.rev = plan.rev /\ x.merge = plan.next /\ x.at = "request"
  BY <1>2, <1>3 DEF OperationType
<1>6. <<"request", x.rev>> \notin receipt
  BY <1>2, <1>5 DEF ReleaseInv, ReceiptsPast
<1>7. OfThePlan(x)
  BY <1>1, <1>2, <1>5, <1>6 DEF OfThePlan
<1> QED BY <1>1, <1>4, <1>5, <1>7, PlanUnmoved

LEMMA ReleaseRepeat ==
  ASSUME ReleaseInv, NEW c \in Callers, Release!Repeat(c)
  PROVE  ReleaseInv'
<1>1. op[c] /= None /\ UNCHANGED <<plan, receipt, ref>>
  BY DEF Release!Repeat
<1>2. op[c] \in OperationType /\ OfThePlan(op[c]) /\ plan /= None
  BY <1>1, AnOperation
<1>3. PICK y \in OperationType : y = op[c]
  BY <1>2
<1>4. PICK x : x = IF y.kind = "execute" THEN [y EXCEPT !.at = "request", !.current = {}, !.seen = None] ELSE None
  OBVIOUS
<1>5. op' = [op EXCEPT ![c] = x]
  BY <1>3, <1>4 DEF Release!Repeat
<1>6. /\ x \in OperationType \cup {None}
      /\ x /= None => x.rev = y.rev /\ x.merge = y.merge /\ x.at = "request"
  BY <1>4 DEF OperationType
<1>7. x /= None => OfThePlan(x)
  BY <1>2, <1>3, <1>6 DEF OfThePlan
<1> QED BY <1>1, <1>2, <1>5, <1>6, <1>7, PlanUnmoved

(* The answer of the provider is what the branch says.                      *)
LEMMA Answered ==
  ASSUME ReleaseInv, NEW c \in Callers, op[c] /= None, NEW o \in ObservationType,
         Release!Answer(c, o), o.outcome \in Merged => op[c].merge \in ref'
  PROVE  \E x \in OperationType :
            /\ op' = [op EXCEPT ![c] = x]
            /\ x.rev = op[c].rev /\ x.merge = op[c].merge /\ x.at = "record" /\ x.seen = o
<1>1. PICK y \in OperationType : y = op[c]
  BY AnOperation
<1>2. PICK x : x = [y EXCEPT !.at = "record", !.seen = o]
  OBVIOUS
<1>3. x \in OperationType /\ x.rev = y.rev /\ x.merge = y.merge /\ x.at = "record" /\ x.seen = o
  BY <1>2 DEF OperationType
<1>4. op' = [op EXCEPT ![c] = [op[c] EXCEPT !.at = "record", !.seen = o]]
  BY <1>1 DEF Release!Answer
<1>5. op' = [op EXCEPT ![c] = x]
  BY <1>1, <1>2, <1>4
<1> QED BY <1>1, <1>3, <1>5

LEMMA ReleaseInspect ==
  ASSUME ReleaseInv, NEW c \in Callers, Release!Inspect(c)
  PROVE  ReleaseInv'
<1>1. op[c] /= None /\ op[c].at = "merge" /\ UNCHANGED <<plan, receipt, ref>> /\ ref \in SUBSET Changes
  BY DEF Release!Inspect, ReleaseInv, ReleaseTypes
<1>2. PICK y \in OperationType : y = op[c] /\ OfThePlan(y) /\ plan /= None /\ y.merge \in 1 .. Merges
  BY <1>1, AnOperation DEF OperationType
<1>3. PICK seen : seen = Release!inspect(y.merge, ref, "ALREADY_MERGED")
  OBVIOUS
<1>4. /\ seen.outcome \in Merged \cup {"FAILED"} /\ (seen.outcome \in Merged => y.merge \in ref)
      /\ ~ seen.terminal => ref \subseteq Release!Head(y.merge)
  BY <1>1, <1>2, <1>3, InspectSays DEF Merged
<1>5. ASSUME NEW o \in Merged \cup {"FAILED", "UNKNOWN"}, Release!Answer(c, Release!Observation(o, ref)),
             o \in Merged => y.merge \in ref
      PROVE  ReleaseInv'
  <2>1. PICK s \in ObservationType : s = Release!Observation(o, ref) /\ s.outcome = o
    BY <1>1, <1>5, Observed
  <2>2. PICK x \in OperationType : /\ op' = [op EXCEPT ![c] = x]
                                   /\ x.rev = y.rev /\ x.merge = y.merge /\ x.at = "record" /\ x.seen = s
    BY <1>1, <1>2, <1>5, <2>1, Answered
  <2>3. OfThePlan(x)
    BY <1>2, <1>5, <2>1, <2>2 DEF OfThePlan
  <2> QED BY <1>1, <1>2, <2>2, <2>3, PlanUnmoved
<1>6. ASSUME ~ seen.terminal, op' = [op EXCEPT ![c].at = "update", ![c].current = ref]
      PROVE  ReleaseInv'
  <2>1. PICK x : x = [y EXCEPT !.at = "update", !.current = ref]
    OBVIOUS
  <2>2. x \in OperationType /\ x.rev = y.rev /\ x.merge = y.merge /\ x.at = "update" /\ x.current = ref
    BY <1>1, <2>1 DEF OperationType
  <2>3. op' = [op EXCEPT ![c] = x]
    BY <1>2, <1>6, <2>1 DEF ReleaseInv, ReleaseTypes
  <2>4. OfThePlan(x)
    BY <1>1, <1>2, <1>4, <1>6, <2>2 DEF OfThePlan
  <2> QED BY <1>1, <1>2, <2>2, <2>3, <2>4, PlanUnmoved
<1>7. \/ Release!Answer(c, Release!Observation("UNKNOWN", ref))
      \/ Release!Answer(c, Release!Observation(seen.outcome, ref))
      \/ ~ seen.terminal /\ op' = [op EXCEPT ![c].at = "update", ![c].current = ref]
  BY <1>2, <1>3 DEF Release!Inspect
<1>8. "UNKNOWN" \notin Merged
  BY DEF Merged
<1> QED BY <1>4, <1>5, <1>6, <1>7, <1>8

LEMMA ReleaseMerge ==
  ASSUME ReleaseInv, NEW c \in Callers, Release!Merge(c)
  PROVE  ReleaseInv'
<1>1. op[c] /= None /\ op[c].at = "update" /\ UNCHANGED <<plan, receipt, usable>> /\ ref \in SUBSET Changes
  BY DEF Release!Merge, ReleaseInv, ReleaseTypes
<1>2. PICK y \in OperationType : /\ y = op[c] /\ OfThePlan(y) /\ plan /= None /\ plan \in PlanType /\ y.merge \in 1 .. Merges
                                 /\ y.at = "update" /\ y.current \subseteq Release!Head(y.merge)
  BY <1>1, AnOperation DEF OperationType, OfThePlan
<1>3. ref' = ref \/ (ref = y.current /\ ref' = Release!Head(y.merge))
  BY <1>2 DEF Release!Merge, Release!updateRef
<1>4. ref \subseteq ref' /\ ref' \in SUBSET Changes
  BY <1>1, <1>2, <1>3, NumbersAssumption DEF Release!Head, Changes
<1>5. PlanReached' /\ ReceiptsPast'
  BY <1>1, <1>4 DEF ReleaseInv, PlanReached, ReceiptsPast, Release!QualifiedTree
<1>6. Release!IntentBeforeEffect'
  <2>1. CASE ref' = ref
    BY <1>1, <2>1 DEF ReleaseInv, Release!IntentBeforeEffect, Release!Planned
  <2>2. CASE ref' = Release!Head(y.merge)
    <3>1. y.merge \in plan.asked /\ y.merge <= plan.next /\ plan.next \in Nat
      BY <1>2 DEF OfThePlan, PlanType
    <3>2. ASSUME NEW n \in 1 .. Merges, n \in ref' PROVE n \in plan.asked
      <4>1. n <= y.merge
        BY <2>2, <3>2, NumbersAssumption DEF Release!Head
      <4>2. CASE n = y.merge
        BY <3>1, <4>2
      <4>3. CASE n < y.merge
        <5>1. n < plan.next
          BY <1>2, <3>1, <4>3, NumbersAssumption
        <5> QED BY <1>2, <5>1 DEF ReleaseInv, PlanReached, Release!IntentBeforeEffect
      <4> QED BY <1>2, <4>1, <4>2, <4>3, NumbersAssumption
    <3> QED BY <1>1, <1>2, <3>2 DEF Release!IntentBeforeEffect, Release!Planned
  <2> QED BY <1>3, <2>1, <2>2
<1>7. PICK at \in SUBSET Changes : at = ref'
  BY <1>4
<1>8. PICK o \in {"UNKNOWN", Release!inspect(y.merge, at, "MERGED").outcome} : Release!Answer(c, Release!Observation(o, at))
  BY <1>2, <1>7 DEF Release!Merge
<1>9. o \in Merged \cup {"FAILED", "UNKNOWN"} /\ (o \in Merged => y.merge \in ref')
  BY <1>2, <1>7, <1>8, InspectSays DEF Merged
<1>10. PICK s \in ObservationType : s = Release!Observation(o, at) /\ s.outcome = o
  BY <1>9, Observed
<1>11. PICK x \in OperationType : /\ op' = [op EXCEPT ![c] = x]
                                  /\ x.rev = y.rev /\ x.merge = y.merge /\ x.at = "record" /\ x.seen = s
  BY <1>1, <1>2, <1>8, <1>9, <1>10, Answered
<1>12. OfThePlan(x)'
  BY <1>1, <1>2, <1>9, <1>10, <1>11 DEF OfThePlan
<1>13. PICK p \in PlanType : p = plan
  BY <1>2
<1>14. receipt' \subseteq {"request"} \X Nat
  BY <1>1 DEF ReleaseInv, ReleaseTypes
<1> QED BY <1>1, <1>4, <1>5, <1>6, <1>11, <1>12, <1>13, <1>14, OperationMoves

LEMMA ReleaseReconcile ==
  ASSUME ReleaseInv, NEW c \in Callers, Release!Reconcile(c)
  PROVE  ReleaseInv'
<1>1. /\ plan /= None /\ plan \in PlanType /\ UNCHANGED <<plan, receipt, ref>> /\ ref \in SUBSET Changes
      /\ plan.next <= Merges /\ plan.next \in 1 .. (Merges + 1)
  BY DEF Release!Reconcile, Release!releaseProviderRequest, Release!Planned, ReleaseInv, ReleaseTypes, PlanReached
<1>2. plan.rev \in Nat /\ plan.active \in Nat /\ plan.next \in 1 .. Merges
  BY <1>1, NumbersAssumption DEF PlanType
<1>3. PICK o \in {Release!inspect(plan.next, ref, "MERGED").outcome, "UNKNOWN"} :
        op' = [op EXCEPT ![c] = [kind |-> "reconcile", at |-> "record", rev |-> plan.rev, merge |-> plan.next,
                                 round |-> plan.active, current |-> {}, seen |-> Release!Observation(o, ref)]]
  BY DEF Release!Reconcile
<1>4. o \in Merged \cup {"FAILED", "UNKNOWN"} /\ (o \in Merged => plan.next \in ref)
  BY <1>1, <1>2, <1>3, InspectSays DEF Merged
<1>5. PICK s \in ObservationType : s = Release!Observation(o, ref) /\ s.outcome = o
  BY <1>1, <1>4, Observed
<1>6. PICK x : x = [kind |-> "reconcile", at |-> "record", rev |-> plan.rev, merge |-> plan.next,
                    round |-> plan.active, current |-> {}, seen |-> s]
  OBVIOUS
<1>7. x \in OperationType /\ x.rev = plan.rev /\ x.merge = plan.next /\ x.at = "record" /\ x.seen = s
  BY <1>2, <1>6 DEF OperationType
<1>8. <<"request", x.rev>> \notin receipt
  BY <1>2, <1>7 DEF ReleaseInv, ReceiptsPast
<1>9. OfThePlan(x)
  BY <1>1, <1>2, <1>4, <1>5, <1>7, <1>8 DEF OfThePlan
<1>10. op' = [op EXCEPT ![c] = x]
  BY <1>3, <1>5, <1>6
<1> QED BY <1>1, <1>7, <1>9, <1>10, PlanUnmoved

LEMMA ReleaseRequest ==
  ASSUME ReleaseInv, NEW c \in Callers, Release!Request(c)
  PROVE  ReleaseInv'
<1>1. op[c] /= None /\ op[c].at = "request" /\ UNCHANGED ref
  BY DEF Release!Request
<1>2. PICK y \in OperationType : /\ y = op[c] /\ OfThePlan(y) /\ plan /= None /\ plan \in PlanType
                                 /\ y.merge \in 1 .. Merges /\ y.rev \in Nat /\ y.round \in Nat /\ y.at = "request"
  BY <1>1, AnOperation DEF OperationType
<1>3. PICK x : x = [y EXCEPT !.at = "merge"]
  OBVIOUS
<1>4. x \in OperationType /\ x.rev = y.rev /\ x.merge = y.merge /\ x.at = "merge"
  BY <1>3 DEF OperationType
<1>5. [op EXCEPT ![c].at = "merge"] = [op EXCEPT ![c] = x]
  BY <1>2, <1>3
<1>6. CASE <<"request", y.rev>> \in receipt /\ op' = [op EXCEPT ![c] = x] /\ UNCHANGED <<plan, receipt>>
  <2>1. OfThePlan(x)
    BY <1>2, <1>4, <1>6 DEF OfThePlan
  <2> QED BY <1>1, <1>2, <1>4, <1>6, <2>1, PlanUnmoved
<1>7. CASE op' = [op EXCEPT ![c] = None] /\ UNCHANGED <<plan, receipt>>
  BY <1>1, <1>2, <1>7, PlanUnmoved
<1>8. CASE /\ plan.rev = y.rev /\ plan.state = "QUALIFIED"
           /\ plan' = [plan EXCEPT !.state = "EXECUTING", !.active = y.round, !.rev = @ + 1, !.asked = @ \cup {y.merge}]
           /\ receipt' = receipt \cup {<<"request", y.rev>>}
           /\ op' = [op EXCEPT ![c] = x]
  <2>1. plan.rev \in Nat /\ plan.rev + 1 \in Nat /\ plan.next \in Nat /\ plan.asked \cup {y.merge} \in SUBSET (1 .. Merges)
    BY <1>2 DEF PlanType
  <2>2. PICK p \in PlanType : /\ p = plan' /\ p.rev = plan.rev + 1 /\ p.next = plan.next
                              /\ p.asked = plan.asked \cup {y.merge} /\ p.state = "EXECUTING"
    <3>1. PICK p : p = [plan EXCEPT !.state = "EXECUTING", !.active = y.round, !.rev = @ + 1, !.asked = @ \cup {y.merge}]
      OBVIOUS
    <3>2. p \in PlanType /\ p.rev = plan.rev + 1 /\ p.next = plan.next /\ p.asked = plan.asked \cup {y.merge} /\ p.state = "EXECUTING"
      BY <1>2, <2>1, <3>1 DEF PlanType
    <3> QED BY <1>8, <3>1, <3>2
  <2>3. p /= None
    BY NoneAssumption
  <2>4. y.merge = plan.next
    BY <1>2, <1>8 DEF OfThePlan
  <2>5. PlanAdvances(p)
    BY <1>8, <2>1, <2>2, <2>4 DEF PlanAdvances
  <2>6. receipt' \subseteq {"request"} \X Nat /\ ref' \subseteq Changes /\ ref \subseteq ref'
    BY <1>1, <1>2, <1>8 DEF ReleaseInv, ReleaseTypes
  <2>7. PlanReached'
    BY <1>1, <1>2, <2>2 DEF ReleaseInv, PlanReached
  <2>8. ReceiptsPast'
    <3> SUFFICES ASSUME NEW r \in Nat, <<"request", r>> \in receipt' PROVE r < p.rev
      BY <2>2, <2>3 DEF ReceiptsPast
    <3>1. <<"request", r>> \in receipt \/ r = plan.rev
      BY <1>8
    <3> QED BY <2>1, <2>2, <3>1 DEF ReleaseInv, ReceiptsPast
  <2>9. Release!IntentBeforeEffect'
    BY <1>1, <1>2, <2>2, <2>3 DEF ReleaseInv, Release!IntentBeforeEffect, Release!Planned
  <2>10. OfThePlan(x)'
    BY <1>4, <1>8, <2>1, <2>2, <2>3, <2>4 DEF OfThePlan
  <2> QED BY <1>4, <1>8, <2>2, <2>5, <2>6, <2>7, <2>8, <2>9, <2>10, OperationMoves
<1> QED BY <1>2, <1>5, <1>6, <1>7, <1>8 DEF Release!Request

(* What an outcome makes of the plan: it goes on to the next merge only     *)
(* when this one is done.                                                   *)
LEMMA OutcomeApplied ==
  ASSUME NEW p \in PlanType, NEW s \in ObservationType
  PROVE  LET q == Release!applyReleaseOutcome(p, s.outcome, s.tree)
         IN  /\ q \in PlanType /\ q.rev = p.rev + 1 /\ q.asked = p.asked
             /\ q.state \notin {"EXECUTING", "READY_FOR_ACCEPTANCE"}
             /\ IF s.outcome \in Merged THEN q.next = p.next + 1 ELSE q.next = p.next
<1> DEFINE q == Release!applyReleaseOutcome(p, s.outcome, s.tree)
<1>1. /\ s.outcome \in {"UNKNOWN", "MERGED", "ALREADY_MERGED", "FAILED"} /\ s.tree \in SUBSET Changes
      /\ p.rev + 1 \in Nat /\ p.next + 1 \in Nat /\ p.active + 1 \in Nat /\ 1 \in Nat /\ 0 \in Nat /\ p.round \in Nat
  BY DEF ObservationType, PlanType
<1>2. CASE s.outcome = "UNKNOWN"
  <2>1. q = [p EXCEPT !.state = "RECONCILING", !.rev = @ + 1]
    BY <1>2 DEF Release!applyReleaseOutcome
  <2> QED BY <1>1, <1>2, <2>1 DEF PlanType, Merged
<1>3. CASE s.outcome \in Merged
  <2>1. q = [p EXCEPT !.state = "QUALIFIED", !.tree = s.tree, !.next = @ + 1, !.round = 1, !.active = 0, !.rev = @ + 1]
    BY <1>3 DEF Release!applyReleaseOutcome, Merged
  <2> QED BY <1>1, <1>3, <2>1 DEF PlanType
<1>4. CASE s.outcome = "FAILED"
  <2>1. PICK state, round : /\ state = IF p.active >= ExecutionRounds THEN "FAILED" ELSE "QUALIFIED"
                            /\ round = IF p.active >= ExecutionRounds THEN p.round ELSE p.active + 1
    OBVIOUS
  <2>2. state \in {"FAILED", "QUALIFIED"} /\ round \in Nat
    BY <1>1, <2>1
  <2>3. q = [p EXCEPT !.active = 0, !.rev = @ + 1, !.state = state, !.round = round]
    BY <1>4, <2>1 DEF Release!applyReleaseOutcome
  <2> QED BY <1>1, <1>4, <2>2, <2>3 DEF PlanType, Merged
<1> QED BY <1>1, <1>2, <1>3, <1>4 DEF Merged

(* An operation of the next merge records what it saw.                      *)
LEMMA OutcomeRecorded ==
  ASSUME ReleaseInv, NEW c \in Callers, op[c] /= None, op[c].at = "record", op[c].merge = plan.next,
         plan' = Release!applyReleaseOutcome(plan, op[c].seen.outcome, op[c].seen.tree),
         op' = [op EXCEPT ![c] = None], UNCHANGED <<receipt, ref>>
  PROVE  ReleaseInv'
<1>1. PICK y \in OperationType : y = op[c] /\ OfThePlan(y) /\ plan \in PlanType /\ plan /= None
  BY AnOperation
<1>2. PICK s \in ObservationType : /\ s = y.seen /\ (s.outcome \in Merged => plan.next \in ref)
                                   /\ plan.next \in 1 .. Merges /\ plan.rev \in Nat
  BY <1>1 DEF OfThePlan, OperationType, PlanType
<1>3. PICK p \in PlanType : /\ plan' = p /\ p.rev = plan.rev + 1 /\ p.asked = plan.asked
                            /\ p.state \notin {"EXECUTING", "READY_FOR_ACCEPTANCE"}
                            /\ IF s.outcome \in Merged THEN p.next = plan.next + 1 ELSE p.next = plan.next
  BY <1>1, <1>2, OutcomeApplied
<1>4. p /= None
  BY NoneAssumption
<1>5. p.next >= plan.next /\ p.next \in 1 .. (Merges + 1)
  BY <1>2, <1>3, NumbersAssumption
<1>6. PlanAdvances(p)
  BY <1>3, <1>5 DEF PlanAdvances
<1>7. receipt' \subseteq {"request"} \X Nat /\ ref' \subseteq Changes /\ ref \subseteq ref'
  BY DEF ReleaseInv, ReleaseTypes
<1>8. PlanReached'
  <2>1. ASSUME NEW n \in 1 .. Merges, n < p.next PROVE n \in ref
    <3>1. n < plan.next \/ (n = plan.next /\ s.outcome \in Merged)
      BY <1>2, <1>3, <2>1, NumbersAssumption
    <3> QED BY <1>1, <1>2, <3>1 DEF ReleaseInv, PlanReached
  <2> QED BY <1>3, <1>5, <2>1 DEF PlanReached
<1>9. ReceiptsPast'
  BY <1>2, <1>3, <1>4 DEF ReleaseInv, ReceiptsPast
<1>10. Release!IntentBeforeEffect'
  BY <1>3, <1>4 DEF ReleaseInv, Release!IntentBeforeEffect, Release!Planned
<1> QED BY <1>3, <1>6, <1>7, <1>8, <1>9, <1>10, OperationMoves

LEMMA ReleaseRecord ==
  ASSUME ReleaseInv, NEW c \in Callers, Release!Record(c) \/ Release!RecordReconciliation(c)
  PROVE  ReleaseInv'
<1>1. /\ op[c] /= None /\ op[c].at = "record" /\ op' = [op EXCEPT ![c] = None] /\ UNCHANGED <<receipt, ref>>
      /\ \/ UNCHANGED plan
         \/ /\ plan.rev = op[c].rev \/ (plan.rev = op[c].rev + 1 /\ plan.state = "EXECUTING")
            /\ plan' = Release!applyReleaseOutcome(plan, op[c].seen.outcome, op[c].seen.tree)
  BY DEF Release!Record, Release!RecordReconciliation
<1>2. plan /= None /\ OfThePlan(op[c])
  BY <1>1, AnOperation
<1>3. CASE UNCHANGED plan
  BY <1>1, <1>2, <1>3, PlanUnmoved
<1>4. CASE /\ plan.rev = op[c].rev \/ (plan.rev = op[c].rev + 1 /\ plan.state = "EXECUTING")
           /\ plan' = Release!applyReleaseOutcome(plan, op[c].seen.outcome, op[c].seen.tree)
  <2>1. op[c].merge = plan.next
    BY <1>2, <1>4 DEF OfThePlan
  <2> QED BY <1>1, <1>4, <2>1, OutcomeRecorded
<1> QED BY <1>1, <1>3, <1>4

(* The plan is moved by its owner.                                          *)
LEMMA ReleasePlanned ==
  ASSUME ReleaseInv, Release!Qualify \/ Release!Finalize
  PROVE  ReleaseInv'
<1>1. plan /= None /\ plan \in PlanType /\ UNCHANGED <<op, receipt, ref>>
  BY DEF Release!Qualify, Release!Finalize, Release!Planned, ReleaseInv, ReleaseTypes
<1>2. plan.rev \in Nat /\ plan.rev + 1 \in Nat /\ plan.next \in Nat
  BY <1>1 DEF PlanType
<1>3. PICK state \in {"QUALIFIED", "READY_FOR_ACCEPTANCE", "NO_RELEASE_REQUIRED"} :
        /\ plan' = [plan EXCEPT !.state = state, !.rev = @ + 1]
        /\ state = "READY_FOR_ACCEPTANCE" => plan.next = Merges + 1 /\ plan.tree = Release!QualifiedTree
  BY DEF Release!Qualify, Release!Finalize
<1>4. PICK p \in PlanType : /\ p = plan' /\ p.rev = plan.rev + 1 /\ p.next = plan.next /\ p.asked = plan.asked
                            /\ p.state = state /\ p.tree = plan.tree
  <2>1. PICK p : p = [plan EXCEPT !.state = state, !.rev = @ + 1]
    OBVIOUS
  <2>2. /\ p \in PlanType /\ p.rev = plan.rev + 1 /\ p.next = plan.next /\ p.asked = plan.asked
        /\ p.state = state /\ p.tree = plan.tree
    BY <1>1, <1>2, <2>1 DEF PlanType
  <2> QED BY <1>3, <2>1, <2>2
<1>5. p /= None
  BY NoneAssumption
<1>6. PlanAdvances(p)
  BY <1>1, <1>2, <1>4 DEF PlanAdvances
<1>7. receipt' \subseteq {"request"} \X Nat /\ ref' \subseteq Changes /\ ref \subseteq ref'
  BY <1>1 DEF ReleaseInv, ReleaseTypes
<1>8. Release!QualifiedTree' = Release!QualifiedTree
  BY DEF Release!QualifiedTree, Release!Head
<1>9. PlanReached'
  BY <1>1, <1>3, <1>4, <1>8 DEF ReleaseInv, PlanReached
<1>10. ReceiptsPast'
  BY <1>1, <1>2, <1>4, <1>5 DEF ReleaseInv, ReceiptsPast
<1>11. Release!IntentBeforeEffect'
  BY <1>1, <1>4, <1>5 DEF ReleaseInv, Release!IntentBeforeEffect, Release!Planned
<1> QED BY <1>1, <1>4, <1>6, <1>7, <1>9, <1>10, <1>11, OperationsStay

LEMMA ReleaseCreate ==
  ASSUME ReleaseInv, NEW mode \in {"CODE", "NO_RELEASE_REQUIRED"}, Release!Create(mode)
  PROVE  ReleaseInv'
<1>1. plan = None /\ UNCHANGED <<op, receipt, ref>> /\ plan' = Release!ReleasePlanFromCreatePayload(mode)
  BY DEF Release!Create, Release!Planned
<1>2. PICK p \in PlanType : p = plan' /\ p.next = 1 /\ p.state = "PLANNED" /\ p.asked = {}
  BY <1>1 DEF Release!ReleasePlanFromCreatePayload, PlanType
<1>3. p /= None
  BY NoneAssumption
<1>4. \A c \in Callers : op[c] = None
  BY <1>1 DEF ReleaseInv, OfThePlan
<1>5. receipt = {} /\ \A n \in 1 .. Merges : n \notin ref
  BY <1>1 DEF ReleaseInv, ReleaseTypes, ReceiptsPast, Release!IntentBeforeEffect, Release!Planned
<1>6. ReleaseTypes'
  BY <1>1, <1>2 DEF ReleaseInv, ReleaseTypes
<1>7. PlanReached' /\ ReceiptsPast'
  BY <1>1, <1>2, <1>5, NumbersAssumption DEF PlanReached, ReceiptsPast
<1>8. Release!IntentBeforeEffect' /\ \A c \in Callers : op'[c] = None
  BY <1>1, <1>4, <1>5 DEF Release!IntentBeforeEffect
<1> QED BY <1>6, <1>7, <1>8 DEF ReleaseInv

(* What leaves the plan and its operations alone.                           *)
LEMMA ReleaseBeside ==
  ASSUME ReleaseInv, UNCHANGED <<plan, op, receipt>>, ref' = ref \/ ref' = ref \cup {Release!Foreign}
  PROVE  ReleaseInv'
<1>1. ref \subseteq ref' /\ ref' \subseteq Changes /\ \A n \in 1 .. Merges : n \in ref' => n \in ref
  BY NumbersAssumption DEF ReleaseInv, ReleaseTypes, Changes, Release!Foreign
<1>2. ReleaseTypes' /\ ReceiptsPast'
  BY <1>1 DEF ReleaseInv, ReleaseTypes, ReceiptsPast
<1>3. PlanReached' /\ Release!IntentBeforeEffect'
  BY <1>1 DEF ReleaseInv, PlanReached, Release!IntentBeforeEffect, Release!Planned, Release!QualifiedTree
<1>4. ASSUME NEW c \in Callers, op[c] /= None PROVE OfThePlan(op[c])'
  BY <1>1, <1>4 DEF ReleaseInv, OfThePlan
<1> QED BY <1>2, <1>3, <1>4 DEF ReleaseInv

LEMMA ReleaseNext ==
  ASSUME ReleaseInv, Release!Next
  PROVE  ReleaseInv'
<1>1. CASE Release!ApproveRelease \/ Release!RequestAcceptance \/ Release!Push \/ Release!Tamper
  BY <1>1, ReleaseBeside DEF Release!ApproveRelease, Release!RequestAcceptance, Release!Push, Release!Tamper
<1> QED BY <1>1, ReleasePlanned, ReleaseCreate, ReleaseBegin, ReleaseRequest, ReleaseInspect, ReleaseMerge, ReleaseRecord,
           ReleaseReconcile, ReleaseRepeat DEF Release!Next
-----------------------------------------------------------------------------
(* Reviews.  The join of an opened review is always that of its last        *)
(* results, and a finalized review is never recorded to again, so that its  *)
(* verdict stays their join.                                                *)

RecordOf(required) == [required -> ResultType \cup {None}]

Joined(v) ==
  /\ v \in ReviewType /\ v.record \in RecordOf(v.required) /\ v.required /= {}
  /\ v.join = Review!EvaluateReviewJoin(v.required, v.policy, Review!Observed(v))
  /\ \A b \in v.required : v.record[b] /= None =>
       /\ v.record[b].candidate = v.candidate
       /\ v.record[b].role = "POLICY_TIMEOUT" => v.record[b].result \in {"BLOCKED", "CANCELLED"}
  /\ v.final /= None => /\ v.final.rev = v.rev /\ v.final.events = Review!Current(v)
                        /\ v.join.complete /\ v.final.status = v.join.status

ReviewInv ==
  /\ work \in [phase : {"ACTIVE", "COMPLETED"}, runnable : BOOLEAN, epoch : Nat] /\ now \in Nat
  /\ review \in [Reviews -> ReviewType \cup {None}]
  /\ \A r \in Reviews : review[r] /= None => Joined(review[r])
  /\ Review!CompletedWorkWasPassed

(* The worst result is PASS when all are, and FAIL when there is one.       *)
LEMMA WorstResult ==
  ASSUME NEW D, NEW observed \in [D -> ReviewResults]
  PROVE  LET worst == Review!deterministicReviewFailure(observed)
         IN  /\ worst = "PASS" <=> \A b \in D : observed[b] = "PASS"
             /\ worst /= "PASS" => worst \in ReviewResults
             /\ (\E b \in D : observed[b] = "FAIL") => worst = "FAIL"
<1> DEFINE S == Review!Severity
           has == {i \in DOMAIN S : \E b \in DOMAIN observed : observed[b] = S[i]}
           m == CHOOSE i \in has : \A j \in has : i <= j
           worst == Review!deterministicReviewFailure(observed)
<1>1. /\ S[1] = "FAIL" /\ S[2] = "BLOCKED" /\ S[3] = "INCONCLUSIVE" /\ S[4] = "CANCELLED" /\ S[5] = "SUPERSEDED"
      /\ DOMAIN S = 1 .. 5
  BY DEF Review!Severity
<1>2. worst = IF has = {} THEN "PASS" ELSE S[m]
  BY DEF Review!deterministicReviewFailure
<1>3. DOMAIN observed = D /\ \A b \in D : observed[b] = "PASS" \/ \E i \in 1 .. 5 : observed[b] = S[i]
  <2> SUFFICES ASSUME NEW b \in D, observed[b] /= "PASS" PROVE \E i \in 1 .. 5 : observed[b] = S[i]
    OBVIOUS
  <2>1. observed[b] \in {"FAIL", "BLOCKED", "INCONCLUSIVE", "CANCELLED", "SUPERSEDED"}
    BY ResultsAssumption
  <2>2. observed[b] \in {S[1], S[2], S[3], S[4], S[5]}
    BY <1>1, <2>1
  <2> QED BY <2>2
<1>4. \A i \in 1 .. 5 : S[i] /= "PASS"
  BY <1>1
<1>5. has = {} <=> \A b \in D : observed[b] = "PASS"
  BY <1>1, <1>3, <1>4
<1>6. ASSUME has /= {} PROVE m \in has /\ \A j \in has : m <= j
  <2>1. has \subseteq {1, 2, 3, 4, 5}
    BY <1>1
  <2>2. \E i \in has : \A j \in has : i <= j
    <3> HIDE DEF has
    <3>1. CASE 1 \in has
      BY <2>1, <3>1
    <3>2. CASE 1 \notin has /\ 2 \in has
      BY <2>1, <3>2
    <3>3. CASE 1 \notin has /\ 2 \notin has /\ 3 \in has
      BY <2>1, <3>3
    <3>4. CASE 1 \notin has /\ 2 \notin has /\ 3 \notin has /\ 4 \in has
      BY <2>1, <3>4
    <3>5. CASE 1 \notin has /\ 2 \notin has /\ 3 \notin has /\ 4 \notin has
      <4>1. has = {5}
        BY <1>6, <2>1, <3>5
      <4> QED BY <4>1
    <3> QED BY <3>1, <3>2, <3>3, <3>4, <3>5
  <2> HIDE DEF has
  <2> QED BY <2>2
<1>7. ASSUME has /= {} PROVE worst = S[m] /\ m \in 1 .. 5 /\ \E b \in D : observed[b] = S[m]
  <2>1. m \in has /\ worst = S[m]
    BY <1>2, <1>6, <1>7
  <2> HIDE DEF m
  <2> QED BY <1>1, <1>3, <2>1
<1>8. ASSUME NEW b \in D, observed[b] = "FAIL" PROVE worst = "FAIL"
  <2>1. 1 \in has
    BY <1>1, <1>3, <1>8
  <2>2. has /= {}
    BY <2>1
  <2>3. m \in 1 .. 5 /\ m <= 1 /\ worst = S[m]
    BY <1>6, <1>7, <2>1, <2>2
  <2> HIDE DEF m
  <2>4. m = 1
    BY <2>3
  <2> QED BY <1>1, <2>3, <2>4
<1> HIDE DEF has, m
<1>9. worst = "PASS" <=> has = {}
  BY <1>2, <1>4, <1>7
<1> QED BY <1>5, <1>7, <1>8, <1>9

(* A join is complete on its worst result, and on PASS only with every      *)
(* branch answered.                                                         *)
LEMMA JoinSays ==
  ASSUME NEW required, required /= {}, NEW policy, NEW D, NEW observed \in [D -> ReviewResults]
  PROVE  LET join == Review!EvaluateReviewJoin(required, policy, observed)
             worst == Review!deterministicReviewFailure(observed)
         IN  /\ join \in [complete : BOOLEAN, status : ReviewResults \cup {"PENDING"}]
             /\ join.complete => join.status = worst /\ (worst = "PASS" => D = required)
<1> DEFINE worst == Review!deterministicReviewFailure(observed)
           join == Review!EvaluateReviewJoin(required, policy, observed)
<1>1. /\ worst = "PASS" <=> \A b \in D : observed[b] = "PASS"
      /\ worst /= "PASS" => worst \in ReviewResults
  BY WorstResult
<1>2. DOMAIN observed = D
  OBVIOUS
<1>3. join = IF worst /= "PASS" /\ policy = "FAIL_FAST" THEN [complete |-> TRUE, status |-> worst]
             ELSE IF D /= required THEN [complete |-> FALSE, status |-> "PENDING"]
             ELSE [complete |-> TRUE, status |-> worst]
  BY <1>2 DEF Review!EvaluateReviewJoin
<1> HIDE DEF worst, join
<1>4. CASE worst /= "PASS" /\ policy = "FAIL_FAST"
  BY <1>1, <1>3, <1>4 DEF worst, join
<1>5. CASE ~ (worst /= "PASS" /\ policy = "FAIL_FAST") /\ D /= required
  BY <1>3, <1>5 DEF worst, join
<1>6. CASE ~ (worst /= "PASS" /\ policy = "FAIL_FAST") /\ D = required
  <2>1. worst \in ReviewResults
    BY <1>1, <1>6
  <2> QED BY <1>3, <1>6, <2>1 DEF worst, join
<1> QED BY <1>4, <1>5, <1>6

LEMMA ObservedType ==
  ASSUME NEW v, v.record \in RecordOf(v.required)
  PROVE  Review!Observed(v) \in [Review!Recorded(v) -> ReviewResults]
<1>1. \A b \in Review!Recorded(v) : v.record[b] \in ResultType
  BY DEF Review!Recorded, RecordOf
<1> QED BY <1>1 DEF Review!Observed, ResultType

(* What a complete join of an opened review says of its results.            *)
LEMMA JoinedSays ==
  ASSUME NEW v, Joined(v), v.join.complete
  PROVE  /\ v.join.status = "PASS" => Review!Recorded(v) = v.required
         /\ v.join.status = "PASS" <=> \A b \in Review!Recorded(v) : v.record[b].result = "PASS"
         /\ (\E b \in Review!Recorded(v) : v.record[b].result = "FAIL") => v.join.status = "FAIL"
<1>1. PICK D, observed : D = Review!Recorded(v) /\ observed = Review!Observed(v)
  OBVIOUS
<1>2. observed \in [D -> ReviewResults] /\ \A b \in D : observed[b] = v.record[b].result
  BY <1>1, ObservedType DEF Joined, Review!Observed
<1>3. PICK worst : worst = Review!deterministicReviewFailure(observed)
  OBVIOUS
<1>4. v.join = Review!EvaluateReviewJoin(v.required, v.policy, observed) /\ v.required /= {}
  BY <1>1 DEF Joined
<1>5. v.join.status = worst /\ (worst = "PASS" => D = v.required)
  BY <1>2, <1>3, <1>4, JoinSays
<1>6. /\ worst = "PASS" <=> \A b \in D : observed[b] = "PASS"
      /\ (\E b \in D : observed[b] = "FAIL") => worst = "FAIL"
  BY <1>2, <1>3, WorstResult
<1> QED BY <1>1, <1>2, <1>5, <1>6

LEMMA ReviewProperty == ReviewInv => Review!CompletedWorkWasPassed /\ Review!VerdictIsOfLastResults
<1> SUFFICES ASSUME ReviewInv PROVE Review!VerdictIsOfLastResults
  BY DEF ReviewInv
<1> SUFFICES ASSUME NEW r \in Reviews, review[r] /= None, review[r].final /= None
             PROVE  LET v == review[r]
                        results == {v.record[b].result : b \in Review!Recorded(v)} IN
                    /\ v.final.events = Review!Current(v) /\ v.final.rev = v.rev
                    /\ (v.final.status = "PASS") <=> (results = {"PASS"} /\ Review!Recorded(v) = v.required)
                    /\ "FAIL" \in results => v.final.status = "FAIL"
  BY DEF Review!VerdictIsOfLastResults, Review!Opened
<1>1. PICK v : v = review[r] /\ Joined(v)
  BY DEF ReviewInv
<1>2. /\ v.final.rev = v.rev /\ v.final.events = Review!Current(v)
      /\ v.join.complete /\ v.final.status = v.join.status /\ v.required /= {}
  BY <1>1 DEF Joined
<1>3. /\ v.join.status = "PASS" => Review!Recorded(v) = v.required
      /\ v.join.status = "PASS" <=> \A b \in Review!Recorded(v) : v.record[b].result = "PASS"
      /\ (\E b \in Review!Recorded(v) : v.record[b].result = "FAIL") => v.join.status = "FAIL"
  BY <1>1, <1>2, JoinedSays
<1> DEFINE results == {v.record[b].result : b \in Review!Recorded(v)}
<1>4. (v.final.status = "PASS") <=> (results = {"PASS"} /\ Review!Recorded(v) = v.required)
  <2>1. ASSUME v.final.status = "PASS" PROVE results = {"PASS"} /\ Review!Recorded(v) = v.required
    BY <1>2, <1>3, <2>1
  <2>2. ASSUME results = {"PASS"} PROVE v.final.status = "PASS"
    BY <1>2, <1>3, <2>2
  <2> QED BY <2>1, <2>2
<1>5. "FAIL" \in results => v.final.status = "FAIL"
  BY <1>2, <1>3
<1> QED BY <1>1, <1>2, <1>4, <1>5

LEMMA ReviewInit == Review!Init => ReviewInv
BY DEF Review!Init, ReviewInv, Review!CompletedWorkWasPassed

(* One review that was not finalized is opened, answered or finalized.      *)
LEMMA ReviewMoves ==
  ASSUME ReviewInv, NEW r \in Reviews, NEW v, Joined(v), review' = [review EXCEPT ![r] = v],
         review[r] = None \/ review[r].final = None, UNCHANGED <<work, now>>
  PROVE  ReviewInv'
<1>1. v \in ReviewType /\ review' \in [Reviews -> ReviewType \cup {None}]
  BY DEF Joined, ReviewInv
<1>2. review'[r] = v /\ \A q \in Reviews \ {r} : review'[q] = review[q]
  BY DEF ReviewInv
<1>3. \A q \in Reviews : review'[q] /= None => Joined(review'[q])
  BY <1>2 DEF ReviewInv
<1>4. \A q \in Reviews : review'[q] /= None => Joined(review[q])'
  BY <1>3 DEF Joined, RecordOf, ReviewType, ResultType
<1>5. Review!CompletedWorkWasPassed'
  <2> SUFFICES ASSUME work.phase = "COMPLETED" PROVE Review!CompletedWorkWasPassed'
    BY DEF Review!CompletedWorkWasPassed
  <2>1. PICK q \in Reviews :
          /\ review[q] /= None
          /\ review[q].epoch = work.epoch /\ review[q].final /= None
          /\ \A b \in review[q].required :
               LET last == review[q].record[b] IN
               last /= None /\ last.result = "PASS" /\ last.role /= "POLICY_TIMEOUT"
                            /\ last.candidate = review[q].candidate
    BY DEF ReviewInv, Review!CompletedWorkWasPassed, Review!Opened
  <2>2. q /= r
    BY <2>1
  <2>3. review'[q] = review[q] /\ work' = work
    BY <1>2, <2>2
  <2> QED BY <2>1, <2>3 DEF Review!CompletedWorkWasPassed, Review!Opened
<1> QED BY <1>1, <1>4, <1>5 DEF ReviewInv

LEMMA ReviewOpen ==
  ASSUME ReviewInv, NEW r \in Reviews, NEW required \in SUBSET Branches, NEW policy \in Review!Policies,
         NEW c \in Artifacts, NEW e \in Evidence, Review!Open(r, required, policy, c, e)
  PROVE  ReviewInv'
<1>1. required /= {} /\ review[r] = None /\ UNCHANGED <<work, now>> /\ work.epoch \in Nat
  BY DEF Review!Open, Review!PlanValidationReview, Review!Opened, ReviewInv
<1>2. PICK record0, join, branchEnd, roundEnd :
        /\ record0 = [b \in required |-> None] /\ join = Review!EvaluateReviewJoin(required, policy, <<>>)
        /\ branchEnd = now + BranchDeadline /\ roundEnd = now + AdjudicationDeadline
  OBVIOUS
<1>3. record0 \in RecordOf(required) /\ branchEnd \in Nat /\ roundEnd \in Nat
  BY <1>2, NumbersAssumption DEF RecordOf, ReviewInv
<1>4. PICK v : v = [epoch |-> work.epoch, evidence |-> e, required |-> required, policy |-> policy, candidate |-> c,
                    record |-> record0, known |-> {}, rev |-> 1, final |-> None,
                    deadline |-> branchEnd, adjudication |-> roundEnd, join |-> join]
  OBVIOUS
<1>5. review' = [review EXCEPT ![r] = v]
  BY <1>2, <1>4 DEF Review!Open, Review!CompletionReviewFromPayload
<1>6. /\ v.record = record0 /\ v.required = required /\ v.policy = policy /\ v.join = join /\ v.final = None
      /\ v.candidate = c
  BY <1>4
<1>7. PICK none : none = Review!Observed(v)
  OBVIOUS
<1>8. Review!Recorded(v) = {} /\ DOMAIN none = {}
  BY <1>2, <1>6, <1>7 DEF Review!Recorded, Review!Observed
<1>9. join = [complete |-> FALSE, status |-> "PENDING"] /\ join = Review!EvaluateReviewJoin(required, policy, none)
  <2>1. ASSUME NEW f, DOMAIN f = {} PROVE Review!EvaluateReviewJoin(required, policy, f) = [complete |-> FALSE, status |-> "PENDING"]
    <3>1. Review!deterministicReviewFailure(f) = "PASS"
      BY <2>1 DEF Review!deterministicReviewFailure
    <3> QED BY <1>1, <2>1, <3>1 DEF Review!EvaluateReviewJoin
  <2>2. DOMAIN << >> = {}
    OBVIOUS
  <2> QED BY <1>2, <1>8, <2>1, <2>2
<1>10. join \in [complete : BOOLEAN, status : ReviewResults \cup {"PENDING"}]
  BY <1>9
<1>11. record0 \in UNION {[S -> ResultType \cup {None}] : S \in SUBSET Branches}
  BY <1>3 DEF RecordOf
<1>12. v \in ReviewType
  BY <1>1, <1>3, <1>4, <1>10, <1>11 DEF ReviewType
<1>13. Joined(v)
  BY <1>1, <1>2, <1>3, <1>6, <1>7, <1>9, <1>12 DEF Joined
<1> QED BY <1>1, <1>5, <1>13, ReviewMoves

LEMMA ReviewRecord ==
  ASSUME ReviewInv, NEW r \in Reviews, Review!RecordResult(r)
  PROVE  ReviewInv'
<1>1. review[r] /= None /\ UNCHANGED <<work, now>>
  BY DEF Review!RecordResult, Review!Opened
<1>2. PICK v : v = review[r] /\ Joined(v)
  BY <1>1 DEF ReviewInv
<1>3. PICK x \in Review!Answers(v) :
        /\ Review!BoundedReviewResultReason(v, x)
        /\ review' = [review EXCEPT ![r] = Review!ApplyBoundedReviewBranchResult(v, x)]
  BY <1>2 DEF Review!RecordResult
<1>4. /\ v.final = None /\ x.branch \in v.required /\ x.candidate = v.candidate /\ x.result \in ReviewResults
      /\ x.role \in Review!Roles /\ x.round \in Nat /\ x.candidate \in Artifacts
      /\ x.role = "POLICY_TIMEOUT" => x.result \in {"BLOCKED", "CANCELLED"}
  <2>1. v.final = None /\ x.branch \in v.required /\ x.candidate = v.candidate /\ Review!SourceRoleAdmits(v, x)
    BY <1>3 DEF Review!BoundedReviewResultReason
  <2>2. /\ x.result \in ReviewResults /\ x.role \in Review!Roles /\ x.candidate \in Artifacts
        /\ x.round \in 1 .. (ReviewRounds + 1)
    BY <1>3 DEF Review!Answers
  <2>3. x.round \in Nat
    BY <2>2, NumbersAssumption
  <2>4. x.role = "POLICY_TIMEOUT" => x.result \in {"BLOCKED", "CANCELLED"}
    BY <2>1 DEF Review!SourceRoleAdmits
  <2> QED BY <2>1, <2>2, <2>3, <2>4
<1>5. v \in ReviewType /\ v.record \in RecordOf(v.required) /\ v.required /= {} /\ v.required \in SUBSET Branches
      /\ v.rev + 1 \in Nat /\ v.known \cup {v.rev + 1} \in SUBSET Nat
  BY <1>2 DEF Joined, ReviewType
<1>6. PICK result : result = [result |-> x.result, role |-> x.role, round |-> x.round, event |-> v.rev + 1,
                              candidate |-> x.candidate]
  OBVIOUS
<1>7. result \in ResultType /\ result.candidate = v.candidate /\ result.role = x.role /\ result.result = x.result
  BY <1>4, <1>5, <1>6 DEF ResultType
<1>8. PICK rec : rec = [v.record EXCEPT ![x.branch] = result]
  OBVIOUS
<1>9. /\ rec \in RecordOf(v.required) /\ rec[x.branch] = result
      /\ \A b \in v.required \ {x.branch} : rec[b] = v.record[b]
  BY <1>4, <1>5, <1>7, <1>8 DEF RecordOf
<1>10. rec \in UNION {[S -> ResultType \cup {None}] : S \in SUBSET Branches}
  BY <1>5, <1>9 DEF RecordOf
<1>11. PICK recorded : recorded = [v EXCEPT !.record = rec, !.known = @ \cup {v.rev + 1}, !.rev = @ + 1]
  OBVIOUS
<1>12. /\ recorded \in ReviewType /\ recorded.record = rec /\ recorded.required = v.required /\ recorded.policy = v.policy
       /\ recorded.candidate = v.candidate /\ recorded.final = None
  BY <1>4, <1>5, <1>10, <1>11 DEF ReviewType
<1>13. PICK join : join = Review!EvaluateReviewJoin(v.required, v.policy, Review!Observed(recorded))
  OBVIOUS
<1>14. join \in [complete : BOOLEAN, status : ReviewResults \cup {"PENDING"}]
  <2>1. PICK D, observed : D = Review!Recorded(recorded) /\ observed = Review!Observed(recorded)
    OBVIOUS
  <2>2. observed \in [D -> ReviewResults]
    BY <1>9, <1>12, <2>1, ObservedType
  <2> QED BY <1>5, <1>13, <2>1, <2>2, JoinSays
<1>15. PICK w : w = [recorded EXCEPT !.join = join]
  OBVIOUS
<1>16. /\ w \in ReviewType /\ w.record = rec /\ w.required = v.required /\ w.policy = v.policy
       /\ w.candidate = v.candidate /\ w.final = None /\ w.join = join
  BY <1>12, <1>14, <1>15 DEF ReviewType
<1>17. Review!Observed(w) = Review!Observed(recorded)
  BY <1>12, <1>16 DEF Review!Observed, Review!Recorded
<1>18. \A b \in w.required : w.record[b] /= None =>
         /\ w.record[b].candidate = w.candidate
         /\ w.record[b].role = "POLICY_TIMEOUT" => w.record[b].result \in {"BLOCKED", "CANCELLED"}
  BY <1>2, <1>4, <1>7, <1>9, <1>16 DEF Joined
<1>19. Joined(w)
  BY <1>5, <1>9, <1>13, <1>16, <1>17, <1>18 DEF Joined
<1>20. Review!ApplyBoundedReviewBranchResult(v, x) = w
  <2>1. recorded = [v EXCEPT !.record[x.branch] =
                      [result |-> x.result, role |-> x.role, round |-> x.round, event |-> v.rev + 1,
                       candidate |-> x.candidate],
                      !.known = @ \cup {v.rev + 1}, !.rev = @ + 1]
    BY <1>6, <1>8, <1>11
  <2> QED BY <1>13, <1>15, <2>1 DEF Review!ApplyBoundedReviewBranchResult
<1> QED BY <1>1, <1>2, <1>3, <1>4, <1>19, <1>20, ReviewMoves

LEMMA ReviewFinalize ==
  ASSUME ReviewInv, NEW r \in Reviews, Review!Finalize(r)
  PROVE  ReviewInv'
<1>1. review[r] /= None /\ UNCHANGED <<work, now>>
  BY DEF Review!Finalize, Review!Opened
<1>2. PICK v : v = review[r] /\ Joined(v)
  BY <1>1 DEF ReviewInv
<1>3. PICK expected \in 1 .. v.rev, events \in SUBSET v.known, status \in ReviewResults :
        /\ Review!ApplyReviewFinalization(v, expected, events, status)
        /\ review' = [review EXCEPT ![r].final = [rev |-> expected, status |-> status, events |-> events]]
  BY <1>2 DEF Review!Finalize
<1>4. PICK f : f = [rev |-> expected, status |-> status, events |-> events]
  OBVIOUS
<1>5. /\ v \in ReviewType /\ v.final = None /\ expected = v.rev /\ v.rev \in Nat /\ v.known \in SUBSET Nat
      /\ v.join.complete /\ status = v.join.status /\ events = Review!Current(v)
  BY <1>2, <1>3 DEF Joined, ReviewType, Review!ApplyReviewFinalization
<1>6. /\ f \in [rev : Nat, status : ReviewResults, events : SUBSET Nat]
      /\ f.rev = v.rev /\ f.status = v.join.status /\ f.events = Review!Current(v)
  BY <1>3, <1>4, <1>5
<1>7. PICK w : w = [v EXCEPT !.final = f]
  OBVIOUS
<1>8. /\ w \in ReviewType /\ w.record = v.record /\ w.required = v.required /\ w.policy = v.policy
      /\ w.candidate = v.candidate /\ w.final = f /\ w.join = v.join /\ w.rev = v.rev
  BY <1>5, <1>6, <1>7 DEF ReviewType
<1>9. Review!Observed(w) = Review!Observed(v) /\ Review!Current(w) = Review!Current(v)
  BY <1>8 DEF Review!Observed, Review!Current, Review!Recorded
<1>10. Joined(w)
  BY <1>2, <1>5, <1>6, <1>8, <1>9 DEF Joined
<1>11. review' = [review EXCEPT ![r] = w]
  BY <1>2, <1>3, <1>4, <1>7
<1> QED BY <1>1, <1>2, <1>5, <1>10, <1>11, ReviewMoves

(* Only the work moves.                                                     *)
LEMMA ReviewsStay ==
  ASSUME ReviewInv, UNCHANGED review,
         work' \in [phase : {"ACTIVE", "COMPLETED"}, runnable : BOOLEAN, epoch : Nat], now' \in Nat,
         Review!CompletedWorkWasPassed'
  PROVE  ReviewInv'
<1>1. \A q \in Reviews : review'[q] /= None => Joined(review[q])'
  BY DEF ReviewInv, Joined, RecordOf, ReviewType, ResultType
<1> QED BY <1>1 DEF ReviewInv

LEMMA ReviewComplete ==
  ASSUME ReviewInv, NEW r \in Reviews, Review!Complete(r)
  PROVE  ReviewInv'
<1>1. review[r] /= None /\ UNCHANGED <<review, now>> /\ now' \in Nat
  BY DEF Review!Complete, Review!Opened, ReviewInv
<1>2. PICK v : v = review[r] /\ Joined(v)
  BY <1>1 DEF ReviewInv
<1>3. work' = [work EXCEPT !.phase = "COMPLETED"]
  BY DEF Review!Complete
<1>4. work' \in [phase : {"ACTIVE", "COMPLETED"}, runnable : BOOLEAN, epoch : Nat] /\ work'.epoch = work.epoch
  BY <1>3 DEF ReviewInv
<1>5. v.epoch = work.epoch /\ v.final /= None /\ v.final.status = "PASS"
  BY <1>2 DEF Review!Complete, Review!PlanCompletion, Review!acceptedFinalizedReview
<1>6. v.join.complete /\ v.join.status = "PASS"
  BY <1>2, <1>5 DEF Joined
<1>7. Review!Recorded(v) = v.required /\ \A b \in Review!Recorded(v) : v.record[b].result = "PASS"
  BY <1>2, <1>6, JoinedSays
<1>8. \A b \in v.required : /\ v.record[b] /= None /\ v.record[b].result = "PASS" /\ v.record[b].candidate = v.candidate
                            /\ v.record[b].role /= "POLICY_TIMEOUT"
  BY <1>2, <1>7 DEF Joined, Review!Recorded
<1>9. Review!CompletedWorkWasPassed'
  BY <1>1, <1>2, <1>4, <1>5, <1>8 DEF Review!CompletedWorkWasPassed, Review!Opened
<1> QED BY <1>1, <1>4, <1>9, ReviewsStay

LEMMA ReviewNext ==
  ASSUME ReviewInv, Review!Next
  PROVE  ReviewInv'
<1>1. CASE Review!Reopen
  <2>1. work' \in [phase : {"ACTIVE", "COMPLETED"}, runnable : BOOLEAN, epoch : Nat] /\ work'.phase = "ACTIVE"
        /\ UNCHANGED review /\ now' \in Nat
    BY <1>1 DEF Review!Reopen, ReviewInv
  <2> QED BY <2>1, ReviewsStay DEF Review!CompletedWorkWasPassed
<1>2. CASE Review!SetRunnable
  <2>1. PICK runs \in BOOLEAN : runs = ~ work.runnable
    OBVIOUS
  <2>2. work' = [work EXCEPT !.runnable = runs] /\ UNCHANGED review /\ now' \in Nat /\ work.phase = "ACTIVE"
    BY <1>2, <2>1 DEF Review!SetRunnable, ReviewInv
  <2>3. work' \in [phase : {"ACTIVE", "COMPLETED"}, runnable : BOOLEAN, epoch : Nat] /\ work'.phase = "ACTIVE"
    BY <2>2 DEF ReviewInv
  <2> QED BY <2>2, <2>3, ReviewsStay DEF Review!CompletedWorkWasPassed
<1>3. CASE Review!Tick
  <2>1. now' \in Nat /\ UNCHANGED <<work, review>>
    BY <1>3 DEF Review!Tick, ReviewInv
  <2>2. Review!CompletedWorkWasPassed'
    BY <2>1 DEF ReviewInv, Review!CompletedWorkWasPassed, Review!Opened
  <2>3. work' \in [phase : {"ACTIVE", "COMPLETED"}, runnable : BOOLEAN, epoch : Nat]
    BY <2>1 DEF ReviewInv
  <2> QED BY <2>1, <2>2, <2>3, ReviewsStay
<1> QED BY <1>1, <1>2, <1>3, ReviewOpen, ReviewRecord, ReviewFinalize, ReviewComplete DEF Review!Next
-----------------------------------------------------------------------------
(* Suspension windows.  A window is recorded from the heartbeat or the stop *)
(* of the session to now, which becomes the heartbeat: all that is recorded *)
(* ends before what will be.                                                *)

SessionType == [state : {"RUNNING", "STOPPED"}, hb : Nat, stopped : Nat]
WindowType == [from : Nat, to : Nat]
ExtensionType == [amended : SUBSET WindowType, burnt : SUBSET WindowType, extra : Int]

RuntimeInv ==
  /\ now \in Nat /\ session \in SessionType /\ session.hb <= now /\ budget \in ExtensionType
  /\ session.state = "STOPPED" => session.stopped = session.hb
  /\ windows \subseteq WindowType /\ \A w \in windows : w.from < w.to /\ w.to <= session.hb
  /\ Runtime!WindowsApart

LEMMA RuntimeInit == Runtime!Init => RuntimeInv
BY DEF Runtime!Init, RuntimeInv, SessionType, ExtensionType, Runtime!WindowsApart

LEMMA RuntimeAdvances ==
  ASSUME RuntimeInv, NEW starting, Runtime!advanceRuntimeSession(starting), UNCHANGED <<now, budget>>
  PROVE  RuntimeInv'
<1>1. PICK h \in Nat : h = session.hb
  BY DEF RuntimeInv, SessionType
<1>2. Runtime!SuspendedAt(session) = h
  BY <1>1 DEF Runtime!SuspendedAt, RuntimeInv
<1>3. PICK n \in Nat : n = now
  BY DEF RuntimeInv
<1>4. PICK x : x = Runtime!Window(h, n)
  OBVIOUS
<1>5. x.from = h /\ x.to = n /\ x \in WindowType
  BY <1>4 DEF Runtime!Window, WindowType
<1>6. windows' = windows \/ (windows' = windows \cup {x} /\ n > h)
  BY <1>2, <1>3, <1>4 DEF Runtime!advanceRuntimeSession
<1>7. session' \in SessionType /\ session'.hb = n /\ session'.state = "RUNNING"
  BY <1>3 DEF Runtime!advanceRuntimeSession, SessionType
<1>8. \A w \in windows : w \in WindowType /\ w.from \in Nat /\ w.to \in Nat /\ w.from < w.to /\ w.to <= h /\ h <= n
  BY <1>1, <1>3 DEF RuntimeInv, WindowType
<1>9. Runtime!WindowsApart'
  <2>1. budget.amended \subseteq windows'
    BY <1>6 DEF RuntimeInv, Runtime!WindowsApart
  <2>2. \A v, w \in windows' : v /= w => v.to <= w.from \/ w.to <= v.from
    BY <1>5, <1>6, <1>8 DEF RuntimeInv, Runtime!WindowsApart
  <2> QED BY <2>1, <2>2 DEF Runtime!WindowsApart
<1>10. windows' \subseteq WindowType /\ \A w \in windows' : w.from < w.to /\ w.to <= n
  BY <1>5, <1>6, <1>8
<1> QED BY <1>3, <1>7, <1>9, <1>10 DEF RuntimeInv

LEMMA RuntimeNext == ASSUME RuntimeInv, Runtime!Next PROVE RuntimeInv'
<1>1. CASE Runtime!HeartbeatRuntimeSession \/ Runtime!StartRuntimeSession
  BY <1>1, RuntimeAdvances DEF Runtime!HeartbeatRuntimeSession, Runtime!StartRuntimeSession
<1>2. CASE Runtime!Tick \/ \E d \in 1 .. Threshold + 1 : Runtime!Sleep(d)
  <2>1. UNCHANGED <<session, windows, budget>> /\ \E d \in 1 .. Threshold + 1 : now' = now + d
    <3>1. 1 \in 1 .. Threshold + 1
      BY NumbersAssumption
    <3> QED BY <1>2, <3>1 DEF Runtime!Tick, Runtime!Sleep
  <2>2. now' \in Nat /\ session.hb <= now'
    BY <2>1, NumbersAssumption DEF RuntimeInv, SessionType
  <2> QED BY <2>1, <2>2 DEF RuntimeInv, Runtime!WindowsApart
<1>3. CASE Runtime!StopRuntimeSession
  <2>1. UNCHANGED <<now, windows, budget>> /\ session' = [state |-> "STOPPED", hb |-> now, stopped |-> now]
    BY <1>3 DEF Runtime!StopRuntimeSession
  <2>2. \A w \in windows : w.to <= now
    BY DEF RuntimeInv, SessionType, WindowType
  <2> QED BY <2>1, <2>2 DEF RuntimeInv, SessionType, Runtime!WindowsApart
<1>4. CASE \/ Runtime!Crash \/ Runtime!Authorize \/ Runtime!Begin \/ Runtime!Finish \/ Runtime!EffectiveDeadlineReadSession
           \/ Runtime!EffectiveWorkInvocationDeadline \/ Runtime!DeadlineExceeded
  <2>1. UNCHANGED <<now, session, windows, budget>>
    BY <1>4 DEF Runtime!Crash, Runtime!Authorize, Runtime!Begin, Runtime!Finish, Runtime!EffectiveDeadlineReadSession,
                Runtime!EffectiveWorkInvocationDeadline, Runtime!DeadlineExceeded
  <2> QED BY <2>1 DEF RuntimeInv, Runtime!WindowsApart
<1>5. ASSUME NEW w \in windows, Runtime!reconcileFeatureRuntimeSuspension(w) PROVE RuntimeInv'
  <2>1. UNCHANGED <<now, session, windows>>
    BY <1>5 DEF Runtime!reconcileFeatureRuntimeSuspension
  <2>2. w \in WindowType /\ w.to - w.from \in Int /\ budget \in ExtensionType /\ budget.extra \in Int
    BY DEF RuntimeInv, WindowType, ExtensionType
  <2>3. CASE UNCHANGED budget
    BY <2>1, <2>3 DEF RuntimeInv, Runtime!WindowsApart
  <2>4. CASE budget' = [budget EXCEPT !.burnt = @ \cup {w}]
    <3>1. budget' \in ExtensionType /\ budget'.amended = budget.amended
      BY <2>2, <2>4 DEF ExtensionType
    <3> QED BY <2>1, <3>1 DEF RuntimeInv, Runtime!WindowsApart
  <2>5. CASE budget' = [budget EXCEPT !.amended = @ \cup {w}, !.extra = @ + (w.to - w.from)]
    <3>1. PICK e \in Int : e = budget.extra + (w.to - w.from)
      BY <2>2
    <3>2. PICK a \in SUBSET WindowType : a = budget.amended \cup {w}
      BY <2>2 DEF ExtensionType
    <3>3. budget' = [budget EXCEPT !.amended = a, !.extra = e]
      BY <2>5, <3>1, <3>2
    <3>4. budget' \in ExtensionType /\ budget'.amended = a
      BY <2>2, <3>3 DEF ExtensionType
    <3> QED BY <2>1, <3>2, <3>4 DEF RuntimeInv, Runtime!WindowsApart
  <2> QED BY <1>5, <2>3, <2>4, <2>5 DEF Runtime!reconcileFeatureRuntimeSuspension
<1> QED BY <1>1, <1>2, <1>3, <1>4, <1>5 DEF Runtime!Next

-----------------------------------------------------------------------------
(* The composition.  A step of Governance is a step of the component at     *)
(* work, which keeps that component's invariant; the subject never changes, *)
(* so the invariants of the others need not hold.                           *)

GovernanceInv ==
  /\ subject = "review" => ReviewInv
  /\ subject = "release" => ReleaseInv
  /\ subject = "escalation" => EscalationInv
  /\ subject = "variant" => VariantInv
  /\ subject = "human" => HumanInv
  /\ subject = "control" => ControlInv
  /\ subject = "team" => TeamInv
  /\ subject = "runtime" => RuntimeInv

LEMMA GovernanceInit == Init => GovernanceInv
BY ReviewInit, ReleaseInit, EscalationInit, VariantInit, HumanInit, ControlInit, TeamInit, RuntimeInit
   DEF Init, GovernanceInv

LEMMA GovernanceStep ==
  ASSUME GovernanceInv, Next
  PROVE  GovernanceInv'
<1>1. CASE ReviewStep
  BY <1>1, ReviewNext DEF ReviewStep, GovernanceInv
<1>2. CASE ReleaseStep
  BY <1>2, ReleaseNext DEF ReleaseStep, GovernanceInv
<1>3. CASE EscalationStep
  BY <1>3, EscalationNext DEF EscalationStep, GovernanceInv
<1>4. CASE VariantStep
  BY <1>4, VariantNext DEF VariantStep, GovernanceInv
<1>5. CASE HumanStep
  BY <1>5, HumanNext DEF HumanStep, GovernanceInv
<1>6. CASE ControlStep
  BY <1>6, ControlNext DEF ControlStep, GovernanceInv
<1>7. CASE TeamStep
  BY <1>7, TeamNext DEF TeamStep, GovernanceInv
<1>8. CASE RuntimeStep
  BY <1>8, RuntimeNext DEF RuntimeStep, GovernanceInv
<1> QED BY <1>1, <1>2, <1>3, <1>4, <1>5, <1>6, <1>7, <1>8 DEF Next

(* Nothing moves.                                                           *)
LEMMA GovernanceStutter ==
  ASSUME GovernanceInv, UNCHANGED allVars
  PROVE  GovernanceInv'
<1>1. ASSUME ReviewInv PROVE ReviewInv'
  BY <1>1 DEF allVars, reviewVars, ReviewInv, Joined, RecordOf, Review!CompletedWorkWasPassed, Review!Opened
<1>2. ASSUME ReleaseInv PROVE ReleaseInv'
  BY <1>2, ReleaseBeside DEF allVars, releaseVars
<1>3. ASSUME EscalationInv PROVE EscalationInv'
  BY <1>3 DEF allVars, reviewVars, EscalationInv, EscalationTypes, Escalate!EscalatedOnce, Escalate!Opened, Escalate!Key
<1>4. ASSUME VariantInv PROVE VariantInv'
  BY <1>4 DEF allVars, VariantInv, Independence, Variant!Submitted
<1>5. ASSUME HumanInv PROVE HumanInv'
  BY <1>5 DEF allVars, humanVars, HumanInv, AnswersAuthentic, ClosedProperly
<1>6. ASSUME ControlInv PROVE ControlInv'
  BY <1>6 DEF allVars, releaseVars, controlVars, ControlInv, ControlTypes, AskedOfBegun, Begun, RecordsFollow, WithinCapacity,
              Control!Active, Knows, Current
<1>7. ASSUME TeamInv PROVE TeamInv'
  BY <1>7 DEF allVars, releaseVars, teamVars, TeamInv, TeamTypes, OpenWhenActive, DispatchedAsAuthorized, Admitted, UpToDate,
              Team!EvaluateContinuityAdmission
<1>8. ASSUME RuntimeInv PROVE RuntimeInv'
  BY <1>8 DEF allVars, reviewVars, runtimeVars, RuntimeInv, Runtime!WindowsApart
<1>9. UNCHANGED subject
  BY DEF allVars
<1> QED BY <1>1, <1>2, <1>3, <1>4, <1>5, <1>6, <1>7, <1>8, <1>9 DEF GovernanceInv

LEMMA Governed == Spec => []GovernanceInv
<1>1. GovernanceInv /\ [Next]_allVars => GovernanceInv'
  BY GovernanceStep, GovernanceStutter
<1> QED BY <1>1, GovernanceInit, PTL DEF Spec

(* Work is completed only by a review of its own epoch in which every       *)
(* branch was last answered PASS by someone, whatever was corrected,        *)
(* reopened or timed out meanwhile (PlanCompletion,                         *)
(* acceptedFinalizedReview), for any number of reviews and branches.        *)
THEOREM CompletionIsEarned == Spec => []CompletedWorkWasPassed
<1>1. GovernanceInv => CompletedWorkWasPassed
  BY ReviewProperty DEF GovernanceInv, CompletedWorkWasPassed
<1> QED BY <1>1, Governed, PTL

(* A verdict is the join of the last results it names, for any number of    *)
(* branches and corrections (ApplyReviewFinalization, EvaluateReviewJoin).  *)
THEOREM VerdictsAreJoins == Spec => []VerdictIsOfLastResults
<1>1. GovernanceInv => VerdictIsOfLastResults
  BY ReviewProperty DEF GovernanceInv, VerdictIsOfLastResults
<1> QED BY <1>1, Governed, PTL

(* A plan goes past a merge only when the base branch has it, and the       *)
(* branch has a planned change only when an event of the plan asked for it, *)
(* for any number of merges, coordinators, repetitions and lost answers     *)
(* (ExecuteNext, Reconcile, applyReleaseOutcome).                           *)
THEOREM ReleasesFollow == Spec => []ReleaseFollowsBranch
<1>1. GovernanceInv => ReleaseFollowsBranch
  BY ReleaseProperty DEF GovernanceInv, ReleaseFollowsBranch
<1> QED BY <1>1, Governed, PTL

(* A condition of an epoch is escalated once, and decided in substance only *)
(* by the adjudicator within its deadline, for any number of escalations    *)
(* (PlanEscalationOpening, EvaluateEscalation).                             *)
THEOREM EscalationsAreUnique == Spec => []EscalatedOnce
<1>1. GovernanceInv => EscalatedOnce
  BY DEF GovernanceInv, EscalatedOnce, EscalationInv
<1> QED BY <1>1, Governed, PTL

(* A selected variant was compared with every submitted one, at least a     *)
(* quorum of independent candidates, for any number of candidates, authors  *)
(* and isolations (ApplyVariantEvent).                                      *)
THEOREM SelectionsAreCompared == Spec => []SelectionIsOfAllCompared
<1>1. GovernanceInv => SelectionIsOfAllCompared
  BY VariantProperty DEF GovernanceInv, SelectionIsOfAllCompared
<1> QED BY <1>1, Governed, PTL

(* An interaction is closed on answers of humans it was delivered to, under *)
(* the profile they were selected with, and sufficient for its policy, for  *)
(* any finite number of humans (ApplyHumanInteractionEvent).                *)
THEOREM InteractionsAreAnswered == Spec => []ClosedOnAnswers
<1>1. GovernanceInv => ClosedOnAnswers
  BY HumanProperty DEF GovernanceInv, ClosedOnAnswers
<1> QED BY <1>1, Governed, PTL

(* What runs or may still start was admitted, was asked of the engine once  *)
(* and holds its share of a capacity never exceeded, for any number of      *)
(* callers and executions (Prepare, controlConsumesCapacity).               *)
THEOREM CapacityHolds == Spec => []RunningHoldsCapacity
<1>1. GovernanceInv => RunningHoldsCapacity
  BY ControlProperty DEF GovernanceInv, RunningHoldsCapacity
<1> QED BY <1>1, Governed, PTL

(* A coordination admitted before a suspension issues at most one command   *)
(* after it, and one more for each time the epoch was set back under it,    *)
(* and the task is dispatched to whom it was authorized for, for any number *)
(* of coordinators and of configurations (PowerFencedCommandService.Handle, *)
(* ConfigureContinuity).                                                    *)
THEOREM SuspensionBites == Spec => []AtMostOneLateCommand
<1>1. GovernanceInv => AtMostOneLateCommand
  BY TeamProperty DEF GovernanceInv, AtMostOneLateCommand
<1> QED BY <1>1, Governed, PTL

(* What is added to a budget is of the ledger of suspensions, whose windows *)
(* do not overlap, for any threshold and any number of sleeps, stops,       *)
(* crashes and restarts: no time is added twice (advanceRuntimeSession,     *)
(* reconcileFeatureRuntimeSuspension).                                      *)
THEOREM NoTimeIsAddedTwice == Spec => [](subject = "runtime" => Runtime!WindowsApart)
<1>1. GovernanceInv => (subject = "runtime" => Runtime!WindowsApart)
  BY DEF GovernanceInv, RuntimeInv
<1> QED BY <1>1, Governed, PTL
===============================================================================
