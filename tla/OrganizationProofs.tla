-------------------------- MODULE OrganizationProofs --------------------------
(***************************************************************************)
(* Proofs about the organization's work (Organization).  For each component *)
(* an inductive invariant: it holds initially, every action preserves it,   *)
(* and it implies the property of the component.                            *)
(***************************************************************************)
EXTENDS Organization, FiniteSetTheorems, SequenceTheorems, TLAPS

-----------------------------------------------------------------------------
(* The delivery of a feature.  Accepted stories stay so, and completed ones *)
(* stay behind that; the stories an acceptance has behind it are accepted,  *)
(* and the one it is about to complete has its tasks completed unless one   *)
(* was taken up again, which its revision tells; the acceptance writes the  *)
(* feature only if that is still at the revision, and so of the version,    *)
(* the acceptance began with.                                               *)

FeatureType ==
  [status : {"DESIGNED", "PLANNED", "AWAITING_ACCEPTANCE", "ACCEPTED"}, rev : Nat, version : Nat]

TasksType == [Delivery!Versions -> [Delivery!T -> WorkType]]
StoriesType == [Delivery!Versions -> [Delivery!S -> WorkType]]

CallTypes ==
  /\ pass \in PlanPass \cup {None}
  /\ sweep \in SweepType \cup {None}
  /\ retry \in RetryType \cup {None}
  /\ replan \in ReplanType \cup {None}

DeliveryTypes ==
  /\ feature \in FeatureType
  /\ feature.status /= "DESIGNED" => feature.version \in Delivery!Versions
  /\ tasks \in TasksType
  /\ stories \in StoriesType
  /\ CallTypes
  /\ accept \in AcceptType \cup {None}

WorkDone ==
  \A v \in Delivery!Versions, t \in Delivery!T :
    stories[v][StoryOf[t]].phase \in Delivery!Past => tasks[v][t].phase = "COMPLETED" \/ <<v, t>> \in late

StoriesAccepted ==
  feature.status = "ACCEPTED" =>
    accept = None /\ \A s \in Delivery!S : stories[feature.version][s].phase = "ACCEPTED"

Completing ==
  accept.next = "COMPLETED" =>
    \A t \in Delivery!T : StoryOf[t] = Stories[accept.at] =>
      /\ tasks[accept.version][t].phase /= None /\ accept.revs[t] <= tasks[accept.version][t].rev
      /\ accept.revs[t] = tasks[accept.version][t].rev => tasks[accept.version][t].phase = "COMPLETED"

Accepting ==
  accept /= None =>
    /\ accept.rev <= feature.rev /\ (accept.rev = feature.rev => accept.version = feature.version)
    /\ \A i \in 1 .. (accept.at - 1) : stories[accept.version][Stories[i]].phase = "ACCEPTED"
    /\ accept.next /= "read" =>
         accept.at <= Len(Stories) /\ \A i \in 1 .. (accept.at - 1) : Stories[i] /= Stories[accept.at]
    /\ Completing
    /\ accept.next \notin {"read", "COMPLETED"} => stories[accept.version][Stories[accept.at]].phase \in Delivery!Past

DeliveryInv == DeliveryTypes /\ WorkDone /\ StoriesAccepted /\ Accepting

LEMMA DeliveryProperty == DeliveryInv => Delivery!DeliveredWhole
BY DEF DeliveryInv, WorkDone, StoriesAccepted, Delivery!DeliveredWhole

LEMMA DeliveryInit == Delivery!Init => DeliveryInv
<1> SUFFICES ASSUME Delivery!Init PROVE DeliveryInv
  OBVIOUS
<1>1. Delivery!Absent \in WorkType /\ Delivery!Absent.phase = None
  BY DEF Delivery!Absent, WorkType
<1>2. DeliveryTypes
  BY <1>1 DEF Delivery!Init, DeliveryTypes, CallTypes, TasksType, StoriesType, FeatureType
<1>3. None \notin Delivery!Past
  BY NoneAssumption DEF Delivery!Past, WorkPhases
<1>4. \A v \in Delivery!Versions, t \in Delivery!T : stories[v][StoryOf[t]].phase = None
  BY <1>1, PlanAssumption DEF Delivery!Init
<1>5. WorkDone
  BY <1>3, <1>4 DEF WorkDone
<1> QED BY <1>2, <1>5 DEF Delivery!Init, DeliveryInv, StoriesAccepted, Accepting

(* Where a story or a task stands among those of its version.               *)
LEMMA Positions ==
  /\ \A i \in 1 .. Len(Stories) : Stories[i] \in Delivery!S
  /\ \A s \in Delivery!S : \E i \in 1 .. Len(Stories) : s = Stories[i]
  /\ \A i \in 1 .. Len(PlanTasks) : PlanTasks[i] \in Delivery!T
BY PlanAssumption DEF Delivery!S, Delivery!T

LEMMA WorkMoves ==
  ASSUME NEW w \in WorkType, NEW phase \in WorkPhases, NEW why \in {"waiting", "retired", None}
  PROVE  /\ Delivery!Moved(w, phase) \in WorkType /\ Delivery!Moved(w, phase).phase = phase
         /\ Delivery!Moved(w, phase).rev = w.rev + 1
         /\ Delivery!Blocked(w, why) \in WorkType /\ Delivery!Blocked(w, why).phase = w.phase
         /\ Delivery!Blocked(w, why).rev = w.rev + 1
         /\ Delivery!Resumed(w) \in WorkType /\ Delivery!Resumed(w).rev = w.rev + 1 /\ Delivery!Resumed(w).phase = "IN_PROGRESS"
         /\ Delivery!Created(phase) \in WorkType /\ Delivery!Created(phase).phase = phase
<1>1. PICK x : x = [w EXCEPT !.phase = phase]
  OBVIOUS
<1>2. x \in WorkType /\ x.phase = phase /\ x.rev = w.rev
  BY <1>1 DEF WorkType
<1>3. PICK y : y = [w EXCEPT !.blocked = why]
  OBVIOUS
<1>a. y \in WorkType /\ y.phase = w.phase /\ y.rev = w.rev
  BY <1>3 DEF WorkType
<1>4. /\ Delivery!Moved(w, phase) \in WorkType /\ Delivery!Moved(w, phase).phase = phase
      /\ Delivery!Moved(w, phase).rev = w.rev + 1
  <2>1. PICK z : z = [x EXCEPT !.rev = w.rev + 1]
    OBVIOUS
  <2>2. z \in WorkType /\ z.phase = x.phase /\ z.rev = w.rev + 1
    BY <2>1, <1>2 DEF WorkType
  <2>3. z = Delivery!Moved(w, phase)
    BY <2>1, <1>1 DEF Delivery!Moved
  <2> QED BY <2>2, <2>3, <1>2
<1>5. /\ Delivery!Blocked(w, why) \in WorkType /\ Delivery!Blocked(w, why).phase = w.phase
      /\ Delivery!Blocked(w, why).rev = w.rev + 1
  <2>1. PICK z : z = [y EXCEPT !.rev = w.rev + 1]
    OBVIOUS
  <2>2. z \in WorkType /\ z.phase = y.phase /\ z.rev = w.rev + 1
    BY <2>1, <1>a DEF WorkType
  <2>3. z = Delivery!Blocked(w, why)
    BY <2>1, <1>3 DEF Delivery!Blocked
  <2> QED BY <2>2, <2>3, <1>a
<1>6. Delivery!Created(phase) \in WorkType /\ Delivery!Created(phase).phase = phase
  BY DEF Delivery!Created, WorkType
<1>7. Delivery!Resumed(w) \in WorkType /\ Delivery!Resumed(w).rev = w.rev + 1 /\ Delivery!Resumed(w).phase = "IN_PROGRESS"
  <2>1. PICK a : a = [w EXCEPT !.phase = "IN_PROGRESS"]
    OBVIOUS
  <2>2. a \in WorkType /\ a.rev = w.rev /\ a.phase = "IN_PROGRESS"
    BY <2>1 DEF WorkType, WorkPhases
  <2>3. PICK b : b = [a EXCEPT !.blocked = None]
    OBVIOUS
  <2>4. b \in WorkType /\ b.rev = w.rev /\ b.phase = "IN_PROGRESS"
    BY <2>2, <2>3 DEF WorkType
  <2>5. PICK c : c = [b EXCEPT !.rev = w.rev + 1]
    OBVIOUS
  <2>6. c \in WorkType /\ c.rev = w.rev + 1 /\ c.phase = "IN_PROGRESS"
    BY <2>4, <2>5 DEF WorkType
  <2>7. c = Delivery!Resumed(w)
    BY <2>1, <2>3, <2>5 DEF Delivery!Resumed
  <2> QED BY <2>6, <2>7
<1> QED BY <1>4, <1>5, <1>6, <1>7

(* The feature stands, and with it the acceptance: stories that are past    *)
(* their completion stay so, no other becomes so, and a task that is taken  *)
(* up again after its story's completion is noted.                          *)
LEMMA DeliveryStands ==
  ASSUME DeliveryInv, UNCHANGED <<feature, accept>>, tasks' \in TasksType, stories' \in StoriesType, CallTypes',
         \A v \in Delivery!Versions, t \in Delivery!T :
           \/ tasks[v][t].phase = None \/ tasks'[v][t] = tasks[v][t]
           \/ tasks'[v][t].phase /= None /\ tasks'[v][t].rev > tasks[v][t].rev,
         \A v \in Delivery!Versions, t \in Delivery!T :
           tasks[v][t].phase = "COMPLETED" /\ stories[v][StoryOf[t]].phase \in Delivery!Past =>
             tasks'[v][t].phase = "COMPLETED" \/ <<v, t>> \in late',
         \A v \in Delivery!Versions, t \in Delivery!T : <<v, t>> \in late => <<v, t>> \in late',
         \A v \in Delivery!Versions, s \in Delivery!S :
           /\ stories'[v][s].phase \in Delivery!Past <=> stories[v][s].phase \in Delivery!Past
           /\ stories[v][s].phase = "ACCEPTED" => stories'[v][s].phase = "ACCEPTED"
  PROVE  DeliveryInv'
<1>1. DeliveryTypes'
  BY DEF DeliveryInv, DeliveryTypes
<1>2. StoriesAccepted'
  BY DEF DeliveryInv, DeliveryTypes, StoriesAccepted
<1>3. WorkDone'
  <2> SUFFICES ASSUME NEW v \in Delivery!Versions, NEW t \in Delivery!T, stories'[v][StoryOf[t]].phase \in Delivery!Past
               PROVE  tasks'[v][t].phase = "COMPLETED" \/ <<v, t>> \in late'
    BY DEF WorkDone
  <2>1. StoryOf[t] \in Delivery!S
    BY PlanAssumption
  <2>2. stories[v][StoryOf[t]].phase \in Delivery!Past
    BY <2>1
  <2>3. tasks[v][t].phase = "COMPLETED" \/ <<v, t>> \in late
    BY <2>2 DEF DeliveryInv, WorkDone
  <2> QED BY <2>2, <2>3
<1>4. Accepting'
  <2> SUFFICES ASSUME accept /= None PROVE Accepting'
    BY DEF Accepting
  <2>1. accept \in AcceptType /\ Accepting
    BY DEF DeliveryInv, DeliveryTypes
  <2>2. \A i \in 1 .. (accept.at - 1) : i \in 1 .. Len(Stories)
    BY <2>1, PlanAssumption DEF AcceptType
  <2>3. accept.version \in Delivery!Versions /\ accept.at \in 1 .. (Len(Stories) + 1) /\ accept.revs \in [Delivery!T -> Nat]
    BY <2>1 DEF AcceptType
  <2>4. \A i \in 1 .. (accept.at - 1) : stories'[accept.version][Stories[i]].phase = "ACCEPTED"
    BY <2>1, <2>2, <2>3, Positions DEF Accepting
  <2>5. accept.next /= "read" => Stories[accept.at] \in Delivery!S
    BY <2>1, <2>3, Positions, PlanAssumption DEF Accepting
  <2>6. accept.next \notin {"read", "COMPLETED"} => stories'[accept.version][Stories[accept.at]].phase \in Delivery!Past
    BY <2>1, <2>3, <2>5 DEF Accepting
  <2>7. Completing'
    <3> SUFFICES ASSUME accept.next = "COMPLETED", NEW t \in Delivery!T, StoryOf[t] = Stories[accept.at]
                 PROVE  /\ tasks'[accept.version][t].phase /= None /\ accept.revs[t] <= tasks'[accept.version][t].rev
                        /\ accept.revs[t] = tasks'[accept.version][t].rev => tasks'[accept.version][t].phase = "COMPLETED"
      BY DEF Completing
    <3>1. /\ tasks[accept.version][t].phase /= None /\ accept.revs[t] <= tasks[accept.version][t].rev
          /\ accept.revs[t] = tasks[accept.version][t].rev => tasks[accept.version][t].phase = "COMPLETED"
      BY <2>1 DEF Accepting, Completing
    <3>2. accept.revs[t] \in Nat /\ tasks[accept.version][t] \in WorkType /\ tasks'[accept.version][t] \in WorkType
      BY <2>3 DEF DeliveryInv, DeliveryTypes, TasksType
    <3>3. tasks[accept.version][t].rev \in Nat /\ tasks'[accept.version][t].rev \in Nat
      BY <3>2 DEF WorkType
    <3>4. \/ tasks'[accept.version][t] = tasks[accept.version][t]
          \/ tasks'[accept.version][t].phase /= None /\ tasks'[accept.version][t].rev > tasks[accept.version][t].rev
      BY <2>3, <3>1
    <3> QED BY <3>1, <3>2, <3>3, <3>4
  <2> QED BY <2>1, <2>4, <2>6, <2>7 DEF Accepting
<1> QED BY <1>1, <1>2, <1>3, <1>4 DEF DeliveryInv

LEMMA TaskMoves ==
  ASSUME DeliveryInv, UNCHANGED <<feature, stories, accept>>, CallTypes',
         NEW v \in Delivery!Versions, NEW t \in Delivery!T, NEW w \in WorkType,
         tasks' = [tasks EXCEPT ![v][t] = w], tasks[v][t].phase = None \/ (w.phase /= None /\ w.rev > tasks[v][t].rev),
         tasks[v][t].phase = "COMPLETED" /\ stories[v][StoryOf[t]].phase \in Delivery!Past =>
           w.phase = "COMPLETED" \/ <<v, t>> \in late',
         \A u \in Delivery!Versions, x \in Delivery!T : <<u, x>> \in late => <<u, x>> \in late'
  PROVE  DeliveryInv'
<1>1. tasks \in [Delivery!Versions -> [Delivery!T -> WorkType]] /\ stories \in StoriesType
  BY DEF DeliveryInv, DeliveryTypes, TasksType
<1>2. /\ tasks' \in [Delivery!Versions -> [Delivery!T -> WorkType]]
      /\ \A u \in Delivery!Versions, x \in Delivery!T : tasks'[u][x] = IF u = v /\ x = t THEN w ELSE tasks[u][x]
  BY <1>1
<1>3. tasks' \in TasksType
  BY <1>2 DEF TasksType
<1>4. \A u \in Delivery!Versions, x \in Delivery!T :
        \/ tasks[u][x].phase = None \/ tasks'[u][x] = tasks[u][x]
        \/ tasks'[u][x].phase /= None /\ tasks'[u][x].rev > tasks[u][x].rev
  BY <1>2
<1>5. \A u \in Delivery!Versions, x \in Delivery!T :
        tasks[u][x].phase = "COMPLETED" /\ stories[u][StoryOf[x]].phase \in Delivery!Past =>
          tasks'[u][x].phase = "COMPLETED" \/ <<u, x>> \in late'
  BY <1>2
<1> QED BY <1>1, <1>3, <1>4, <1>5, DeliveryStands

LEMMA StoryMoves ==
  ASSUME DeliveryInv, UNCHANGED <<feature, tasks, late, accept>>, CallTypes',
         NEW v \in Delivery!Versions, NEW s \in Delivery!S, NEW w \in WorkType,
         stories' = [stories EXCEPT ![v][s] = w],
         w.phase \in Delivery!Past <=> stories[v][s].phase \in Delivery!Past,
         stories[v][s].phase = "ACCEPTED" => w.phase = "ACCEPTED"
  PROVE  DeliveryInv'
<1>1. tasks \in TasksType /\ stories \in [Delivery!Versions -> [Delivery!S -> WorkType]]
  BY DEF DeliveryInv, DeliveryTypes, StoriesType
<1>2. /\ stories' \in [Delivery!Versions -> [Delivery!S -> WorkType]]
      /\ \A u \in Delivery!Versions, x \in Delivery!S : stories'[u][x] = IF u = v /\ x = s THEN w ELSE stories[u][x]
  BY <1>1
<1>3. stories' \in StoriesType
  BY <1>2 DEF StoriesType
<1>4. \A u \in Delivery!Versions, x \in Delivery!S :
        /\ stories'[u][x].phase \in Delivery!Past <=> stories[u][x].phase \in Delivery!Past
        /\ stories[u][x].phase = "ACCEPTED" => stories'[u][x].phase = "ACCEPTED"
  BY <1>2
<1> QED BY <1>1, <1>3, <1>4, DeliveryStands

(* Nothing but a call in progress moves.                                    *)
LEMMA CallMoves ==
  ASSUME DeliveryInv, UNCHANGED <<feature, tasks, stories, late, accept>>, CallTypes'
  PROVE  DeliveryInv'
<1>1. tasks \in TasksType /\ stories \in StoriesType
  BY DEF DeliveryInv, DeliveryTypes
<1> QED BY <1>1, DeliveryStands

LEMMA DeliveryBegin == DeliveryInv /\ Delivery!Begin => DeliveryInv'
<1> SUFFICES ASSUME DeliveryInv, Delivery!Begin PROVE DeliveryInv'
  OBVIOUS
<1>1. feature.rev \in Nat /\ feature.version + 1 \in Delivery!Versions
  BY PlanAssumption DEF Delivery!Begin, DeliveryInv, DeliveryTypes, FeatureType, Delivery!Versions
<1>2. pass' \in PlanPass
  BY <1>1 DEF Delivery!Begin, PlanPass
<1>3. CallTypes' /\ UNCHANGED <<feature, tasks, stories, late, accept>>
  BY <1>2 DEF Delivery!Begin, Delivery!workVars, DeliveryInv, DeliveryTypes, CallTypes
<1> QED BY <1>3, CallMoves

LEMMA DeliveryMaterialize == DeliveryInv /\ Delivery!MaterializeFeaturePlan => DeliveryInv'
<1> SUFFICES ASSUME DeliveryInv, Delivery!MaterializeFeaturePlan PROVE DeliveryInv'
  OBVIOUS
<1>1. /\ pass \in PlanPass /\ UNCHANGED <<feature, late, accept>> /\ CallTypes'
      /\ tasks \in [Delivery!Versions -> [Delivery!T -> WorkType]] /\ stories \in [Delivery!Versions -> [Delivery!S -> WorkType]]
  BY DEF Delivery!MaterializeFeaturePlan, Delivery!workVars, DeliveryInv, DeliveryTypes, CallTypes, TasksType, StoriesType
<1>2. pass.version \in Delivery!Versions
  BY <1>1 DEF PlanPass
<1>3. /\ "CREATED" \in WorkPhases /\ "PROPOSED" \in WorkPhases /\ "ACTIVE" \in WorkPhases
      /\ None \notin Delivery!Past /\ "CREATED" \notin Delivery!Past /\ "ACTIVE" \notin Delivery!Past
      /\ "ACCEPTED" \in Delivery!Past /\ "COMPLETED" \in Delivery!Past
  BY NoneAssumption DEF WorkPhases, Delivery!Past
<1>4. CASE \E s \in Delivery!S : /\ stories[pass.version][s].phase = None /\ UNCHANGED tasks
                                 /\ stories' = [stories EXCEPT ![pass.version][s] = Delivery!Created("CREATED")]
  <2>1. PICK s \in Delivery!S : /\ stories[pass.version][s].phase = None /\ UNCHANGED tasks
                                /\ stories' = [stories EXCEPT ![pass.version][s] = Delivery!Created("CREATED")]
    BY <1>4
  <2>2. PICK w : w = Delivery!Created("CREATED")
    OBVIOUS
  <2>3. w \in WorkType /\ w.phase = "CREATED"
    BY <1>3, <2>2 DEF Delivery!Created, WorkType
  <2>4. /\ stories' = [stories EXCEPT ![pass.version][s] = w] /\ w.phase \notin Delivery!Past
        /\ stories[pass.version][s].phase \notin Delivery!Past /\ stories[pass.version][s].phase /= "ACCEPTED"
    BY <1>3, <2>1, <2>2, <2>3
  <2> QED BY <1>1, <1>2, <2>1, <2>3, <2>4, StoryMoves
<1>5. CASE \E t \in Delivery!T : /\ tasks[pass.version][t].phase = None /\ UNCHANGED stories
                                 /\ tasks' = [tasks EXCEPT ![pass.version][t] = Delivery!Created("PROPOSED")]
  <2>1. PICK t \in Delivery!T : /\ tasks[pass.version][t].phase = None /\ UNCHANGED stories
                                /\ tasks' = [tasks EXCEPT ![pass.version][t] = Delivery!Created("PROPOSED")]
    BY <1>5
  <2>2. PICK w : w = Delivery!Created("PROPOSED")
    OBVIOUS
  <2>a. w \in WorkType
    BY <1>3, <2>2 DEF Delivery!Created, WorkType
  <2>3. tasks' = [tasks EXCEPT ![pass.version][t] = w]
    BY <2>1, <2>2
  <2>4. tasks[pass.version][t].phase /= "COMPLETED"
    BY <1>3, <2>1
  <2>5. UNCHANGED <<feature, stories, accept>> /\ UNCHANGED late
    BY <1>1, <2>1
  <2>6. \A u \in Delivery!Versions, x \in Delivery!T : <<u, x>> \in late => <<u, x>> \in late'
    BY <2>5
  <2>7. tasks[pass.version][t].phase = None
    BY <2>1
  <2> QED BY <1>1, <1>2, <2>a, <2>3, <2>4, <2>5, <2>6, <2>7, TaskMoves
<1>6. CASE \E s \in Delivery!S : /\ stories[pass.version][s].phase = "CREATED" /\ UNCHANGED tasks
                                 /\ stories' = [stories EXCEPT ![pass.version][s] = Delivery!Moved(@, "ACTIVE")]
  <2>1. PICK s \in Delivery!S : /\ stories[pass.version][s].phase = "CREATED" /\ UNCHANGED tasks
                                /\ stories' = [stories EXCEPT ![pass.version][s] = Delivery!Moved(@, "ACTIVE")]
    BY <1>6
  <2>a. stories[pass.version][s] \in WorkType
    BY <1>1, <1>2
  <2>b. PICK w : w = Delivery!Moved(stories[pass.version][s], "ACTIVE")
    OBVIOUS
  <2>2. w \in WorkType /\ w.phase = "ACTIVE"
    BY <2>a, <2>b, <1>3, WorkMoves
  <2>3. /\ stories' = [stories EXCEPT ![pass.version][s] = w] /\ w.phase \notin Delivery!Past
        /\ stories[pass.version][s].phase \notin Delivery!Past /\ stories[pass.version][s].phase /= "ACCEPTED"
    BY <1>1, <1>2, <1>3, <2>1, <2>2, <2>b
  <2>4. UNCHANGED <<feature, tasks, late, accept>>
    BY <1>1, <2>1
  <2> QED BY <1>1, <1>2, <2>2, <2>3, <2>4, StoryMoves
<1> QED BY <1>4, <1>5, <1>6, Zenon DEF Delivery!MaterializeFeaturePlan

(* The feature moves on, not to its acceptance.                             *)
LEMMA FeatureStep ==
  ASSUME DeliveryInv, UNCHANGED <<tasks, stories, late, accept>>, CallTypes',
         NEW status \in {"DESIGNED", "PLANNED", "AWAITING_ACCEPTANCE"}, NEW v \in Nat,
         feature' \in FeatureType, feature'.status = status, feature'.rev = feature.rev + 1, feature'.version = v,
         status /= "DESIGNED" => v \in Delivery!Versions
  PROVE  DeliveryInv'
<1>1. DeliveryTypes /\ WorkDone /\ Accepting
  BY DEF DeliveryInv
<1>2. DeliveryTypes'
  BY <1>1 DEF DeliveryTypes
<1>3. WorkDone' /\ StoriesAccepted'
  BY <1>1 DEF WorkDone, StoriesAccepted
<1>4. feature.rev \in Nat /\ (accept /= None => accept.rev \in Nat)
  BY <1>1 DEF DeliveryTypes, FeatureType, AcceptType
<1>5. Completing => Completing'
  BY DEF Completing
<1>6. Accepting'
  BY <1>1, <1>4, <1>5 DEF Accepting
<1> QED BY <1>2, <1>3, <1>6 DEF DeliveryInv

LEMMA DeliveryApply == DeliveryInv /\ Delivery!ApplyPlan => DeliveryInv'
<1> SUFFICES ASSUME DeliveryInv, Delivery!ApplyPlan PROVE DeliveryInv'
  OBVIOUS
<1>1. pass \in PlanPass /\ CallTypes' /\ UNCHANGED <<tasks, stories, late, accept>> /\ feature \in FeatureType
  BY DEF Delivery!ApplyPlan, Delivery!workVars, DeliveryInv, DeliveryTypes, CallTypes
<1>f. feature \in FeatureType
  BY DEF DeliveryInv, DeliveryTypes
<1>2. pass.version \in Delivery!Versions /\ pass.version \in Nat
  BY <1>1, PlanAssumption DEF PlanPass, Delivery!Versions
<1>3. CASE UNCHANGED feature
  BY <1>1, <1>3, CallMoves
<1>4. CASE feature' = [feature EXCEPT !.status = "PLANNED", !.rev = @ + 1, !.version = pass.version]
  <2>x. PICK x : x = [feature EXCEPT !.status = "PLANNED"]
    OBVIOUS
  <2>y. x \in FeatureType /\ x.rev = feature.rev /\ x.status = "PLANNED" /\ x.version = feature.version
    BY <1>f, <2>x DEF FeatureType
  <2>a. PICK g : g = [x EXCEPT !.rev = feature.rev + 1]
    OBVIOUS
  <2>b. g \in FeatureType /\ g.rev = feature.rev + 1 /\ g.status = "PLANNED" /\ g.version = feature.version
    BY <1>f, <2>y, <2>a DEF FeatureType
  <2>3. feature' = [g EXCEPT !.version = pass.version]
    BY <1>4, <2>x, <2>a
  <2>4. /\ feature' \in FeatureType /\ feature'.status = "PLANNED" /\ feature'.rev = feature.rev + 1
        /\ feature'.version = pass.version
    BY <1>2, <2>b, <2>3 DEF FeatureType
  <2> QED BY <1>1, <1>2, <2>4, FeatureStep
<1> QED BY <1>3, <1>4 DEF Delivery!ApplyPlan

(* A task in work gets another phase or block.                              *)
LEMMA TaskInWork ==
  ASSUME DeliveryInv, UNCHANGED <<feature, stories, pass, sweep, retry, late, replan, accept>>,
         NEW v \in Delivery!Versions, NEW t \in Delivery!T, NEW w, w \in WorkType, w.rev = tasks[v][t].rev + 1,
         \/ tasks[v][t].phase /= "COMPLETED" /\ w.phase /= None
         \/ w.phase = tasks[v][t].phase,
         tasks' = [tasks EXCEPT ![v][t] = w]
  PROVE  DeliveryInv'
<1>1. CallTypes'
  BY DEF DeliveryInv, DeliveryTypes, CallTypes
<1>2. tasks[v][t] \in WorkType
  BY DEF DeliveryInv, DeliveryTypes, TasksType
<1>3. w.rev > tasks[v][t].rev
  BY <1>2 DEF WorkType
<1> QED BY <1>1, <1>3, TaskMoves

LEMMA DeliveryWork ==
  ASSUME DeliveryInv, NEW v \in Delivery!Versions, NEW t \in Delivery!T,
         Delivery!Work(t) \/ Delivery!Wait(t) \/ Delivery!Answer(v, t)
  PROVE  DeliveryInv'
<1>1. /\ tasks \in [Delivery!Versions -> [Delivery!T -> WorkType]]
      /\ feature.status /= "DESIGNED" => feature.version \in Delivery!Versions
  BY DEF DeliveryInv, DeliveryTypes, TasksType
<1>2. "IN_PROGRESS" \in WorkPhases /\ "COMPLETED" \in WorkPhases /\ None \notin WorkPhases
  BY NoneAssumption DEF WorkPhases
<1>3. CASE Delivery!Work(t)
  <2>1. feature.version \in Delivery!Versions /\ tasks[feature.version][t].phase \in {"PROPOSED", "IN_PROGRESS"}
    BY <1>1, <1>3 DEF Delivery!Work, Delivery!Working
  <2>2. PICK p \in WorkPhases : p = IF tasks[feature.version][t].phase = "PROPOSED" THEN "IN_PROGRESS" ELSE "COMPLETED"
    BY <1>2
  <2>3. PICK w : w = Delivery!Moved(tasks[feature.version][t], p)
    OBVIOUS
  <2>a. tasks[feature.version][t] \in WorkType
    BY <1>1, <2>1
  <2>4. w \in WorkType /\ w.phase = p /\ w.rev = tasks[feature.version][t].rev + 1 /\ p /= None
    BY <1>2, <2>a, <2>3, WorkMoves
  <2>5. tasks' = [tasks EXCEPT ![feature.version][t] = w]
    BY <1>3, <2>2, <2>3 DEF Delivery!Work
  <2>6. tasks[feature.version][t].phase /= "COMPLETED" /\ w.phase /= None
    BY <2>1, <2>4
  <2>7. UNCHANGED <<feature, stories, pass, sweep, retry, late, replan, accept>>
    BY <1>3 DEF Delivery!Work, Delivery!workVars
  <2> QED BY <2>1, <2>4, <2>5, <2>6, <2>7, TaskInWork
<1>4. CASE Delivery!Wait(t)
  <2>1. feature.version \in Delivery!Versions
    BY <1>1, <1>4 DEF Delivery!Wait, Delivery!Working
  <2>2. PICK w : w = Delivery!Blocked(tasks[feature.version][t], "waiting")
    OBVIOUS
  <2>3. tasks[feature.version][t] \in WorkType /\ "COMPLETED" \in WorkPhases
    BY <1>1, <1>2, <2>1
  <2>4. w \in WorkType /\ w.phase = tasks[feature.version][t].phase /\ w.rev = tasks[feature.version][t].rev + 1
    BY <2>2, <2>3, WorkMoves
  <2>5. tasks' = [tasks EXCEPT ![feature.version][t] = w]
    BY <1>4, <2>2 DEF Delivery!Wait
  <2> QED BY <1>4, <2>1, <2>4, <2>5, TaskInWork DEF Delivery!Wait, Delivery!workVars
<1>5. CASE Delivery!Answer(v, t)
  <2>2. PICK w : w = Delivery!Blocked(tasks[v][t], None)
    OBVIOUS
  <2>3. tasks[v][t] \in WorkType /\ "COMPLETED" \in WorkPhases
    BY <1>1, <1>2
  <2>4. w \in WorkType /\ w.phase = tasks[v][t].phase /\ w.rev = tasks[v][t].rev + 1
    BY <2>2, <2>3, WorkMoves
  <2>5. tasks' = [tasks EXCEPT ![v][t] = w]
    BY <1>5, <2>2 DEF Delivery!Answer
  <2> QED BY <1>5, <2>4, <2>5, TaskInWork DEF Delivery!Answer, Delivery!workVars
<1> QED BY <1>3, <1>4, <1>5

(* A task is taken up again, on the revision read or not at all.            *)
LEMMA TaskReopens ==
  ASSUME DeliveryInv, UNCHANGED <<feature, stories, accept>>, CallTypes',
         NEW v \in Delivery!Versions, NEW t \in Delivery!T, NEW rev, Delivery!Reopen(v, t, rev)
  PROVE  DeliveryInv'
<1>1. tasks \in [Delivery!Versions -> [Delivery!T -> WorkType]]
  BY DEF DeliveryInv, DeliveryTypes, TasksType
<1>2. CASE UNCHANGED <<tasks, stale, late>>
  BY <1>2, CallMoves
<1>3. CASE /\ tasks' = [tasks EXCEPT ![v][t] = Delivery!Resumed(@)]
           /\ late' = IF stories[v][StoryOf[t]].phase \in Delivery!Past THEN late \cup {<<v, t>>} ELSE late
  <2>1. PICK w : w = Delivery!Resumed(tasks[v][t])
    OBVIOUS
  <2>2. tasks[v][t] \in WorkType /\ "COMPLETED" \in WorkPhases /\ None /= "IN_PROGRESS"
    BY <1>1, NoneAssumption DEF WorkPhases
  <2>3. w \in WorkType /\ w.phase = "IN_PROGRESS" /\ w.rev = tasks[v][t].rev + 1
    BY <2>1, <2>2, WorkMoves
  <2>4. w.phase /= None /\ w.rev > tasks[v][t].rev
    BY <2>2, <2>3 DEF WorkType
  <2>5. tasks' = [tasks EXCEPT ![v][t] = w]
    BY <1>3, <2>1
  <2>6. \A u \in Delivery!Versions, x \in Delivery!T : <<u, x>> \in late => <<u, x>> \in late'
    BY <1>3
  <2>7. stories[v][StoryOf[t]].phase \in Delivery!Past => <<v, t>> \in late'
    BY <1>3
  <2> QED BY <2>3, <2>4, <2>5, <2>6, <2>7, TaskMoves
<1> QED BY <1>2, <1>3 DEF Delivery!Reopen

LEMMA DeliveryRepair == ASSUME DeliveryInv, NEW t \in Delivery!T, Delivery!RepairCandidate(t) PROVE DeliveryInv'
<1>1. CallTypes' /\ UNCHANGED <<feature, tasks, stories, late, accept>>
  BY DEF Delivery!RepairCandidate, DeliveryInv, DeliveryTypes, CallTypes
<1> QED BY <1>1, CallMoves

LEMMA DeliveryRetry == ASSUME DeliveryInv, NEW t \in Delivery!T, Delivery!RetryFailedTask(t) PROVE DeliveryInv'
<1>1. /\ feature.version \in Delivery!Versions /\ tasks \in [Delivery!Versions -> [Delivery!T -> WorkType]]
      /\ UNCHANGED <<feature, tasks, stories, late, accept, pass, sweep, replan>>
      /\ retry' = [version |-> feature.version, task |-> t, rev |-> tasks[feature.version][t].rev]
  BY DEF Delivery!RetryFailedTask, DeliveryInv, DeliveryTypes, TasksType
<1>2. tasks[feature.version][t].rev \in Nat
  BY <1>1 DEF WorkType
<1>3. retry' \in RetryType
  BY <1>1, <1>2 DEF RetryType
<1>4. CallTypes'
  BY <1>1, <1>3 DEF DeliveryInv, DeliveryTypes, CallTypes
<1> QED BY <1>1, <1>4, CallMoves

LEMMA DeliveryReopen == DeliveryInv /\ Delivery!reopenCompletedTaskForRecovery => DeliveryInv'
<1> SUFFICES ASSUME DeliveryInv, Delivery!reopenCompletedTaskForRecovery PROVE DeliveryInv'
  OBVIOUS
<1>1. /\ retry \in RetryType /\ CallTypes' /\ UNCHANGED <<feature, stories, accept>>
      /\ Delivery!Reopen(retry.version, retry.task, retry.rev)
  BY DEF Delivery!reopenCompletedTaskForRecovery, DeliveryInv, DeliveryTypes, CallTypes
<1>2. retry.version \in Delivery!Versions /\ retry.task \in Delivery!T
  BY <1>1 DEF RetryType
<1> QED BY <1>1, <1>2, TaskReopens

LEMMA DeliverySweep ==
  DeliveryInv /\ (Delivery!BeginSweep \/ Delivery!reconcileFeaturePlan) => DeliveryInv'
<1>1. ASSUME DeliveryInv, Delivery!BeginSweep PROVE DeliveryInv'
  <2>1. /\ feature.version \in Delivery!Versions /\ feature.rev \in Nat
        /\ UNCHANGED <<feature, tasks, stories, late, accept, pass, retry, replan>>
        /\ sweep' = [rev |-> feature.rev, version |-> feature.version, seen |-> <<>>]
    BY <1>1 DEF Delivery!BeginSweep, DeliveryInv, DeliveryTypes, FeatureType
  <2>2. <<>> \in Seq(WorkType)
    OBVIOUS
  <2>3. sweep' \in SweepType
    BY <2>1, <2>2 DEF SweepType
  <2>4. CallTypes'
    BY <1>1, <2>1, <2>3 DEF DeliveryInv, DeliveryTypes, CallTypes
  <2> QED BY <1>1, <2>1, <2>4, CallMoves
<1>2. ASSUME DeliveryInv, Delivery!reconcileFeaturePlan PROVE DeliveryInv'
  <2>1. /\ sweep \in SweepType /\ tasks \in [Delivery!Versions -> [Delivery!T -> WorkType]]
        /\ UNCHANGED <<feature, tasks, stories, late, accept, pass, retry, replan>>
        /\ ~(Len(sweep.seen) >= Len(PlanTasks))
        /\ sweep' = [sweep EXCEPT !.seen = Append(@, tasks[sweep.version][PlanTasks[Len(@) + 1]])]
    BY <1>2 DEF Delivery!reconcileFeaturePlan, Delivery!AllSeen, DeliveryInv, DeliveryTypes, CallTypes, TasksType
  <2>2. sweep.version \in Delivery!Versions /\ sweep.seen \in Seq(WorkType)
    BY <2>1 DEF SweepType
  <2>3. PICK w : w = tasks[sweep.version][PlanTasks[Len(sweep.seen) + 1]]
    OBVIOUS
  <2>4. w \in WorkType
    <3>1. Len(sweep.seen) + 1 \in 1 .. Len(PlanTasks)
      BY <2>1, <2>2, PlanAssumption
    <3> QED BY <2>1, <2>2, <2>3, <3>1, Positions
  <2>5. PICK q : q = Append(sweep.seen, w)
    OBVIOUS
  <2>6. q \in Seq(WorkType)
    BY <2>2, <2>4, <2>5
  <2>7. sweep' = [sweep EXCEPT !.seen = q]
    BY <2>1, <2>3, <2>5
  <2>8. sweep' \in SweepType
    BY <2>1, <2>6, <2>7 DEF SweepType
  <2>9. CallTypes'
    BY <1>2, <2>1, <2>8 DEF DeliveryInv, DeliveryTypes, CallTypes
  <2> QED BY <1>2, <2>1, <2>9, CallMoves
<1> QED BY <1>1, <1>2

LEMMA DeliveryRounds ==
  ASSUME DeliveryInv, NEW i \in DOMAIN PlanTasks, Delivery!reconcileValidationRounds(i)
  PROVE  DeliveryInv'
<1>1. /\ sweep \in SweepType /\ CallTypes' /\ UNCHANGED <<feature, stories, accept>>
      /\ Delivery!Reopen(sweep.version, PlanTasks[i], sweep.seen[i].rev)
  BY DEF Delivery!reconcileValidationRounds, DeliveryInv, DeliveryTypes, CallTypes
<1>2. sweep.version \in Delivery!Versions /\ PlanTasks[i] \in Delivery!T
  BY <1>1, Positions, PlanAssumption DEF SweepType
<1> QED BY <1>1, <1>2, TaskReopens

LEMMA DeliveryRecommendation == DeliveryInv /\ Delivery!RecordAcceptanceRecommendation => DeliveryInv'
<1> SUFFICES ASSUME DeliveryInv, Delivery!RecordAcceptanceRecommendation PROVE DeliveryInv'
  OBVIOUS
<1>1. CallTypes' /\ UNCHANGED <<tasks, stories, late, accept>> /\ feature \in FeatureType
  BY DEF Delivery!RecordAcceptanceRecommendation, DeliveryInv, DeliveryTypes, CallTypes
<1>f. feature \in FeatureType
  BY DEF DeliveryInv, DeliveryTypes
<1>2. CASE UNCHANGED feature
  BY <1>1, <1>2, CallMoves
<1>3. CASE feature.status = "PLANNED" /\ feature' = [feature EXCEPT !.status = "AWAITING_ACCEPTANCE", !.rev = @ + 1]
  <2>1. feature.version \in Nat /\ feature.version \in Delivery!Versions
    BY <1>1, <1>3 DEF FeatureType, DeliveryInv, DeliveryTypes
  <2>x. PICK x : x = [feature EXCEPT !.status = "AWAITING_ACCEPTANCE"]
    OBVIOUS
  <2>y. x \in FeatureType /\ x.rev = feature.rev /\ x.status = "AWAITING_ACCEPTANCE" /\ x.version = feature.version
    BY <1>f, <2>x DEF FeatureType
  <2>a. PICK g : g = [x EXCEPT !.rev = feature.rev + 1]
    OBVIOUS
  <2>b. g \in FeatureType /\ g.rev = feature.rev + 1 /\ g.status = "AWAITING_ACCEPTANCE" /\ g.version = feature.version
    BY <1>f, <2>y, <2>a DEF FeatureType
  <2>2. /\ feature' \in FeatureType /\ feature'.status = "AWAITING_ACCEPTANCE" /\ feature'.rev = feature.rev + 1
        /\ feature'.version = feature.version
    BY <1>3, <2>x, <2>a, <2>b
  <2> QED BY <1>1, <2>1, <2>2, FeatureStep
<1> QED BY <1>2, <1>3 DEF Delivery!RecordAcceptanceRecommendation, Delivery!currentFeature

LEMMA DeliveryRequestReplan == DeliveryInv /\ Delivery!RequestFeatureReplan => DeliveryInv'
<1> SUFFICES ASSUME DeliveryInv, Delivery!RequestFeatureReplan PROVE DeliveryInv'
  OBVIOUS
<1>1. /\ tasks \in [Delivery!Versions -> [Delivery!T -> WorkType]] /\ stories \in [Delivery!Versions -> [Delivery!S -> WorkType]]
      /\ feature.version \in Delivery!Versions /\ feature.rev \in Nat
      /\ UNCHANGED <<feature, tasks, stories, late, accept, pass, sweep, retry>>
  BY DEF Delivery!RequestFeatureReplan, Delivery!workVars, DeliveryInv, DeliveryTypes, FeatureType, TasksType, StoriesType
<1>2. replan' \in ReplanType
  BY <1>1 DEF Delivery!RequestFeatureReplan, ReplanType
<1>3. CallTypes'
  BY <1>1, <1>2 DEF DeliveryInv, DeliveryTypes, CallTypes
<1> QED BY <1>1, <1>3, CallMoves

LEMMA DeliveryRetire == DeliveryInv /\ Delivery!Retire => DeliveryInv'
<1> SUFFICES ASSUME DeliveryInv, Delivery!Retire PROVE DeliveryInv'
  OBVIOUS
<1>1. /\ replan \in ReplanType /\ replan.at <= Len(PlanTasks) + Len(Stories)
      /\ UNCHANGED <<feature, late, accept, pass, sweep, retry>>
      /\ tasks \in [Delivery!Versions -> [Delivery!T -> WorkType]] /\ stories \in [Delivery!Versions -> [Delivery!S -> WorkType]]
  BY DEF Delivery!Retire, Delivery!workVars, DeliveryInv, DeliveryTypes, CallTypes, TasksType, StoriesType
<1>2. replan.version \in Delivery!Versions /\ replan.at \in Nat \ {0}
  BY <1>1 DEF ReplanType
<1>3. [replan EXCEPT !.at = @ + 1] \in ReplanType
  <2>1. PICK x : x = [replan EXCEPT !.at = @ + 1]
    OBVIOUS
  <2>2. x \in ReplanType
    BY <2>1, <1>1, <1>2 DEF ReplanType
  <2> QED BY <2>1, <2>2
<1>4. CallTypes'
  <2>1. replan' \in ReplanType \cup {None}
    BY <1>3 DEF Delivery!Retire
  <2> QED BY <1>1, <2>1 DEF DeliveryInv, DeliveryTypes, CallTypes
<1>5. CASE UNCHANGED <<tasks, stories>>
  BY <1>1, <1>4, <1>5, CallMoves
<1>6. CASE /\ replan.at <= Len(PlanTasks) /\ UNCHANGED stories
           /\ tasks' = [tasks EXCEPT ![replan.version][PlanTasks[replan.at]] = Delivery!Blocked(@, "retired")]
  <2>1. PICK t \in Delivery!T : t = PlanTasks[replan.at]
    BY <1>2, <1>6, PlanAssumption, Positions
  <2>2. PICK w : w = Delivery!Blocked(tasks[replan.version][t], "retired")
    OBVIOUS
  <2>3. tasks[replan.version][t] \in WorkType /\ "COMPLETED" \in WorkPhases
    BY <1>1, <1>2 DEF WorkPhases
  <2>4. w \in WorkType /\ w.phase = tasks[replan.version][t].phase /\ w.rev = tasks[replan.version][t].rev + 1
    BY <2>2, <2>3, WorkMoves
  <2>6. w.rev > tasks[replan.version][t].rev
    BY <2>3, <2>4 DEF WorkType
  <2>5. tasks' = [tasks EXCEPT ![replan.version][t] = w]
    BY <1>6, <2>1, <2>2
  <2>7. UNCHANGED <<feature, stories, accept>> /\ UNCHANGED late
    BY <1>1, <1>6
  <2>8. \A u \in Delivery!Versions, x \in Delivery!T : <<u, x>> \in late => <<u, x>> \in late'
    BY <2>7
  <2>9. tasks[replan.version][t].phase = None \/ (w.phase /= None /\ w.rev > tasks[replan.version][t].rev)
    BY <2>4, <2>6
  <2>10. tasks[replan.version][t].phase = "COMPLETED" => w.phase = "COMPLETED"
    BY <2>4
  <2> QED BY <1>2, <1>4, <2>4, <2>5, <2>7, <2>8, <2>9, <2>10, TaskMoves
<1>7. CASE /\ ~(replan.at <= Len(PlanTasks)) /\ UNCHANGED tasks
           /\ stories' = [stories EXCEPT ![replan.version][Stories[replan.at - Len(PlanTasks)]] = Delivery!Blocked(@, "retired")]
  <2>1. PICK s \in Delivery!S : s = Stories[replan.at - Len(PlanTasks)]
    <3>1. replan.at - Len(PlanTasks) \in 1 .. Len(Stories)
      BY <1>1, <1>2, <1>7, PlanAssumption
    <3> QED BY <3>1, Positions
  <2>2. PICK w : w = Delivery!Blocked(stories[replan.version][s], "retired")
    OBVIOUS
  <2>3. stories[replan.version][s] \in WorkType /\ "COMPLETED" \in WorkPhases
    BY <1>1, <1>2 DEF WorkPhases
  <2>4. w \in WorkType /\ w.phase = stories[replan.version][s].phase
    BY <2>2, <2>3, WorkMoves
  <2>5. stories' = [stories EXCEPT ![replan.version][s] = w]
    BY <1>7, <2>1, <2>2
  <2>6. UNCHANGED <<feature, tasks, late, accept>>
    BY <1>1, <1>7
  <2>7. /\ w.phase \in Delivery!Past <=> stories[replan.version][s].phase \in Delivery!Past
        /\ stories[replan.version][s].phase = "ACCEPTED" => w.phase = "ACCEPTED"
    BY <2>4
  <2> QED BY <1>2, <1>4, <2>4, <2>5, <2>6, <2>7, StoryMoves
<1> QED BY <1>5, <1>6, <1>7 DEF Delivery!Retire

LEMMA DeliveryReplan == DeliveryInv /\ Delivery!RequestReplan => DeliveryInv'
<1> SUFFICES ASSUME DeliveryInv, Delivery!RequestReplan PROVE DeliveryInv'
  OBVIOUS
<1>1. CallTypes' /\ UNCHANGED <<tasks, stories, late, accept>> /\ feature \in FeatureType
  BY DEF Delivery!RequestReplan, Delivery!workVars, DeliveryInv, DeliveryTypes, CallTypes
<1>f. feature \in FeatureType
  BY DEF DeliveryInv, DeliveryTypes
<1>2. CASE UNCHANGED feature
  BY <1>1, <1>2, CallMoves
<1>3. CASE feature' = [feature EXCEPT !.status = "DESIGNED", !.rev = @ + 1]
  <2>1. feature.version \in Nat
    BY <1>1 DEF FeatureType
  <2>x. PICK x : x = [feature EXCEPT !.status = "DESIGNED"]
    OBVIOUS
  <2>y. x \in FeatureType /\ x.rev = feature.rev /\ x.status = "DESIGNED" /\ x.version = feature.version
    BY <1>f, <2>x DEF FeatureType
  <2>a. PICK g : g = [x EXCEPT !.rev = feature.rev + 1]
    OBVIOUS
  <2>b. g \in FeatureType /\ g.rev = feature.rev + 1 /\ g.status = "DESIGNED" /\ g.version = feature.version
    BY <1>f, <2>y, <2>a DEF FeatureType
  <2>2. /\ feature' \in FeatureType /\ feature'.status = "DESIGNED" /\ feature'.rev = feature.rev + 1
        /\ feature'.version = feature.version
    BY <1>3, <2>x, <2>a, <2>b
  <2> QED BY <1>1, <2>1, <2>2, FeatureStep
<1> QED BY <1>2, <1>3 DEF Delivery!RequestReplan

(* The acceptance moves on, and with it at most the story it stands at.     *)
LEMMA AcceptanceMoves ==
  ASSUME DeliveryInv, UNCHANGED <<feature, tasks, late, pass, sweep, retry, replan>>, feature.status /= "ACCEPTED",
         stories' \in StoriesType, accept' \in AcceptType \cup {None}, Accepting', WorkDone'
  PROVE  DeliveryInv'
<1>1. DeliveryTypes'
  BY DEF DeliveryInv, DeliveryTypes, CallTypes
<1>2. StoriesAccepted'
  BY DEF StoriesAccepted
<1> QED BY <1>1, <1>2 DEF DeliveryInv

LEMMA DeliveryAcceptBegins ==
  ASSUME DeliveryInv, NEW code \in BOOLEAN, Delivery!AcceptFeatureWithRelease(code)
  PROVE  DeliveryInv'
<1>1. /\ feature.status = "AWAITING_ACCEPTANCE"
      /\ UNCHANGED <<feature, tasks, stories, late, pass, sweep, retry, replan>>
      /\ accept' = [rev |-> feature.rev, version |-> feature.version, code |-> code, at |-> 1, next |-> "read", story |-> None,
                    revs |-> Delivery!NoRevs]
      /\ stories \in StoriesType
      /\ feature.version \in Delivery!Versions /\ feature.rev \in Nat
  BY DEF Delivery!AcceptFeatureWithRelease, Delivery!workVars, DeliveryInv, DeliveryTypes, FeatureType
<1>2. accept' \in AcceptType
  <2>1. Delivery!NoRevs \in [Delivery!T -> Nat] /\ 1 \in 1 .. (Len(Stories) + 1)
    BY PlanAssumption DEF Delivery!NoRevs
  <2> QED BY <1>1, <2>1 DEF AcceptType
<1>3. Accepting'
  BY <1>1 DEF Accepting, Completing
<1>4. WorkDone'
  BY <1>1 DEF DeliveryInv, WorkDone
<1> QED BY <1>1, <1>2, <1>3, <1>4, AcceptanceMoves

LEMMA DeliveryStoryRead == DeliveryInv /\ Delivery!completeAndAcceptFeatureStory => DeliveryInv'
<1> SUFFICES ASSUME DeliveryInv, Delivery!completeAndAcceptFeatureStory PROVE DeliveryInv'
  OBVIOUS
<1>1. /\ accept \in AcceptType /\ accept /= None /\ accept.at <= Len(Stories)
      /\ UNCHANGED <<feature, tasks, stories, late, pass, sweep, retry, replan>>
      /\ stories \in StoriesType /\ tasks \in TasksType /\ Accepting /\ WorkDone /\ feature.status /= "ACCEPTED"
  BY DEF Delivery!completeAndAcceptFeatureStory, Delivery!workVars, DeliveryInv, DeliveryTypes, StoriesAccepted
<1>a. WorkDone'
  BY <1>1 DEF WorkDone
<1>2. accept.version \in Delivery!Versions /\ accept.at \in 1 .. Len(Stories)
  BY <1>1, PlanAssumption DEF AcceptType
<1>3. PICK story : story = stories[accept.version][Stories[accept.at]]
  OBVIOUS
<1>4. story \in WorkType
  BY <1>1, <1>2, <1>3, Positions DEF StoriesType
<1>5. CASE accept' = None
  BY <1>1, <1>a, <1>5, AcceptanceMoves DEF Accepting
<1>b. PICK revs : revs = [t \in Delivery!T |-> tasks[accept.version][t].rev]
  OBVIOUS
<1>c. \A t \in Delivery!T : tasks[accept.version][t].rev \in Nat /\ revs[t] = tasks[accept.version][t].rev
  BY <1>1, <1>2, <1>b DEF TasksType, WorkType
<1>d. revs \in [Delivery!T -> Nat]
  BY <1>b, <1>c
<1>6. CASE /\ story.phase = "ACTIVE" /\ Delivery!TasksCompleted(accept.version, Stories[accept.at])
           /\ accept' = [accept EXCEPT !.next = "COMPLETED", !.story = story, !.revs = revs]
  <2>1. PICK x : x = [accept EXCEPT !.next = "COMPLETED"]
    OBVIOUS
  <2>2. /\ x \in AcceptType /\ x.next = "COMPLETED" /\ x.rev = accept.rev /\ x.version = accept.version /\ x.at = accept.at
    BY <1>1, <2>1 DEF AcceptType, Delivery!Past
  <2>3. PICK y : y = [x EXCEPT !.story = story]
    OBVIOUS
  <2>4. /\ y \in AcceptType /\ y.next = "COMPLETED" /\ y.rev = accept.rev /\ y.version = accept.version /\ y.at = accept.at
    BY <1>4, <2>2, <2>3 DEF AcceptType
  <2>a. PICK z : z = [y EXCEPT !.revs = revs]
    OBVIOUS
  <2>b. /\ z \in AcceptType /\ z.next = "COMPLETED" /\ z.rev = accept.rev /\ z.version = accept.version /\ z.at = accept.at
        /\ z.revs = revs
    BY <1>d, <2>4, <2>a DEF AcceptType
  <2>5. accept' = z
    BY <1>6, <2>1, <2>3, <2>a
  <2>6. \A i \in 1 .. (accept.at - 1) : Stories[i] /= Stories[accept.at]
    BY <1>1, <1>3, <1>6 DEF Accepting
  <2>7. Completing'
    <3> SUFFICES ASSUME NEW t \in Delivery!T, StoryOf[t] = Stories[accept.at]
                 PROVE  /\ tasks[accept.version][t].phase /= None /\ revs[t] <= tasks[accept.version][t].rev
                        /\ tasks[accept.version][t].phase = "COMPLETED"
      BY <1>1, <2>b, <2>5 DEF Completing
    <3>1. tasks[accept.version][t].phase = "COMPLETED"
      BY <1>6 DEF Delivery!TasksCompleted
    <3>2. None /= "COMPLETED"
      BY NoneAssumption DEF WorkPhases
    <3> QED BY <1>c, <3>1, <3>2
  <2>8. Accepting'
    BY <1>1, <1>2, <2>b, <2>5, <2>6, <2>7 DEF Accepting
  <2> QED BY <1>1, <1>a, <2>b, <2>5, <2>8, AcceptanceMoves
<1> QED BY <1>3, <1>5, <1>6, <1>b DEF Delivery!completeAndAcceptFeatureStory

LEMMA DeliveryAcceptStep ==
  ASSUME DeliveryInv, NEW ok \in BOOLEAN, Delivery!AcceptStep(ok)
  PROVE  DeliveryInv'
<1>1. /\ accept \in AcceptType /\ accept /= None /\ accept.next /= "read"
      /\ UNCHANGED <<feature, tasks, late, pass, sweep, retry, replan>>
      /\ stories \in [Delivery!Versions -> [Delivery!S -> WorkType]] /\ tasks \in TasksType
      /\ Accepting /\ WorkDone /\ feature.status /= "ACCEPTED"
  BY DEF Delivery!AcceptStep, Delivery!workVars, DeliveryInv, DeliveryTypes, StoriesAccepted, StoriesType
<1>2. /\ accept.version \in Delivery!Versions /\ accept.at \in 1 .. Len(Stories)
      /\ accept.next \in Delivery!Past /\ accept.next \in WorkPhases
      /\ \A i \in 1 .. (accept.at - 1) : Stories[i] /= Stories[accept.at]
  BY <1>1, PlanAssumption DEF AcceptType, Accepting, Delivery!Past, WorkPhases
<1>3. PICK s \in Delivery!S : s = Stories[accept.at]
  BY <1>2, Positions
<1>4. PICK w : w = Delivery!Moved(stories[accept.version][s], accept.next)
  OBVIOUS
<1>5. w \in WorkType /\ w.phase = accept.next
  <2>1. stories[accept.version][s] \in WorkType
    BY <1>1, <1>2
  <2> QED BY <1>2, <1>4, <2>1, WorkMoves
<1>6. CASE accept' = None /\ UNCHANGED stories
  <2>1. WorkDone' /\ Accepting' /\ stories' \in StoriesType
    BY <1>1, <1>6 DEF WorkDone, Accepting, StoriesType
  <2> QED BY <1>1, <1>6, <2>1, AcceptanceMoves
<1>7. CASE /\ accept.next = "COMPLETED" => Delivery!TasksUnmoved(s)
           /\ stories' = [stories EXCEPT ![accept.version][s] = w]
           /\ accept' = [accept EXCEPT !.next = Delivery!After(accept.next), !.story = w, !.revs = Delivery!NoRevs,
                                       !.at = IF accept.next = "ACCEPTED" THEN @ + 1 ELSE @]
  <2>1. /\ stories' \in [Delivery!Versions -> [Delivery!S -> WorkType]]
        /\ \A u \in Delivery!Versions, x \in Delivery!S :
             stories'[u][x] = IF u = accept.version /\ x = s THEN w ELSE stories[u][x]
    BY <1>1, <1>5, <1>7
  <2>2. PICK n \in Delivery!Past \cup {"read"} : n = Delivery!After(accept.next)
    BY DEF Delivery!After, Delivery!Past
  <2>3. (accept.next = "ACCEPTED" => n = "read") /\ n /= "COMPLETED"
    BY <2>2 DEF Delivery!After
  <2>4. PICK at \in 1 .. (Len(Stories) + 1) : at = IF accept.next = "ACCEPTED" THEN accept.at + 1 ELSE accept.at
    BY <1>2, PlanAssumption
  <2>5. PICK x : x = [accept EXCEPT !.next = n]
    OBVIOUS
  <2>6. /\ x \in AcceptType /\ x.next = n /\ x.rev = accept.rev /\ x.version = accept.version /\ x.at = accept.at
    BY <1>1, <2>5 DEF AcceptType
  <2>7. PICK y : y = [x EXCEPT !.story = w]
    OBVIOUS
  <2>8. /\ y \in AcceptType /\ y.next = n /\ y.rev = accept.rev /\ y.version = accept.version /\ y.at = accept.at
    BY <1>5, <2>6, <2>7 DEF AcceptType
  <2>a. PICK r : r = [y EXCEPT !.revs = Delivery!NoRevs]
    OBVIOUS
  <2>b. /\ r \in AcceptType /\ r.next = n /\ r.rev = accept.rev /\ r.version = accept.version /\ r.at = accept.at
    <3>1. Delivery!NoRevs \in [Delivery!T -> Nat]
      BY DEF Delivery!NoRevs
    <3> QED BY <2>8, <2>a, <3>1 DEF AcceptType
  <2>9. PICK z : z = [r EXCEPT !.at = at]
    OBVIOUS
  <2>10. /\ z \in AcceptType /\ z.next = n /\ z.rev = accept.rev /\ z.version = accept.version /\ z.at = at
    BY <2>b, <2>9 DEF AcceptType
  <2>11. accept' = z
    BY <1>7, <2>2, <2>4, <2>5, <2>7, <2>9, <2>a
  <2>12. \A i \in 1 .. (at - 1) : stories'[accept.version][Stories[i]].phase = "ACCEPTED"
    <3> SUFFICES ASSUME NEW i \in 1 .. (at - 1) PROVE stories'[accept.version][Stories[i]].phase = "ACCEPTED"
      OBVIOUS
    <3>1. i \in 1 .. Len(Stories) /\ (i \in 1 .. (accept.at - 1) \/ i = accept.at)
      BY <1>2, <2>4, PlanAssumption
    <3>2. CASE i \in 1 .. (accept.at - 1)
      BY <3>1, <3>2, <1>1, <1>2, <1>3, <2>1, Positions DEF Accepting
    <3>3. CASE i = accept.at
      <4>1. accept.next = "ACCEPTED"
        BY <3>3, <2>4, <1>2
      <4> QED BY <3>3, <4>1, <1>2, <1>3, <1>5, <2>1
    <3> QED BY <3>1, <3>2, <3>3
  <2>13. n /= "read" => at <= Len(Stories) /\ \A i \in 1 .. (at - 1) : Stories[i] /= Stories[at]
    BY <1>2, <2>3, <2>4
  <2>c. n /= "read" => stories'[accept.version][Stories[at]].phase \in Delivery!Past
    BY <1>2, <1>3, <1>5, <2>1, <2>3, <2>4
  <2>14. Accepting'
    BY <1>1, <2>10, <2>11, <2>12, <2>13, <2>3, <2>c DEF Accepting, Completing
  <2>15. WorkDone'
    <3> SUFFICES ASSUME NEW v \in Delivery!Versions, NEW t \in Delivery!T, stories'[v][StoryOf[t]].phase \in Delivery!Past
                 PROVE  tasks[v][t].phase = "COMPLETED" \/ <<v, t>> \in late
      BY <1>1 DEF WorkDone
    <3>1. StoryOf[t] \in Delivery!S
      BY PlanAssumption
    <3>2. CASE stories[v][StoryOf[t]].phase \in Delivery!Past
      BY <1>1, <3>2 DEF WorkDone
    <3>3. CASE v = accept.version /\ StoryOf[t] = s /\ accept.next = "COMPLETED"
      BY <1>1, <1>3, <1>7, <3>3 DEF Accepting, Completing, Delivery!TasksUnmoved
    <3>4. CASE v = accept.version /\ StoryOf[t] = s /\ accept.next /= "COMPLETED"
      BY <1>1, <1>3, <3>2, <3>4 DEF Accepting
    <3>5. CASE ~(v = accept.version /\ StoryOf[t] = s)
      BY <2>1, <3>1, <3>2, <3>5
    <3> QED BY <3>3, <3>4, <3>5
  <2>16. stories' \in StoriesType
    BY <2>1 DEF StoriesType
  <2> QED BY <1>1, <2>10, <2>11, <2>14, <2>15, <2>16, AcceptanceMoves
<1> QED BY <1>3, <1>4, <1>6, <1>7 DEF Delivery!AcceptStep

LEMMA DeliveryAccept == DeliveryInv /\ Delivery!Accept => DeliveryInv'
<1> SUFFICES ASSUME DeliveryInv, Delivery!Accept PROVE DeliveryInv'
  OBVIOUS
<1>1. /\ accept \in AcceptType /\ accept /= None /\ accept.at > Len(Stories) /\ accept' = None
      /\ UNCHANGED <<tasks, stories, late>> /\ CallTypes'
      /\ DeliveryTypes /\ WorkDone /\ StoriesAccepted /\ Accepting /\ feature.status /= "ACCEPTED"
  BY DEF Delivery!Accept, Delivery!AllStories, Delivery!workVars, CallTypes, DeliveryInv, DeliveryTypes, StoriesAccepted
<1>f. feature \in FeatureType
  BY DEF DeliveryInv, DeliveryTypes
<1>2. CASE UNCHANGED feature
  BY <1>1, <1>2 DEF DeliveryInv, DeliveryTypes, WorkDone, StoriesAccepted, Accepting
<1>3. CASE /\ feature.rev = accept.rev /\ feature.status = "AWAITING_ACCEPTANCE"
           /\ feature' = [feature EXCEPT !.status = "ACCEPTED", !.rev = @ + 1]
  <2>1. /\ feature \in FeatureType /\ feature.version \in Nat
        /\ feature.version = accept.version /\ feature.version \in Delivery!Versions
    BY <1>1, <1>3 DEF DeliveryTypes, FeatureType, Accepting
  <2>x. PICK x : x = [feature EXCEPT !.status = "ACCEPTED"]
    OBVIOUS
  <2>y. x \in FeatureType /\ x.rev = feature.rev /\ x.status = "ACCEPTED" /\ x.version = feature.version
    BY <1>f, <2>x DEF FeatureType
  <2>a. PICK g : g = [x EXCEPT !.rev = feature.rev + 1]
    OBVIOUS
  <2>b. g \in FeatureType /\ g.rev = feature.rev + 1 /\ g.status = "ACCEPTED" /\ g.version = feature.version
    BY <1>f, <2>y, <2>a DEF FeatureType
  <2>2. feature' \in FeatureType /\ feature'.status = "ACCEPTED" /\ feature'.version = feature.version
    BY <1>3, <2>x, <2>a, <2>b
  <2>3. DeliveryTypes'
    BY <1>1, <2>1, <2>2 DEF DeliveryTypes
  <2>4. \A s \in Delivery!S : stories[feature.version][s].phase = "ACCEPTED"
    <3>1. \A i \in 1 .. Len(Stories) : stories[accept.version][Stories[i]].phase = "ACCEPTED"
      BY <1>1, PlanAssumption DEF Accepting, AcceptType
    <3> QED BY <2>1, <3>1, Positions
  <2>5. WorkDone' /\ StoriesAccepted' /\ Accepting'
    BY <1>1, <2>2, <2>4 DEF WorkDone, StoriesAccepted, Accepting
  <2> QED BY <2>3, <2>5 DEF DeliveryInv
<1> QED BY <1>2, <1>3 DEF Delivery!Accept, Delivery!currentFeature

LEMMA DeliveryCrash == DeliveryInv /\ Delivery!Crash => DeliveryInv'
BY DEF Delivery!Crash, DeliveryInv, DeliveryTypes, CallTypes, WorkDone, StoriesAccepted, Accepting

LEMMA DeliveryNext == DeliveryInv /\ Delivery!Next => DeliveryInv'
<1> SUFFICES ASSUME DeliveryInv, Delivery!Next PROVE DeliveryInv'
  OBVIOUS
<1>1. CASE \E t \in Delivery!T : Delivery!Work(t) \/ Delivery!RepairCandidate(t) \/ Delivery!Wait(t) \/ Delivery!RetryFailedTask(t)
  <2>1. PICK t \in Delivery!T : Delivery!Work(t) \/ Delivery!RepairCandidate(t) \/ Delivery!Wait(t) \/ Delivery!RetryFailedTask(t)
    BY <1>1
  <2>2. feature.version \in Delivery!Versions
    BY <2>1 DEF DeliveryInv, DeliveryTypes, Delivery!Work, Delivery!Wait, Delivery!RepairCandidate, Delivery!RetryFailedTask, Delivery!Working
  <2> QED BY <2>1, <2>2, DeliveryWork, DeliveryRepair, DeliveryRetry
<1>2. CASE \E v \in Delivery!Versions, t \in Delivery!T : Delivery!Answer(v, t)
  BY <1>2, DeliveryWork
<1>3. CASE \E code \in BOOLEAN : Delivery!AcceptFeatureWithRelease(code)
  BY <1>3, DeliveryAcceptBegins
<1>4. CASE \E ok \in BOOLEAN : Delivery!AcceptStep(ok)
  BY <1>4, DeliveryAcceptStep
<1>5. CASE \E i \in DOMAIN PlanTasks : Delivery!reconcileValidationRounds(i)
  BY <1>5, DeliveryRounds
<1> QED BY <1>1, <1>2, <1>3, <1>4, <1>5, DeliveryBegin, DeliveryMaterialize, DeliveryApply, DeliveryRecommendation,
           DeliveryReopen, DeliverySweep,
           DeliveryRequestReplan, DeliveryRetire, DeliveryReplan, DeliveryStoryRead, DeliveryAccept, DeliveryCrash, Zenon
        DEF Delivery!Next
-----------------------------------------------------------------------------
(* The workspaces of candidates.  The view that is prepared for a task is   *)
(* of a candidate the gates passed on: worktrees only grow, so one that is  *)
(* found unmoved after the gates was unmoved under them.                    *)

ViewType == [dir : {"none", "writable", "readonly"}, receipt : {"none", "cut", "whole"}]
PrepType ==
  [pc : {"assemble", "gates", "recheck", "build", "readonly", "receipt", "register", "bind"},
   cand : Workspace!Candidates, for : Workspace!Consumers]

WorkspaceTypes ==
  /\ tree \in [Workspace!Targets -> [head : 1 .. MaxCommit, clean : BOOLEAN]]
  /\ \A t \in Workspace!Targets : ~tree[t].clean => tree[t].head < MaxCommit
  /\ view \in [Workspace!Candidates \X Workspace!Consumers -> ViewType]
  /\ prep \in PrepType \cup {None}
  /\ scope \in [Workspace!Consumers -> Workspace!Candidates \cup {None}]

Receipts ==
  \A k \in Workspace!Candidates, c \in Workspace!Consumers :
    view[<<k, c>>].receipt /= "none" => view[<<k, c>>].dir /= "none" /\ (c /= Assembly => k \in gated)

Bound ==
  \A c \in Workspace!Consumers : scope[c] /= None =>
    scope[c] \in gated /\ view[<<scope[c], c>>].receipt = "whole" /\ (up => <<scope[c], c>> \in registered)

Prepared ==
  prep /= None =>
    /\ prep.for /= Promotion => \A t \in Workspace!Targets : prep.cand[t] <= tree[t].head
    /\ prep.pc = "assemble" => prep.for = Assembly
    /\ prep.pc \in {"gates", "recheck"} => prep.for = Validator
    /\ prep.pc = "recheck" /\ Workspace!Unmoved => prep.cand \in gated
    /\ prep.pc \in {"build", "readonly", "receipt"} /\ prep.for /= Assembly => prep.cand \in gated
    /\ prep.pc \in {"readonly", "receipt"} => view[<<prep.cand, prep.for>>].dir /= "none"
    /\ prep.pc \in {"register", "bind"} => view[<<prep.cand, prep.for>>].receipt = "whole"
    /\ prep.pc = "bind" => prep.for /= Assembly /\ (up => <<prep.cand, prep.for>> \in registered)

WorkspaceInv == WorkspaceTypes /\ Receipts /\ Bound /\ Prepared

LEMMA WorkspaceProperty == WorkspaceInv => Workspace!BoundIsGated
<1> SUFFICES ASSUME WorkspaceInv PROVE Workspace!BoundIsGated
  OBVIOUS
<1>1. \A v \in DOMAIN view : \E k \in Workspace!Candidates, c \in Workspace!Consumers : v = <<k, c>>
  BY DEF WorkspaceInv, WorkspaceTypes
<1>2. \A v \in Workspace!Receipted : Workspace!Materialized(v)
  BY <1>1 DEF WorkspaceInv, Receipts, Workspace!Receipted, Workspace!Materialized
<1> QED BY <1>2 DEF WorkspaceInv, Bound, Workspace!BoundIsGated

LEMMA WorkspaceInit == Workspace!Init => WorkspaceInv
<1> SUFFICES ASSUME Workspace!Init PROVE WorkspaceInv
  OBVIOUS
<1>1. PICK T \in Plans : tree = [t \in T |-> [head |-> 1, clean |-> TRUE]]
  BY DEF Workspace!Init
<1>2. tree \in [Workspace!Targets -> [head : 1 .. MaxCommit, clean : BOOLEAN]]
  BY <1>1, WorkspaceAssumption DEF Workspace!Targets
<1>3. view \in [Workspace!Candidates \X Workspace!Consumers -> ViewType]
  BY DEF Workspace!Init, ViewType
<1>4. WorkspaceTypes
  BY <1>1, <1>2, <1>3 DEF Workspace!Init, WorkspaceTypes, Workspace!Targets
<1>5. \A k \in Workspace!Candidates, c \in Workspace!Consumers : view[<<k, c>>].receipt = "none"
  BY DEF Workspace!Init
<1> QED BY <1>4, <1>5 DEF Workspace!Init, WorkspaceInv, Receipts, Bound, Prepared

LEMMA SameCandidates ==
  ASSUME DOMAIN tree' = DOMAIN tree
  PROVE  /\ Workspace!Targets' = Workspace!Targets /\ Workspace!Candidates' = Workspace!Candidates /\ PrepType' = PrepType
         /\ Workspace!Multiple' = Workspace!Multiple
BY DEF Workspace!Targets, Workspace!Candidates, Workspace!Consumers, Workspace!Multiple, PrepType

(* The preparation moves on, candidates pass the gates, views get known.    *)
LEMMA PreparationMoves ==
  ASSUME WorkspaceInv, UNCHANGED <<tree, view, scope, up>>, gated \subseteq gated', registered \subseteq registered',
         prep' \in PrepType \cup {None}, Prepared'
  PROVE  WorkspaceInv'
<1>1. WorkspaceTypes'
  BY SameCandidates DEF WorkspaceInv, WorkspaceTypes
<1>2. Receipts' /\ Bound'
  BY SameCandidates DEF WorkspaceInv, Receipts, Bound
<1> QED BY <1>1, <1>2 DEF WorkspaceInv

(* The view that is prepared moves on.                                      *)
LEMMA ViewMoves ==
  ASSUME WorkspaceInv, UNCHANGED <<tree, gated, registered, scope, up>>, prep \in PrepType,
         NEW w \in ViewType, view' = [view EXCEPT ![<<prep.cand, prep.for>>] = w],
         w.receipt /= "none" => w.dir /= "none" /\ (prep.for /= Assembly => prep.cand \in gated),
         view[<<prep.cand, prep.for>>].receipt = "whole" => w.receipt = "whole",
         prep' \in PrepType \cup {None}, Prepared'
  PROVE  WorkspaceInv'
<1>1. prep.cand \in Workspace!Candidates /\ prep.for \in Workspace!Consumers
  BY DEF PrepType
<1>2. view \in [Workspace!Candidates \X Workspace!Consumers -> ViewType]
  BY DEF WorkspaceInv, WorkspaceTypes
<1>3. /\ view' \in [Workspace!Candidates \X Workspace!Consumers -> ViewType]
      /\ \A k \in Workspace!Candidates, c \in Workspace!Consumers :
           view'[<<k, c>>] = IF k = prep.cand /\ c = prep.for THEN w ELSE view[<<k, c>>]
  BY <1>1, <1>2
<1>4. WorkspaceTypes'
  BY <1>3, SameCandidates DEF WorkspaceInv, WorkspaceTypes
<1>5. Receipts'
  BY <1>3, SameCandidates DEF WorkspaceInv, Receipts
<1>6. Bound'
  <2> SUFFICES ASSUME NEW c \in Workspace!Consumers, scope[c] /= None
               PROVE  scope[c] \in gated /\ view'[<<scope[c], c>>].receipt = "whole" /\ (up => <<scope[c], c>> \in registered)
    BY DEF Bound, Workspace!Consumers
  <2>1. scope[c] \in Workspace!Candidates
    BY DEF WorkspaceInv, WorkspaceTypes
  <2>2. scope[c] \in gated /\ view[<<scope[c], c>>].receipt = "whole" /\ (up => <<scope[c], c>> \in registered)
    BY DEF WorkspaceInv, Bound
  <2> QED BY <1>3, <2>1, <2>2
<1> QED BY <1>4, <1>5, <1>6 DEF WorkspaceInv
(* What the invariant says of the preparation that is under way.            *)
LEMMA UnderWay ==
  ASSUME WorkspaceInv, prep /= None
  PROVE  /\ prep \in PrepType /\ prep.cand \in Workspace!Candidates /\ prep.for \in Workspace!Consumers
         /\ <<prep.cand, prep.for>> \in Workspace!Candidates \X Workspace!Consumers
         /\ view \in [Workspace!Candidates \X Workspace!Consumers -> ViewType]
BY DEF WorkspaceInv, WorkspaceTypes, PrepType

LEMMA WorkspaceInspect == WorkspaceInv /\ Workspace!inspectSource => WorkspaceInv'
<1> SUFFICES ASSUME WorkspaceInv, Workspace!inspectSource PROVE WorkspaceInv'
  OBVIOUS
<1>1. /\ UNCHANGED <<tree, view, gated, registered, scope, up>>
      /\ tree \in [Workspace!Targets -> [head : 1 .. MaxCommit, clean : BOOLEAN]]
  BY DEF Workspace!inspectSource, WorkspaceInv, WorkspaceTypes
<1>2. PICK k : k = Workspace!Heads
  OBVIOUS
<1>3. k \in Workspace!Candidates /\ \A t \in Workspace!Targets : k[t] = tree[t].head /\ tree[t].head \in Nat
  BY <1>1, <1>2, WorkspaceAssumption DEF Workspace!Heads, Workspace!Candidates
<1>4. PICK c \in {Assembly, Validator}, pc \in {"assemble", "gates", "register"} :
        /\ prep' = [pc |-> pc, cand |-> k, for |-> c] /\ (pc = "gates" => c = Validator) /\ (pc = "assemble" => c = Assembly)
        /\ pc = "register" => view[<<k, c>>].receipt = "whole"
  BY <1>2 DEF Workspace!inspectSource, Workspace!Source, Workspace!PrepareAssembly, Workspace!Prepare, Workspace!Goto,
              Workspace!existing
<1>5. prep' \in PrepType
  BY <1>3, <1>4 DEF PrepType, Workspace!Consumers
<1>6. prep'.pc = pc /\ prep'.cand = k /\ prep'.for = c
  BY <1>4
<1>7. Prepared'
  BY <1>1, <1>3, <1>4, <1>6, SameCandidates DEF Prepared
<1> QED BY <1>1, <1>5, <1>7, PreparationMoves

LEMMA WorkspaceGates == WorkspaceInv /\ Workspace!runGates => WorkspaceInv'
<1> SUFFICES ASSUME WorkspaceInv, Workspace!runGates PROVE WorkspaceInv'
  OBVIOUS
<1>1. /\ UNCHANGED <<tree, view, registered, scope, up>> /\ prep /= None /\ prep.pc = "gates" /\ Prepared
  BY DEF Workspace!runGates, Workspace!At, WorkspaceInv
<1>2. CASE prep' = None /\ UNCHANGED gated
  BY <1>1, <1>2, PreparationMoves DEF Prepared
<1>3. CASE /\ prep' = [pc |-> "recheck", cand |-> prep.cand, for |-> prep.for]
           /\ gated' = IF Workspace!Multiple THEN gated \cup {prep.cand}
                       ELSE IF Workspace!Clean THEN gated \cup {Workspace!Heads} ELSE gated
  <2>1. prep' \in PrepType
    BY <1>1, <1>3, UnderWay DEF PrepType
  <2>2. prep'.pc = "recheck" /\ prep'.cand = prep.cand /\ prep'.for = prep.for
    BY <1>3
  <2>3. Workspace!Unmoved' => prep.cand \in gated'
    BY <1>1, <1>3, <2>2, SameCandidates DEF Workspace!Unmoved, Workspace!Clean, Workspace!Heads
  <2>4. Prepared'
    BY <1>1, <2>2, <2>3, SameCandidates DEF Prepared
  <2> QED BY <1>1, <1>3, <2>1, <2>4, PreparationMoves
<1> QED BY <1>2, <1>3 DEF Workspace!runGates, Workspace!Stop, Workspace!Goto

LEMMA WorkspaceRecheck == WorkspaceInv /\ Workspace!Recheck => WorkspaceInv'
<1> SUFFICES ASSUME WorkspaceInv, Workspace!Recheck PROVE WorkspaceInv'
  OBVIOUS
<1>1. /\ UNCHANGED <<tree, view, gated, registered, scope, up>> /\ prep /= None /\ prep.pc = "recheck" /\ Prepared
  BY DEF Workspace!Recheck, Workspace!At, WorkspaceInv
<1>2. CASE prep' = None
  BY <1>1, <1>2, PreparationMoves DEF Prepared
<1>3. CASE Workspace!Unmoved /\ prep' = [pc |-> "build", cand |-> prep.cand, for |-> prep.for]
  <2>1. prep' \in PrepType
    BY <1>1, <1>3, UnderWay DEF PrepType
  <2>2. prep'.pc = "build" /\ prep'.cand = prep.cand /\ prep'.for = prep.for
    BY <1>3
  <2>3. Prepared'
    BY <1>1, <1>3, <2>2, SameCandidates DEF Prepared
  <2> QED BY <1>1, <2>1, <2>3, PreparationMoves
<1> QED BY <1>2, <1>3 DEF Workspace!Recheck, Workspace!Stop, Workspace!Goto

(* The directory of the view is moved in place or made read-only.           *)
LEMMA DirectoryMoves ==
  ASSUME WorkspaceInv, UNCHANGED <<tree, gated, registered, scope, up>>, prep /= None,
         prep.pc \in {"assemble", "build", "readonly"},
         NEW d \in {"writable", "readonly"}, NEW pc \in {"readonly", "receipt"}, prep.pc = "assemble" => prep.for = Assembly,
         view' = [view EXCEPT ![<<prep.cand, prep.for>>].dir = d],
         prep' = [pc |-> pc, cand |-> prep.cand, for |-> prep.for]
  PROVE  WorkspaceInv'
<1>1. /\ prep \in PrepType /\ prep.cand \in Workspace!Candidates /\ prep.for \in Workspace!Consumers
      /\ <<prep.cand, prep.for>> \in Workspace!Candidates \X Workspace!Consumers
      /\ view \in [Workspace!Candidates \X Workspace!Consumers -> ViewType]
  BY UnderWay
<1>2. PICK w : w = [view[<<prep.cand, prep.for>>] EXCEPT !.dir = d]
  OBVIOUS
<1>3. w \in ViewType /\ w.dir = d /\ w.receipt = view[<<prep.cand, prep.for>>].receipt
  BY <1>1, <1>2 DEF ViewType
<1>4. view' = [view EXCEPT ![<<prep.cand, prep.for>>] = w]
  BY <1>1, <1>2
<1>5. w.receipt /= "none" => w.dir /= "none" /\ (prep.for /= Assembly => prep.cand \in gated)
  BY <1>1, <1>3 DEF WorkspaceInv, Receipts
<1>6. prep' \in PrepType /\ prep'.pc = pc /\ prep'.cand = prep.cand /\ prep'.for = prep.for
  BY <1>1 DEF PrepType
<1>7. view'[<<prep.cand, prep.for>>] = w
  BY <1>1, <1>4
<1>8. Prepared'
  BY <1>3, <1>6, <1>7, SameCandidates DEF WorkspaceInv, Prepared
<1> QED BY <1>1, <1>3, <1>4, <1>5, <1>6, <1>8, ViewMoves

(* It is there already.                                                     *)
LEMMA DirectoryStands ==
  ASSUME WorkspaceInv, UNCHANGED <<tree, view, gated, registered, scope, up>>, prep /= None,
         prep.pc \in {"assemble", "build"}, prep.pc = "assemble" => prep.for = Assembly,
         view[<<prep.cand, prep.for>>].dir /= "none",
         prep' = [pc |-> "receipt", cand |-> prep.cand, for |-> prep.for]
  PROVE  WorkspaceInv'
<1>1. prep' \in PrepType /\ prep'.pc = "receipt" /\ prep'.cand = prep.cand /\ prep'.for = prep.for
  BY UnderWay DEF PrepType
<1>2. Prepared'
  BY <1>1, SameCandidates DEF WorkspaceInv, Prepared
<1> QED BY <1>1, <1>2, PreparationMoves
LEMMA WorkspaceBuild ==
  WorkspaceInv /\ (Workspace!prepareObserved \/ Workspace!materialize \/ Workspace!makeTreeReadOnly) => WorkspaceInv'
<1> SUFFICES ASSUME WorkspaceInv, Workspace!prepareObserved \/ Workspace!materialize \/ Workspace!makeTreeReadOnly
             PROVE  WorkspaceInv'
  OBVIOUS
<1>1. /\ prep /= None /\ prep.pc \in {"assemble", "build", "readonly"} /\ UNCHANGED <<tree, gated, registered, scope, up>>
      /\ prep.pc = "assemble" => prep.for = Assembly
  BY DEF Workspace!prepareObserved, Workspace!materialize, Workspace!makeTreeReadOnly, Workspace!At, WorkspaceInv, Prepared
<1>2. CASE /\ prep.pc \in {"assemble", "build"} /\ view[<<prep.cand, prep.for>>].dir /= "none" /\ UNCHANGED view
           /\ prep' = [pc |-> "receipt", cand |-> prep.cand, for |-> prep.for]
  BY <1>1, <1>2, DirectoryStands
<1>3. CASE \E d \in {"writable", "readonly"}, pc \in {"readonly", "receipt"} :
             /\ view' = [view EXCEPT ![<<prep.cand, prep.for>>].dir = d]
             /\ prep' = [pc |-> pc, cand |-> prep.cand, for |-> prep.for]
  BY <1>1, <1>3, DirectoryMoves
<1> QED BY <1>2, <1>3
        DEF Workspace!prepareObserved, Workspace!materialize, Workspace!makeTreeReadOnly, Workspace!At, Workspace!verify,
            Workspace!Materialized, Workspace!Moved, Workspace!Here, Workspace!Goto

LEMMA WorkspaceReceipt == WorkspaceInv /\ Workspace!writeExclusiveSynced => WorkspaceInv'
<1> SUFFICES ASSUME WorkspaceInv, Workspace!writeExclusiveSynced PROVE WorkspaceInv'
  OBVIOUS
<1>1. /\ prep /= None /\ prep.pc = "receipt" /\ UNCHANGED <<tree, gated, registered, scope, up>> /\ Prepared
  BY DEF Workspace!writeExclusiveSynced, Workspace!At, WorkspaceInv
<1>2. /\ prep \in PrepType /\ prep.cand \in Workspace!Candidates /\ prep.for \in Workspace!Consumers
      /\ <<prep.cand, prep.for>> \in Workspace!Candidates \X Workspace!Consumers
      /\ view \in [Workspace!Candidates \X Workspace!Consumers -> ViewType]
  BY <1>1, UnderWay
<1>3. CASE prep' = None /\ UNCHANGED view
  BY <1>1, <1>3, PreparationMoves DEF Prepared
<1>4. CASE \E r \in {"cut", "whole"} :
             /\ view' = [view EXCEPT ![<<prep.cand, prep.for>>].receipt = r] /\ view[<<prep.cand, prep.for>>].receipt /= "whole"
             /\ \/ UNCHANGED prep
                \/ r = "whole" /\ prep' = [pc |-> "register", cand |-> prep.cand, for |-> prep.for]
  <2>1. PICK r \in {"cut", "whole"} :
             /\ view' = [view EXCEPT ![<<prep.cand, prep.for>>].receipt = r] /\ view[<<prep.cand, prep.for>>].receipt /= "whole"
             /\ \/ UNCHANGED prep
                \/ r = "whole" /\ prep' = [pc |-> "register", cand |-> prep.cand, for |-> prep.for]
    BY <1>4
  <2>2. PICK w : w = [view[<<prep.cand, prep.for>>] EXCEPT !.receipt = r]
    OBVIOUS
  <2>3. w \in ViewType /\ w.receipt = r /\ w.dir = view[<<prep.cand, prep.for>>].dir
    BY <1>2, <2>2 DEF ViewType
  <2>4. view' = [view EXCEPT ![<<prep.cand, prep.for>>] = w]
    BY <1>2, <2>1, <2>2
  <2>5. w.receipt /= "none" => w.dir /= "none" /\ (prep.for /= Assembly => prep.cand \in gated)
    BY <1>1, <2>3 DEF Prepared
  <2>6. prep' \in PrepType /\ prep'.pc \in {"receipt", "register"} /\ prep'.cand = prep.cand /\ prep'.for = prep.for
        /\ (prep'.pc = "register" => r = "whole")
    BY <1>1, <1>2, <2>1 DEF PrepType
  <2>7. view'[<<prep.cand, prep.for>>] = w
    BY <1>2, <2>4
  <2>8. Prepared'
    BY <1>1, <2>3, <2>6, <2>7, SameCandidates DEF Prepared
  <2> QED BY <1>1, <1>2, <2>1, <2>3, <2>4, <2>5, <2>6, <2>8, ViewMoves
<1> QED BY <1>3, <1>4 DEF Workspace!writeExclusiveSynced, Workspace!Here, Workspace!Stop, Workspace!Goto

LEMMA WorkspaceRegister == WorkspaceInv /\ Workspace!register => WorkspaceInv'
<1> SUFFICES ASSUME WorkspaceInv, Workspace!register PROVE WorkspaceInv'
  OBVIOUS
<1>1. /\ prep /= None /\ prep.pc = "register" /\ UNCHANGED <<tree, view, gated, scope, up>> /\ Prepared
      /\ registered' = registered \cup {<<prep.cand, prep.for>>}
  BY DEF Workspace!register, Workspace!At, Workspace!Here, WorkspaceInv
<1>2. /\ prep \in PrepType /\ prep.cand \in Workspace!Candidates /\ prep.for \in Workspace!Consumers
  BY <1>1, UnderWay
<1>3. PICK pc \in {"register", "gates", "bind"}, c \in Workspace!Consumers :
        /\ prep' = [pc |-> pc, cand |-> prep.cand, for |-> c]
        /\ pc = "register" => view[<<prep.cand, c>>].receipt = "whole"
        /\ pc = "gates" => c = Validator
        /\ pc = "bind" => c = prep.for /\ c /= Assembly
        /\ c /= Promotion => prep.for /= Promotion
  BY <1>2, WorkspaceAssumption DEF Workspace!register, Workspace!Prepare, Workspace!existing, Workspace!Goto, Workspace!Consumers
<1>4. prep' \in PrepType /\ prep'.pc = pc /\ prep'.cand = prep.cand /\ prep'.for = c
  BY <1>2, <1>3 DEF PrepType
<1>5. Prepared'
  BY <1>1, <1>3, <1>4, SameCandidates DEF Prepared
<1> QED BY <1>1, <1>4, <1>5, PreparationMoves

LEMMA WorkspaceBind == WorkspaceInv /\ Workspace!rebindTaskCandidateWorkspace => WorkspaceInv'
<1> SUFFICES ASSUME WorkspaceInv, Workspace!rebindTaskCandidateWorkspace PROVE WorkspaceInv'
  OBVIOUS
<1>1. /\ prep /= None /\ prep.pc = "bind" /\ UNCHANGED <<tree, view, gated, registered, up>> /\ Prepared /\ prep' = None
      /\ scope' = [scope EXCEPT ![prep.for] = prep.cand]
  BY DEF Workspace!rebindTaskCandidateWorkspace, Workspace!At, Workspace!Stop, WorkspaceInv
<1>2. /\ prep \in PrepType /\ prep.cand \in Workspace!Candidates /\ prep.for \in Workspace!Consumers
  BY <1>1, UnderWay
<1>3. scope \in [Workspace!Consumers -> Workspace!Candidates \cup {None}]
  BY DEF WorkspaceInv, WorkspaceTypes
<1>4. /\ scope' \in [Workspace!Consumers -> Workspace!Candidates \cup {None}]
      /\ \A c \in Workspace!Consumers : scope'[c] = IF c = prep.for THEN prep.cand ELSE scope[c]
  BY <1>1, <1>2, <1>3
<1>5. WorkspaceTypes' /\ Receipts' /\ Prepared'
  BY <1>1, <1>4, SameCandidates DEF WorkspaceInv, WorkspaceTypes, Receipts, Prepared
<1>6. view[<<prep.cand, prep.for>>].receipt = "whole" /\ prep.for /= Assembly /\ (up => <<prep.cand, prep.for>> \in registered)
  BY <1>1 DEF Prepared
<1>7. prep.cand \in gated
  BY <1>2, <1>6 DEF WorkspaceInv, Receipts
<1>8. Bound'
  BY <1>1, <1>4, <1>6, <1>7 DEF WorkspaceInv, Bound
<1> QED BY <1>5, <1>8 DEF WorkspaceInv

LEMMA WorkspaceReuse == WorkspaceInv /\ Workspace!Reuse => WorkspaceInv'
<1> SUFFICES ASSUME WorkspaceInv, Workspace!Reuse PROVE WorkspaceInv'
  OBVIOUS
<1>1. UNCHANGED <<tree, view, gated, registered, scope, up>> /\ scope[Validator] /= None
  BY DEF Workspace!Reuse, Workspace!Reusable
<1>2. scope[Validator] \in Workspace!Candidates /\ scope[Validator] \in gated
  BY <1>1 DEF WorkspaceInv, WorkspaceTypes, Bound, Workspace!Consumers
<1>3. PICK pc \in {"register", "build"} :
        /\ prep' = [pc |-> pc, cand |-> scope[Validator], for |-> Promotion]
        /\ pc = "register" => view[<<scope[Validator], Promotion>>].receipt = "whole"
  BY DEF Workspace!Reuse, Workspace!existing, Workspace!Goto
<1>4. prep' \in PrepType /\ prep'.pc = pc /\ prep'.cand = scope[Validator] /\ prep'.for = Promotion
  BY <1>2, <1>3 DEF PrepType, Workspace!Consumers
<1>5. Prepared'
  BY <1>1, <1>2, <1>3, <1>4, SameCandidates, WorkspaceAssumption DEF Prepared
<1> QED BY <1>1, <1>4, <1>5, PreparationMoves

LEMMA WorkspaceStops == WorkspaceInv /\ (Workspace!Abandon \/ Workspace!Crash \/ Workspace!Unbind) => WorkspaceInv'
<1> SUFFICES ASSUME WorkspaceInv, Workspace!Abandon \/ Workspace!Crash \/ Workspace!Unbind PROVE WorkspaceInv'
  OBVIOUS
<1>1. CASE Workspace!Abandon
  BY <1>1, PreparationMoves DEF Workspace!Abandon, Workspace!Stop, Prepared
<1>2. CASE Workspace!Crash
  BY <1>2, SameCandidates DEF Workspace!Crash, Workspace!Stop, WorkspaceInv, WorkspaceTypes, Receipts, Bound, Prepared
<1>3. CASE Workspace!Unbind
  <2>1. UNCHANGED <<tree, view, gated, prep, registered, up>> /\ scope' = [scope EXCEPT ![Validator] = None]
    BY <1>3 DEF Workspace!Unbind
  <2>2. /\ scope' \in [Workspace!Consumers -> Workspace!Candidates \cup {None}]
        /\ \A c \in Workspace!Consumers : scope'[c] /= None => scope'[c] = scope[c]
    BY <2>1 DEF WorkspaceInv, WorkspaceTypes
  <2>3. WorkspaceTypes' /\ Receipts'
    BY <2>1, <2>2, SameCandidates DEF WorkspaceInv, WorkspaceTypes, Receipts
  <2>4. Prepared'
    BY <2>1, SameCandidates DEF WorkspaceInv, Prepared, Workspace!Unmoved, Workspace!Clean, Workspace!Heads
  <2>5. Bound'
    BY <2>1, <2>2 DEF WorkspaceInv, Bound
  <2> QED BY <2>3, <2>4, <2>5 DEF WorkspaceInv
<1> QED BY <1>1, <1>2, <1>3

LEMMA WorkspaceRehydrate == WorkspaceInv /\ Workspace!rehydrate => WorkspaceInv'
<1> SUFFICES ASSUME WorkspaceInv, Workspace!rehydrate PROVE WorkspaceInv'
  OBVIOUS
<1>1. UNCHANGED <<tree, view, gated, prep, scope>> /\ registered' = Workspace!Receipted
  BY DEF Workspace!rehydrate
<1>2. \A k \in Workspace!Candidates, c \in Workspace!Consumers :
        view[<<k, c>>].receipt = "whole" => <<k, c>> \in registered'
  BY <1>1 DEF WorkspaceInv, WorkspaceTypes, Workspace!Receipted
<1>3. WorkspaceTypes' /\ Receipts'
  BY <1>1, SameCandidates DEF WorkspaceInv, WorkspaceTypes, Receipts
<1>4. Bound'
  BY <1>1, <1>2 DEF WorkspaceInv, WorkspaceTypes, Bound
<1>5. Prepared'
  <2> SUFFICES ASSUME prep /= None PROVE Prepared'
    BY <1>1 DEF Prepared
  <2>1. prep.pc = "bind" => <<prep.cand, prep.for>> \in registered'
    BY <1>2, UnderWay DEF WorkspaceInv, Prepared
  <2> QED BY <1>1, <2>1, SameCandidates DEF WorkspaceInv, Prepared, Workspace!Unmoved, Workspace!Clean, Workspace!Heads
<1> QED BY <1>3, <1>4, <1>5 DEF WorkspaceInv

(* An edit takes nothing back: a worktree it leaves clean is not the one    *)
(* that was inspected.                                                      *)
LEMMA WorkspaceEdit ==
  ASSUME WorkspaceInv, NEW t \in Workspace!Targets, Workspace!Edit(t)
  PROVE  WorkspaceInv'
<1>1. /\ UNCHANGED <<view, gated, prep, registered, scope, up>>
      /\ tree \in [Workspace!Targets -> [head : 1 .. MaxCommit, clean : BOOLEAN]]
  BY DEF Workspace!Edit, WorkspaceInv, WorkspaceTypes
<1>2. tree[t].head \in 1 .. MaxCommit /\ tree[t].clean \in BOOLEAN
  BY <1>1
<1>3. /\ tree' \in [Workspace!Targets -> [head : 1 .. MaxCommit, clean : BOOLEAN]]
      /\ \A u \in Workspace!Targets : u /= t => tree'[u] = tree[u]
      /\ \/ ~tree'[t].clean /\ tree'[t].head = tree[t].head /\ tree[t].head < MaxCommit
         \/ tree'[t].clean /\ tree'[t].head = tree[t].head + 1
  <2>1. CASE tree[t].clean /\ tree[t].head < MaxCommit /\ tree' = [tree EXCEPT ![t].clean = FALSE]
    <3>1. PICK w : w = [tree[t] EXCEPT !.clean = FALSE]
      OBVIOUS
    <3>2. w \in [head : 1 .. MaxCommit, clean : BOOLEAN] /\ ~w.clean /\ w.head = tree[t].head
      BY <1>1, <3>1
    <3>3. tree' = [tree EXCEPT ![t] = w]
      BY <2>1, <3>1
    <3> QED BY <1>1, <2>1, <3>2, <3>3
  <2>2. CASE ~tree[t].clean /\ tree' = [tree EXCEPT ![t] = [head |-> @.head + 1, clean |-> TRUE]]
    <3>1. tree[t].head + 1 \in 1 .. MaxCommit
      BY <1>2, <2>2, WorkspaceAssumption DEF WorkspaceInv, WorkspaceTypes
    <3>2. PICK w : w = [head |-> tree[t].head + 1, clean |-> TRUE]
      OBVIOUS
    <3>3. w \in [head : 1 .. MaxCommit, clean : BOOLEAN] /\ w.clean /\ w.head = tree[t].head + 1
      BY <3>1, <3>2
    <3>4. tree' = [tree EXCEPT ![t] = w]
      BY <2>2, <3>2
    <3> QED BY <1>1, <3>3, <3>4
  <2> QED BY <1>2, <2>1, <2>2 DEF Workspace!Edit
<1>4. DOMAIN tree' = DOMAIN tree
  BY <1>1, <1>3 DEF Workspace!Targets
<1>5. WorkspaceTypes'
  <2>1. \A u \in Workspace!Targets : ~tree'[u].clean => tree'[u].head < MaxCommit
    BY <1>3 DEF WorkspaceInv, WorkspaceTypes
  <2> QED BY <1>1, <1>3, <1>4, <2>1, SameCandidates DEF WorkspaceInv, WorkspaceTypes
<1>6. Receipts' /\ Bound'
  BY <1>1, <1>4, SameCandidates DEF WorkspaceInv, Receipts, Bound
<1>7. Prepared'
  <2> SUFFICES ASSUME prep /= None PROVE Prepared'
    BY <1>1 DEF Prepared
  <2>1. \A u \in Workspace!Targets : prep.cand[u] \in Nat /\ tree[u].head \in Nat
    BY <1>1, UnderWay, WorkspaceAssumption DEF Workspace!Candidates
  <2>2. prep.for /= Promotion => \A u \in Workspace!Targets : prep.cand[u] <= tree'[u].head
    BY <1>3, <2>1 DEF WorkspaceInv, Prepared
  <2>3. prep.pc = "recheck" /\ Workspace!Unmoved' => prep.cand \in gated
    <3> SUFFICES ASSUME prep.pc = "recheck", Workspace!Unmoved', ~Workspace!Multiple PROVE FALSE
      BY <1>4, SameCandidates DEF WorkspaceInv, Prepared, Workspace!Unmoved
    <3>1. Workspace!Clean' /\ Workspace!Heads' = prep.cand
      BY <1>1, <1>4, SameCandidates DEF Workspace!Unmoved
    <3>2. tree'[t].clean /\ tree'[t].head = prep.cand[t]
      BY <3>1, <1>4, SameCandidates DEF Workspace!Clean, Workspace!Heads
    <3>3. prep.cand[t] <= tree[t].head
      BY WorkspaceAssumption DEF WorkspaceInv, Prepared
    <3> QED BY <1>3, <2>1, <3>2, <3>3
  <2> QED BY <1>1, <1>4, <2>2, <2>3, SameCandidates DEF WorkspaceInv, Prepared
<1> QED BY <1>5, <1>6, <1>7 DEF WorkspaceInv

LEMMA WorkspaceNext == WorkspaceInv /\ Workspace!Next => WorkspaceInv'
BY WorkspaceInspect, WorkspaceGates, WorkspaceRecheck, WorkspaceBuild, WorkspaceReceipt, WorkspaceRegister, WorkspaceBind,
   WorkspaceReuse, WorkspaceStops, WorkspaceRehydrate, WorkspaceEdit, Zenon
   DEF Workspace!Next
-----------------------------------------------------------------------------
(* The reviews of a task.  A review that is closed by policy has a branch   *)
(* that timed out, so it never passes later; a new one is opened only when  *)
(* all before it have been closed so and have their receipts, and then it   *)
(* is the next in number.                                                   *)

Results == {"VALIDATOR", "POLICY_TIMEOUT", None}
ReviewType ==
  [result : [Review!Branches -> Results], at : [Review!Branches -> Nat \cup {None}],
   final : {"PASS", "FAIL", "BLOCKED", None}, receipt : BOOLEAN]
PassType == [pc : {"prepare", "close", "open", "record", "finalize", "complete"}, id : Nat]

ReviewTypes ==
  /\ reviews \in Seq(ReviewType)
  /\ pass \in PassType \cup {None}
  /\ now \in Nat

Sound(r) ==
  /\ \A b \in Review!Branches :
       /\ r.result[b] = None <=> r.at[b] = None
       /\ r.result[b] = "VALIDATOR" => r.at[b] <= ReviewDeadline
       /\ r.result[b] = "POLICY_TIMEOUT" => r.at[b] > ReviewDeadline
  /\ r.final = "PASS" => \A b \in Review!Branches : r.result[b] = "VALIDATOR" /\ verdict[b] = "PASS"
  /\ r.final = "BLOCKED" => \E b \in Review!Branches : r.result[b] = "POLICY_TIMEOUT"

AllSound == \A k \in 1 .. Len(reviews) : Sound(reviews[k])

Closed(r) == Review!TimedOut(r) /\ r.receipt

Succession == \A k \in 1 .. Len(reviews) : k < Len(reviews) => Closed(reviews[k])

Passing ==
  pass /= None =>
    /\ pass.pc \in {"close", "record", "finalize", "complete"} => pass.id \in 1 .. Len(reviews)
    /\ pass.pc \in {"prepare", "close"} => \A k \in 1 .. Len(reviews) : reviews[k].final \notin {"PASS", "FAIL"}
    /\ pass.pc = "close" =>
         \/ Review!Missing(reviews[pass.id]) /= {}
         \/ \E b \in Review!Branches : reviews[pass.id].result[b] = "POLICY_TIMEOUT"
    /\ pass.pc = "open" =>
         pass.id \in 1 .. Len(reviews) \/ (pass.id = Len(reviews) + 1 /\ \A k \in 1 .. Len(reviews) : Closed(reviews[k]))
    /\ pass.pc = "finalize" => \A b \in Review!Branches : reviews[pass.id].result[b] = "VALIDATOR"
    /\ pass.pc = "complete" => reviews[pass.id].final = "PASS"

Finished == completed /= None => pass = None /\ completed \in 1 .. Len(reviews) /\ reviews[completed].final = "PASS"

ReviewInv == ReviewTypes /\ AllSound /\ Succession /\ Passing /\ Finished

LEMMA ReviewDomain == ReviewTypes => DOMAIN reviews = 1 .. Len(reviews) /\ Len(reviews) \in Nat
BY DEF ReviewTypes

LEMMA ReviewProperty == ReviewInv => Review!ReviewsInSuccession
<1> SUFFICES ASSUME ReviewInv PROVE Review!ReviewsInSuccession
  OBVIOUS
<1>1. DOMAIN reviews = 1 .. Len(reviews)
  BY ReviewDomain DEF ReviewInv
<1>2. \A k \in DOMAIN reviews : k < Len(reviews) => Review!TimedOut(reviews[k]) /\ reviews[k].receipt
  BY <1>1 DEF ReviewInv, Succession, Closed
<1>3. \A k \in DOMAIN reviews, b \in Review!Branches :
        (reviews[k].result[b] = "VALIDATOR") <=> (reviews[k].at[b] /= None /\ reviews[k].at[b] <= ReviewDeadline)
  <2> SUFFICES ASSUME NEW k \in DOMAIN reviews, NEW b \in Review!Branches
               PROVE  (reviews[k].result[b] = "VALIDATOR") <=> (reviews[k].at[b] /= None /\ reviews[k].at[b] <= ReviewDeadline)
    OBVIOUS
  <2>1. PICK r \in ReviewType : r = reviews[k]
    BY <1>1 DEF ReviewInv, ReviewTypes
  <2>2. r.result[b] \in Results /\ r.at[b] \in Nat \cup {None} /\ Sound(r)
    BY <1>1, <2>1 DEF ReviewInv, AllSound, ReviewType
  <2> QED BY <2>1, <2>2, ReviewAssumption, NoneAssumption DEF Sound, Results
<1>4. completed /= None =>
       \A b \in Review!Branches : reviews[completed].result[b] = "VALIDATOR" /\ verdict[b] = "PASS"
  BY DEF ReviewInv, Finished, AllSound, Sound
<1> QED BY <1>2, <1>3, <1>4 DEF Review!ReviewsInSuccession

LEMMA ReviewInit == Review!Init => ReviewInv
BY DEF Review!Init, ReviewInv, ReviewTypes, AllSound, Succession, Passing, Finished

LEMMA SameBranches ==
  ASSUME UNCHANGED verdict
  PROVE  /\ Review!Branches' = Review!Branches /\ ReviewType' = ReviewType
         /\ \A r : Sound(r)' = Sound(r) /\ Closed(r)' = Closed(r)
BY DEF Review!Branches, ReviewType, Sound, Closed, Review!TimedOut

(* Only the pass moves on.                                                  *)
LEMMA PassMoves ==
  ASSUME ReviewInv, UNCHANGED <<verdict, reviews, completed, now>>, pass' \in PassType \cup {None}, Passing',
         completed /= None => pass' = None
  PROVE  ReviewInv'
<1>1. ReviewTypes'
  BY SameBranches DEF ReviewInv, ReviewTypes
<1>2. AllSound' /\ Succession'
  BY SameBranches DEF ReviewInv, AllSound, Succession, Sound, Closed, Review!TimedOut, Review!Branches
<1>3. Finished'
  BY DEF ReviewInv, Finished
<1> QED BY <1>1, <1>2, <1>3 DEF ReviewInv
(* One review moves on, and with it the pass.                               *)
LEMMA ReviewMoves ==
  ASSUME ReviewInv, UNCHANGED <<verdict, completed, now>>, pass /= None,
         NEW k \in 1 .. Len(reviews), NEW r \in ReviewType, reviews' = [reviews EXCEPT ![k] = r],
         Sound(r), Closed(reviews[k]) => Closed(r), pass' \in PassType \cup {None}, Passing'
  PROVE  ReviewInv'
<1>1. reviews \in Seq(ReviewType) /\ completed = None
  BY DEF ReviewInv, ReviewTypes, Finished
<1>2. /\ reviews' \in Seq(ReviewType) /\ Len(reviews') = Len(reviews)
      /\ \A i \in 1 .. Len(reviews) : reviews'[i] = IF i = k THEN r ELSE reviews[i]
  BY <1>1
<1>3. ReviewTypes'
  BY <1>2, SameBranches DEF ReviewInv, ReviewTypes
<1>4. AllSound'
  <2>1. \A i \in 1 .. Len(reviews) : Sound(reviews'[i])
    BY <1>2 DEF ReviewInv, AllSound
  <2> QED BY <1>2, <2>1, SameBranches DEF AllSound, Sound
<1>5. Succession'
  <2>1. \A i \in 1 .. Len(reviews) : i < Len(reviews) => Closed(reviews'[i])
    BY <1>2 DEF ReviewInv, Succession
  <2> QED BY <1>2, <2>1, SameBranches DEF Succession, Closed, Review!TimedOut
<1> QED BY <1>1, <1>3, <1>4, <1>5 DEF ReviewInv, Finished

LEMMA ReviewBegin == ReviewInv /\ Review!Begin => ReviewInv'
<1> SUFFICES ASSUME ReviewInv, Review!Begin PROVE ReviewInv'
  OBVIOUS
<1>1. /\ UNCHANGED <<verdict, reviews, completed, now>> /\ completed = None
      /\ DOMAIN reviews = 1 .. Len(reviews) /\ Len(reviews) \in Nat
      /\ \A k \in 1 .. Len(reviews) : reviews[k].final /= "FAIL"
  BY ReviewDomain DEF ReviewInv, Review!Begin
<1>2. CASE \E k \in 1 .. Len(reviews) : reviews[k].final = "PASS" /\ pass' = [pc |-> "complete", id |-> k]
  <2>1. PICK k \in 1 .. Len(reviews) : reviews[k].final = "PASS" /\ pass' = [pc |-> "complete", id |-> k]
    BY <1>2
  <2>2. pass' \in PassType /\ pass'.pc = "complete" /\ pass'.id = k
    BY <1>1, <2>1 DEF PassType
  <2>3. Passing'
    BY <1>1, <2>1, <2>2 DEF Passing
  <2> QED BY <1>1, <2>2, <2>3, PassMoves
<1>3. CASE \E k \in 1 .. Len(reviews) : pass' = [pc |-> "open", id |-> k]
  <2>1. PICK k \in 1 .. Len(reviews) : pass' = [pc |-> "open", id |-> k]
    BY <1>3
  <2>2. pass' \in PassType /\ pass'.pc = "open" /\ pass'.id = k
    BY <1>1, <2>1 DEF PassType
  <2>3. Passing'
    BY <1>1, <2>1, <2>2 DEF Passing
  <2> QED BY <1>1, <2>2, <2>3, PassMoves
<1>4. CASE /\ \A k \in 1 .. Len(reviews) : reviews[k].final /= "PASS"
           /\ pass' = [pc |-> "prepare", id |-> 0]
  <2>1. pass' \in PassType /\ pass'.pc = "prepare"
    BY <1>4 DEF PassType
  <2>2. Passing'
    BY <1>1, <1>4, <2>1 DEF Passing
  <2> QED BY <1>1, <2>1, <2>2, PassMoves
<1>5. CASE Review!reusableFinalizedTaskReview /= {}
  BY <1>1, <1>2, <1>5 DEF Review!Begin, Review!Goto, Review!reusableFinalizedTaskReview
<1>6. CASE Review!reusableFinalizedTaskReview = {}
  <2>1. Review!Unfinished /= {} => (CHOOSE k \in Review!Unfinished : TRUE) \in Review!Unfinished
    OBVIOUS
  <2>2. Review!Unfinished \subseteq 1 .. Len(reviews)
    BY <1>1 DEF Review!Unfinished
  <2> QED BY <1>1, <1>3, <1>4, <1>6, <2>1, <2>2 DEF Review!Begin, Review!Goto, Review!reusableFinalizedTaskReview
<1> QED BY <1>5, <1>6

LEMMA ReviewReceipt ==
  ASSUME ReviewInv, NEW k \in DOMAIN reviews, Review!RegisterReceipt(k)
  PROVE  ReviewInv'
<1>1. /\ UNCHANGED <<verdict, pass, completed, now>> /\ pass /= None /\ pass.pc = "prepare"
      /\ reviews' = [reviews EXCEPT ![k].receipt = TRUE] /\ reviews \in Seq(ReviewType) /\ k \in 1 .. Len(reviews)
      /\ pass \in PassType \cup {None}
  BY ReviewDomain DEF ReviewInv, ReviewTypes, Review!RegisterReceipt, Review!At
<1>2. PICK x : x = reviews[k]
  OBVIOUS
<1>3. x \in ReviewType
  BY <1>1, <1>2
<1>4. PICK r : r = [x EXCEPT !.receipt = TRUE]
  OBVIOUS
<1>5. r \in ReviewType /\ r.result = x.result /\ r.at = x.at /\ r.final = x.final /\ r.receipt
  BY <1>3, <1>4 DEF ReviewType
<1>6. reviews' = [reviews EXCEPT ![k] = r]
  BY <1>1, <1>2, <1>4
<1>7. Sound(r)
  BY <1>1, <1>2, <1>5 DEF ReviewInv, AllSound, Sound
<1>8. Closed(x) => Closed(r)
  BY <1>5 DEF Closed, Review!TimedOut
<1>9. Len(reviews') = Len(reviews) /\ \A i \in 1 .. Len(reviews) : reviews'[i].final = reviews[i].final
  BY <1>1, <1>2, <1>5, <1>6
<1>10. Passing'
  BY <1>1, <1>9 DEF ReviewInv, Passing
<1> QED BY <1>1, <1>2, <1>5, <1>6, <1>7, <1>8, <1>10, ReviewMoves

LEMMA FullReceipts ==
  ASSUME ReviewInv, \A k \in 1 .. Len(reviews) : reviews[k].receipt
  PROVE  Review!Receipts = Len(reviews)
<1>1. DOMAIN reviews = 1 .. Len(reviews) /\ Len(reviews) \in Nat
  BY ReviewDomain DEF ReviewInv
<1>2. {k \in DOMAIN reviews : reviews[k].receipt} = 1 .. Len(reviews)
  BY <1>1
<1>3. Cardinality(1 .. Len(reviews)) = Len(reviews)
  BY <1>1, FS_Interval
<1> QED BY <1>2, <1>3 DEF Review!Receipts, Review!Cardinality, Cardinality
LEMMA ReviewPrepare == ReviewInv /\ Review!prepareCompletionReview => ReviewInv'
<1> SUFFICES ASSUME ReviewInv, Review!prepareCompletionReview PROVE ReviewInv'
  OBVIOUS
<1>1. /\ UNCHANGED <<verdict, reviews, completed, now>> /\ completed = None /\ pass /= None /\ pass.pc = "prepare"
      /\ DOMAIN reviews = 1 .. Len(reviews) /\ Len(reviews) \in Nat /\ Review!Unreceipted = {}
      /\ \A k \in 1 .. Len(reviews) : reviews[k] \in ReviewType /\ reviews[k].final \notin {"PASS", "FAIL"} /\ Sound(reviews[k])
  BY ReviewDomain DEF ReviewInv, ReviewTypes, AllSound, Passing, Finished, Review!prepareCompletionReview, Review!At
<1>2. CASE pass' = None
  BY <1>1, <1>2, PassMoves DEF Passing
<1>3. CASE Review!Unfinished = {} /\ pass' = [pc |-> "open", id |-> Review!Receipts + 1]
  <2>1. \A k \in 1 .. Len(reviews) : reviews[k].final = "BLOCKED"
    BY <1>1, <1>3 DEF Review!Unfinished, ReviewType
  <2>2. \A k \in 1 .. Len(reviews) : Closed(reviews[k])
    BY <1>1, <2>1 DEF Closed, Review!TimedOut, Review!Unreceipted, Sound
  <2>3. Review!Receipts = Len(reviews)
    BY <2>2, FullReceipts DEF Closed
  <2>4. pass' \in PassType /\ pass'.pc = "open" /\ pass'.id = Len(reviews) + 1
    BY <1>1, <1>3, <2>3 DEF PassType
  <2>5. Passing'
    BY <1>1, <2>2, <2>4, SameBranches DEF Passing, Closed, Review!TimedOut
  <2> QED BY <1>1, <2>4, <2>5, PassMoves
<1>4. CASE \E k \in 1 .. Len(reviews) : Review!Missing(reviews[k]) /= {} /\ pass' = [pc |-> "close", id |-> k]
  <2>1. PICK k \in 1 .. Len(reviews) : Review!Missing(reviews[k]) /= {} /\ pass' = [pc |-> "close", id |-> k]
    BY <1>4
  <2>2. pass' \in PassType /\ pass'.pc = "close" /\ pass'.id = k
    BY <1>1, <2>1 DEF PassType
  <2>3. Passing'
    BY <1>1, <2>1, <2>2, SameBranches DEF Passing, Review!Missing
  <2> QED BY <1>1, <2>2, <2>3, PassMoves
<1>5. CASE \E k \in 1 .. Len(reviews) : pass' = [pc |-> "open", id |-> k]
  <2>1. PICK k \in 1 .. Len(reviews) : pass' = [pc |-> "open", id |-> k]
    BY <1>5
  <2>2. pass' \in PassType /\ pass'.pc = "open" /\ pass'.id = k
    BY <1>1, <2>1 DEF PassType
  <2>3. Passing'
    BY <1>1, <2>1, <2>2 DEF Passing
  <2> QED BY <1>1, <2>2, <2>3, PassMoves
<1>6. Review!Unfinished \subseteq 1 .. Len(reviews)
  BY <1>1 DEF Review!Unfinished
<1>7. \/ pass' = None
      \/ Review!Unfinished = {} /\ pass' = [pc |-> "open", id |-> Review!Receipts + 1]
      \/ \E k \in Review!Unfinished : \/ Review!Missing(reviews[k]) /= {} /\ pass' = [pc |-> "close", id |-> k]
                                      \/ pass' = [pc |-> "open", id |-> k]
  BY DEF Review!prepareCompletionReview, Review!recoverExpiredCompletionReviews, Review!Stop, Review!Goto, Review!Expired
<1> QED BY <1>2, <1>3, <1>4, <1>5, <1>6, <1>7

(* A branch of a review gets its result.                                    *)
Answered(r, b, how) == [r EXCEPT !.result[b] = how, !.at[b] = now]
Written(k, b, how) == [reviews EXCEPT ![k].result[b] = how, ![k].at[b] = now]

LEMMA ResultWritten ==
  ASSUME reviews \in Seq(ReviewType), NEW k \in 1 .. Len(reviews), NEW b \in Review!Branches, NEW how
  PROVE  Written(k, b, how) = [reviews EXCEPT ![k] = Answered(reviews[k], b, how)]
<1>1. PICK y : y = [reviews[k] EXCEPT !.result[b] = how]
  OBVIOUS
<1>2. PICK z : z = [reviews EXCEPT ![k] = y]
  OBVIOUS
<1>3. PICK r : r = [y EXCEPT !.at[b] = now]
  OBVIOUS
<1>4. r = Answered(reviews[k], b, how)
  BY <1>1, <1>3 DEF Answered
<1>5. z = [reviews EXCEPT ![k].result[b] = how] /\ z[k] = y
  BY <1>1, <1>2
<1>6. Written(k, b, how) = [z EXCEPT ![k] = r]
  BY <1>3, <1>5 DEF Written
<1>7. [z EXCEPT ![k] = r] = [reviews EXCEPT ![k] = r]
  BY <1>2
<1> QED BY <1>4, <1>6, <1>7

LEMMA ResultMoves ==
  ASSUME ReviewInv, NEW k \in 1 .. Len(reviews), NEW b \in Review!Branches, NEW how \in {"VALIDATOR", "POLICY_TIMEOUT"},
         reviews[k].result[b] = None, how = "VALIDATOR" => now <= ReviewDeadline, how = "POLICY_TIMEOUT" => now > ReviewDeadline,
         NEW r, r = Answered(reviews[k], b, how)
  PROVE  /\ r \in ReviewType /\ Sound(r) /\ (Closed(reviews[k]) => Closed(r))
         /\ r.final = reviews[k].final /\ r.result[b] = how
<1>1. PICK x \in ReviewType : x = reviews[k]
  BY DEF ReviewInv, ReviewTypes
<1>2. now \in Nat /\ Sound(x)
  BY <1>1 DEF ReviewInv, ReviewTypes, AllSound
<1>3. PICK y : y = [x EXCEPT !.result[b] = how]
  OBVIOUS
<1>4. /\ y \in ReviewType /\ y.result = [x.result EXCEPT ![b] = how] /\ y.at = x.at /\ y.final = x.final /\ y.receipt = x.receipt
  BY <1>1, <1>3 DEF ReviewType, Results
<1>5. r = [y EXCEPT !.at[b] = now]
  BY <1>1, <1>3 DEF Answered
<1>6. /\ r \in ReviewType /\ r.result = y.result /\ r.at = [x.at EXCEPT ![b] = now] /\ r.final = x.final /\ r.receipt = x.receipt
  <2>1. PICK f : f = [x.at EXCEPT ![b] = now]
    OBVIOUS
  <2>2. f \in [Review!Branches -> Nat \cup {None}]
    BY <1>1, <1>2, <2>1 DEF ReviewType
  <2>3. r = [y EXCEPT !.at = f]
    BY <1>4, <1>5, <2>1
  <2>4. /\ r \in ReviewType /\ r.result = y.result /\ r.at = f /\ r.final = y.final /\ r.receipt = y.receipt
    BY <1>4, <2>2, <2>3 DEF ReviewType
  <2> QED BY <1>4, <2>1, <2>4
<1>7. /\ r.result[b] = how /\ r.at[b] = now
      /\ \A c \in Review!Branches : c /= b => r.result[c] = x.result[c] /\ r.at[c] = x.at[c]
  BY <1>1, <1>4, <1>6 DEF ReviewType
<1>8. x.final /= "PASS"
  BY <1>1, <1>2, NoneAssumption DEF Sound
<1>9. Sound(r)
  <2>1. \A c \in Review!Branches :
         /\ r.result[c] = None <=> r.at[c] = None
         /\ r.result[c] = "VALIDATOR" => r.at[c] <= ReviewDeadline
         /\ r.result[c] = "POLICY_TIMEOUT" => r.at[c] > ReviewDeadline
    BY <1>2, <1>7, NoneAssumption DEF Sound
  <2>2. r.final = "BLOCKED" => \E c \in Review!Branches : r.result[c] = "POLICY_TIMEOUT"
    BY <1>1, <1>2, <1>6, <1>7, NoneAssumption DEF Sound
  <2> QED BY <1>6, <1>8, <2>1, <2>2 DEF Sound
<1>10. Closed(x) => Closed(r)
  BY <1>1, <1>6, <1>7, NoneAssumption DEF Closed, Review!TimedOut
<1> QED BY <1>1, <1>6, <1>7, <1>9, <1>10

(* A review is finalized.                                                   *)
LEMMA FinalMoves ==
  ASSUME ReviewInv, NEW k \in 1 .. Len(reviews), NEW final \in {"PASS", "FAIL", "BLOCKED"},
         final = "PASS" => \A b \in Review!Branches : reviews[k].result[b] = "VALIDATOR" /\ verdict[b] = "PASS",
         final = "BLOCKED" => \E b \in Review!Branches : reviews[k].result[b] = "POLICY_TIMEOUT",
         Closed(reviews[k]) => final = "BLOCKED",
         NEW r, r = [reviews[k] EXCEPT !.final = final]
  PROVE  r \in ReviewType /\ Sound(r) /\ (Closed(reviews[k]) => Closed(r)) /\ r.final = final
<1>1. PICK x \in ReviewType : x = reviews[k]
  BY DEF ReviewInv, ReviewTypes
<1>2. Sound(x)
  BY <1>1 DEF ReviewInv, AllSound
<1>3. r \in ReviewType /\ r.result = x.result /\ r.at = x.at /\ r.final = final /\ r.receipt = x.receipt
  BY <1>1 DEF ReviewType
<1>4. Sound(r)
  BY <1>1, <1>2, <1>3 DEF Sound
<1> QED BY <1>1, <1>3, <1>4 DEF Closed, Review!TimedOut

LEMMA ReviewClose ==
  ASSUME ReviewInv, NEW b \in Review!Branches, Review!closeExpiredCompletionReview(b)
  PROVE  ReviewInv'
<1>1. /\ UNCHANGED <<verdict, completed, now>> /\ pass /= None /\ pass.pc = "close"
      /\ reviews \in Seq(ReviewType) /\ pass \in PassType \cup {None} /\ now \in Nat
      /\ pass.id \in 1 .. Len(reviews) /\ \A i \in 1 .. Len(reviews) : reviews[i].final \notin {"PASS", "FAIL"}
      /\ \/ Review!Missing(reviews[pass.id]) /= {}
         \/ \E c \in Review!Branches : reviews[pass.id].result[c] = "POLICY_TIMEOUT"
  BY DEF ReviewInv, ReviewTypes, Passing, Review!closeExpiredCompletionReview, Review!At
<1>2. PICK k \in 1 .. Len(reviews) : k = pass.id
  BY <1>1
<1>3. CASE /\ reviews[k].result[b] = None /\ now > ReviewDeadline /\ UNCHANGED pass
           /\ reviews' = [reviews EXCEPT ![k].result[b] = "POLICY_TIMEOUT", ![k].at[b] = now]
  <2>1. PICK r : r = Answered(reviews[k], b, "POLICY_TIMEOUT")
    OBVIOUS
  <2>2. /\ r \in ReviewType /\ Sound(r) /\ (Closed(reviews[k]) => Closed(r))
        /\ r.final = reviews[k].final /\ r.result[b] = "POLICY_TIMEOUT"
    BY <1>3, <2>1, ResultMoves
  <2>3. reviews' = [reviews EXCEPT ![k] = r]
    <3>1. reviews' = Written(k, b, "POLICY_TIMEOUT")
      BY <1>3 DEF Written
    <3> QED BY <1>1, <2>1, <3>1, ResultWritten
  <2>4. Len(reviews') = Len(reviews) /\ \A i \in 1 .. Len(reviews) : reviews'[i] = IF i = k THEN r ELSE reviews[i]
    BY <1>1, <2>3
  <2>a. /\ reviews'[k].result[b] = "POLICY_TIMEOUT"
        /\ \A i \in 1 .. Len(reviews) : reviews'[i].final \notin {"PASS", "FAIL"}
    BY <1>1, <2>2, <2>4
  <2>5. Passing'
    BY <1>1, <1>2, <1>3, <2>4, <2>a, SameBranches DEF Passing
  <2> QED BY <1>1, <1>3, <2>2, <2>3, <2>5, ReviewMoves
<1>4. CASE /\ Review!Missing(reviews[k]) = {} /\ pass' = [pc |-> "prepare", id |-> 0]
           /\ reviews' = [reviews EXCEPT ![k].final = "BLOCKED"]
  <2>1. PICK r : r = [reviews[k] EXCEPT !.final = "BLOCKED"]
    OBVIOUS
  <2>2. r \in ReviewType /\ Sound(r) /\ (Closed(reviews[k]) => Closed(r)) /\ r.final = "BLOCKED"
    BY <1>1, <1>2, <1>4, <2>1, FinalMoves
  <2>3. reviews' = [reviews EXCEPT ![k] = r]
    BY <1>1, <1>4, <2>1
  <2>4. Len(reviews') = Len(reviews) /\ \A i \in 1 .. Len(reviews) : reviews'[i] = IF i = k THEN r ELSE reviews[i]
    BY <1>1, <2>3
  <2>5. pass' \in PassType /\ pass'.pc = "prepare"
    BY <1>4 DEF PassType
  <2>6. Passing'
    BY <1>1, <1>2, <2>2, <2>4, <2>5 DEF Passing
  <2> QED BY <1>1, <2>2, <2>3, <2>5, <2>6, ReviewMoves
<1> QED BY <1>2, <1>3, <1>4 DEF Review!closeExpiredCompletionReview, Review!Missing, Review!Goto

LEMMA ReviewOpen == ReviewInv /\ Review!Open => ReviewInv'
<1> SUFFICES ASSUME ReviewInv, Review!Open PROVE ReviewInv'
  OBVIOUS
<1>1. /\ UNCHANGED <<verdict, completed, now>> /\ pass /= None /\ pass.pc = "open" /\ completed = None
      /\ reviews \in Seq(ReviewType) /\ pass \in PassType /\ now \in Nat
      /\ DOMAIN reviews = 1 .. Len(reviews) /\ Len(reviews) \in Nat
      /\ pass.id \in 1 .. Len(reviews) \/ (pass.id = Len(reviews) + 1 /\ \A k \in 1 .. Len(reviews) : Closed(reviews[k]))
      /\ pass' = [pc |-> "record", id |-> pass.id]
      /\ reviews' = IF pass.id \in DOMAIN reviews THEN reviews ELSE Append(reviews, Review!New)
  BY ReviewDomain DEF ReviewInv, ReviewTypes, Passing, Finished, Review!Open, Review!At, Review!Goto
<1>2. pass' \in PassType /\ pass'.pc = "record" /\ pass'.id = pass.id
  BY <1>1 DEF PassType
<1>3. CASE UNCHANGED reviews /\ pass.id \in 1 .. Len(reviews)
  <2>1. Passing'
    BY <1>2, <1>3 DEF Passing
  <2> QED BY <1>1, <1>2, <1>3, <2>1, PassMoves
<1>4. CASE /\ reviews' = Append(reviews, Review!New) /\ pass.id = Len(reviews) + 1
           /\ \A k \in 1 .. Len(reviews) : Closed(reviews[k])
  <2>1. PICK r : r = Review!New
    OBVIOUS
  <2>2. r \in ReviewType /\ Sound(r)
    BY <2>1, NoneAssumption DEF Review!New, ReviewType, Results, Sound
  <2>3. /\ reviews' \in Seq(ReviewType) /\ Len(reviews') = Len(reviews) + 1
        /\ \A i \in 1 .. (Len(reviews) + 1) : reviews'[i] = IF i = Len(reviews) + 1 THEN r ELSE reviews[i]
    BY <1>1, <1>4, <2>1, <2>2
  <2>4. ReviewTypes'
    BY <1>1, <1>2, <2>3, SameBranches DEF ReviewTypes
  <2>5. AllSound'
    <3>1. \A i \in 1 .. (Len(reviews) + 1) : Sound(reviews'[i])
      BY <1>1, <2>2, <2>3 DEF ReviewInv, AllSound
    <3> QED BY <1>1, <2>3, <3>1, SameBranches DEF AllSound, Sound
  <2>6. Succession'
    <3>1. \A i \in 1 .. Len(reviews) : Closed(reviews'[i])
      BY <1>1, <1>4, <2>3
    <3> QED BY <1>1, <2>3, <3>1, SameBranches DEF Succession, Closed, Review!TimedOut
  <2>7. Passing' /\ Finished'
    BY <1>1, <1>2, <1>4, <2>3 DEF Passing, Finished
  <2> QED BY <2>4, <2>5, <2>6, <2>7 DEF ReviewInv
<1> QED BY <1>1, <1>3, <1>4

LEMMA ReviewRecord ==
  ASSUME ReviewInv, NEW b \in Review!Branches, Review!Record(b)
  PROVE  ReviewInv'
<1>1. /\ UNCHANGED <<verdict, completed, now>> /\ pass /= None /\ pass.pc = "record" /\ completed = None
      /\ reviews \in Seq(ReviewType) /\ pass \in PassType /\ now \in Nat /\ pass.id \in 1 .. Len(reviews)
  BY DEF ReviewInv, ReviewTypes, Passing, Finished, Review!Record, Review!At
<1>2. PICK k \in 1 .. Len(reviews) : k = pass.id
  BY <1>1
<1>3. CASE pass' = None /\ UNCHANGED reviews
  BY <1>1, <1>3, PassMoves DEF Passing
<1>4. CASE /\ reviews[k].result[b] = None /\ now <= ReviewDeadline /\ UNCHANGED pass
           /\ reviews' = [reviews EXCEPT ![k].result[b] = "VALIDATOR", ![k].at[b] = now]
  <2>1. PICK r : r = Answered(reviews[k], b, "VALIDATOR")
    OBVIOUS
  <2>2. r \in ReviewType /\ Sound(r) /\ (Closed(reviews[k]) => Closed(r))
    BY <1>4, <2>1, ResultMoves
  <2>3. reviews' = [reviews EXCEPT ![k] = r] /\ Len(reviews') = Len(reviews)
    <3>1. reviews' = Written(k, b, "VALIDATOR")
      BY <1>4 DEF Written
    <3> QED BY <1>1, <2>1, <3>1, ResultWritten
  <2>4. Passing'
    BY <1>1, <1>4, <2>3 DEF Passing
  <2> QED BY <1>1, <1>4, <2>2, <2>3, <2>4, ReviewMoves
<1>5. CASE /\ \A c \in Review!Branches : reviews[k].result[c] = "VALIDATOR"
           /\ pass' = [pc |-> "finalize", id |-> k] /\ UNCHANGED reviews
  <2>1. pass' \in PassType /\ pass'.pc = "finalize" /\ pass'.id = k
    BY <1>1, <1>5 DEF PassType
  <2>2. Passing'
    BY <1>1, <1>5, <2>1, SameBranches DEF Passing
  <2> QED BY <1>1, <1>5, <2>1, <2>2, PassMoves
<1> QED BY <1>2, <1>3, <1>4, <1>5 DEF Review!Record, Review!Stop, Review!Goto

LEMMA ReviewFinalize == ReviewInv /\ Review!Finalize => ReviewInv'
<1> SUFFICES ASSUME ReviewInv, Review!Finalize PROVE ReviewInv'
  OBVIOUS
<1>1. /\ UNCHANGED <<verdict, completed, now>> /\ pass /= None /\ pass.pc = "finalize" /\ completed = None
      /\ reviews \in Seq(ReviewType) /\ pass \in PassType /\ now \in Nat /\ pass.id \in 1 .. Len(reviews)
      /\ \A b \in Review!Branches : reviews[pass.id].result[b] = "VALIDATOR"
  BY DEF ReviewInv, ReviewTypes, Passing, Finished, Review!Finalize, Review!At
<1>2. PICK k \in 1 .. Len(reviews) : k = pass.id
  BY <1>1
<1>3. PICK final \in {"PASS", "FAIL"} : final = Review!Status
  BY DEF Review!Status
<1>4. final = "PASS" => \A b \in Review!Branches : verdict[b] = "PASS"
  BY <1>3 DEF Review!Status
<1>5. ~Closed(reviews[k])
  BY <1>1, <1>2 DEF Closed, Review!TimedOut
<1>6. PICK r : r = [reviews[k] EXCEPT !.final = final]
  OBVIOUS
<1>7. r \in ReviewType /\ Sound(r) /\ (Closed(reviews[k]) => Closed(r)) /\ r.final = final
  BY <1>1, <1>2, <1>4, <1>5, <1>6, FinalMoves
<1>8. /\ reviews' = [reviews EXCEPT ![k] = r] /\ Len(reviews') = Len(reviews) /\ reviews'[k] = r
  BY <1>1, <1>2, <1>3, <1>6 DEF Review!Finalize
<1>9. /\ pass' \in PassType \cup {None}
      /\ pass' /= None => pass'.pc = "complete" /\ pass'.id = k /\ final = "PASS"
  BY <1>1, <1>2, <1>3 DEF Review!Finalize, Review!Stop, Review!Goto, PassType
<1>10. Passing'
  BY <1>7, <1>8, <1>9 DEF Passing
<1> QED BY <1>1, <1>7, <1>8, <1>9, <1>10, ReviewMoves

LEMMA ReviewRest == ReviewInv /\ (Review!Complete \/ Review!Crash \/ Review!Tick) => ReviewInv'
<1> SUFFICES ASSUME ReviewInv, Review!Complete \/ Review!Crash \/ Review!Tick PROVE ReviewInv'
  OBVIOUS
<1>1. UNCHANGED <<verdict, reviews>>
  BY DEF Review!Complete, Review!Crash, Review!Tick
<1>2. AllSound' /\ Succession'
  BY <1>1, SameBranches DEF ReviewInv, AllSound, Succession, Sound, Closed, Review!TimedOut
<1>3. ReviewTypes'
  BY <1>1, SameBranches DEF ReviewInv, ReviewTypes, Review!Complete, Review!Crash, Review!Tick, Review!Stop
<1>4. Passing'
  BY <1>1, SameBranches DEF ReviewInv, Passing, Closed, Review!TimedOut, Review!Missing, Review!Complete, Review!Crash,
     Review!Tick, Review!Stop
<1>5. Finished'
  BY <1>1 DEF ReviewInv, Passing, Finished, Review!Complete, Review!Crash, Review!Tick, Review!Stop, Review!At
<1> QED BY <1>2, <1>3, <1>4, <1>5 DEF ReviewInv

LEMMA ReviewNext == ReviewInv /\ Review!Next => ReviewInv'
BY ReviewBegin, ReviewPrepare, ReviewOpen, ReviewFinalize, ReviewReceipt, ReviewClose, ReviewRecord, ReviewRest, Zenon
   DEF Review!Next, Review!Pass
-----------------------------------------------------------------------------
(* The messages between roles.  A claim that has not run out is the one its *)
(* message is held under: who claims it anew does so after it ran out, under*)
(* a new epoch.  A thread's record is of its last message, whose recipient  *)
(* alone may follow it.                                                     *)

Holders == Roles \X Nat
BusMessage ==
  [thread : BusThreads, hop : Nat, sender : Roles, recipient : Roles, progress : Progress, expires : Nat, execution : Nat,
   state : {"PENDING", "CLAIMED", "RESOLVED", "DEAD_LETTER"}, holder : Holders \cup {None}, epoch : Nat, until : Nat,
   attempts : Nat, readdressed : Nat]
BusClaim == [id : Nat, holder : Holders, epoch : Nat, until : Nat]
BusThread == [last : Nat, hop : Nat, recipient : Roles \cup {None}, progress : SUBSET Progress]

BusTypes ==
  /\ messages \in Seq(BusMessage)
  /\ threads \in [BusThreads -> BusThread]
  /\ roles \in [Roles -> Nat]
  /\ loaded \subseteq Roles \X Nat
  /\ claims \subseteq BusClaim
  /\ now \in Nat

Held(m, c) == m.state = "CLAIMED" /\ m.holder = c.holder /\ m.epoch = c.epoch /\ m.until = c.until

ClaimsHeld ==
  \A c \in claims : /\ c.id \in 1 .. Len(messages) /\ c.epoch <= messages[c.id].epoch
                    /\ c.until > now => Held(messages[c.id], c)

ClaimsDiffer == \A c, d \in claims : c.id = d.id /\ c.epoch = d.epoch => c = d

LastOfThread ==
  \A t \in BusThreads : threads[t].hop > 0 =>
    LET i == threads[t].last IN
    /\ i \in 1 .. Len(messages) /\ messages[i].thread = t /\ messages[i].hop = threads[t].hop
    /\ messages[i].recipient = threads[t].recipient

HopsOfThread ==
  /\ \A i \in 1 .. Len(messages) : messages[i].hop > 0 /\ messages[i].hop <= threads[messages[i].thread].hop
  /\ \A i, j \in 1 .. Len(messages) :
       messages[i].thread = messages[j].thread /\ messages[i].hop = messages[j].hop => i = j

Succeeding ==
  \A i, j \in 1 .. Len(messages) :
    messages[i].thread = messages[j].thread /\ messages[j].hop = messages[i].hop + 1
      => messages[j].sender = messages[i].recipient

Threaded == LastOfThread /\ HopsOfThread /\ Succeeding

BusInv == BusTypes /\ ClaimsHeld /\ ClaimsDiffer /\ Threaded

LEMMA BusProperty == BusInv => Bus!OneLiveHolder /\ Bus!HandedOver
<1> SUFFICES ASSUME BusInv PROVE Bus!OneLiveHolder /\ Bus!HandedOver
  OBVIOUS
<1>1. DOMAIN messages = 1 .. Len(messages)
  BY DEF BusInv, BusTypes
<1>2. Bus!HandedOver
  BY <1>1 DEF BusInv, Threaded, Succeeding, Bus!HandedOver
<1>3. ASSUME NEW c \in claims, NEW d \in claims, c.id = d.id, c.until > now, d.until > now
      PROVE  c = d
  BY <1>3 DEF BusInv, ClaimsHeld, ClaimsDiffer, Held
<1> QED BY <1>2, <1>3 DEF Bus!OneLiveHolder

LEMMA BusInit == Bus!Init => BusInv
<1> SUFFICES ASSUME Bus!Init PROVE BusInv
  OBVIOUS
<1>1. Bus!NoThread \in BusThread /\ Bus!NoThread.hop = 0
  BY DEF Bus!NoThread, BusThread
<1>2. BusTypes
  BY <1>1 DEF Bus!Init, BusTypes
<1>3. messages = <<>> /\ claims = {} /\ \A t \in BusThreads : threads[t].hop = 0
  BY <1>1 DEF Bus!Init
<1>4. ClaimsHeld /\ ClaimsDiffer /\ Threaded
  BY <1>3 DEF ClaimsHeld, ClaimsDiffer, Threaded, LastOfThread, HopsOfThread, Succeeding
<1> QED BY <1>2, <1>4 DEF BusInv

LEMMA BusFields ==
  /\ \A m \in BusMessage : /\ m.thread \in BusThreads /\ m.hop \in Nat /\ m.sender \in Roles /\ m.recipient \in Roles
                           /\ m.epoch \in Nat /\ m.until \in Nat /\ m.attempts \in Nat /\ m.readdressed \in Nat
  /\ \A x \in BusThread : x.last \in Nat /\ x.hop \in Nat
  /\ \A c \in BusClaim : c.id \in Nat /\ c.epoch \in Nat /\ c.until \in Nat /\ c.holder \in Holders
BY DEF BusMessage, BusThread, BusClaim

(* Messages are sent, at most one in a thread.                              *)
LEMMA BusGrows ==
  ASSUME BusInv, UNCHANGED <<roles, claims, now>>, loaded' \subseteq loaded,
         messages' \in Seq(BusMessage), Len(messages') >= Len(messages), threads' \in [BusThreads -> BusThread],
         \A i \in 1 .. Len(messages) : messages'[i] = messages[i],
         \A p \in 1 .. Len(messages') : p > Len(messages) =>
           LET m == messages'[p] IN
           /\ m.hop = threads[m.thread].hop + 1 /\ (threads[m.thread].hop > 0 => m.sender = threads[m.thread].recipient)
           /\ threads'[m.thread].last = p /\ threads'[m.thread].hop = m.hop /\ threads'[m.thread].recipient = m.recipient,
         \A t \in BusThreads : \/ threads'[t] = threads[t]
                               \/ \E p \in 1 .. Len(messages') : p > Len(messages) /\ messages'[p].thread = t
  PROVE  BusInv'
<1>1. /\ messages \in Seq(BusMessage) /\ Len(messages) \in Nat /\ Len(messages') \in Nat
      /\ threads \in [BusThreads -> BusThread] /\ \A t \in BusThreads : threads[t].hop \in Nat /\ threads'[t].hop \in Nat
      /\ \A i \in 1 .. Len(messages) : messages[i].thread \in BusThreads /\ messages[i].hop \in Nat
      /\ \A i \in 1 .. Len(messages') : messages'[i].thread \in BusThreads /\ messages'[i].hop \in Nat
  <2>1. /\ messages \in Seq(BusMessage) /\ Len(messages) \in Nat /\ Len(messages') \in Nat /\ threads \in [BusThreads -> BusThread]
        /\ \A i \in 1 .. Len(messages) : messages[i] \in BusMessage
        /\ \A i \in 1 .. Len(messages') : messages'[i] \in BusMessage
    BY DEF BusInv, BusTypes
  <2> QED BY <2>1, BusFields
<1>2. BusTypes'
  BY DEF BusInv, BusTypes
<1>3. ClaimsHeld' /\ ClaimsDiffer'
  BY <1>1 DEF BusInv, ClaimsHeld, ClaimsDiffer, Held
<1>4. \A p, q \in 1 .. Len(messages') : p > Len(messages) /\ q > Len(messages) /\ messages'[p].thread = messages'[q].thread => p = q
  BY <1>1
<1>5. \A t \in BusThreads : threads'[t] = threads[t] \/ threads'[t].hop = threads[t].hop + 1
  BY <1>1
<1>6. LastOfThread'
  BY <1>1 DEF BusInv, Threaded, LastOfThread
<1>7. HopsOfThread'
  <2>1. \A i \in 1 .. Len(messages') : messages'[i].hop > 0 /\ messages'[i].hop <= threads'[messages'[i].thread].hop
    <3> SUFFICES ASSUME NEW i \in 1 .. Len(messages')
                 PROVE  messages'[i].hop > 0 /\ messages'[i].hop <= threads'[messages'[i].thread].hop
      OBVIOUS
    <3>1. PICK t \in BusThreads : t = messages'[i].thread
      BY <1>1
    <3>2. CASE i > Len(messages)
      BY <1>1, <3>1, <3>2
    <3>3. CASE i <= Len(messages)
      <4>1. messages[i].hop > 0 /\ messages[i].hop <= threads[t].hop /\ messages'[i] = messages[i]
        BY <1>1, <3>1, <3>3 DEF BusInv, Threaded, HopsOfThread
      <4>2. /\ threads[t].hop \in Nat /\ messages[i].hop \in Nat /\ threads'[t].hop \in Nat
            /\ threads[t].hop <= threads'[t].hop
        BY <1>1, <1>5, <3>3
      <4> QED BY <3>1, <4>1, <4>2
    <3> QED BY <1>1, <3>2, <3>3
  <2>2. ASSUME NEW i \in 1 .. Len(messages'), NEW j \in 1 .. Len(messages'),
               messages'[i].thread = messages'[j].thread, messages'[i].hop = messages'[j].hop
        PROVE  i = j
    <3>1. CASE i <= Len(messages) /\ j <= Len(messages)
      BY <1>1, <2>2, <3>1 DEF BusInv, Threaded, HopsOfThread
    <3>2. CASE i > Len(messages) /\ j <= Len(messages)
      BY <1>1, <2>2, <3>2 DEF BusInv, Threaded, HopsOfThread
    <3>3. CASE i <= Len(messages) /\ j > Len(messages)
      <4>1. messages[i].hop <= threads[messages[i].thread].hop /\ messages'[i] = messages[i] /\ messages[i].thread \in BusThreads
        BY <1>1, <3>3 DEF BusInv, Threaded, HopsOfThread
      <4>2. messages'[j].hop = threads[messages'[j].thread].hop + 1
        BY <3>3
      <4> QED BY <1>1, <2>2, <4>1, <4>2
    <3>4. CASE i > Len(messages) /\ j > Len(messages)
      BY <1>4, <2>2, <3>4
    <3> QED BY <1>1, <3>1, <3>2, <3>3, <3>4
  <2> QED BY <2>1, <2>2 DEF HopsOfThread
<1>8. Succeeding'
  <2> SUFFICES ASSUME NEW i \in 1 .. Len(messages'), NEW j \in 1 .. Len(messages'),
                      messages'[i].thread = messages'[j].thread, messages'[j].hop = messages'[i].hop + 1
               PROVE  messages'[j].sender = messages'[i].recipient
    BY DEF Succeeding
  <2>1. CASE i <= Len(messages) /\ j <= Len(messages)
    <3>1. messages'[i] = messages[i] /\ messages'[j] = messages[j] /\ i \in 1 .. Len(messages) /\ j \in 1 .. Len(messages)
      BY <1>1, <2>1
    <3> QED BY <3>1 DEF BusInv, Threaded, Succeeding
  <2>2. CASE i <= Len(messages) /\ j > Len(messages)
    <3>1. PICK t \in BusThreads : t = messages[i].thread
      BY <1>1, <2>2
    <3>2. messages'[i] = messages[i] /\ i \in 1 .. Len(messages) /\ messages'[j].thread = t
      BY <1>1, <2>2, <3>1
    <3>3. messages[i].hop = threads[t].hop /\ messages[i].hop > 0 /\ messages'[j].sender = threads[t].recipient
      BY <1>1, <2>2, <3>1, <3>2 DEF BusInv, Threaded, HopsOfThread
    <3>a. PICK l : l = threads[t].last
      OBVIOUS
    <3>b. l \in 1 .. Len(messages) /\ messages[l].thread = t /\ messages[l].hop = threads[t].hop
      BY <1>1, <3>a, <3>3 DEF BusInv, Threaded, LastOfThread
    <3>4. threads[t].last = i
      BY <3>1, <3>2, <3>3, <3>a, <3>b DEF BusInv, Threaded, HopsOfThread
    <3> QED BY <1>1, <3>1, <3>2, <3>3, <3>4 DEF BusInv, Threaded, LastOfThread
  <2>3. CASE i > Len(messages)
    <3>1. PICK t \in BusThreads : t = messages'[i].thread
      BY <1>1
    <3>2. messages'[i].hop = threads[t].hop + 1
      BY <2>3, <3>1
    <3>3. CASE j <= Len(messages)
      BY <1>1, <3>1, <3>2, <3>3 DEF BusInv, Threaded, HopsOfThread
    <3>4. CASE j > Len(messages)
      BY <1>1, <3>1, <3>2, <3>4
    <3> QED BY <1>1, <3>3, <3>4
  <2> QED BY <1>1, <2>1, <2>2, <2>3
<1> QED BY <1>2, <1>3, <1>6, <1>7, <1>8 DEF BusInv, Threaded
(* Messages are claimed, released or resolved where they are.               *)
LEMMA ThreadsStand ==
  ASSUME BusInv, UNCHANGED threads, messages' \in Seq(BusMessage), Len(messages') = Len(messages),
         \A i \in 1 .. Len(messages) : /\ messages'[i].thread = messages[i].thread /\ messages'[i].hop = messages[i].hop
                                       /\ messages'[i].sender = messages[i].sender /\ messages'[i].recipient = messages[i].recipient
  PROVE  Threaded'
<1>1. LastOfThread'
  BY DEF BusInv, Threaded, LastOfThread
<1>2. HopsOfThread'
  BY DEF BusInv, Threaded, HopsOfThread
<1>3. Succeeding'
  BY DEF BusInv, Threaded, Succeeding
<1> QED BY <1>1, <1>2, <1>3 DEF Threaded

LEMMA BusMoves ==
  ASSUME BusInv, UNCHANGED <<threads, roles, now>>, loaded' \subseteq loaded,
         NEW i \in 1 .. Len(messages), NEW r \in BusMessage, messages' = [messages EXCEPT ![i] = r],
         r.thread = messages[i].thread, r.hop = messages[i].hop, r.sender = messages[i].sender,
         r.recipient = messages[i].recipient, claims' \subseteq BusClaim, ClaimsDiffer',
         \A c \in claims' : IF c.id = i THEN c.epoch <= r.epoch /\ (c.until > now => Held(r, c)) ELSE c \in claims
  PROVE  BusInv'
<1>1. /\ messages' \in Seq(BusMessage) /\ Len(messages') = Len(messages)
      /\ \A j \in 1 .. Len(messages) : messages'[j] = IF j = i THEN r ELSE messages[j]
  BY DEF BusInv, BusTypes
<1>2. BusTypes'
  BY <1>1 DEF BusInv, BusTypes
<1>3. Threaded'
  BY <1>1, ThreadsStand
<1>4. ClaimsHeld'
  <2>1. ASSUME NEW c \in claims', c.id = i
        PROVE  /\ c.id \in 1 .. Len(messages') /\ c.epoch <= messages'[c.id].epoch
               /\ c.until > now => Held(messages'[c.id], c)
    BY <1>1, <2>1
  <2>2. ASSUME NEW c \in claims', c.id /= i
        PROVE  /\ c.id \in 1 .. Len(messages') /\ c.epoch <= messages'[c.id].epoch
               /\ c.until > now => Held(messages'[c.id], c)
    BY <1>1, <2>2 DEF BusInv, ClaimsHeld
  <2> QED BY <2>1, <2>2 DEF ClaimsHeld, Held
<1> QED BY <1>2, <1>3, <1>4 DEF BusInv

(* A message nobody holds moves.                                            *)
LEMMA UnheldMoves ==
  ASSUME BusInv, UNCHANGED <<threads, roles, claims, now>>, loaded' \subseteq loaded,
         NEW i \in 1 .. Len(messages), NEW r \in BusMessage, messages' = [messages EXCEPT ![i] = r],
         r.thread = messages[i].thread, r.hop = messages[i].hop, r.sender = messages[i].sender,
         r.recipient = messages[i].recipient, r.epoch = messages[i].epoch,
         ~(messages[i].state = "CLAIMED" /\ messages[i].until > now)
  PROVE  BusInv'
<1>1. ClaimsDiffer' /\ claims' \subseteq BusClaim
  BY DEF BusInv, BusTypes, ClaimsDiffer
<1>2. \A c \in claims' : IF c.id = i THEN c.epoch <= r.epoch /\ (c.until > now => Held(r, c)) ELSE c \in claims
  BY DEF BusInv, ClaimsHeld, Held
<1> QED BY <1>1, <1>2, BusMoves

(* The holder itself moves it, and keeps its claim or not.                  *)
LEMMA HeldMoves ==
  ASSUME BusInv, UNCHANGED <<threads, roles, loaded, now>>,
         NEW c \in claims, Bus!updateOrganizationalClaim(c), NEW r \in BusMessage, messages' = [messages EXCEPT ![c.id] = r],
         r.thread = messages[c.id].thread, r.hop = messages[c.id].hop, r.sender = messages[c.id].sender,
         r.recipient = messages[c.id].recipient, r.epoch = messages[c.id].epoch,
         \/ claims' = claims \ {c}
         \/ \E d \in BusClaim : claims' = (claims \ {c}) \cup {d} /\ d.id = c.id /\ d.epoch = c.epoch /\ Held(r, d)
  PROVE  BusInv'
<1>1. PICK i \in 1 .. Len(messages) : i = c.id
  BY DEF BusInv, ClaimsHeld
<1>2. messages[i].epoch = c.epoch
  BY <1>1 DEF Bus!updateOrganizationalClaim
<1>3. \A x \in claims \ {c} : ~(x.id = c.id /\ x.epoch = c.epoch)
  BY DEF BusInv, ClaimsDiffer
<1>4. \A x \in claims \ {c} : x.id = i => x.epoch <= r.epoch /\ ~(x.until > now)
  BY <1>1, <1>2, <1>3 DEF BusInv, ClaimsHeld, Held
<1>5. CASE claims' = claims \ {c}
  <2>1. ClaimsDiffer' /\ claims' \subseteq BusClaim
    BY <1>5 DEF BusInv, BusTypes, ClaimsDiffer
  <2>2. \A x \in claims' : IF x.id = i THEN x.epoch <= r.epoch /\ (x.until > now => Held(r, x)) ELSE x \in claims
    BY <1>4, <1>5
  <2> QED BY <1>1, <2>1, <2>2, BusMoves
<1>6. CASE \E d \in BusClaim : claims' = (claims \ {c}) \cup {d} /\ d.id = c.id /\ d.epoch = c.epoch /\ Held(r, d)
  <2>1. PICK d \in BusClaim : claims' = (claims \ {c}) \cup {d} /\ d.id = c.id /\ d.epoch = c.epoch /\ Held(r, d)
    BY <1>6
  <2>2. claims' \subseteq BusClaim
    BY <2>1 DEF BusInv, BusTypes
  <2>3. ClaimsDiffer'
    BY <1>3, <2>1 DEF BusInv, ClaimsDiffer
  <2>4. d.epoch \in Nat /\ d.epoch = r.epoch
    BY <1>1, <1>2, <2>1, BusFields
  <2>5. \A x \in claims' : IF x.id = i THEN x.epoch <= r.epoch /\ (x.until > now => Held(r, x)) ELSE x \in claims
    BY <1>1, <1>4, <2>1, <2>4
  <2> QED BY <1>1, <2>2, <2>3, <2>5, BusMoves
<1> QED BY <1>5, <1>6

LEMMA BusQuiet ==
  ASSUME BusInv, UNCHANGED <<messages, threads>>, roles' \in [Roles -> Nat], loaded' \subseteq Roles \X Nat,
         claims' \subseteq claims, now' \in Nat, now' >= now
  PROVE  BusInv'
<1>1. BusTypes'
  BY DEF BusInv, BusTypes
<1>2. Threaded' /\ ClaimsDiffer'
  BY DEF BusInv, Threaded, LastOfThread, HopsOfThread, Succeeding, ClaimsDiffer
<1>3. ClaimsHeld'
  <2>1. \A c \in claims : c.until \in Nat /\ now \in Nat
    BY BusFields DEF BusInv, BusTypes
  <2> QED BY <2>1 DEF BusInv, ClaimsHeld, Held
<1> QED BY <1>1, <1>2, <1>3 DEF BusInv

LEMMA BusCalls ==
  ASSUME BusInv, \/ \E a \in Roles : Bus!LoadRole(a) \/ Bus!Restart(a)
                 \/ \E c \in claims : Bus!StaleOrganizationalClaim(c)
                 \/ Bus!Tick
  PROVE  BusInv'
<1>1. roles \in [Roles -> Nat] /\ loaded \subseteq Roles \X Nat /\ now \in Nat
  BY DEF BusInv, BusTypes
<1>2. ASSUME NEW a \in Roles, Bus!LoadRole(a) PROVE BusInv'
  <2>1. roles[a] \in Nat
    BY <1>1
  <2>2. loaded' \subseteq Roles \X Nat
    BY <1>1, <1>2, <2>1 DEF Bus!LoadRole
  <2> QED BY <1>1, <1>2, <2>2, BusQuiet DEF Bus!LoadRole
<1>3. ASSUME NEW a \in Roles, Bus!Restart(a) PROVE BusInv'
  <2>1. roles' = [roles EXCEPT ![a] = @ + 1] /\ UNCHANGED <<messages, threads, loaded, claims, now>>
    BY <1>3 DEF Bus!Restart
  <2>2. roles' \in [Roles -> Nat]
    BY <1>1, <2>1
  <2> QED BY <1>1, <2>1, <2>2, BusQuiet
<1>4. ASSUME NEW c \in claims, Bus!StaleOrganizationalClaim(c) PROVE BusInv'
  BY <1>1, <1>4, BusQuiet DEF Bus!StaleOrganizationalClaim
<1>5. ASSUME Bus!Tick PROVE BusInv'
  BY <1>1, <1>5, BusQuiet DEF Bus!Tick
<1> QED BY <1>2, <1>3, <1>4, <1>5

(* Two writes to one message are one.                                       *)
LEMMA Twice ==
  ASSUME NEW s, NEW i \in DOMAIN s, NEW x, NEW z, z = [s EXCEPT ![i] = x]
  PROVE  z[i] = x /\ i \in DOMAIN z /\ \A y : [z EXCEPT ![i] = y] = [s EXCEPT ![i] = y]
OBVIOUS

LEMMA BusAdmit ==
  ASSUME BusInv, NEW i \in DOMAIN messages, NEW a, NEW e, Bus!Admit(i, a, e) \/ Bus!BuryExhausted(i, a, e)
  PROVE  BusInv'
<1>1. /\ messages \in Seq(BusMessage) /\ i \in 1 .. Len(messages) /\ messages[i] \in BusMessage
      /\ now \in Nat /\ messages[i].until \in Nat
  BY BusFields DEF BusInv, BusTypes
<1>2. PICK x \in {"RESOLVED", "DEAD_LETTER"} : messages' = [messages EXCEPT ![i].state = x]
  BY DEF Bus!Admit, Bus!BuryExhausted
<1>3. /\ UNCHANGED <<threads, roles, claims, now>> /\ loaded' \subseteq loaded
      /\ ~(messages[i].state = "CLAIMED" /\ messages[i].until > now)
  BY <1>1 DEF Bus!Admit, Bus!BuryExhausted, Bus!Checked
<1>4. PICK r : r = [messages[i] EXCEPT !.state = x]
  OBVIOUS
<1>5. /\ r \in BusMessage /\ r.thread = messages[i].thread /\ r.hop = messages[i].hop /\ r.sender = messages[i].sender
      /\ r.recipient = messages[i].recipient /\ r.epoch = messages[i].epoch
  BY <1>1, <1>4 DEF BusMessage
<1>6. messages' = [messages EXCEPT ![i] = r]
  BY <1>1, <1>2, <1>4
<1> QED BY <1>1, <1>3, <1>5, <1>6, UnheldMoves

Taken(m, h, u) == [m EXCEPT !.state = "CLAIMED", !.holder = h, !.until = u, !.epoch = @ + 1, !.attempts = @ + 1]

LEMMA TakenMessage ==
  ASSUME NEW m \in BusMessage, NEW h \in Holders, NEW u \in Nat, NEW r, r = Taken(m, h, u)
  PROVE  /\ r \in BusMessage /\ r.thread = m.thread /\ r.hop = m.hop /\ r.sender = m.sender /\ r.recipient = m.recipient
         /\ r.state = "CLAIMED" /\ r.holder = h /\ r.until = u /\ r.epoch = m.epoch + 1
<1>1. PICK x : x = [m EXCEPT !.state = "CLAIMED"]
  OBVIOUS
<1>2. PICK y : y = [x EXCEPT !.holder = h]
  OBVIOUS
<1>3. PICK z : z = [y EXCEPT !.until = u]
  OBVIOUS
<1>4. PICK w : w = [z EXCEPT !.epoch = @ + 1]
  OBVIOUS
<1>5. r = [w EXCEPT !.attempts = @ + 1]
  BY <1>1, <1>2, <1>3, <1>4 DEF Taken
<1>6. /\ x \in BusMessage /\ x.thread = m.thread /\ x.hop = m.hop /\ x.sender = m.sender /\ x.recipient = m.recipient
      /\ x.state = "CLAIMED" /\ x.epoch = m.epoch
  BY <1>1 DEF BusMessage
<1>7. /\ y \in BusMessage /\ y.thread = m.thread /\ y.hop = m.hop /\ y.sender = m.sender /\ y.recipient = m.recipient
      /\ y.state = "CLAIMED" /\ y.holder = h /\ y.epoch = m.epoch
  BY <1>2, <1>6 DEF BusMessage
<1>8. /\ z \in BusMessage /\ z.thread = m.thread /\ z.hop = m.hop /\ z.sender = m.sender /\ z.recipient = m.recipient
      /\ z.state = "CLAIMED" /\ z.holder = h /\ z.until = u /\ z.epoch = m.epoch
  BY <1>3, <1>7 DEF BusMessage
<1>9. /\ w \in BusMessage /\ w.thread = m.thread /\ w.hop = m.hop /\ w.sender = m.sender /\ w.recipient = m.recipient
      /\ w.state = "CLAIMED" /\ w.holder = h /\ w.until = u /\ w.epoch = m.epoch + 1
  BY <1>4, <1>8 DEF BusMessage
<1> QED BY <1>5, <1>9 DEF BusMessage

TakenAt(i, h, u) ==
  [messages EXCEPT ![i].state = "CLAIMED", ![i].holder = h, ![i].until = u, ![i].epoch = @ + 1, ![i].attempts = @ + 1]

LEMMA TakenWritten ==
  ASSUME NEW i \in DOMAIN messages, NEW h, NEW u
  PROVE  TakenAt(i, h, u) = [messages EXCEPT ![i] = Taken(messages[i], h, u)]
<1>1. PICK x : x = [messages[i] EXCEPT !.state = "CLAIMED"]
  OBVIOUS
<1>2. PICK y : y = [x EXCEPT !.holder = h]
  OBVIOUS
<1>3. PICK z : z = [y EXCEPT !.until = u]
  OBVIOUS
<1>4. PICK w : w = [z EXCEPT !.epoch = messages[i].epoch + 1]
  OBVIOUS
<1>5. PICK r : r = [w EXCEPT !.attempts = messages[i].attempts + 1]
  OBVIOUS
<1>6. r = Taken(messages[i], h, u)
  BY <1>1, <1>2, <1>3, <1>4, <1>5 DEF Taken
<1>7. PICK mx : mx = [messages EXCEPT ![i] = x]
  OBVIOUS
<1>8. mx[i] = x /\ i \in DOMAIN mx /\ \A v : [mx EXCEPT ![i] = v] = [messages EXCEPT ![i] = v]
  BY <1>7, Twice
<1>9. PICK my : my = [mx EXCEPT ![i] = y]
  OBVIOUS
<1>10. my[i] = y /\ i \in DOMAIN my /\ \A v : [my EXCEPT ![i] = v] = [mx EXCEPT ![i] = v]
  BY <1>8, <1>9, Twice
<1>11. PICK mz : mz = [my EXCEPT ![i] = z]
  OBVIOUS
<1>12. mz[i] = z /\ i \in DOMAIN mz /\ \A v : [mz EXCEPT ![i] = v] = [my EXCEPT ![i] = v]
  BY <1>10, <1>11, Twice
<1>13. PICK mw : mw = [mz EXCEPT ![i] = w]
  OBVIOUS
<1>14. mw[i] = w /\ i \in DOMAIN mw /\ \A v : [mw EXCEPT ![i] = v] = [mz EXCEPT ![i] = v]
  BY <1>12, <1>13, Twice
<1>15. TakenAt(i, h, u) = [mw EXCEPT ![i] = r]
  <2>1. mx = [messages EXCEPT ![i].state = "CLAIMED"]
    BY <1>1, <1>7
  <2>2. my = [mx EXCEPT ![i].holder = h]
    BY <1>2, <1>8, <1>9
  <2>3. mz = [my EXCEPT ![i].until = u]
    BY <1>3, <1>10, <1>11
  <2>4. mw = [mz EXCEPT ![i].epoch = messages[i].epoch + 1]
    BY <1>4, <1>12, <1>13
  <2>5. [mw EXCEPT ![i] = r] = [mw EXCEPT ![i].attempts = messages[i].attempts + 1]
    BY <1>5, <1>14
  <2>6. [mw EXCEPT ![i] = r] = [mz EXCEPT ![i].epoch = messages[i].epoch + 1, ![i].attempts = messages[i].attempts + 1]
    BY <2>4, <2>5, Zenon
  <2>7. [mw EXCEPT ![i] = r] = [my EXCEPT ![i].until = u, ![i].epoch = messages[i].epoch + 1, ![i].attempts = messages[i].attempts + 1]
    BY <2>3, <2>6, Zenon
  <2>8. [mw EXCEPT ![i] = r] = [mx EXCEPT ![i].holder = h, ![i].until = u, ![i].epoch = messages[i].epoch + 1, ![i].attempts = messages[i].attempts + 1]
    BY <2>2, <2>7, Zenon
  <2> QED BY <2>1, <2>8, Zenon DEF TakenAt
<1>16. [mw EXCEPT ![i] = r] = [messages EXCEPT ![i] = r]
  BY <1>8, <1>10, <1>12, <1>14
<1> QED BY <1>6, <1>15, <1>16
LEMMA BusClaims ==
  ASSUME BusInv, NEW a \in Roles, NEW e \in Nat, NEW lease \in Leases, Bus!Claim(a, e, lease)
  PROVE  BusInv'
<1>1. PICK i \in DOMAIN messages :
        /\ loaded' \subseteq loaded /\ Bus!Claimable(i, a) /\ UNCHANGED <<threads, roles, now>>
        /\ messages' = TakenAt(i, <<a, e>>, now + lease)
        /\ claims' = claims \cup {[id |-> i, holder |-> <<a, e>>, epoch |-> messages[i].epoch + 1, until |-> now + lease]}
  BY DEF Bus!Claim, Bus!Checked, TakenAt
<1>2. /\ messages \in Seq(BusMessage) /\ i \in 1 .. Len(messages) /\ messages[i] \in BusMessage
      /\ now \in Nat /\ now + lease \in Nat /\ messages[i].until \in Nat /\ messages[i].epoch \in Nat /\ <<a, e>> \in Holders
  BY BusFields, BusAssumption DEF BusInv, BusTypes, Holders
<1>a. PICK h : h = <<a, e>>
  OBVIOUS
<1>b. PICK u : u = now + lease
  OBVIOUS
<1>3. PICK r : r = Taken(messages[i], h, u)
  OBVIOUS
<1>4. /\ r \in BusMessage /\ r.thread = messages[i].thread /\ r.hop = messages[i].hop /\ r.sender = messages[i].sender
      /\ r.recipient = messages[i].recipient
      /\ r.state = "CLAIMED" /\ r.holder = <<a, e>> /\ r.until = now + lease /\ r.epoch = messages[i].epoch + 1
  <2>1. messages[i] \in BusMessage
    BY <1>2
  <2>2. /\ r \in BusMessage /\ r.thread = messages[i].thread /\ r.hop = messages[i].hop /\ r.sender = messages[i].sender
        /\ r.recipient = messages[i].recipient /\ r.state = "CLAIMED" /\ r.holder = h /\ r.until = u
        /\ r.epoch = messages[i].epoch + 1
    <3>1. h \in Holders /\ u \in Nat
      BY <1>2, <1>a, <1>b
    <3> QED BY <1>3, <2>1, <3>1, TakenMessage
  <2> QED BY <1>a, <1>b, <2>2
<1>5. messages' = [messages EXCEPT ![i] = r]
  BY <1>1, <1>a, <1>b, <1>3, TakenWritten
<1>6. PICK d \in BusClaim : /\ claims' = claims \cup {d} /\ d.id = i /\ d.epoch = messages[i].epoch + 1
                            /\ d.holder = <<a, e>> /\ d.until = now + lease
  <2>1. PICK d : d = [id |-> i, holder |-> <<a, e>>, epoch |-> messages[i].epoch + 1, until |-> now + lease]
    OBVIOUS
  <2>2. d \in BusClaim /\ d.id = i /\ d.epoch = messages[i].epoch + 1 /\ d.holder = <<a, e>> /\ d.until = now + lease
    BY <1>2, <2>1 DEF BusClaim
  <2> QED BY <1>1, <2>1, <2>2
<1>7. \A c \in claims : c.id = i => c.epoch <= messages[i].epoch /\ c.epoch \in Nat
  BY BusFields DEF BusInv, BusTypes, ClaimsHeld
<1>8. \A c \in claims : c.id = i => ~(c.until > now)
  <2> SUFFICES ASSUME NEW c \in claims, c.id = i, c.until > now PROVE FALSE
    OBVIOUS
  <2>1. messages[i].state = "CLAIMED" /\ messages[i].until > now
    BY DEF BusInv, ClaimsHeld, Held
  <2> QED BY <1>1, <1>2, <2>1 DEF Bus!Claimable
<1>9. claims' \subseteq BusClaim
  BY <1>6 DEF BusInv, BusTypes
<1>10. ClaimsDiffer'
  BY <1>2, <1>6, <1>7 DEF BusInv, ClaimsDiffer
<1>11. \A c \in claims' : IF c.id = i THEN c.epoch <= r.epoch /\ (c.until > now => Held(r, c)) ELSE c \in claims
  BY <1>2, <1>4, <1>6, <1>7, <1>8 DEF Held
<1> QED BY <1>1, <1>2, <1>4, <1>5, <1>9, <1>10, <1>11, BusMoves

LEMMA BusRenew ==
  ASSUME BusInv, NEW c \in claims, NEW lease \in Leases, Bus!Renew(c, lease)
  PROVE  BusInv'
<1>1. /\ Bus!updateOrganizationalClaim(c) /\ UNCHANGED <<threads, roles, loaded, now>>
      /\ messages' = [messages EXCEPT ![c.id].until = now + lease]
      /\ claims' = (claims \ {c}) \cup {[c EXCEPT !.until = now + lease]}
  BY DEF Bus!Renew
<1>2. PICK i \in 1 .. Len(messages) : i = c.id
  BY DEF BusInv, ClaimsHeld
<1>3. messages \in Seq(BusMessage) /\ messages[i] \in BusMessage /\ now + lease \in Nat /\ c \in BusClaim
  BY <1>2, BusAssumption DEF BusInv, BusTypes
<1>4. PICK r : r = [messages[i] EXCEPT !.until = now + lease]
  OBVIOUS
<1>5. /\ r \in BusMessage /\ r.thread = messages[i].thread /\ r.hop = messages[i].hop /\ r.sender = messages[i].sender
      /\ r.recipient = messages[i].recipient /\ r.epoch = messages[i].epoch /\ r.state = messages[i].state
      /\ r.holder = messages[i].holder /\ r.until = now + lease
  BY <1>3, <1>4 DEF BusMessage
<1>6. PICK d : d = [c EXCEPT !.until = now + lease]
  OBVIOUS
<1>7. d \in BusClaim /\ d.id = c.id /\ d.epoch = c.epoch /\ d.holder = c.holder /\ d.until = now + lease
  BY <1>3, <1>6 DEF BusClaim
<1>8. Held(r, d)
  BY <1>1, <1>2, <1>5, <1>7 DEF Held, Bus!updateOrganizationalClaim
<1>9. messages' = [messages EXCEPT ![c.id] = r]
  BY <1>1, <1>2, <1>3, <1>4
<1> QED BY <1>1, <1>2, <1>5, <1>6, <1>7, <1>8, <1>9, HeldMoves

LetGo(m, state) == [m EXCEPT !.state = state, !.holder = None, !.until = 0]

LEMMA LetGoMessage ==
  ASSUME NEW m \in BusMessage, NEW state \in {"PENDING", "RESOLVED", "DEAD_LETTER"}, NEW r, r = LetGo(m, state)
  PROVE  /\ r \in BusMessage /\ r.thread = m.thread /\ r.hop = m.hop /\ r.sender = m.sender /\ r.recipient = m.recipient
         /\ r.epoch = m.epoch
<1>1. PICK x : x = [m EXCEPT !.state = state]
  OBVIOUS
<1>2. PICK y : y = [x EXCEPT !.holder = None]
  OBVIOUS
<1>3. r = [y EXCEPT !.until = 0]
  BY <1>1, <1>2 DEF LetGo
<1>4. /\ x \in BusMessage /\ x.thread = m.thread /\ x.hop = m.hop /\ x.sender = m.sender /\ x.recipient = m.recipient
      /\ x.epoch = m.epoch
  BY <1>1 DEF BusMessage
<1>5. /\ y \in BusMessage /\ y.thread = m.thread /\ y.hop = m.hop /\ y.sender = m.sender /\ y.recipient = m.recipient
      /\ y.epoch = m.epoch
  BY <1>2, <1>4 DEF BusMessage
<1> QED BY <1>3, <1>5 DEF BusMessage

LEMMA LetGoWritten ==
  ASSUME NEW i \in DOMAIN messages, NEW state
  PROVE  Bus!Released(i, state) = [messages EXCEPT ![i] = LetGo(messages[i], state)]
<1>1. PICK x : x = [messages[i] EXCEPT !.state = state]
  OBVIOUS
<1>2. PICK y : y = [x EXCEPT !.holder = None]
  OBVIOUS
<1>3. PICK r : r = [y EXCEPT !.until = 0]
  OBVIOUS
<1>4. r = LetGo(messages[i], state)
  BY <1>1, <1>2, <1>3 DEF LetGo
<1>5. PICK mx : mx = [messages EXCEPT ![i] = x]
  OBVIOUS
<1>6. mx[i] = x /\ i \in DOMAIN mx /\ \A v : [mx EXCEPT ![i] = v] = [messages EXCEPT ![i] = v]
  BY <1>5, Twice
<1>7. PICK my : my = [mx EXCEPT ![i] = y]
  OBVIOUS
<1>8. my[i] = y /\ i \in DOMAIN my /\ \A v : [my EXCEPT ![i] = v] = [mx EXCEPT ![i] = v]
  BY <1>6, <1>7, Twice
<1>9. Bus!Released(i, state) = [my EXCEPT ![i] = r]
  <2>1. mx = [messages EXCEPT ![i].state = state]
    BY <1>1, <1>5
  <2>2. my = [mx EXCEPT ![i].holder = None]
    BY <1>2, <1>6, <1>7
  <2>3. [my EXCEPT ![i] = r] = [my EXCEPT ![i].until = 0]
    BY <1>3, <1>8
  <2>4. [my EXCEPT ![i] = r] = [mx EXCEPT ![i].holder = None, ![i].until = 0]
    BY <2>2, <2>3, Zenon
  <2> QED BY <2>1, <2>4, Zenon DEF Bus!Released
<1>10. [my EXCEPT ![i] = r] = [messages EXCEPT ![i] = r]
  BY <1>6, <1>8
<1> QED BY <1>4, <1>9, <1>10

LEMMA BusResolve ==
  ASSUME BusInv, NEW c \in claims, Bus!Resolve(c) \/ Bus!Yield(c)
  PROVE  BusInv'
<1>1. PICK state \in {"PENDING", "RESOLVED"} : messages' = Bus!Released(c.id, state)
  BY DEF Bus!Resolve, Bus!Yield
<1>2. Bus!updateOrganizationalClaim(c) /\ UNCHANGED <<threads, roles, loaded, now>> /\ claims' = claims \ {c}
  BY DEF Bus!Resolve, Bus!Yield
<1>3. PICK i \in 1 .. Len(messages) : i = c.id
  BY DEF BusInv, ClaimsHeld
<1>4. i \in DOMAIN messages /\ messages[i] \in BusMessage
  BY <1>3 DEF BusInv, BusTypes
<1>5. PICK r : r = LetGo(messages[i], state)
  OBVIOUS
<1>6. /\ r \in BusMessage /\ r.thread = messages[i].thread /\ r.hop = messages[i].hop /\ r.sender = messages[i].sender
      /\ r.recipient = messages[i].recipient /\ r.epoch = messages[i].epoch
  BY <1>4, <1>5, LetGoMessage
<1>7. messages' = [messages EXCEPT ![c.id] = r]
  BY <1>1, <1>3, <1>4, <1>5, LetGoWritten
<1> QED BY <1>2, <1>3, <1>6, <1>7, HeldMoves

LEMMA BusSweep == BusInv /\ Bus!SweepMessages => BusInv'
<1> SUFFICES ASSUME BusInv, Bus!SweepMessages PROVE BusInv'
  OBVIOUS
<1>1. /\ messages \in Seq(BusMessage) /\ DOMAIN messages = 1 .. Len(messages) /\ Len(messages) \in Nat /\ now \in Nat
      /\ \A i \in 1 .. Len(messages) : messages[i] \in BusMessage /\ messages[i].until \in Nat
      /\ UNCHANGED <<threads, roles, loaded, claims, now>>
  <2>1. /\ messages \in Seq(BusMessage) /\ DOMAIN messages = 1 .. Len(messages) /\ Len(messages) \in Nat /\ now \in Nat
        /\ \A i \in 1 .. Len(messages) : messages[i] \in BusMessage
    BY DEF BusInv, BusTypes
  <2> QED BY <2>1, BusFields DEF Bus!SweepMessages
<1>2. ASSUME NEW i \in 1 .. Len(messages)
      PROVE  \/ messages'[i] = messages[i]
             \/ \E state \in {"PENDING", "DEAD_LETTER"} : Bus!Expired(messages[i]) /\ messages'[i] = LetGo(messages[i], state)
  <2>1. PICK state \in {"PENDING", "DEAD_LETTER"} :
          state = IF messages[i].state = "CLAIMED" /\ messages[i].attempts >= MaximumAttempts THEN "DEAD_LETTER" ELSE "PENDING"
    OBVIOUS
  <2>2. messages'[i] = IF ~Bus!Expired(messages[i]) THEN messages[i] ELSE LetGo(messages[i], state)
    BY <1>1, <1>2, <2>1 DEF Bus!SweepMessages, LetGo
  <2> QED BY <2>2
<1>3. \A i \in 1 .. Len(messages) :
        /\ messages'[i] \in BusMessage /\ messages'[i].thread = messages[i].thread /\ messages'[i].hop = messages[i].hop
        /\ messages'[i].sender = messages[i].sender /\ messages'[i].recipient = messages[i].recipient
        /\ messages'[i].epoch = messages[i].epoch
        /\ messages'[i] = messages[i] \/ Bus!Expired(messages[i])
  BY <1>1, <1>2, LetGoMessage
<1>4. messages' \in Seq(BusMessage) /\ Len(messages') = Len(messages)
  <2>1. DOMAIN messages' = 1 .. Len(messages) /\ messages' = [i \in 1 .. Len(messages) |-> messages'[i]]
    BY <1>1 DEF Bus!SweepMessages
  <2>2. messages' \in [1 .. Len(messages) -> BusMessage]
    BY <1>3, <2>1
  <2> QED BY <1>1, <2>2
<1>5. BusTypes'
  BY <1>1, <1>4 DEF BusInv, BusTypes
<1>6. Threaded'
  BY <1>1, <1>3, <1>4, ThreadsStand
<1>7. ClaimsDiffer'
  BY <1>1 DEF BusInv, ClaimsDiffer
<1>8. ClaimsHeld'
  <2> SUFFICES ASSUME NEW c \in claims
               PROVE  /\ c.id \in 1 .. Len(messages') /\ c.epoch <= messages'[c.id].epoch
                      /\ c.until > now => Held(messages'[c.id], c)
    BY <1>1 DEF ClaimsHeld, Held
  <2>1. c.id \in 1 .. Len(messages) /\ c.epoch <= messages[c.id].epoch /\ (c.until > now => Held(messages[c.id], c))
    BY DEF BusInv, ClaimsHeld
  <2>2. c.until > now => ~Bus!Expired(messages[c.id])
    BY <1>1, <2>1 DEF Held, Bus!Expired
  <2> QED BY <1>3, <1>4, <2>1, <2>2
<1> QED BY <1>5, <1>6, <1>7, <1>8 DEF BusInv

(* The last message of a thread goes to another role, and with it the       *)
(* thread.                                                                  *)
LEMMA BusReaddress ==
  ASSUME BusInv, NEW i \in DOMAIN messages, NEW a, NEW e, NEW to \in Roles, Bus!Readdress(i, a, e, to)
  PROVE  BusInv'
<1>1. /\ messages \in Seq(BusMessage) /\ i \in 1 .. Len(messages) /\ messages[i] \in BusMessage
      /\ threads \in [BusThreads -> BusThread] /\ messages[i].thread \in BusThreads
  BY BusFields DEF BusInv, BusTypes
<1>2. PICK t \in BusThreads : t = messages[i].thread
  BY <1>1
<1>3. /\ UNCHANGED <<roles, claims, now>> /\ loaded' \subseteq loaded /\ messages[i].state = "PENDING" /\ threads[t].last = i
      /\ messages' = [messages EXCEPT ![i].recipient = to, ![i].readdressed = @ + 1]
      /\ threads' = [threads EXCEPT ![t].recipient = to]
  BY <1>2 DEF Bus!Readdress, Bus!Checked, Bus!Unfollowed
<1>4. PICK x : x = [messages[i] EXCEPT !.recipient = to]
  OBVIOUS
<1>5. PICK r : r = [x EXCEPT !.readdressed = messages[i].readdressed + 1]
  OBVIOUS
<1>6. /\ r \in BusMessage /\ r.thread = t /\ r.hop = messages[i].hop /\ r.sender = messages[i].sender
      /\ r.recipient = to /\ r.epoch = messages[i].epoch /\ r.state = "PENDING"
  <2>1. /\ x \in BusMessage /\ x.thread = t /\ x.hop = messages[i].hop /\ x.sender = messages[i].sender
        /\ x.recipient = to /\ x.epoch = messages[i].epoch /\ x.state = "PENDING"
    BY <1>1, <1>2, <1>3, <1>4 DEF BusMessage
  <2>2. messages[i].readdressed + 1 \in Nat
    BY <1>1, BusFields
  <2> QED BY <1>5, <2>1, <2>2 DEF BusMessage
<1>7. messages' = [messages EXCEPT ![i] = r]
  <2>1. PICK mx : mx = [messages EXCEPT ![i] = x]
    OBVIOUS
  <2>2. mx[i] = x /\ i \in DOMAIN mx /\ \A v : [mx EXCEPT ![i] = v] = [messages EXCEPT ![i] = v]
    BY <2>1, Twice
  <2>3. mx = [messages EXCEPT ![i].recipient = to]
    BY <1>4, <2>1
  <2>4. [mx EXCEPT ![i] = r] = [mx EXCEPT ![i].readdressed = messages[i].readdressed + 1]
    BY <1>5, <2>2
  <2>5. messages' = [messages EXCEPT ![i].recipient = to, ![i].readdressed = messages[i].readdressed + 1]
    BY <1>3, Zenon
  <2>6. messages' = [mx EXCEPT ![i] = r]
    BY <2>3, <2>4, <2>5, Zenon
  <2> QED BY <2>2, <2>6
<1>8. /\ messages' \in Seq(BusMessage) /\ Len(messages') = Len(messages)
      /\ \A j \in 1 .. Len(messages) : messages'[j] = IF j = i THEN r ELSE messages[j]
  BY <1>1, <1>6, <1>7
<1>9. PICK y : y = [threads[t] EXCEPT !.recipient = to]
  OBVIOUS
<1>10. y \in BusThread /\ y.last = i /\ y.hop = threads[t].hop /\ y.recipient = to
  BY <1>1, <1>3, <1>9 DEF BusThread
<1>11. threads' = [threads EXCEPT ![t] = y]
  BY <1>1, <1>3, <1>9
<1>12. /\ threads' \in [BusThreads -> BusThread] /\ \A u \in BusThreads : threads'[u] = IF u = t THEN y ELSE threads[u]
  BY <1>1, <1>10, <1>11
<1>13. BusTypes'
  BY <1>3, <1>8, <1>12 DEF BusInv, BusTypes
<1>14. ClaimsHeld' /\ ClaimsDiffer'
  <2>1. ASSUME NEW c \in claims
        PROVE  /\ c.id \in 1 .. Len(messages') /\ c.epoch <= messages'[c.id].epoch
               /\ c.until > now => Held(messages'[c.id], c)
    BY <1>3, <1>6, <1>8 DEF BusInv, ClaimsHeld, Held
  <2> QED BY <1>3, <2>1 DEF BusInv, ClaimsHeld, ClaimsDiffer, Held
<1>15. threads[t].hop > 0 /\ messages[i].hop = threads[t].hop
  <2>1. messages[i].hop > 0 /\ messages[i].hop <= threads[t].hop /\ messages[i].hop \in Nat /\ threads[t].hop \in Nat
    BY <1>1, <1>2, BusFields DEF BusInv, Threaded, HopsOfThread
  <2> QED BY <1>3, <2>1 DEF BusInv, Threaded, LastOfThread
<1>16. LastOfThread'
  BY <1>2, <1>6, <1>8, <1>10, <1>12, <1>15 DEF BusInv, Threaded, LastOfThread
<1>17. HopsOfThread'
  <2>1. \A j \in 1 .. Len(messages) : messages'[j].thread = messages[j].thread /\ messages'[j].hop = messages[j].hop
    BY <1>2, <1>6, <1>8
  <2>2. \A u \in BusThreads : threads'[u].hop = threads[u].hop
    BY <1>10, <1>12
  <2>3. \A j \in 1 .. Len(messages) : messages[j].thread \in BusThreads
    BY <1>1, BusFields
  <2> QED BY <1>8, <2>1, <2>2, <2>3 DEF BusInv, Threaded, HopsOfThread
<1>18. Succeeding'
  <2> SUFFICES ASSUME NEW j \in 1 .. Len(messages), NEW k \in 1 .. Len(messages),
                      messages'[j].thread = messages'[k].thread, messages'[k].hop = messages'[j].hop + 1
               PROVE  messages'[k].sender = messages'[j].recipient
    BY <1>8 DEF Succeeding
  <2>1. \A l \in 1 .. Len(messages) : /\ messages'[l].thread = messages[l].thread /\ messages'[l].hop = messages[l].hop
                                      /\ messages'[l].sender = messages[l].sender /\ messages[l].hop \in Nat
    <3>1. \A l \in 1 .. Len(messages) : messages[l].hop \in Nat
      BY <1>1, BusFields
    <3> QED BY <1>2, <1>6, <1>8, <3>1
  <2>2. j /= i
    <3> SUFFICES ASSUME j = i PROVE FALSE
      OBVIOUS
    <3>1. messages[k].thread = t /\ messages[k].hop = threads[t].hop + 1 /\ threads[t].hop \in Nat
      BY <1>1, <1>2, <1>15, <2>1, BusFields
    <3>2. messages[k].hop <= threads[t].hop
      BY <3>1 DEF BusInv, Threaded, HopsOfThread
    <3> QED BY <3>1, <3>2
  <2>3. messages'[j].recipient = messages[j].recipient
    BY <1>8, <2>2
  <2> QED BY <2>1, <2>3 DEF BusInv, Threaded, Succeeding
<1> QED BY <1>13, <1>14, <1>16, <1>17, <1>18 DEF BusInv, Threaded
LEMMA NewMessage ==
  ASSUME BusInv, NEW t \in BusThreads, NEW hop \in Nat, NEW from \in Roles, NEW e \in Nat, NEW to \in Roles, NEW p \in Progress,
         NEW m, m = Bus!Message(t, hop, from, to, p), NEW s, s = Bus!Stored(m, e)
  PROVE  /\ s \in BusMessage /\ s.thread = t /\ s.hop = hop /\ s.sender = from /\ s.recipient = to
         /\ m.thread = t /\ m.hop = hop /\ m.sender = from /\ m.recipient = to /\ m.progress = p
<1>1. now + Life \in Nat /\ roles[from] \in Nat
  BY BusAssumption DEF BusInv, BusTypes
<1>2. /\ m \in BusMessage /\ m.thread = t /\ m.hop = hop /\ m.sender = from /\ m.recipient = to /\ m.progress = p
  BY <1>1 DEF Bus!Message, BusMessage
<1>3. s \in BusMessage /\ s.thread = m.thread /\ s.hop = m.hop /\ s.sender = m.sender /\ s.recipient = m.recipient
  BY <1>2 DEF Bus!Stored, BusMessage
<1> QED BY <1>2, <1>3

LEMMA NewThread ==
  ASSUME BusInv, NEW m, m.thread \in BusThreads, m.hop \in Nat, m.recipient \in Roles, m.progress \in Progress,
         NEW position \in Nat, NEW x, x = Bus!Advanced(m, position)
  PROVE  x \in BusThread /\ x.last = position /\ x.hop = m.hop /\ x.recipient = m.recipient
<1>1. threads[m.thread].progress \cup {m.progress} \in SUBSET Progress
  BY DEF BusInv, BusTypes, BusThread
<1> QED BY <1>1 DEF Bus!Advanced, BusThread

LEMMA BusSend ==
  ASSUME BusInv, NEW t \in BusThreads, NEW from \in Roles, NEW e \in Nat, NEW to \in Roles, NEW p \in Progress,
         Bus!Send(t, from, e, to, p)
  PROVE  BusInv'
<1>1. /\ messages \in Seq(BusMessage) /\ Len(messages) \in Nat /\ threads \in [BusThreads -> BusThread]
      /\ threads[t].hop \in Nat
  BY BusFields DEF BusInv, BusTypes
<1>2. PICK hop \in Nat : hop = threads[t].hop + 1
  BY <1>1
<1>3. PICK m : m = Bus!Message(t, hop, from, to, p)
  OBVIOUS
<1>4. PICK s : s = Bus!Stored(m, e)
  OBVIOUS
<1>5. PICK x : x = Bus!Advanced(m, Len(messages) + 1)
  OBVIOUS
<1>6. /\ loaded' \subseteq loaded /\ messages' = Append(messages, s) /\ threads' = [threads EXCEPT ![t] = x]
      /\ UNCHANGED <<roles, claims, now>> /\ Bus!advanceMessageThread(m)
  BY <1>2, <1>3, <1>4, <1>5 DEF Bus!Send, Bus!Checked
<1>7. /\ s \in BusMessage /\ s.thread = t /\ s.hop = hop /\ s.sender = from /\ s.recipient = to
      /\ m.thread = t /\ m.hop = hop /\ m.sender = from /\ m.recipient = to /\ m.progress = p
  BY <1>3, <1>4, NewMessage
<1>8. x \in BusThread /\ x.last = Len(messages) + 1 /\ x.hop = hop /\ x.recipient = to
  <2>1. Len(messages) + 1 \in Nat
    BY <1>1
  <2> QED BY <1>5, <1>7, <2>1, NewThread
<1>9. /\ messages' \in Seq(BusMessage) /\ Len(messages') = Len(messages) + 1 /\ messages'[Len(messages) + 1] = s
      /\ \A i \in 1 .. Len(messages) : messages'[i] = messages[i]
  BY <1>1, <1>6, <1>7
<1>10. threads' \in [BusThreads -> BusThread] /\ threads'[t] = x /\ \A u \in BusThreads : u /= t => threads'[u] = threads[u]
  BY <1>1, <1>6, <1>8
<1>11. threads[t].hop > 0 => s.sender = threads[t].recipient
  BY <1>6, <1>7 DEF Bus!advanceMessageThread
<1>12. \A q \in 1 .. Len(messages') : q > Len(messages) => q = Len(messages) + 1
  BY <1>1, <1>9
<1>13. \A q \in 1 .. Len(messages') : q > Len(messages) =>
         LET n == messages'[q] IN
         /\ n.hop = threads[n.thread].hop + 1 /\ (threads[n.thread].hop > 0 => n.sender = threads[n.thread].recipient)
         /\ threads'[n.thread].last = q /\ threads'[n.thread].hop = n.hop /\ threads'[n.thread].recipient = n.recipient
  BY <1>2, <1>7, <1>8, <1>9, <1>10, <1>11, <1>12
<1>14. \A u \in BusThreads : \/ threads'[u] = threads[u]
                             \/ \E q \in 1 .. Len(messages') : q > Len(messages) /\ messages'[q].thread = u
  BY <1>1, <1>7, <1>9, <1>10
<1> QED BY <1>1, <1>6, <1>9, <1>10, <1>13, <1>14, BusGrows

LEMMA BusFanout ==
  ASSUME BusInv, NEW t \in BusThreads, NEW u \in BusThreads, NEW from \in Roles, NEW e \in Nat, NEW to \in Roles, NEW too \in Roles,
         NEW p \in Progress, Bus!SendFanout(<<t, u>>, from, e, <<to, too>>, p)
  PROVE  BusInv'
<1>1. /\ messages \in Seq(BusMessage) /\ Len(messages) \in Nat /\ threads \in [BusThreads -> BusThread]
      /\ threads[t].hop \in Nat /\ threads[u].hop \in Nat
  BY BusFields DEF BusInv, BusTypes
<1>2. PICK h \in Nat : h = threads[t].hop + 1
  BY <1>1
<1>3. PICK k \in Nat : k = threads[u].hop + 1
  BY <1>1
<1>4. PICK m : m = Bus!Message(t, h, from, to, p)
  OBVIOUS
<1>5. PICK n : n = Bus!Message(u, k, from, too, p)
  OBVIOUS
<1>6. PICK r : r = Bus!Stored(m, e)
  OBVIOUS
<1>7. PICK s : s = Bus!Stored(n, e)
  OBVIOUS
<1>8. PICK x : x = Bus!Advanced(m, Len(messages) + 1)
  OBVIOUS
<1>9. PICK y : y = Bus!Advanced(n, Len(messages) + 2)
  OBVIOUS
<1>10. /\ loaded' \subseteq loaded /\ messages' = messages \o <<r, s>> /\ threads' = [threads EXCEPT ![t] = x, ![u] = y]
       /\ UNCHANGED <<roles, claims, now>> /\ Bus!advanceMessageThread(m) /\ Bus!advanceMessageThread(n) /\ t /= u
  BY <1>2, <1>3, <1>4, <1>5, <1>6, <1>7, <1>8, <1>9 DEF Bus!SendFanout, Bus!Checked
<1>11. /\ r \in BusMessage /\ r.thread = t /\ r.hop = h /\ r.sender = from /\ r.recipient = to
       /\ m.thread = t /\ m.hop = h /\ m.sender = from /\ m.recipient = to /\ m.progress = p
  BY <1>4, <1>6, NewMessage
<1>12. /\ s \in BusMessage /\ s.thread = u /\ s.hop = k /\ s.sender = from /\ s.recipient = too
       /\ n.thread = u /\ n.hop = k /\ n.sender = from /\ n.recipient = too /\ n.progress = p
  BY <1>5, <1>7, NewMessage
<1>13. /\ x \in BusThread /\ x.last = Len(messages) + 1 /\ x.hop = h /\ x.recipient = to
       /\ y \in BusThread /\ y.last = Len(messages) + 2 /\ y.hop = k /\ y.recipient = too
  <2>1. Len(messages) + 1 \in Nat /\ Len(messages) + 2 \in Nat
    BY <1>1
  <2> QED BY <1>8, <1>9, <1>11, <1>12, <2>1, NewThread
<1>14. /\ messages' \in Seq(BusMessage) /\ Len(messages') = Len(messages) + 2 /\ messages'[Len(messages) + 1] = r
       /\ messages'[Len(messages) + 2] = s
       /\ \A i \in 1 .. Len(messages) : messages'[i] = messages[i]
  <2>1. PICK two : two = <<r, s>>
    OBVIOUS
  <2>2. two \in Seq(BusMessage) /\ Len(two) = 2 /\ two[1] = r /\ two[2] = s
    BY <1>11, <1>12, <2>1
  <2>3. messages' = messages \o two
    BY <1>10, <2>1
  <2>4. messages \in Seq(BusMessage) /\ Len(messages) \in Nat /\ 1 \in 1 .. Len(two) /\ 2 \in 1 .. Len(two)
    BY <1>1, <2>2
  <2>5. messages \o two \in Seq(BusMessage)
    BY <2>2, <2>4, ConcatProperties
  <2>6. Len(messages \o two) = Len(messages) + Len(two)
    BY <2>2, <2>4, ConcatProperties
  <2>7. \A i \in 1 .. Len(messages) + Len(two) :
          (messages \o two)[i] = IF i <= Len(messages) THEN messages[i] ELSE two[i - Len(messages)]
    BY <2>2, <2>4, ConcatProperties
  <2>8. ASSUME NEW j \in 1 .. Len(two)
        PROVE  (messages \o two)[Len(messages) + j] = two[j]
    <3>1. PICK i : i = Len(messages) + j
      OBVIOUS
    <3>2. i \in 1 .. Len(messages) + Len(two) /\ ~(i <= Len(messages)) /\ i - Len(messages) = j
      BY <2>2, <2>4, <3>1
    <3>3. (messages \o two)[i] = two[i - Len(messages)]
      BY <2>7, <3>2
    <3> QED BY <3>1, <3>2, <3>3
  <2>9. \A i \in 1 .. Len(messages) : i \in 1 .. Len(messages) + Len(two) /\ i <= Len(messages)
    BY <2>2, <2>4
  <2>10. (messages \o two)[Len(messages) + 1] = r
    BY <2>2, <2>4, <2>8
  <2>11. (messages \o two)[Len(messages) + 2] = s
    BY <2>2, <2>4, <2>8
  <2>12. \A i \in 1 .. Len(messages) : (messages \o two)[i] = messages[i]
    BY <2>7, <2>9
  <2> QED BY <2>2, <2>3, <2>5, <2>6, <2>10, <2>11, <2>12
<1>15. /\ threads' \in [BusThreads -> BusThread] /\ threads'[t] = x /\ threads'[u] = y
       /\ \A v \in BusThreads : v /= t /\ v /= u => threads'[v] = threads[v]
  BY <1>1, <1>10, <1>13
<1>16. /\ threads[t].hop > 0 => r.sender = threads[t].recipient
       /\ threads[u].hop > 0 => s.sender = threads[u].recipient
  BY <1>10, <1>11, <1>12 DEF Bus!advanceMessageThread
<1>17. \A q \in 1 .. Len(messages') : q > Len(messages) => q = Len(messages) + 1 \/ q = Len(messages) + 2
  BY <1>1, <1>14
<1>18. \A q \in 1 .. Len(messages') : q > Len(messages) =>
         LET l == messages'[q] IN
         /\ l.hop = threads[l.thread].hop + 1 /\ (threads[l.thread].hop > 0 => l.sender = threads[l.thread].recipient)
         /\ threads'[l.thread].last = q /\ threads'[l.thread].hop = l.hop /\ threads'[l.thread].recipient = l.recipient
  BY <1>2, <1>3, <1>11, <1>12, <1>13, <1>14, <1>15, <1>16, <1>17
<1>19. \A v \in BusThreads : \/ threads'[v] = threads[v]
                             \/ \E q \in 1 .. Len(messages') : q > Len(messages) /\ messages'[q].thread = v
  <2>1. /\ Len(messages) + 1 \in 1 .. Len(messages') /\ Len(messages) + 1 > Len(messages)
        /\ messages'[Len(messages) + 1].thread = t
        /\ Len(messages) + 2 \in 1 .. Len(messages') /\ Len(messages) + 2 > Len(messages)
        /\ messages'[Len(messages) + 2].thread = u
    BY <1>1, <1>11, <1>12, <1>14
  <2> QED BY <1>15, <2>1
<1>20. Len(messages') >= Len(messages)
  BY <1>1, <1>14
<1> QED BY <1>10, <1>14, <1>15, <1>18, <1>19, <1>20, BusGrows

LEMMA BusNext == BusInv /\ Bus!Next => BusInv'
<1> SUFFICES ASSUME BusInv, Bus!Next PROVE BusInv'
  OBVIOUS
<1>1. /\ \A r \in loaded : r[1] \in Roles /\ r[2] \in Nat
      /\ \A i \in DOMAIN messages : messages[i].thread \in BusThreads
  BY BusFields DEF BusInv, BusTypes
<1>2. CASE \E t \in BusThreads, r \in loaded, to \in Roles, p \in Progress : Bus!Send(t, r[1], r[2], to, p)
  BY <1>1, <1>2, BusSend
<1>3. CASE \E t, u \in BusThreads, r \in loaded, to, too \in Roles, p \in Progress :
             Bus!SendFanout(<<t, u>>, r[1], r[2], <<to, too>>, p)
  BY <1>1, <1>3, BusFanout
<1>4. CASE \E i \in DOMAIN messages, r \in loaded, to \in Roles, p \in Progress : Bus!RepairDeadLetter(i, r[1], r[2], to, p)
  BY <1>1, <1>4, BusSend DEF Bus!RepairDeadLetter
<1>5. CASE \E r \in loaded, lease \in Leases : Bus!Claim(r[1], r[2], lease)
  BY <1>1, <1>5, BusClaims
<1>6. CASE \E c \in claims, lease \in Leases : Bus!Renew(c, lease)
  BY <1>6, BusRenew
<1>7. CASE \E c \in claims : Bus!Resolve(c) \/ Bus!Yield(c) \/ Bus!StaleOrganizationalClaim(c)
  BY <1>7, BusResolve, BusCalls
<1>8. CASE \E i \in DOMAIN messages, r \in loaded : Bus!Admit(i, r[1], r[2]) \/ Bus!BuryExhausted(i, r[1], r[2])
  BY <1>8, BusAdmit
<1>9. CASE \E i \in DOMAIN messages, r \in loaded, to \in Roles : Bus!Readdress(i, r[1], r[2], to)
  BY <1>9, BusReaddress
<1>10. CASE (\E a \in Roles : Bus!LoadRole(a) \/ Bus!Restart(a)) \/ Bus!Tick
  BY <1>10, BusCalls
<1>11. CASE Bus!SweepMessages
  BY <1>11, BusSweep
<1> QED BY <1>2, <1>3, <1>4, <1>5, <1>6, <1>7, <1>8, <1>9, <1>10, <1>11, Zenon DEF Bus!Next
-----------------------------------------------------------------------------
(* A workflow instance.  What is no longer pending has all it follows       *)
(* behind it, and what is behind it stays as it is; an expansion replaces a *)
(* node that is not behind any.                                             *)

Allowed(s) ==
  {"COMPLETED"} \cup (IF s \in Optional THEN {"SKIPPED"} ELSE {}) \cup (IF s \in Repair THEN {"FAILED"} ELSE {})

Wired(N) == \A n \in DOMAIN N : N[n].preds \subseteq DOMAIN N

Ordered(N) ==
  \A n \in DOMAIN N : N[n].state /= "PENDING" => \A p \in N[n].preds : N[p].state \in Allowed(N[n].stage)

WorkflowTypes ==
  /\ instance \in InstanceType \cup {None}
  /\ messages \in [Messages -> {"PENDING", "BOUND", "RESOLVED"}]

(* What there is of an instance.                                            *)
Started == (request /= None \/ \E m \in Messages : messages[m] /= "PENDING") => instance /= None
BoundOnce == instance /= None => \A m \in Messages \cap DOMAIN instance.nodes : messages[m] /= "PENDING"

InOrder(i) ==
  /\ Wired(i.nodes) /\ (i.state /= "CANCELLED" => Ordered(i.nodes))
  /\ \A n \in DOMAIN i.nodes :
       /\ i.nodes[n].state = "PENDING" => i.nodes[n].attempt = 0
       /\ i.nodes[n].state = "BLOCKED" => i.nodes[n].from /= None
       /\ n \notin i.nodes[n].preds

WorkflowInv == WorkflowTypes /\ Started /\ BoundOnce /\ (instance /= None => InOrder(instance))

LEMMA WorkflowProperty == WorkflowInv => Workflow!NodesInOrder
<1> SUFFICES ASSUME WorkflowInv, instance /= None, instance.state /= "CANCELLED",
                    NEW n \in DOMAIN instance.nodes,
                    instance.nodes[n].attempt > 0 \/ instance.nodes[n].state = "SKIPPED"
             PROVE  /\ \A p \in instance.nodes[n].preds : instance.nodes[p].state \in Allowed(instance.nodes[n].stage)
                    /\ \E over \in SUBSET {p \in DOMAIN instance.nodes :
                                             instance.nodes[p].state \in Workflow!Finished \cup {"FAILED"}} :
                         /\ instance.nodes[n].preds \subseteq over
                         /\ \A p \in over : instance.nodes[p].preds \subseteq over
  BY DEF Workflow!NodesInOrder, Allowed
<1>1. Wired(instance.nodes) /\ Ordered(instance.nodes)
  BY DEF WorkflowInv, InOrder
<1>2. \A s : Allowed(s) \subseteq {"COMPLETED", "SKIPPED", "FAILED"}
  BY DEF Allowed
<1>3. instance.nodes[n].state /= "PENDING"
  BY DEF WorkflowInv, InOrder
<1>4. PICK over : over = {p \in DOMAIN instance.nodes : instance.nodes[p].state \in {"COMPLETED", "SKIPPED", "FAILED"}}
  OBVIOUS
<1>5. \A p \in DOMAIN instance.nodes : instance.nodes[p].state /= "PENDING" => instance.nodes[p].preds \subseteq over
  BY <1>1, <1>2, <1>4 DEF Wired, Ordered
<1>6. \A p \in over : instance.nodes[p].preds \subseteq over
  BY <1>4, <1>5
<1>7. over \in SUBSET {p \in DOMAIN instance.nodes : instance.nodes[p].state \in Workflow!Finished \cup {"FAILED"}}
  BY <1>4 DEF Workflow!Finished
<1>8. \A p \in instance.nodes[n].preds : instance.nodes[p].state \in Allowed(instance.nodes[n].stage)
  BY <1>1, <1>3 DEF Ordered
<1> QED BY <1>3, <1>5, <1>6, <1>7, <1>8

LEMMA WorkflowInit == Workflow!Init => WorkflowInv
BY NoneAssumption DEF Workflow!Init, WorkflowInv, WorkflowTypes, Started, BoundOnce

LEMMA NodesAre ==
  ASSUME NEW N \in Nodes
  PROVE  DOMAIN N \in SUBSET NodeNames /\ N \in [DOMAIN N -> NodeType]
BY DEF Nodes

LEMMA NodesMade ==
  ASSUME NEW D \in SUBSET NodeNames, NEW N \in [D -> NodeType]
  PROVE  N \in Nodes
BY DEF Nodes

LEMMA InstanceFields ==
  ASSUME NEW i \in InstanceType
  PROVE  /\ i.nodes \in Nodes /\ i.revision \in Nat /\ i.proposed \in SUBSET Messages
         /\ i.state \in {"ACTIVE", "BLOCKED", "COMPLETED", "FAILED", "CANCELLED"}
BY DEF InstanceType

(* What a write of one field leaves.                                        *)
LEMMA WriteNodes ==
  ASSUME NEW i \in InstanceType, NEW N \in Nodes, NEW j, j = [i EXCEPT !.nodes = N]
  PROVE  /\ j \in InstanceType /\ j.nodes = N /\ j.state = i.state /\ j.revision = i.revision
         /\ j.proposed = i.proposed
BY DEF InstanceType

LEMMA WriteRevision ==
  ASSUME NEW i \in InstanceType, NEW k \in Nat, NEW j, j = [i EXCEPT !.revision = k]
  PROVE  /\ j \in InstanceType /\ j.nodes = i.nodes /\ j.state = i.state /\ j.revision = k
         /\ j.proposed = i.proposed
BY DEF InstanceType

LEMMA WriteState ==
  ASSUME NEW i \in InstanceType, NEW s \in {"ACTIVE", "BLOCKED", "COMPLETED", "FAILED", "CANCELLED"}, NEW j, j = [i EXCEPT !.state = s]
  PROVE  /\ j \in InstanceType /\ j.nodes = i.nodes /\ j.state = s /\ j.revision = i.revision
         /\ j.proposed = i.proposed
BY DEF InstanceType

LEMMA WriteProposed ==
  ASSUME NEW i \in InstanceType, NEW P \in SUBSET Messages, NEW j, j = [i EXCEPT !.proposed = P]
  PROVE  /\ j \in InstanceType /\ j.nodes = i.nodes /\ j.state = i.state /\ j.revision = i.revision
         /\ j.proposed = P
BY DEF InstanceType

(* The nodes a ready one follows are done.                                  *)
LEMMA Satisfied ==
  ASSUME NEW i, NEW n, Workflow!predecessorsSatisfied(i, n)
  PROVE  \A p \in i.nodes[n].preds : i.nodes[p].state \in Allowed(i.nodes[n].stage)
<1>1. CASE i.nodes[n].stage \in Optional
  BY <1>1 DEF Workflow!predecessorsSatisfied, Workflow!Finished, Allowed
<1>2. CASE i.nodes[n].stage \notin Optional /\ i.nodes[n].stage \notin Repair
  BY <1>2 DEF Workflow!predecessorsSatisfied, Workflow!Finished, Allowed
<1>3. CASE i.nodes[n].stage \notin Optional /\ i.nodes[n].stage \in Repair
  BY <1>3 DEF Workflow!predecessorsSatisfied, Workflow!Finished, Allowed
<1> QED BY <1>1, <1>2, <1>3

(* Nodes move on: none that is done, and a pending one only when all it     *)
(* follows is done.                                                         *)
LEMMA NodesMove ==
  ASSUME NEW N, NEW M, DOMAIN M = DOMAIN N, Wired(N),
         \A n \in DOMAIN N :
           /\ M[n].stage = N[n].stage /\ M[n].preds = N[n].preds
           /\ \/ M[n].state = N[n].state
              \/ N[n].state \notin {"PENDING", "COMPLETED", "SKIPPED", "FAILED"}
              \/ N[n].state = "PENDING" /\ \A p \in N[n].preds : N[p].state \in Allowed(N[n].stage)
  PROVE  Wired(M) /\ (Ordered(N) => Ordered(M))
<1>1. Wired(M)
  BY DEF Wired
<1>2. ASSUME Ordered(N), NEW n \in DOMAIN N, M[n].state /= "PENDING", NEW p \in N[n].preds
      PROVE  M[p].state \in Allowed(N[n].stage)
  <2>1. \A s : Allowed(s) \subseteq {"COMPLETED", "SKIPPED", "FAILED"}
    BY DEF Allowed
  <2>2. p \in DOMAIN N
    BY <1>2 DEF Wired
  <2>3. N[p].state \in Allowed(N[n].stage)
    <3>1. CASE N[n].state /= "PENDING"
      BY <1>2, <3>1 DEF Ordered
    <3>2. CASE N[n].state = "PENDING"
      BY <1>2, <3>2
    <3> QED BY <3>1, <3>2
  <2>4. N[p].state \in {"COMPLETED", "SKIPPED", "FAILED"}
    BY <2>1, <2>3
  <2>5. M[p].state = N[p].state
    BY <2>1, <2>2, <2>3, <2>4
  <2> QED BY <2>3, <2>5
<1> QED BY <1>1, <1>2 DEF Ordered

LEMMA Refreshed ==
  ASSUME NEW i \in InstanceType, Wired(i.nodes), NEW r, r = Workflow!refreshWorkflowReadiness(i)
  PROVE  /\ r \in InstanceType /\ r.revision = i.revision /\ r.proposed = i.proposed /\ r.state \in {i.state, "COMPLETED"}
         /\ DOMAIN r.nodes = DOMAIN i.nodes /\ Wired(r.nodes) /\ (Ordered(i.nodes) => Ordered(r.nodes))
<1>1. PICK N : N = [n \in DOMAIN i.nodes |->
                      IF i.nodes[n].state = "PENDING" /\ Workflow!predecessorsSatisfied(i, n)
                      THEN [i.nodes[n] EXCEPT !.state = "READY"] ELSE i.nodes[n]]
  OBVIOUS
<1>2. PICK s : s = IF \A n \in DOMAIN i.nodes : i.nodes[n].state \in Workflow!Finished THEN "COMPLETED" ELSE i.state
  OBVIOUS
<1>3. i.nodes \in Nodes /\ DOMAIN i.nodes \in SUBSET NodeNames /\ i.nodes \in [DOMAIN i.nodes -> NodeType]
  BY InstanceFields, NodesAre
<1>4. \A m \in NodeType : LET k == [m EXCEPT !.state = "READY"] IN
        k \in NodeType /\ k.stage = m.stage /\ k.preds = m.preds /\ k.state = "READY"
  BY DEF NodeType
<1>5. N \in [DOMAIN i.nodes -> NodeType]
  BY <1>1, <1>3, <1>4
<1>6. N \in Nodes
  BY <1>3, <1>5, NodesMade
<1>7. \A n \in DOMAIN i.nodes :
        /\ N[n].stage = i.nodes[n].stage /\ N[n].preds = i.nodes[n].preds
        /\ \/ N[n].state = i.nodes[n].state
           \/ /\ i.nodes[n].state = "PENDING"
              /\ \A p \in i.nodes[n].preds : i.nodes[p].state \in Allowed(i.nodes[n].stage)
  <2> TAKE n \in DOMAIN i.nodes
  <2>1. CASE i.nodes[n].state = "PENDING" /\ Workflow!predecessorsSatisfied(i, n)
    BY <1>1, <1>3, <1>4, <2>1, Satisfied
  <2>2. CASE ~(i.nodes[n].state = "PENDING" /\ Workflow!predecessorsSatisfied(i, n))
    BY <1>1, <2>2
  <2> QED BY <2>1, <2>2
<1>8. DOMAIN N = DOMAIN i.nodes
  BY <1>1
<1>9. Wired(N) /\ (Ordered(i.nodes) => Ordered(N))
  BY <1>7, <1>8, NodesMove
<1>10. r = [i EXCEPT !.nodes = N, !.state = s]
  BY <1>1, <1>2 DEF Workflow!refreshWorkflowReadiness
<1>11. PICK j : j = [i EXCEPT !.nodes = N]
  OBVIOUS
<1>12. r = [j EXCEPT !.state = s]
  BY <1>10, <1>11
<1>13. j \in InstanceType /\ j.nodes = N /\ j.state = i.state /\ j.revision = i.revision /\ j.proposed = i.proposed
  BY <1>6, <1>11, WriteNodes
<1>14. s \in {i.state, "COMPLETED"} /\ s \in {"ACTIVE", "BLOCKED", "COMPLETED", "FAILED", "CANCELLED"}
  BY <1>2, InstanceFields
<1>15. r \in InstanceType /\ r.nodes = N /\ r.state = s /\ r.revision = i.revision /\ r.proposed = i.proposed
  BY <1>12, <1>13, <1>14, WriteState
<1> QED BY <1>8, <1>9, <1>14, <1>15

(* One node moves on that is neither pending nor done, or is only written   *)
(* to beside its state.                                                     *)
LEMMA NodeMoves ==
  ASSUME NEW i \in InstanceType, Wired(i.nodes), NEW n \in DOMAIN i.nodes, NEW k \in NodeType,
         k.stage = i.nodes[n].stage, k.preds = i.nodes[n].preds,
         k.state = i.nodes[n].state \/ i.nodes[n].state \notin {"PENDING", "COMPLETED", "SKIPPED", "FAILED"},
         NEW N, N = [i.nodes EXCEPT ![n] = k], NEW j, j = [i EXCEPT !.nodes = N]
  PROVE  /\ j \in InstanceType /\ j.revision = i.revision /\ j.proposed = i.proposed /\ j.state = i.state
         /\ DOMAIN j.nodes = DOMAIN i.nodes /\ Wired(j.nodes) /\ (Ordered(i.nodes) => Ordered(j.nodes))
         /\ j.nodes = N
<1>2. i.nodes \in Nodes /\ DOMAIN i.nodes \in SUBSET NodeNames /\ i.nodes \in [DOMAIN i.nodes -> NodeType]
  BY InstanceFields, NodesAre
<1>3. N \in [DOMAIN i.nodes -> NodeType] /\ DOMAIN N = DOMAIN i.nodes /\ N[n] = k
      /\ \A p \in DOMAIN i.nodes : p /= n => N[p] = i.nodes[p]
  BY <1>2
<1>4. N \in Nodes
  BY <1>2, <1>3, NodesMade
<1>5. Wired(N) /\ (Ordered(i.nodes) => Ordered(N))
  BY <1>3, NodesMove
<1>7. j \in InstanceType /\ j.nodes = N /\ j.state = i.state /\ j.revision = i.revision /\ j.proposed = i.proposed
  BY <1>4, WriteNodes
<1> QED BY <1>3, <1>5, <1>7

(* The node's state alone.                                                  *)
To(i, n, s) == [i EXCEPT !.nodes[n].state = s]
With(i, n, k) == [i EXCEPT !.nodes = [i.nodes EXCEPT ![n] = k]]

LEMMA ToIsWith ==
  ASSUME NEW i \in InstanceType, NEW n \in DOMAIN i.nodes, NEW s
  PROVE  To(i, n, s) = With(i, n, [i.nodes[n] EXCEPT !.state = s])
BY DEF To, With

LEMMA StateMoves ==
  ASSUME NEW i \in InstanceType, Wired(i.nodes), NEW n \in DOMAIN i.nodes,
         NEW s \in {"READY", "ADMITTED", "RUNNING", "BLOCKED", "COMPLETED", "SKIPPED", "FAILED"},
         i.nodes[n].state \notin {"PENDING", "COMPLETED", "SKIPPED", "FAILED"},
         NEW j, j = To(i, n, s)
  PROVE  /\ j \in InstanceType /\ j.revision = i.revision /\ j.proposed = i.proposed /\ j.state = i.state
         /\ DOMAIN j.nodes = DOMAIN i.nodes /\ Wired(j.nodes) /\ (Ordered(i.nodes) => Ordered(j.nodes))
<1>1. PICK k : k = [i.nodes[n] EXCEPT !.state = s]
  OBVIOUS
<1>2. i.nodes[n] \in NodeType
  BY InstanceFields, NodesAre
<1>3. k \in NodeType /\ k.stage = i.nodes[n].stage /\ k.preds = i.nodes[n].preds
  BY <1>1, <1>2 DEF NodeType
<1>4. PICK N : N = [i.nodes EXCEPT ![n] = k]
  OBVIOUS
<1>5. j = [i EXCEPT !.nodes = N]
  BY <1>1, <1>4, ToIsWith DEF With
<1>6. k.state = i.nodes[n].state \/ i.nodes[n].state \notin {"PENDING", "COMPLETED", "SKIPPED", "FAILED"}
  OBVIOUS
<1> QED BY <1>3, <1>4, <1>5, <1>6, NodeMoves

(* What a transition leaves: the same nodes, in order.                      *)
Follows(i, j) ==
  /\ j \in InstanceType /\ j.revision = i.revision /\ DOMAIN j.nodes = DOMAIN i.nodes /\ Wired(j.nodes)
  /\ j.state /= "CANCELLED" => Ordered(j.nodes)

Cancelled(i) ==
  [i EXCEPT !.state = "CANCELLED",
            !.nodes = [k \in DOMAIN i.nodes |-> IF i.nodes[k].state = "COMPLETED" THEN i.nodes[k]
                                                ELSE [i.nodes[k] EXCEPT !.state = "CANCELLED"]]]
Ended(i, n) == [To(i, n, "FAILED") EXCEPT !.state = "FAILED"]
Blocked(i, n) == [To(i, n, "BLOCKED") EXCEPT !.nodes[n].from = i.nodes[n].state, !.state = "BLOCKED"]
Restored(i, n) == [To(i, n, i.nodes[n].from) EXCEPT !.nodes[n].from = None, !.state = "ACTIVE"]

LEMMA TransitionCases ==
  ASSUME NEW i, NEW kind, NEW n, NEW for, NEW j, j = Workflow!applyWorkflowTransition(i, kind, n, for), j /= None
  PROVE  /\ ~Workflow!terminal(i)
         /\ \/ j = Cancelled(i)
            \/ i.nodes[n].state = "ADMITTED" /\ j = To(i, n, "RUNNING")
            \/ i.nodes[n].state = "RUNNING" /\ j = Workflow!refreshWorkflowReadiness(To(i, n, "COMPLETED"))
            \/ i.nodes[n].state = "READY" /\ j = Workflow!refreshWorkflowReadiness(To(i, n, "SKIPPED"))
            \/ i.nodes[n].state = "RUNNING" /\ j = Workflow!refreshWorkflowReadiness(To(i, n, "FAILED"))
            \/ i.nodes[n].state = "RUNNING" /\ j = Ended(i, n)
            \/ i.nodes[n].state \in {"READY", "ADMITTED", "RUNNING"} /\ j = Blocked(i, n)
            \/ i.nodes[n].state = "BLOCKED" /\ j = Restored(i, n)
            \/ j = i
<1>1. ~Workflow!terminal(i)
  BY DEF Workflow!applyWorkflowTransition
<1>2. CASE kind = "CANCEL"
  BY <1>1, <1>2 DEF Workflow!applyWorkflowTransition, Cancelled
<1>3. CASE kind = "START"
  BY <1>1, <1>3 DEF Workflow!applyWorkflowTransition, To
<1>4. CASE kind = "COMPLETE"
  BY <1>1, <1>4 DEF Workflow!applyWorkflowTransition, To
<1>5. CASE kind = "SKIP"
  BY <1>1, <1>5 DEF Workflow!applyWorkflowTransition, To
<1>6. CASE kind = "FAIL"
  BY <1>1, <1>6 DEF Workflow!applyWorkflowTransition, To
<1>7. CASE kind = "TERMINAL"
  BY <1>1, <1>7 DEF Workflow!applyWorkflowTransition, To, Ended
<1>8. CASE kind = "BLOCK"
  BY <1>1, <1>8 DEF Workflow!applyWorkflowTransition, To, Blocked
<1>9. CASE kind = "READY"
  BY <1>1, <1>9 DEF Workflow!applyWorkflowTransition, To, Restored
<1>10. CASE kind = "CHECKPOINT"
  BY <1>1, <1>10 DEF Workflow!applyWorkflowTransition
<1>11. CASE kind \notin Workflow!Kinds
  <2>1. /\ kind /= "CANCEL" /\ kind /= "START" /\ kind /= "COMPLETE" /\ kind /= "SKIP" /\ kind /= "FAIL"
        /\ kind /= "TERMINAL" /\ kind /= "BLOCK" /\ kind /= "READY" /\ kind /= "CHECKPOINT"
    BY <1>11 DEF Workflow!Kinds
  <2>2. Workflow!applyWorkflowTransition(i, kind, n, for) = None
    BY <1>1, <2>1 DEF Workflow!applyWorkflowTransition
  <2> QED BY <2>2
<1> QED BY <1>1, <1>2, <1>3, <1>4, <1>5, <1>6, <1>7, <1>8, <1>9, <1>10, <1>11 DEF Workflow!Kinds

LEMMA TransitionCancels ==
  ASSUME NEW i \in InstanceType, Wired(i.nodes), NEW j, j = Cancelled(i)
  PROVE  Follows(i, j)
<1>1. PICK N : N = [k \in DOMAIN i.nodes |-> IF i.nodes[k].state = "COMPLETED" THEN i.nodes[k]
                                             ELSE [i.nodes[k] EXCEPT !.state = "CANCELLED"]]
  OBVIOUS
<1>2. DOMAIN i.nodes \in SUBSET NodeNames /\ i.nodes \in [DOMAIN i.nodes -> NodeType]
  BY InstanceFields, NodesAre
<1>3. \A m \in NodeType : LET k == [m EXCEPT !.state = "CANCELLED"] IN
        k \in NodeType /\ k.stage = m.stage /\ k.preds = m.preds
  BY DEF NodeType
<1>4. N \in [DOMAIN i.nodes -> NodeType] /\ DOMAIN N = DOMAIN i.nodes
  BY <1>1, <1>2, <1>3
<1>5. N \in Nodes
  BY <1>2, <1>4, NodesMade
<1>6. \A n \in DOMAIN i.nodes : N[n].stage = i.nodes[n].stage /\ N[n].preds = i.nodes[n].preds
  BY <1>1, <1>2, <1>3
<1>7. Wired(N)
  BY <1>4, <1>6 DEF Wired
<1>8. PICK h : h = [i EXCEPT !.state = "CANCELLED"]
  OBVIOUS
<1>9. h \in InstanceType /\ h.nodes = i.nodes /\ h.state = "CANCELLED" /\ h.revision = i.revision
  BY <1>8, WriteState
<1>10. j = [h EXCEPT !.nodes = N]
  BY <1>1, <1>8 DEF Cancelled
<1>11. j \in InstanceType /\ j.nodes = N /\ j.state = "CANCELLED" /\ j.revision = i.revision
  BY <1>5, <1>9, <1>10, WriteNodes
<1> QED BY <1>4, <1>7, <1>11 DEF Follows

(* The node is moved, and the instance with it.                             *)
Marked(i, n, s, from, st) == [To(i, n, s) EXCEPT !.nodes[n].from = from, !.state = st]

LEMMA TransitionMarks ==
  ASSUME NEW i \in InstanceType, Wired(i.nodes), Ordered(i.nodes), NEW n \in DOMAIN i.nodes,
         NEW s \in {"READY", "ADMITTED", "RUNNING", "BLOCKED", "COMPLETED", "SKIPPED", "FAILED"},
         i.nodes[n].state \notin {"PENDING", "COMPLETED", "SKIPPED", "FAILED"},
         NEW from \in {"READY", "ADMITTED", "RUNNING", None}, NEW st \in {"ACTIVE", "BLOCKED"},
         NEW j, j = Marked(i, n, s, from, st)
  PROVE  Follows(i, j)
<1>1. PICK h : h = To(i, n, s)
  OBVIOUS
<1>2. h \in InstanceType /\ h.revision = i.revision /\ DOMAIN h.nodes = DOMAIN i.nodes /\ Wired(h.nodes) /\ Ordered(h.nodes)
  BY <1>1, StateMoves
<1>3. PICK k : k = [h.nodes[n] EXCEPT !.from = from]
  OBVIOUS
<1>4. h.nodes[n] \in NodeType
  BY <1>2, InstanceFields, NodesAre
<1>5. k \in NodeType /\ k.stage = h.nodes[n].stage /\ k.preds = h.nodes[n].preds /\ k.state = h.nodes[n].state
  BY <1>3, <1>4 DEF NodeType
<1>6. PICK N : N = [h.nodes EXCEPT ![n] = k]
  OBVIOUS
<1>7. PICK g : g = [h EXCEPT !.nodes = N]
  OBVIOUS
<1>8. g \in InstanceType /\ g.revision = h.revision /\ DOMAIN g.nodes = DOMAIN h.nodes /\ Wired(g.nodes) /\ Ordered(g.nodes)
  BY <1>2, <1>5, <1>6, <1>7, NodeMoves
<1>9. j = [g EXCEPT !.state = st]
  BY <1>1, <1>3, <1>6, <1>7 DEF Marked
<1>10. j \in InstanceType /\ j.nodes = g.nodes /\ j.revision = g.revision
  BY <1>8, <1>9, WriteState
<1> QED BY <1>2, <1>8, <1>10 DEF Follows

LEMMA Transition ==
  ASSUME NEW i \in InstanceType, InOrder(i), NEW n \in DOMAIN i.nodes, NEW kind, NEW for,
         NEW j, j = Workflow!applyWorkflowTransition(i, kind, n, for), j /= None
  PROVE  Follows(i, j)
<1>1. Wired(i.nodes) /\ Ordered(i.nodes) /\ i.state /= "CANCELLED"
  BY TransitionCases DEF InOrder, Workflow!terminal
<1>2. CASE j = Cancelled(i)
  BY <1>1, <1>2, TransitionCancels
<1>3. CASE i.nodes[n].state = "ADMITTED" /\ j = To(i, n, "RUNNING")
  BY <1>1, <1>3, StateMoves DEF Follows
<1>4. ASSUME NEW s \in {"COMPLETED", "SKIPPED", "FAILED"}, i.nodes[n].state \in {"READY", "RUNNING"},
             j = Workflow!refreshWorkflowReadiness(To(i, n, s))
      PROVE  Follows(i, j)
  <2>1. PICK h : h = To(i, n, s)
    OBVIOUS
  <2>2. h \in InstanceType /\ h.revision = i.revision /\ DOMAIN h.nodes = DOMAIN i.nodes /\ Wired(h.nodes) /\ Ordered(h.nodes)
        /\ h.state = i.state
    BY <1>1, <1>4, <2>1, StateMoves
  <2>3. j = Workflow!refreshWorkflowReadiness(h)
    BY <1>4, <2>1
  <2>4. /\ j \in InstanceType /\ j.revision = h.revision /\ DOMAIN j.nodes = DOMAIN h.nodes /\ Wired(j.nodes) /\ Ordered(j.nodes)
    BY <2>2, <2>3, Refreshed
  <2> QED BY <2>2, <2>4 DEF Follows
<1>5. CASE i.nodes[n].state = "RUNNING" /\ j = Ended(i, n)
  <2>1. PICK h : h = To(i, n, "FAILED")
    OBVIOUS
  <2>2. h \in InstanceType /\ h.revision = i.revision /\ DOMAIN h.nodes = DOMAIN i.nodes /\ Wired(h.nodes) /\ Ordered(h.nodes)
    BY <1>1, <1>5, <2>1, StateMoves
  <2>3. j = [h EXCEPT !.state = "FAILED"]
    BY <1>5, <2>1 DEF Ended
  <2>4. j \in InstanceType /\ j.revision = h.revision /\ j.nodes = h.nodes
    BY <2>2, <2>3, WriteState
  <2> QED BY <2>2, <2>4 DEF Follows
<1>6. CASE i.nodes[n].state \in {"READY", "ADMITTED", "RUNNING"} /\ j = Blocked(i, n)
  <2>1. PICK from : from = i.nodes[n].state
    OBVIOUS
  <2>2. from \in {"READY", "ADMITTED", "RUNNING", None} /\ j = Marked(i, n, "BLOCKED", from, "BLOCKED")
    BY <1>6, <2>1 DEF Blocked, Marked
  <2> QED BY <1>1, <1>6, <2>2, TransitionMarks
<1>7. CASE i.nodes[n].state = "BLOCKED" /\ j = Restored(i, n)
  <2>1. PICK from : from = i.nodes[n].from
    OBVIOUS
  <2>2. i.nodes[n] \in NodeType
    BY InstanceFields, NodesAre
  <2>3. from \in {"READY", "ADMITTED", "RUNNING"}
    BY <1>7, <2>1, <2>2 DEF NodeType, InOrder
  <2>4. j = Marked(i, n, from, None, "ACTIVE")
    BY <1>7, <2>1 DEF Restored, Marked
  <2> QED BY <1>1, <1>7, <2>3, <2>4, TransitionMarks
<1>8. CASE j = i
  BY <1>1, <1>8 DEF Follows
<1> QED BY <1>2, <1>3, <1>4, <1>5, <1>6, <1>7, <1>8, TransitionCases

(* New nodes in the place of an open one.                                   *)
Rewired(i, ph, D, n) == [i.nodes[n] EXCEPT !.preds = IF ph \in @ THEN (@ \ {ph}) \cup D ELSE @]
Expanded(i, ph, new) ==
  [n \in (DOMAIN i.nodes \ {ph}) \cup DOMAIN new |-> IF n \in DOMAIN new THEN new[n] ELSE Rewired(i, ph, DOMAIN new, n)]

Replacing(i, ph, D, new) ==
  /\ ph \in DOMAIN i.nodes /\ i.nodes[ph].state \in {"PENDING", "READY"} /\ ph \notin i.nodes[ph].preds
  /\ D \in SUBSET NodeNames /\ D /= {} /\ D \cap DOMAIN i.nodes = {} /\ new \in [D -> NodeType]
  /\ \A k \in D : new[k].state = "PENDING" /\ new[k].preds \subseteq (DOMAIN i.nodes \ {ph}) \cup D

LEMMA ExpandedNodes ==
  ASSUME NEW i \in InstanceType, Wired(i.nodes), NEW ph, NEW D, NEW new, Replacing(i, ph, D, new)
  PROVE  LET N == Expanded(i, ph, new) IN
         /\ N \in Nodes /\ DOMAIN N = (DOMAIN i.nodes \ {ph}) \cup D /\ Wired(N)
         /\ Ordered(i.nodes) => Ordered(N)
<1> DEFINE N == Expanded(i, ph, new)
<1>1. DOMAIN i.nodes \in SUBSET NodeNames /\ i.nodes \in [DOMAIN i.nodes -> NodeType]
  BY InstanceFields, NodesAre
<1>2. DOMAIN new = D /\ ph \in DOMAIN i.nodes /\ ph \notin D /\ D \in SUBSET NodeNames /\ D \cap DOMAIN i.nodes = {}
  BY DEF Replacing
<1>3. \A n \in DOMAIN i.nodes :
        /\ Rewired(i, ph, D, n) \in NodeType /\ Rewired(i, ph, D, n).stage = i.nodes[n].stage
        /\ Rewired(i, ph, D, n).state = i.nodes[n].state
        /\ Rewired(i, ph, D, n).preds = IF ph \in i.nodes[n].preds THEN (i.nodes[n].preds \ {ph}) \cup D ELSE i.nodes[n].preds
  BY <1>1, <1>2 DEF Rewired, NodeType
<1>4. DOMAIN N = (DOMAIN i.nodes \ {ph}) \cup D
  BY <1>2 DEF Expanded
<1>5. \A n \in D : N[n] = new[n] /\ N[n] \in NodeType
  BY <1>2 DEF Expanded, Replacing
<1>6. \A n \in DOMAIN i.nodes \ {ph} : N[n] = Rewired(i, ph, D, n)
  BY <1>2 DEF Expanded
<1>7. N \in [DOMAIN N -> NodeType]
  <2>1. N = [n \in DOMAIN N |-> N[n]]
    BY DEF Expanded
  <2>2. \A n \in DOMAIN N : N[n] \in NodeType
    BY <1>3, <1>4, <1>5, <1>6
  <2> QED BY <2>1, <2>2
<1>8. N \in Nodes
  <2>1. DOMAIN N \in SUBSET NodeNames
    BY <1>1, <1>2, <1>4
  <2> QED BY <1>7, <2>1, NodesMade
<1> HIDE DEF N
<1>9. \A n \in D : N[n].state = "PENDING" /\ N[n].preds \subseteq DOMAIN N
  BY <1>4, <1>5 DEF Replacing
<1>10. \A n \in DOMAIN i.nodes \ {ph} :
         /\ N[n].stage = i.nodes[n].stage /\ N[n].state = i.nodes[n].state
         /\ N[n].preds = IF ph \in i.nodes[n].preds THEN (i.nodes[n].preds \ {ph}) \cup D ELSE i.nodes[n].preds
  BY <1>3, <1>6
<1>11. \A n \in DOMAIN i.nodes \ {ph} : N[n].preds \subseteq DOMAIN N
  <2> TAKE n \in DOMAIN i.nodes \ {ph}
  <2>1. i.nodes[n].preds \subseteq DOMAIN i.nodes
    BY DEF Wired
  <2>2. N[n].preds \subseteq (i.nodes[n].preds \ {ph}) \cup D
    BY <1>10
  <2> QED BY <1>4, <2>1, <2>2
<1>12. Wired(N)
  BY <1>4, <1>9, <1>11 DEF Wired
<1>13. ASSUME Ordered(i.nodes), NEW n \in DOMAIN N, N[n].state /= "PENDING", NEW p \in N[n].preds
       PROVE  N[p].state \in Allowed(N[n].stage)
  <2>1. n \in DOMAIN i.nodes \ {ph}
    BY <1>4, <1>9, <1>13
  <2>2. \A q \in i.nodes[n].preds : i.nodes[q].state \in Allowed(i.nodes[n].stage)
    BY <1>10, <1>13, <2>1 DEF Ordered
  <2>3. ph \notin i.nodes[n].preds
    BY <2>2 DEF Allowed, Replacing
  <2>4. p \in i.nodes[n].preds /\ p \in DOMAIN i.nodes \ {ph}
    BY <1>10, <1>13, <2>1, <2>3 DEF Wired
  <2> QED BY <1>10, <2>1, <2>2, <2>4
<1>14. Ordered(i.nodes) => Ordered(N)
  BY <1>13 DEF Ordered
<1> QED BY <1>4, <1>8, <1>12, <1>14 DEF N

LEMMA Expansion ==
  ASSUME NEW i \in InstanceType, InOrder(i), NEW ph, NEW D, NEW new, Replacing(i, ph, D, new),
         NEW r, r = Workflow!ExpandWorkflowNode(i, ph, new)
  PROVE  /\ r \in InstanceType /\ DOMAIN r.nodes = (DOMAIN i.nodes \ {ph}) \cup D /\ Wired(r.nodes)
         /\ r.state /= "CANCELLED" => Ordered(r.nodes)
<1>1. PICK N : N = Expanded(i, ph, new)
  OBVIOUS
<1>2. /\ N \in Nodes /\ DOMAIN N = (DOMAIN i.nodes \ {ph}) \cup D /\ Wired(N)
      /\ Ordered(i.nodes) => Ordered(N)
  <2>1. Wired(i.nodes)
    BY DEF InOrder
  <2>2. LET M == Expanded(i, ph, new) IN
        /\ M \in Nodes /\ DOMAIN M = (DOMAIN i.nodes \ {ph}) \cup D /\ Wired(M)
        /\ Ordered(i.nodes) => Ordered(M)
    BY <2>1, ExpandedNodes
  <2> QED BY <1>1, <2>2
<1>3. PICK j : j = [i EXCEPT !.nodes = N]
  OBVIOUS
<1>4. j \in InstanceType /\ j.nodes = N /\ j.state = i.state /\ j.revision = i.revision
  BY <1>2, <1>3, WriteNodes
<1>5. PICK q : q = Workflow!refreshWorkflowReadiness(j)
  OBVIOUS
<1>6. q \in InstanceType /\ DOMAIN q.nodes = DOMAIN N /\ Wired(q.nodes) /\ (Ordered(N) => Ordered(q.nodes))
  BY <1>2, <1>4, <1>5, Refreshed
<1>7. r = [j EXCEPT !.nodes = q.nodes, !.revision = @ + 1]
  BY <1>1, <1>3, <1>5, Zenon DEF Workflow!ExpandWorkflowNode, Expanded, Rewired
<1>8. PICK h : h = [j EXCEPT !.nodes = q.nodes]
  OBVIOUS
<1>9. q.nodes \in Nodes
  BY <1>6, InstanceFields
<1>10. h \in InstanceType /\ h.nodes = q.nodes /\ h.state = i.state /\ h.revision = i.revision
  BY <1>4, <1>8, <1>9, WriteNodes
<1>11. PICK k \in Nat : k = i.revision + 1
  BY InstanceFields
<1>12. r = [h EXCEPT !.revision = k]
  BY <1>4, <1>7, <1>8, <1>11
<1>13. r \in InstanceType /\ r.nodes = q.nodes /\ r.state = i.state
  BY <1>10, <1>12, WriteRevision
<1> QED BY <1>2, <1>6, <1>13 DEF InOrder

(* What a validated instance has.                                           *)
LEMMA Validated ==
  ASSUME NEW i, Workflow!Validate(i), Wired(i.nodes), i.state /= "CANCELLED" => Ordered(i.nodes)
  PROVE  InOrder(i)
BY DEF Workflow!Validate, InOrder

Fresh == [Workflow!NewWorkflowInstance EXCEPT !.revision = 0]

LEMMA FreshInstance ==
  ASSUME NEW i, i = Fresh
  PROVE  i \in InstanceType /\ InOrder(i) /\ DOMAIN i.nodes = Stages
<1>1. PICK N : N = [s \in Stages |-> Workflow!Node(s, DependsOn[s], IF DependsOn[s] = {} THEN "READY" ELSE "PENDING")]
  OBVIOUS
<1>2. i = [state |-> "ACTIVE", revision |-> 0, proposed |-> {}, nodes |-> N]
  BY <1>1 DEF Fresh, Workflow!NewWorkflowInstance
<1>3. i.nodes = N /\ i.state = "ACTIVE" /\ DOMAIN N = Stages
  BY <1>1, <1>2
<1>4. \A s \in Stages : /\ N[s] \in NodeType /\ N[s].stage = s /\ N[s].preds = DependsOn[s] /\ N[s].attempt = 0
                        /\ N[s].state = IF DependsOn[s] = {} THEN "READY" ELSE "PENDING"
  <2> TAKE s \in Stages
  <2>1. DependsOn[s] \in SUBSET NodeNames
    BY WorkflowAssumption DEF NodeNames
  <2>2. N[s] = Workflow!Node(s, DependsOn[s], IF DependsOn[s] = {} THEN "READY" ELSE "PENDING")
    BY <1>1
  <2> QED BY <2>1, <2>2 DEF Workflow!Node, NodeType
<1>5. N \in [Stages -> NodeType]
  BY <1>1, <1>4
<1>6. N \in Nodes
  <2>1. Stages \in SUBSET NodeNames
    BY DEF NodeNames
  <2> QED BY <1>5, <2>1, NodesMade
<1>7. i \in InstanceType
  <2>1. PICK P : P = {}
    OBVIOUS
  <2>2. P \in SUBSET Messages
    BY <2>1
  <2>3. i = [state |-> "ACTIVE", revision |-> 0, proposed |-> P, nodes |-> N]
    BY <1>2, <2>1
  <2> QED BY <1>6, <2>2, <2>3 DEF InstanceType
<1>8. Wired(N) /\ Ordered(N)
  BY <1>3, <1>4, WorkflowAssumption DEF Wired, Ordered
<1>9. \A s \in Stages : s \notin N[s].preds
  BY <1>4, WorkflowAssumption
<1> QED BY <1>3, <1>4, <1>7, <1>8, <1>9 DEF InOrder

(* The instance is replaced by one that is in order.                        *)
LEMMA InstanceWritten ==
  ASSUME WorkflowInv, NEW r \in InstanceType, Workflow!Write(r), Wired(r.nodes), r.state /= "CANCELLED" => Ordered(r.nodes),
         messages' \in [Messages -> {"PENDING", "BOUND", "RESOLVED"}],
         \A m \in Messages \cap DOMAIN r.nodes : messages'[m] /= "PENDING"
  PROVE  WorkflowInv'
<1>1. instance' = r /\ InOrder(r)
  BY Validated DEF Workflow!Write
<1>2. instance' /= None
  BY <1>1, WorkflowAssumption
<1>3. WorkflowTypes' /\ Started' /\ BoundOnce'
  BY <1>1, <1>2 DEF WorkflowTypes, Started, BoundOnce
<1>4. InOrder(instance)'
  BY <1>1 DEF InOrder, Wired, Ordered
<1> QED BY <1>3, <1>4 DEF WorkflowInv

LEMMA NewNode ==
  ASSUME NEW s \in Stages, NEW P \in SUBSET NodeNames, NEW k, k = Workflow!Node(s, P, "PENDING")
  PROVE  k \in NodeType /\ k.stage = s /\ k.preds = P /\ k.state = "PENDING"
BY DEF Workflow!Node, NodeType

(* The open node of its stage is named after the message.                   *)
BindsTo(i, m) ==
  \E n \in Workflow!workflowNodeForStage(i, StageOf[m]) :
    Workflow!Write(Workflow!ExpandWorkflowNode(i, n, [x \in {m} |-> Workflow!Node(StageOf[m], i.nodes[n].preds, "PENDING")]))

LEMMA WorkflowBind ==
  ASSUME WorkflowInv, NEW m \in Messages, Workflow!BindMessageToWorkflow(m)
  PROVE  WorkflowInv'
<1>1. PICK i : i = IF instance = None THEN Fresh ELSE instance
  OBVIOUS
<1>2. i \in InstanceType /\ InOrder(i)
  BY <1>1, FreshInstance DEF WorkflowInv, WorkflowTypes
<1>3. /\ messages \in [Messages -> {"PENDING", "BOUND", "RESOLVED"}] /\ messages[m] = "PENDING"
      /\ messages' = [messages EXCEPT ![m] = "BOUND"]
  BY DEF WorkflowInv, WorkflowTypes, Workflow!BindMessageToWorkflow
<1>4. \A x \in Messages \cap DOMAIN i.nodes : messages[x] /= "PENDING"
  BY <1>1, FreshInstance, WorkflowAssumption DEF WorkflowInv, BoundOnce
<1>5. PICK n \in Workflow!workflowNodeForStage(i, StageOf[m]) :
        Workflow!Write(Workflow!ExpandWorkflowNode(i, n, [x \in {m} |-> Workflow!Node(StageOf[m], i.nodes[n].preds, "PENDING")]))
  <2>1. BindsTo(IF instance = None THEN [Workflow!NewWorkflowInstance EXCEPT !.revision = 0] ELSE instance, m)
    BY DEF Workflow!BindMessageToWorkflow, BindsTo
  <2>2. BindsTo(i, m)
    BY <1>1, <2>1 DEF Fresh
  <2> QED BY <2>2 DEF BindsTo
<1>6. n \in DOMAIN i.nodes /\ i.nodes[n].stage = StageOf[m] /\ i.nodes[n].state \in {"PENDING", "READY"}
  BY DEF Workflow!workflowNodeForStage
<1>7. i.nodes[n] \in NodeType /\ i.nodes[n].preds \in SUBSET NodeNames /\ n \notin i.nodes[n].preds
  <2>1. i.nodes[n] \in NodeType
    BY <1>2, <1>6, InstanceFields, NodesAre
  <2>2. i.nodes[n].preds \in SUBSET NodeNames
    BY <2>1 DEF NodeType
  <2>3. n \notin i.nodes[n].preds
    BY <1>2, <1>6 DEF InOrder
  <2> QED BY <2>1, <2>2, <2>3
<1>8. PICK k : k = Workflow!Node(StageOf[m], i.nodes[n].preds, "PENDING")
  OBVIOUS
<1>9. k \in NodeType /\ k.stage = StageOf[m] /\ k.preds = i.nodes[n].preds /\ k.state = "PENDING"
  BY <1>7, <1>8, NewNode, WorkflowAssumption
<1>10. PICK new : new = [x \in {m} |-> k]
  OBVIOUS
<1>11. new \in [{m} -> NodeType] /\ new[m] = k /\ {m} \in SUBSET NodeNames /\ {m} \cap DOMAIN i.nodes = {}
  BY <1>3, <1>4, <1>9, <1>10 DEF NodeNames
<1>12. Replacing(i, n, {m}, new)
  <2>1. i.nodes[n].preds \subseteq DOMAIN i.nodes \ {n}
    BY <1>2, <1>6, <1>7 DEF InOrder, Wired
  <2> QED BY <1>6, <1>7, <1>9, <1>11, <2>1 DEF Replacing
<1>13. PICK r : r = Workflow!ExpandWorkflowNode(i, n, new)
  OBVIOUS
<1>14. /\ r \in InstanceType /\ DOMAIN r.nodes = (DOMAIN i.nodes \ {n}) \cup {m} /\ Wired(r.nodes)
       /\ r.state /= "CANCELLED" => Ordered(r.nodes)
  BY <1>2, <1>12, <1>13, Expansion
<1>15. Workflow!Write(r)
  BY <1>5, <1>8, <1>10, <1>13
<1>16. \A x \in Messages \cap DOMAIN r.nodes : messages'[x] /= "PENDING"
  BY <1>3, <1>4, <1>14
<1>17. messages' \in [Messages -> {"PENDING", "BOUND", "RESOLVED"}]
  BY <1>3
<1> QED BY <1>14, <1>15, <1>16, <1>17, InstanceWritten

LEMMA WorkflowExpand ==
  ASSUME WorkflowInv, NEW s \in Stages, NEW ids \in Expansions, Workflow!Expand(s, ids)
  PROVE  WorkflowInv'
<1>1. /\ instance \in InstanceType /\ InOrder(instance) /\ ids /= {} /\ ids \cap DOMAIN instance.nodes = {}
      /\ UNCHANGED messages
  BY DEF Workflow!Expand, WorkflowInv, WorkflowTypes
<1>2. PICK n \in Workflow!workflowNodeForStage(instance, s) :
        \E wiring \in [ids -> SUBSET ((DOMAIN instance.nodes \ {n}) \cup ids)] :
          Workflow!Write(Workflow!ExpandWorkflowNode(instance, n, [k \in ids |-> Workflow!Node(s, wiring[k], "PENDING")]))
  BY DEF Workflow!Expand
<1>3. PICK wiring \in [ids -> SUBSET ((DOMAIN instance.nodes \ {n}) \cup ids)] :
        Workflow!Write(Workflow!ExpandWorkflowNode(instance, n, [k \in ids |-> Workflow!Node(s, wiring[k], "PENDING")]))
  BY <1>2
<1>4. n \in DOMAIN instance.nodes /\ instance.nodes[n].stage = s /\ instance.nodes[n].state \in {"PENDING", "READY"}
  BY DEF Workflow!workflowNodeForStage
<1>5. n \notin instance.nodes[n].preds
  BY <1>1, <1>4 DEF InOrder
<1>6. PICK new : new = [k \in ids |-> Workflow!Node(s, wiring[k], "PENDING")]
  OBVIOUS
<1>7. ids \in SUBSET NodeNames /\ (DOMAIN instance.nodes \ {n}) \cup ids \in SUBSET NodeNames
  <2>1. ids \in SUBSET NodeNames
    BY DEF NodeNames
  <2>2. DOMAIN instance.nodes \in SUBSET NodeNames
    BY <1>1, InstanceFields, NodesAre
  <2> QED BY <2>1, <2>2
<1>8. \A k \in ids : /\ new[k] \in NodeType /\ new[k].state = "PENDING"
                     /\ new[k].preds \subseteq (DOMAIN instance.nodes \ {n}) \cup ids
  <2> TAKE k \in ids
  <2>1. wiring[k] \in SUBSET NodeNames /\ wiring[k] \subseteq (DOMAIN instance.nodes \ {n}) \cup ids
    BY <1>7
  <2>2. new[k] = Workflow!Node(s, wiring[k], "PENDING")
    BY <1>6
  <2> QED BY <2>1, <2>2, NewNode
<1>9. new \in [ids -> NodeType]
  BY <1>6, <1>8
<1>10. Replacing(instance, n, ids, new)
  BY <1>1, <1>4, <1>5, <1>7, <1>8, <1>9 DEF Replacing
<1>11. PICK r : r = Workflow!ExpandWorkflowNode(instance, n, new)
  OBVIOUS
<1>12. /\ r \in InstanceType /\ DOMAIN r.nodes = (DOMAIN instance.nodes \ {n}) \cup ids /\ Wired(r.nodes)
       /\ r.state /= "CANCELLED" => Ordered(r.nodes)
  BY <1>1, <1>10, <1>11, Expansion
<1>13. Workflow!Write(r)
  BY <1>3, <1>6, <1>11
<1>14. \A k \in Messages \cap DOMAIN r.nodes : messages'[k] /= "PENDING"
  <2>1. instance /= None
    BY <1>1, WorkflowAssumption
  <2>2. Messages \cap ids = {}
    BY WorkflowAssumption
  <2> QED BY <1>1, <1>12, <2>1, <2>2 DEF WorkflowInv, BoundOnce
<1>15. messages' \in [Messages -> {"PENDING", "BOUND", "RESOLVED"}]
  BY <1>1 DEF WorkflowInv, WorkflowTypes
<1> QED BY <1>12, <1>13, <1>14, <1>15, InstanceWritten

(* A node is admitted only when it is ready.                                *)
LEMMA AdmittedReady ==
  ASSUME NEW i, NEW m, NEW facts, Workflow!workflowAdmissionReason(i, m, facts) = "ADMITTED"
  PROVE  m \in DOMAIN i.nodes /\ i.nodes[m].state = "READY"
BY DEF Workflow!workflowAdmissionReason

LEMMA AdmittedNode ==
  ASSUME NEW i \in InstanceType, NEW n \in DOMAIN i.nodes, NEW by \in Messages
  PROVE  \E k \in NodeType : /\ k.stage = i.nodes[n].stage /\ k.preds = i.nodes[n].preds
                             /\ Workflow!Admitted(i, n, by) = With(i, n, k)
<1>1. i.nodes[n] \in NodeType /\ i.nodes[n].attempt \in Nat
  <2>1. i.nodes[n] \in NodeType
    BY InstanceFields, NodesAre
  <2> QED BY <2>1 DEF NodeType
<1>2. PICK x : x = [i.nodes[n] EXCEPT !.state = "ADMITTED"]
  OBVIOUS
<1>3. PICK a \in Nat : a = i.nodes[n].attempt + 1
  BY <1>1
<1>4. PICK y : y = [x EXCEPT !.attempt = a]
  OBVIOUS
<1>5. PICK k : k = [y EXCEPT !.for = by]
  OBVIOUS
<1>6. x \in NodeType /\ x.stage = i.nodes[n].stage /\ x.preds = i.nodes[n].preds
  BY <1>1, <1>2 DEF NodeType
<1>7. y \in NodeType /\ y.stage = x.stage /\ y.preds = x.preds
  BY <1>3, <1>4, <1>6 DEF NodeType
<1>8. k \in NodeType /\ k.stage = y.stage /\ k.preds = y.preds
  BY <1>5, <1>7 DEF NodeType
<1>9. Workflow!Admitted(i, n, by) = With(i, n, k)
  BY <1>2, <1>3, <1>4, <1>5 DEF Workflow!Admitted, With
<1> QED BY <1>6, <1>7, <1>8, <1>9

LEMMA WorkflowAdmit ==
  ASSUME WorkflowInv, NEW m \in Messages, NEW facts, Workflow!Admit(m, facts)
  PROVE  WorkflowInv'
<1>1. /\ messages \in [Messages -> {"PENDING", "BOUND", "RESOLVED"}] /\ messages[m] = "BOUND"
      /\ messages' = [messages EXCEPT ![m] = "RESOLVED"]
  BY DEF Workflow!Admit, WorkflowInv, WorkflowTypes
<1>2. instance \in InstanceType /\ InOrder(instance) /\ instance /= None
  BY <1>1 DEF WorkflowInv, WorkflowTypes, Started
<1>3. PICK j : j = IF Workflow!workflowAdmissionReason(instance, m, facts) = "ADMITTED"
                   THEN Workflow!Admitted(instance, m, m) ELSE instance
  OBVIOUS
<1>4. Workflow!Write([j EXCEPT !.proposed = @ \cup {m}, !.revision = @ + 1])
  BY <1>3 DEF Workflow!Admit
<1>5. /\ j \in InstanceType /\ DOMAIN j.nodes = DOMAIN instance.nodes /\ Wired(j.nodes)
      /\ j.state /= "CANCELLED" => Ordered(j.nodes)
  <2>1. CASE Workflow!workflowAdmissionReason(instance, m, facts) = "ADMITTED"
    <3>1. m \in DOMAIN instance.nodes /\ instance.nodes[m].state = "READY"
      BY <2>1, AdmittedReady
    <3>2. PICK k \in NodeType : /\ k.stage = instance.nodes[m].stage /\ k.preds = instance.nodes[m].preds
                                /\ Workflow!Admitted(instance, m, m) = With(instance, m, k)
      BY <1>2, <3>1, AdmittedNode
    <3>3. PICK N : N = [instance.nodes EXCEPT ![m] = k]
      OBVIOUS
    <3>4. j = [instance EXCEPT !.nodes = N]
      BY <1>3, <2>1, <3>2, <3>3 DEF With
    <3>5. Wired(instance.nodes) /\ (instance.state /= "CANCELLED" => Ordered(instance.nodes))
      BY <1>2 DEF InOrder
    <3>6. /\ j \in InstanceType /\ j.state = instance.state
          /\ DOMAIN j.nodes = DOMAIN instance.nodes /\ Wired(j.nodes) /\ (Ordered(instance.nodes) => Ordered(j.nodes))
      BY <1>2, <3>1, <3>2, <3>3, <3>4, <3>5, NodeMoves
    <3> QED BY <3>5, <3>6
  <2>2. CASE Workflow!workflowAdmissionReason(instance, m, facts) /= "ADMITTED"
    BY <1>2, <1>3, <2>2 DEF InOrder
  <2> QED BY <2>1, <2>2
<1>6. PICK P \in SUBSET Messages : P = j.proposed \cup {m}
  <2>1. j.proposed \in SUBSET Messages
    BY <1>5, InstanceFields
  <2> QED BY <2>1
<1>7. PICK v \in Nat : v = j.revision + 1
  BY <1>5, InstanceFields
<1>8. PICK h : h = [j EXCEPT !.proposed = P]
  OBVIOUS
<1>9. PICK r : r = [h EXCEPT !.revision = v]
  OBVIOUS
<1>10. h \in InstanceType /\ h.nodes = j.nodes /\ h.state = j.state
  BY <1>5, <1>8, WriteProposed
<1>11. r \in InstanceType /\ r.nodes = j.nodes /\ r.state = j.state
  BY <1>9, <1>10, WriteRevision
<1>12. Workflow!Write(r)
  BY <1>4, <1>6, <1>7, <1>8, <1>9
<1>13. messages' \in [Messages -> {"PENDING", "BOUND", "RESOLVED"}]
  BY <1>1
<1>14. \A x \in Messages \cap DOMAIN r.nodes : messages'[x] /= "PENDING"
  BY <1>1, <1>2, <1>5, <1>11 DEF WorkflowInv, BoundOnce
<1>15. Wired(r.nodes) /\ (r.state /= "CANCELLED" => Ordered(r.nodes))
  BY <1>5, <1>11
<1> QED BY <1>11, <1>12, <1>13, <1>14, <1>15, InstanceWritten

LEMMA WorkflowRead ==
  ASSUME WorkflowInv, UNCHANGED <<instance, messages>>, request' = None \/ instance /= None
  PROVE  WorkflowInv'
<1>1. WorkflowTypes' /\ Started' /\ BoundOnce'
  BY DEF WorkflowInv, WorkflowTypes, Started, BoundOnce
<1>2. (instance /= None => InOrder(instance))'
  BY DEF WorkflowInv, InOrder, Wired, Ordered
<1> QED BY <1>1, <1>2 DEF WorkflowInv

LEMMA WorkflowApply ==
  ASSUME WorkflowInv, Workflow!ApplyWorkflowTransition
  PROVE  WorkflowInv'
<1>1. instance \in InstanceType /\ InOrder(instance) /\ instance /= None
  BY DEF WorkflowInv, WorkflowTypes, Started, Workflow!ApplyWorkflowTransition
<1>2. UNCHANGED messages /\ request' = None
  BY DEF Workflow!ApplyWorkflowTransition
<1>3. CASE UNCHANGED instance
  BY <1>2, <1>3, WorkflowRead
<1>4. CASE ~UNCHANGED instance
  <2>1. PICK j : j = Workflow!applyWorkflowTransition(instance, request.kind, request.node, request.for)
    OBVIOUS
  <2>2. request.node \in DOMAIN instance.nodes /\ j /= None /\ Workflow!Validate(j) /\ instance' = [j EXCEPT !.revision = @ + 1]
    BY <1>4, <2>1 DEF Workflow!ApplyWorkflowTransition
  <2>3. Follows(instance, j)
    BY <1>1, <2>1, <2>2, Transition
  <2>4. InOrder(j) /\ j \in InstanceType /\ j.revision \in Nat /\ DOMAIN j.nodes = DOMAIN instance.nodes
    BY <2>2, <2>3, Validated, InstanceFields DEF Follows
  <2>5. PICK v \in Nat : v = j.revision + 1
    BY <2>4
  <2>6. PICK r : r = [j EXCEPT !.revision = v]
    OBVIOUS
  <2>7. r \in InstanceType /\ r.nodes = j.nodes /\ r.state = j.state
    BY <2>4, <2>5, <2>6, WriteRevision
  <2>8. instance' = r
    BY <2>2, <2>5, <2>6
  <2>9. InOrder(instance)'
    BY <2>4, <2>7, <2>8 DEF InOrder, Wired, Ordered
  <2>10. instance' /= None
    BY <2>7, <2>8, WorkflowAssumption
  <2>11. WorkflowTypes' /\ Started' /\ BoundOnce'
    BY <1>1, <1>2, <2>4, <2>7, <2>8, <2>10 DEF WorkflowInv, WorkflowTypes, Started, BoundOnce
  <2> QED BY <2>9, <2>11 DEF WorkflowInv
<1> QED BY <1>3, <1>4

LEMMA WorkflowNext == WorkflowInv /\ Workflow!Next => WorkflowInv'
<1> SUFFICES ASSUME WorkflowInv, Workflow!Next PROVE WorkflowInv'
  OBVIOUS
<1>1. CASE \E m \in Messages : Workflow!BindMessageToWorkflow(m)
  BY <1>1, WorkflowBind
<1>2. CASE \E m \in Messages, valid, changed \in BOOLEAN : Workflow!Admit(m, [valid |-> valid, changed |-> changed])
  BY <1>2, WorkflowAdmit
<1>3. CASE \E s \in Stages, ids \in Expansions : Workflow!Expand(s, ids)
  BY <1>3, WorkflowExpand
<1>4. CASE \E kind \in Workflow!Kinds, n \in Stages \cup Messages \cup UNION Expansions : Workflow!ReadWorkflowInstance(kind, n)
  BY <1>4, WorkflowRead DEF Workflow!ReadWorkflowInstance
<1>5. CASE Workflow!ApplyWorkflowTransition
  BY <1>5, WorkflowApply
<1> QED BY <1>1, <1>2, <1>3, <1>4, <1>5 DEF Workflow!Next

-----------------------------------------------------------------------------
(* Two deployments.  What one has of a thread beyond the other it wrote     *)
(* itself; so the turn is never with both, and an envelope, posted only     *)
(* once its message is in the sender's thread, brings the message that      *)
(* follows there.                                                           *)

Ids == Sites \X Nat
FederatedMessage ==
  [thread : Federated!Threads, hop : Nat, sender : Actors, recipient : Actors, id : Ids, cause : Ids \cup {None}]
CallType ==
  [site : Sites, message : FederatedMessage, issued : Int,
   step : {"record", "post", "wait", "accepted", "failed", "gone"}, posts : Nat]
RequestType ==
  [call : Nat, post : Nat, state : {"sent", "transact", "accepted", "refused"}, due : BOOLEAN]

FederationTypes ==
  /\ threads \in [Sites -> [Federated!Threads -> Seq(FederatedMessage)]]
  /\ receipts \in [Sites -> SUBSET Nat]
  /\ calls \in Seq(CallType)
  /\ requests \subseteq RequestType
  /\ now \in Nat

(* The logs of a thread.                                                    *)
InLog(s, m) == m.hop \in 1 .. Len(threads[s][m.thread]) /\ threads[s][m.thread][m.hop] = m

Logs ==
  \A s \in Sites, t \in Federated!Threads : \A h \in 1 .. Len(threads[s][t]) :
    LET m == threads[s][t][h] IN
    /\ m.thread = t /\ m.hop = h
    /\ h <= Len(threads[Federated!Peer(s)][t]) => threads[Federated!Peer(s)][t][h] = m
    /\ Home[m.sender] /= s => h <= Len(threads[Federated!Peer(s)][t])
    /\ IF h = 1 THEN Home[m.sender] = Home[Opener[t]] ELSE m.sender = threads[s][t][h - 1].recipient

(* A call carries a message of its own deployment, in the thread from the   *)
(* first post on; one that is accepted is receipted.                        *)
Own(s, m) == Home[m.sender] = s /\ (m.hop = 1 => Home[Opener[m.thread]] = s)
CallsRecorded ==
  \A n \in 1 .. Len(calls) :
    /\ Own(calls[n].site, calls[n].message)
    /\ calls[n].step \in {"post", "wait", "accepted"} => InLog(calls[n].site, calls[n].message)
    /\ calls[n].step = "accepted" => n \in receipts[Federated!Peer(calls[n].site)]

RequestsRecorded ==
  \A r \in requests :
    /\ r.call \in 1 .. Len(calls) /\ InLog(calls[r.call].site, calls[r.call].message)
    /\ r.state = "accepted" => r.call \in receipts[Federated!Peer(calls[r.call].site)]

ReceiptsKept ==
  \A s \in Sites : \A n \in receipts[s] :
    n \in 1 .. Len(calls) /\ calls[n].site = Federated!Peer(s) /\ InLog(s, calls[n].message)

Receiving(s, m) == {n \in receipts[s] : calls[n].message = m}
Once(s, m) == \E c : Receiving(s, m) = {c}
ReceivedOnce ==
  \A s \in Sites, t \in Federated!Threads : \A h \in 1 .. Len(threads[s][t]) :
    Home[threads[s][t][h].sender] /= s => \E c : Receiving(s, threads[s][t][h]) = {c}

FederationInv == FederationTypes /\ Logs /\ CallsRecorded /\ RequestsRecorded /\ ReceiptsKept /\ ReceivedOnce

LEMMA Peers ==
  \A s \in Sites : /\ Federated!Peer(s) \in Sites /\ Federated!Peer(s) /= s
                   /\ \A o \in Sites : o /= s => o = Federated!Peer(s)
<1> TAKE s \in Sites
<1>1. \E o \in Sites : o /= s
  BY FederationAssumption
<1>2. Federated!Peer(s) \in Sites /\ Federated!Peer(s) /= s
  BY <1>1 DEF Federated!Peer
<1> QED BY <1>2, FederationAssumption

LEMMA PeerOfPeer == \A s \in Sites : Federated!Peer(Federated!Peer(s)) = s
BY Peers

(* What the types say of a log.                                             *)
LEMMA LogFields ==
  ASSUME FederationTypes, NEW s \in Sites, NEW t \in Federated!Threads
  PROVE  /\ threads[s][t] \in Seq(FederatedMessage) /\ Len(threads[s][t]) \in Nat
         /\ DOMAIN threads[s][t] = 1 .. Len(threads[s][t])
         /\ \A h \in 1 .. Len(threads[s][t]) : threads[s][t][h] \in FederatedMessage
<1>1. threads[s][t] \in Seq(FederatedMessage)
  BY DEF FederationTypes
<1> QED BY <1>1

LEMMA MessageFields ==
  ASSUME NEW m \in FederatedMessage
  PROVE  /\ m.thread \in Federated!Threads /\ m.hop \in Nat /\ m.sender \in Actors /\ m.recipient \in Actors
         /\ Home[m.sender] \in Sites /\ Home[m.recipient] \in Sites
BY FederationAssumption DEF FederatedMessage

LEMMA CallFields ==
  ASSUME FederationTypes, NEW n \in 1 .. Len(calls)
  PROVE  calls[n] \in CallType /\ calls[n].site \in Sites /\ calls[n].message \in FederatedMessage
<1>1. calls[n] \in CallType
  BY DEF FederationTypes
<1> QED BY <1>1 DEF CallType

LEMMA FederationProperty == FederationInv => Federated!ThreadsAgree
<1> SUFFICES ASSUME FederationInv PROVE Federated!ThreadsAgree
  OBVIOUS
<1>1. ASSUME NEW s \in Sites, NEW t \in Federated!Threads, NEW h \in DOMAIN threads[s][t]
      PROVE  LET m == threads[s][t][h] IN
             /\ h \in DOMAIN threads[Federated!Peer(s)][t] => threads[Federated!Peer(s)][t][h] = m
             /\ Home[m.sender] /= s =>
                  /\ h \in DOMAIN threads[Federated!Peer(s)][t]
                  /\ Federated!Cardinality({n \in receipts[s] : calls[n].message = m}) = 1
  <2>1. /\ DOMAIN threads[s][t] = 1 .. Len(threads[s][t]) /\ Len(threads[s][t]) \in Nat
        /\ DOMAIN threads[Federated!Peer(s)][t] = 1 .. Len(threads[Federated!Peer(s)][t])
        /\ Len(threads[Federated!Peer(s)][t]) \in Nat
    BY LogFields, Peers DEF FederationInv
  <2>2. /\ h <= Len(threads[Federated!Peer(s)][t]) => threads[Federated!Peer(s)][t][h] = threads[s][t][h]
        /\ Home[threads[s][t][h].sender] /= s => h <= Len(threads[Federated!Peer(s)][t])
    BY <2>1 DEF FederationInv, Logs
  <2>3. Home[threads[s][t][h].sender] /= s =>
          \E c : Receiving(s, threads[s][t][h]) = {c}
    BY <2>1 DEF FederationInv, ReceivedOnce
  <2>4. \A c : Federated!Cardinality({c}) = 1
    BY FS_Singleton DEF Federated!Cardinality, Cardinality
  <2>5. Home[threads[s][t][h].sender] /= s => Federated!Cardinality(Receiving(s, threads[s][t][h])) = 1
    BY <2>3, <2>4
  <2>6. /\ h \in DOMAIN threads[Federated!Peer(s)][t] => threads[Federated!Peer(s)][t][h] = threads[s][t][h]
        /\ Home[threads[s][t][h].sender] /= s => h \in DOMAIN threads[Federated!Peer(s)][t]
    BY <2>1, <2>2
  <2> QED BY <2>5, <2>6, Zenon DEF Receiving
<1>2. ASSUME NEW n \in DOMAIN calls, calls[n].step = "accepted"
      PROVE  calls[n].message \in {threads[Federated!Peer(calls[n].site)][calls[n].message.thread][h] :
               h \in DOMAIN threads[Federated!Peer(calls[n].site)][calls[n].message.thread]}
  <2>1. n \in 1 .. Len(calls)
    BY DEF FederationInv, FederationTypes
  <2>2. calls[n].site \in Sites /\ calls[n].message \in FederatedMessage /\ calls[n].message.thread \in Federated!Threads
    BY <2>1, CallFields, MessageFields DEF FederationInv
  <2>3. InLog(Federated!Peer(calls[n].site), calls[n].message)
    BY <1>2, <2>1, <2>2, Peers DEF FederationInv, CallsRecorded, ReceiptsKept
  <2> QED BY <2>2, <2>3, LogFields, Peers DEF FederationInv, InLog
<1> QED BY <1>1, <1>2 DEF Federated!ThreadsAgree

LEMMA FederationInit == Federated!Init => FederationInv
<1> SUFFICES ASSUME Federated!Init PROVE FederationInv
  OBVIOUS
<1>1. FederationTypes
  BY DEF Federated!Init, FederationTypes
<1>2. \A s \in Sites, t \in Federated!Threads : 1 .. Len(threads[s][t]) = {}
  BY DEF Federated!Init
<1>3. Len(calls) = 0 /\ requests = {} /\ \A s \in Sites : receipts[s] = {}
  BY DEF Federated!Init
<1> QED BY <1>1, <1>2, <1>3 DEF FederationInv, Logs, CallsRecorded, RequestsRecorded, ReceiptsKept, ReceivedOnce

(* A message is appended to a thread.                                       *)
LEMMA LogWritten ==
  ASSUME FederationTypes, NEW s \in Sites, NEW m \in FederatedMessage,
         Federated!advanceMessageThread(s, m), Federated!Advance(s, m)
  PROVE  /\ threads' \in [Sites -> [Federated!Threads -> Seq(FederatedMessage)]]
         /\ m.hop = Len(threads[s][m.thread]) + 1 /\ Len(threads'[s][m.thread]) = m.hop /\ threads'[s][m.thread][m.hop] = m
         /\ \A h \in 1 .. Len(threads[s][m.thread]) : threads'[s][m.thread][h] = threads[s][m.thread][h]
         /\ \A o \in Sites, t \in Federated!Threads : o /= s \/ t /= m.thread => threads'[o][t] = threads[o][t]
         /\ m.hop > 1 => m.sender = threads[s][m.thread][m.hop - 1].recipient
<1>1. m.thread \in Federated!Threads
  BY MessageFields
<1>2. PICK log \in Seq(FederatedMessage) : log = threads[s][m.thread]
  BY <1>1, LogFields
<1>3. Len(log) \in Nat /\ m.hop = Len(log) + 1 /\ (log /= <<>> => m.sender = log[Len(log)].recipient)
  BY <1>2 DEF Federated!advanceMessageThread
<1>4. PICK new : new = Append(log, m)
  OBVIOUS
<1>5. /\ new \in Seq(FederatedMessage) /\ Len(new) = Len(log) + 1 /\ new[Len(log) + 1] = m
      /\ \A h \in 1 .. Len(log) : new[h] = log[h]
  BY <1>2, <1>4
<1>6. threads' = [threads EXCEPT ![s][m.thread] = new]
  BY <1>2, <1>4 DEF Federated!Advance
<1>7. threads \in [Sites -> [Federated!Threads -> Seq(FederatedMessage)]]
  BY DEF FederationTypes
<1>8. /\ threads' \in [Sites -> [Federated!Threads -> Seq(FederatedMessage)]] /\ threads'[s][m.thread] = new
      /\ \A o \in Sites, t \in Federated!Threads : o /= s \/ t /= m.thread => threads'[o][t] = threads[o][t]
  BY <1>1, <1>5, <1>6, <1>7
<1>9. m.hop > 1 => m.sender = log[m.hop - 1].recipient
  <2>1. m.hop > 1 => log /= <<>> /\ m.hop - 1 = Len(log)
    BY <1>2, <1>3
  <2> QED BY <1>3, <2>1
<1> QED BY <1>2, <1>3, <1>5, <1>8, <1>9

(* Whoever writes a message of its own has the turn.                        *)
LEMMA TurnIsOnes ==
  ASSUME FederationTypes, Logs, NEW s \in Sites, NEW m \in FederatedMessage,
         Federated!advanceMessageThread(s, m), Federated!Advance(s, m), Own(s, m)
  PROVE  m.hop > Len(threads[Federated!Peer(s)][m.thread])
<1> DEFINE p == Federated!Peer(s)
           t == m.thread
<1>1. t \in Federated!Threads /\ p \in Sites /\ p /= s /\ Federated!Peer(p) = s
  BY MessageFields, Peers, PeerOfPeer
<1>2. Len(threads[s][t]) \in Nat /\ Len(threads[p][t]) \in Nat /\ m.hop = Len(threads[s][t]) + 1
      /\ (m.hop > 1 => m.sender = threads[s][t][m.hop - 1].recipient)
  BY <1>1, LogFields, LogWritten
<1> HIDE DEF p, t
<1>3. SUFFICES ASSUME m.hop <= Len(threads[p][t]) PROVE FALSE
  BY <1>2 DEF p, t
<1>4. PICK h : h = m.hop
  OBVIOUS
<1>5. h \in 1 .. Len(threads[p][t]) /\ ~(h <= Len(threads[s][t]))
  BY <1>2, <1>3, <1>4
<1>6. PICK x : x = threads[p][t][h]
  OBVIOUS
<1>7. /\ Home[x.sender] /= p => h <= Len(threads[s][t])
      /\ IF h = 1 THEN Home[x.sender] = Home[Opener[t]] ELSE x.sender = threads[p][t][h - 1].recipient
  BY <1>1, <1>5, <1>6 DEF Logs
<1>8. Home[x.sender] = s
  <2>1. CASE h = 1
    BY <1>4, <1>7, <2>1 DEF Own, t
  <2>2. CASE h /= 1
    <3>1. PICK g : g = h - 1
      OBVIOUS
    <3>2. g \in 1 .. Len(threads[s][t]) /\ g <= Len(threads[p][t]) /\ m.hop > 1
      BY <1>2, <1>4, <1>5, <2>2, <3>1
    <3>3. threads[p][t][g] = threads[s][t][g]
      BY <1>1, <3>2 DEF Logs, p
    <3>4. x.sender = m.sender
      BY <1>2, <1>4, <1>7, <2>2, <3>1, <3>2, <3>3
    <3> QED BY <3>4 DEF Own
  <2> QED BY <2>1, <2>2
<1> QED BY <1>1, <1>5, <1>7, <1>8

LEMMA LogsGrow ==
  ASSUME FederationTypes, Logs, NEW s \in Sites, NEW m \in FederatedMessage,
         Federated!advanceMessageThread(s, m), Federated!Advance(s, m), Own(s, m) \/ InLog(Federated!Peer(s), m)
  PROVE  Logs'
<1>1. m.thread \in Federated!Threads /\ Federated!Peer(s) \in Sites /\ Federated!Peer(s) /= s
      /\ Federated!Peer(Federated!Peer(s)) = s
  BY MessageFields, Peers, PeerOfPeer
<1>2. \A o \in Sites, t \in Federated!Threads : Len(threads[o][t]) \in Nat
  BY LogFields
<1>3. /\ threads' \in [Sites -> [Federated!Threads -> Seq(FederatedMessage)]]
      /\ m.hop = Len(threads[s][m.thread]) + 1 /\ Len(threads'[s][m.thread]) = m.hop /\ threads'[s][m.thread][m.hop] = m
      /\ \A h \in 1 .. Len(threads[s][m.thread]) : threads'[s][m.thread][h] = threads[s][m.thread][h]
      /\ \A o \in Sites, t \in Federated!Threads : o /= s \/ t /= m.thread => threads'[o][t] = threads[o][t]
      /\ m.hop > 1 => m.sender = threads[s][m.thread][m.hop - 1].recipient
  BY LogWritten
<1>4. m.hop <= Len(threads[Federated!Peer(s)][m.thread]) => threads[Federated!Peer(s)][m.thread][m.hop] = m
  BY <1>1, <1>2, <1>3, TurnIsOnes DEF InLog
<1>5. Home[m.sender] /= s => m.hop <= Len(threads[Federated!Peer(s)][m.thread])
  BY <1>1, <1>2 DEF Own, InLog
<1>6. IF m.hop = 1 THEN Home[m.sender] = Home[Opener[m.thread]] ELSE m.sender = threads'[s][m.thread][m.hop - 1].recipient
  <2>1. CASE m.hop = 1
    <3>1. CASE Own(s, m)
      BY <2>1, <3>1 DEF Own
    <3>2. CASE InLog(Federated!Peer(s), m)
      BY <1>1, <2>1, <3>2 DEF InLog, Logs
    <3> QED BY <3>1, <3>2
  <2>2. CASE m.hop /= 1
    <3>1. PICK g : g = m.hop - 1
      OBVIOUS
    <3>2. g \in 1 .. Len(threads[s][m.thread]) /\ m.hop > 1
      BY <1>1, <1>2, <1>3, <2>2, <3>1
    <3> QED BY <1>3, <2>2, <3>1, <3>2
  <2> QED BY <2>1, <2>2
<1>7. ASSUME NEW o \in Sites, NEW t \in Federated!Threads, NEW h \in 1 .. Len(threads'[o][t])
      PROVE  LET x == threads'[o][t][h] IN
             /\ x.thread = t /\ x.hop = h
             /\ h <= Len(threads'[Federated!Peer(o)][t]) => threads'[Federated!Peer(o)][t][h] = x
             /\ Home[x.sender] /= o => h <= Len(threads'[Federated!Peer(o)][t])
             /\ IF h = 1 THEN Home[x.sender] = Home[Opener[t]] ELSE x.sender = threads'[o][t][h - 1].recipient
  <2>1. CASE t /= m.thread
    <3>1. PICK p \in Sites : p = Federated!Peer(o)
      BY Peers
    <3>2. threads'[o][t] = threads[o][t] /\ threads'[p][t] = threads[p][t]
      BY <1>3, <2>1
    <3>3. PICK x : x = threads[o][t][h]
      OBVIOUS
    <3>4. /\ x.thread = t /\ x.hop = h
          /\ h <= Len(threads[p][t]) => threads[p][t][h] = x
          /\ Home[x.sender] /= o => h <= Len(threads[p][t])
          /\ IF h = 1 THEN Home[x.sender] = Home[Opener[t]] ELSE x.sender = threads[o][t][h - 1].recipient
      BY <1>7, <3>1, <3>2, <3>3 DEF Logs
    <3> QED BY <3>1, <3>2, <3>3, <3>4
  <2>2. CASE t = m.thread /\ o = s
    <3>1. threads'[Federated!Peer(s)][t] = threads[Federated!Peer(s)][t]
      BY <1>1, <1>3, <2>2
    <3>2. CASE h = m.hop
      BY <1>3, <1>4, <1>5, <1>6, <2>2, <3>1, <3>2
    <3>3. CASE h /= m.hop
      <4>1. h \in 1 .. Len(threads[s][t]) /\ (h /= 1 => h - 1 \in 1 .. Len(threads[s][t]))
        BY <1>1, <1>2, <1>3, <1>7, <2>2, <3>3
      <4>2. /\ threads'[s][t][h] = threads[s][t][h]
            /\ h /= 1 => threads'[s][t][h - 1] = threads[s][t][h - 1]
        BY <1>3, <2>2, <4>1
      <4>3. PICK x : x = threads[s][t][h]
        OBVIOUS
      <4>4. /\ x.thread = t /\ x.hop = h
            /\ h <= Len(threads[Federated!Peer(s)][t]) => threads[Federated!Peer(s)][t][h] = x
            /\ Home[x.sender] /= s => h <= Len(threads[Federated!Peer(s)][t])
            /\ IF h = 1 THEN Home[x.sender] = Home[Opener[t]] ELSE x.sender = threads[s][t][h - 1].recipient
        BY <4>1, <4>3 DEF Logs
      <4> QED BY <2>2, <3>1, <4>2, <4>3, <4>4
    <3> QED BY <3>2, <3>3
  <2>3. CASE t = m.thread /\ o = Federated!Peer(s)
    <3>1. threads'[o][t] = threads[o][t] /\ Federated!Peer(o) = s
      BY <1>1, <1>3, <2>3
    <3>2. h <= Len(threads'[s][t]) => threads'[s][t][h] = threads'[o][t][h]
      <4>1. CASE h = m.hop
        <5>1. threads[o][t][h] = m
          BY <1>1, <1>2, <1>4, <1>7, <2>3, <3>1, <4>1
        <5> QED BY <1>3, <2>3, <3>1, <4>1, <5>1
      <4>2. CASE h /= m.hop /\ h <= Len(threads'[s][t])
        <5>1. h \in 1 .. Len(threads[s][t])
          BY <1>1, <1>2, <1>3, <1>7, <2>3, <4>2
        <5>2. threads'[s][t][h] = threads[s][t][h]
          BY <1>3, <2>3, <5>1
        <5> QED BY <1>1, <1>2, <1>7, <2>3, <3>1, <5>1, <5>2 DEF Logs
      <4> QED BY <4>1, <4>2
    <3>3. Home[threads'[o][t][h].sender] /= o => h <= Len(threads'[s][t])
      BY <1>1, <1>2, <1>3, <1>7, <2>3, <3>1 DEF Logs
    <3> QED BY <1>7, <3>1, <3>2, <3>3 DEF Logs
  <2> QED BY <2>1, <2>2, <2>3, Peers
<1> QED BY <1>7 DEF Logs

-----------------------------------------------------------------------------
(* What no step undoes: a call stays what it is of, and a message stays in  *)
(* a log.                                                                   *)
CallsKept ==
  /\ calls' \in Seq(CallType) /\ Len(calls) <= Len(calls')
  /\ \A n \in 1 .. Len(calls) : calls'[n].site = calls[n].site /\ calls'[n].message = calls[n].message
LogsKept == \A o \in Sites, x \in FederatedMessage : InLog(o, x) => InLog(o, x)'

LEMMA CallsUnchanged ==
  ASSUME FederationTypes, UNCHANGED calls
  PROVE  CallsKept
BY DEF FederationTypes, CallsKept

LEMMA LogsUnchanged ==
  ASSUME UNCHANGED threads
  PROVE  LogsKept /\ (Logs => Logs')
BY DEF LogsKept, InLog, Logs

LEMMA LogsPersist ==
  ASSUME FederationTypes, NEW s \in Sites, NEW m \in FederatedMessage,
         Federated!advanceMessageThread(s, m), Federated!Advance(s, m)
  PROVE  LogsKept /\ InLog(s, m)'
<1>1. /\ m.hop = Len(threads[s][m.thread]) + 1 /\ Len(threads'[s][m.thread]) = m.hop /\ threads'[s][m.thread][m.hop] = m
      /\ \A h \in 1 .. Len(threads[s][m.thread]) : threads'[s][m.thread][h] = threads[s][m.thread][h]
      /\ \A o \in Sites, t \in Federated!Threads : o /= s \/ t /= m.thread => threads'[o][t] = threads[o][t]
  BY LogWritten
<1>2. m.thread \in Federated!Threads /\ Len(threads[s][m.thread]) \in Nat
  BY MessageFields, LogFields
<1>3. InLog(s, m)'
  BY <1>1, <1>2 DEF InLog
<1>4. ASSUME NEW o \in Sites, NEW x \in FederatedMessage, InLog(o, x) PROVE InLog(o, x)'
  <2>1. x.thread \in Federated!Threads
    BY MessageFields
  <2>2. CASE o /= s \/ x.thread /= m.thread
    BY <1>1, <1>4, <2>1, <2>2 DEF InLog
  <2>3. CASE o = s /\ x.thread = m.thread
    <3>1. x.hop \in 1 .. Len(threads[s][m.thread]) /\ threads[s][m.thread][x.hop] = x
      BY <1>4, <2>3 DEF InLog
    <3>2. x.hop \in 1 .. Len(threads'[s][m.thread]) /\ threads'[s][m.thread][x.hop] = x
      BY <1>1, <1>2, <3>1
    <3> QED BY <2>3, <3>2 DEF InLog
  <2> QED BY <2>2, <2>3
<1> QED BY <1>3, <1>4 DEF LogsKept

(* The receipts stay as they are.                                           *)
LEMMA ReceiptsStay ==
  ASSUME FederationInv, CallsKept, LogsKept, UNCHANGED receipts
  PROVE  ReceiptsKept' /\ \A s \in Sites : \A m : Receiving(s, m)' = Receiving(s, m)
<1>1. ASSUME NEW s \in Sites, NEW n \in receipts[s]
      PROVE  /\ n \in 1 .. Len(calls) /\ n \in 1 .. Len(calls')
             /\ calls'[n].message = calls[n].message /\ calls'[n].site = Federated!Peer(s)
             /\ InLog(s, calls[n].message)'
  <2>1. n \in 1 .. Len(calls) /\ calls[n].site = Federated!Peer(s) /\ InLog(s, calls[n].message)
    BY DEF FederationInv, ReceiptsKept
  <2>2. calls[n].message \in FederatedMessage /\ Len(calls) \in Nat
    BY <2>1, CallFields DEF FederationInv, FederationTypes
  <2>3. PICK x \in FederatedMessage : x = calls[n].message
    BY <2>2
  <2>4. InLog(s, x)'
    BY <2>1, <2>3 DEF LogsKept
  <2>5. n \in 1 .. Len(calls') /\ calls'[n].message = x /\ calls'[n].site = calls[n].site
    BY <2>1, <2>2, <2>3 DEF CallsKept
  <2>6. InLog(s, calls[n].message)'
    BY <2>4, <2>5 DEF InLog
  <2> QED BY <2>1, <2>3, <2>5, <2>6
<1>2. ASSUME NEW s \in Sites, NEW n \in receipts'[s]
      PROVE  n \in 1 .. Len(calls') /\ calls'[n].site = Federated!Peer(s) /\ InLog(s, calls[n].message)'
             /\ calls'[n].message = calls[n].message
  BY <1>1
<1>3. ReceiptsKept'
  BY <1>2 DEF ReceiptsKept, InLog
<1>4. ASSUME NEW s \in Sites, NEW m PROVE Receiving(s, m)' = Receiving(s, m)
  BY <1>1 DEF Receiving
<1> QED BY <1>3, <1>4

LEMMA ReceivedAt ==
  ASSUME ReceivedOnce, NEW s \in Sites, NEW t \in Federated!Threads, NEW h \in 1 .. Len(threads[s][t]),
         Home[threads[s][t][h].sender] /= s
  PROVE  Once(s, threads[s][t][h])
BY DEF ReceivedOnce, Once

(* Nothing is received: the threads stay, or take a message of their own    *)
(* deployment.                                                              *)
LEMMA ReceivedStays ==
  ASSUME FederationInv, CallsKept, UNCHANGED <<threads, receipts>>
  PROVE  ReceivedOnce'
<1>1. LogsKept
  BY LogsUnchanged
<1>2. \A s \in Sites : \A m : Receiving(s, m)' = Receiving(s, m)
  BY <1>1, ReceiptsStay
<1>3. ASSUME NEW s \in Sites, NEW t \in Federated!Threads, NEW h \in 1 .. Len(threads'[s][t]), Home[threads'[s][t][h].sender] /= s
      PROVE  \E c : Receiving(s, threads[s][t][h])' = {c}
  <2>1. PICK x : x = threads[s][t][h] /\ x = threads'[s][t][h]
    OBVIOUS
  <2>2. h \in 1 .. Len(threads[s][t])
    BY <1>3
  <2>3. \E c : Receiving(s, x) = {c}
    <3>1. Home[threads[s][t][h].sender] /= s
      BY <1>3, <2>1, <2>2
    <3>2. Once(s, threads[s][t][h])
      BY <2>2, <3>1, ReceivedAt DEF FederationInv
    <3> QED BY <2>1, <2>2, <3>2, Zenon DEF Once
  <2>4. \E c : Receiving(s, x)' = {c}
    BY <1>2, <2>3
  <2> QED BY <2>1, <2>4 DEF Receiving
<1> QED BY <1>3 DEF ReceivedOnce

LEMMA ReceivedNothing ==
  ASSUME FederationInv, CallsKept, UNCHANGED receipts, NEW s \in Sites, NEW m \in FederatedMessage,
         Federated!advanceMessageThread(s, m), Federated!Advance(s, m), Home[m.sender] = s
  PROVE  ReceivedOnce'
<1>1. FederationTypes /\ m.thread \in Federated!Threads
  BY MessageFields DEF FederationInv
<1>2. LogsKept
  BY <1>1, LogsPersist
<1>3. \A o \in Sites : \A x : Receiving(o, x)' = Receiving(o, x)
  BY <1>2, ReceiptsStay
<1>4. /\ m.hop = Len(threads[s][m.thread]) + 1 /\ Len(threads'[s][m.thread]) = m.hop /\ threads'[s][m.thread][m.hop] = m
      /\ \A h \in 1 .. Len(threads[s][m.thread]) : threads'[s][m.thread][h] = threads[s][m.thread][h]
      /\ \A o \in Sites, t \in Federated!Threads : o /= s \/ t /= m.thread => threads'[o][t] = threads[o][t]
  BY <1>1, LogWritten
<1>5. Len(threads[s][m.thread]) \in Nat
  BY <1>1, LogFields
<1>6. ASSUME NEW o \in Sites, NEW t \in Federated!Threads, NEW h \in 1 .. Len(threads'[o][t]), Home[threads'[o][t][h].sender] /= o
      PROVE  \E c : Receiving(o, threads[o][t][h])' = {c}
  <2>1. PICK x : x = threads'[o][t][h]
    OBVIOUS
  <2>2. h \in 1 .. Len(threads[o][t]) /\ x = threads[o][t][h]
    <3>1. CASE o = s /\ t = m.thread
      <4>1. h /= m.hop
        BY <1>4, <1>6, <3>1
      <4>2. h \in 1 .. Len(threads[s][m.thread])
        BY <1>4, <1>5, <1>6, <3>1, <4>1
      <4> QED BY <1>4, <2>1, <3>1, <4>2
    <3>2. CASE o /= s \/ t /= m.thread
      BY <1>4, <1>6, <2>1, <3>2
    <3> QED BY <3>1, <3>2
  <2>3. \E c : Receiving(o, x) = {c}
    <3>1. Home[threads[o][t][h].sender] /= o
      BY <1>6, <2>1, <2>2
    <3>2. Once(o, threads[o][t][h])
      BY <2>2, <3>1, ReceivedAt DEF FederationInv
    <3> QED BY <2>1, <2>2, <3>2, Zenon DEF Once
  <2>4. \E c : Receiving(o, x)' = {c}
    BY <1>3, <2>3
  <2> QED BY <2>1, <2>4 DEF Receiving
<1> QED BY <1>6 DEF ReceivedOnce

(* The calls, and the requests they have under way.                         *)
CallRecorded(n) ==
  /\ Own(calls[n].site, calls[n].message)
  /\ calls[n].step \in {"post", "wait", "accepted"} => InLog(calls[n].site, calls[n].message)
  /\ calls[n].step = "accepted" => n \in receipts[Federated!Peer(calls[n].site)]

ReceiptsGrow == \A s \in Sites : receipts[s] \subseteq receipts'[s]

LEMMA CallStays ==
  ASSUME FederationInv, CallsKept, LogsKept, ReceiptsGrow, NEW n \in 1 .. Len(calls),
         calls'[n].step = calls[n].step \/ calls'[n].step \notin {"post", "wait", "accepted"}
  PROVE  CallRecorded(n)'
<1>1. PICK c : c = calls[n]
  OBVIOUS
<1>2. /\ c.site \in Sites /\ c.message \in FederatedMessage /\ Federated!Peer(c.site) \in Sites
  BY <1>1, CallFields, Peers DEF FederationInv
<1>3. calls'[n].site = c.site /\ calls'[n].message = c.message
  BY <1>1 DEF CallsKept
<1>4. /\ Own(c.site, c.message)
      /\ c.step \in {"post", "wait", "accepted"} => InLog(c.site, c.message)
      /\ c.step = "accepted" => n \in receipts[Federated!Peer(c.site)]
  BY <1>1 DEF FederationInv, CallsRecorded
<1>5. /\ c.step \in {"post", "wait", "accepted"} => InLog(c.site, c.message)'
      /\ c.step = "accepted" => n \in receipts'[Federated!Peer(c.site)]
  BY <1>2, <1>4 DEF LogsKept, ReceiptsGrow
<1> QED BY <1>1, <1>3, <1>4, <1>5 DEF CallRecorded, InLog, Own

LEMMA RequestsStay ==
  ASSUME FederationInv, CallsKept, LogsKept,
         \A q \in requests' : /\ q.call \in 1 .. Len(calls) /\ InLog(calls[q.call].site, calls[q.call].message)
                              /\ q.state = "accepted" => q.call \in receipts'[Federated!Peer(calls[q.call].site)]
  PROVE  RequestsRecorded'
<1>1. ASSUME NEW q \in requests'
      PROVE  /\ q.call \in 1 .. Len(calls') /\ InLog(calls[q.call].site, calls[q.call].message)'
             /\ q.state = "accepted" => q.call \in receipts'[Federated!Peer(calls'[q.call].site)]
  <2>1. PICK c : c = calls[q.call]
    OBVIOUS
  <2>2. q.call \in 1 .. Len(calls) /\ InLog(c.site, c.message) /\ (q.state = "accepted" => q.call \in receipts'[Federated!Peer(c.site)])
    BY <2>1
  <2>3. c.site \in Sites /\ c.message \in FederatedMessage /\ Len(calls) \in Nat
    BY <2>1, <2>2, CallFields DEF FederationInv, FederationTypes
  <2>4. InLog(c.site, c.message)'
    BY <2>2, <2>3 DEF LogsKept
  <2>5. q.call \in 1 .. Len(calls') /\ calls'[q.call].site = c.site /\ calls'[q.call].message = c.message
    BY <2>1, <2>2, <2>3 DEF CallsKept
  <2> QED BY <2>2, <2>4, <2>5 DEF InLog
<1> QED BY <1>1 DEF RequestsRecorded

(* One call moves.                                                          *)
CallSteps == {"record", "post", "wait", "accepted", "failed", "gone"}

LEMMA CallReplaced ==
  ASSUME FederationTypes, NEW n \in 1 .. Len(calls), NEW j \in CallType,
         j.site = calls[n].site, j.message = calls[n].message, calls' = [calls EXCEPT ![n] = j]
  PROVE  /\ CallsKept /\ Len(calls') = Len(calls) /\ calls'[n] = j
         /\ \A k \in 1 .. Len(calls) : k /= n => calls'[k] = calls[k]
<1>1. calls \in Seq(CallType) /\ Len(calls) \in Nat /\ DOMAIN calls = 1 .. Len(calls)
  BY DEF FederationTypes
<1>2. calls' \in Seq(CallType) /\ Len(calls') = Len(calls)
  BY <1>1, ExceptSeq
<1>3. calls'[n] = j /\ \A k \in 1 .. Len(calls) : k /= n => calls'[k] = calls[k]
  BY <1>1
<1> QED BY <1>1, <1>2, <1>3 DEF CallsKept

LEMMA CallMoved ==
  ASSUME FederationTypes, NEW n \in 1 .. Len(calls), NEW step \in CallSteps, Federated!Call(n, step)
  PROVE  /\ CallsKept /\ Len(calls') = Len(calls) /\ calls'[n].step = step
         /\ \A k \in 1 .. Len(calls) : k /= n => calls'[k] = calls[k]
<1>1. PICK c \in CallType : c = calls[n]
  BY CallFields
<1>2. PICK j : j = [c EXCEPT !.step = step]
  OBVIOUS
<1>3. j \in CallType /\ j.site = c.site /\ j.message = c.message /\ j.step = step
  BY <1>1, <1>2 DEF CallType, CallSteps
<1>4. calls' = [calls EXCEPT ![n] = j]
  BY <1>1, <1>2 DEF Federated!Call, FederationTypes
<1> QED BY <1>1, <1>3, <1>4, CallReplaced

LEMMA CallPosted ==
  ASSUME FederationTypes, NEW n \in 1 .. Len(calls), Federated!sendOnce(n)
  PROVE  /\ CallsKept /\ Len(calls') = Len(calls) /\ calls'[n].step = "wait"
         /\ \A k \in 1 .. Len(calls) : k /= n => calls'[k] = calls[k]
<1>1. PICK c \in CallType : c = calls[n]
  BY CallFields
<1>2. PICK i : i = [c EXCEPT !.step = "wait"]
  OBVIOUS
<1>3. i \in CallType /\ i.site = c.site /\ i.message = c.message /\ i.step = "wait" /\ i.posts \in Nat
  BY <1>1, <1>2 DEF CallType
<1>4. PICK j : j = [i EXCEPT !.posts = @ + 1]
  OBVIOUS
<1>5. j \in CallType /\ j.site = c.site /\ j.message = c.message /\ j.step = "wait"
  BY <1>3, <1>4 DEF CallType
<1>6. calls' = [calls EXCEPT ![n] = j]
  BY <1>1, <1>2, <1>4 DEF Federated!sendOnce, FederationTypes
<1> QED BY <1>1, <1>5, <1>6, CallReplaced

(* Once a call moves, all are recorded if it is.                            *)
LEMMA CallsStay ==
  ASSUME FederationInv, CallsKept, LogsKept, ReceiptsGrow, NEW n \in 1 .. Len(calls), Len(calls') = Len(calls),
         \A k \in 1 .. Len(calls) : k /= n => calls'[k] = calls[k], CallRecorded(n)'
  PROVE  CallsRecorded'
<1>1. ASSUME NEW k \in 1 .. Len(calls') PROVE CallRecorded(k)'
  <2>1. CASE k = n
    BY <2>1
  <2>2. CASE k /= n
    BY <2>2, CallStays
  <2> QED BY <2>1, <2>2
<1> QED BY <1>1 DEF CallsRecorded, CallRecorded

LEMMA NoReceipt ==
  ASSUME UNCHANGED receipts
  PROVE  ReceiptsGrow
BY DEF ReceiptsGrow

-----------------------------------------------------------------------------
(* The sender's steps.                                                      *)

(* A role writes into a thread its deployment has or opens.                 *)
LEMMA WritesAreOwn ==
  ASSUME FederationInv, NEW s \in Sites, NEW m \in Federated!Writes(s), Home[m.sender] = s
  PROVE  m \in FederatedMessage /\ Own(s, m)
<1>1. FederationTypes
  BY DEF FederationInv
<1>2. PICK t \in {u \in Federated!Threads : threads[s][u] /= <<>> \/ Home[Opener[u]] = s}, a \in Actors, b \in Actors :
        m = Federated!Message(s, t, a, b, <<s, Len(calls) + 1>>)
  BY DEF Federated!Writes
<1>3. PICK log \in Seq(FederatedMessage) : log = threads[s][t]
  BY <1>1, <1>2, LogFields
<1>4. <<s, Len(calls) + 1>> \in Ids
  BY <1>1 DEF FederationTypes, Ids
<1>5. log /= <<>> => log[Len(log)].id \in Ids
  <2>1. log /= <<>> => log[Len(log)] \in FederatedMessage
    BY <1>3
  <2> QED BY <2>1 DEF FederatedMessage
<1>6. PICK cause \in Ids \cup {None} : cause = IF log = <<>> THEN None ELSE log[Len(log)].id
  BY <1>5
<1>7. m = [thread |-> t, hop |-> Len(log) + 1, sender |-> a, recipient |-> b, id |-> <<s, Len(calls) + 1>>, cause |-> cause]
  BY <1>2, <1>3, <1>6 DEF Federated!Message
<1>8. m \in FederatedMessage /\ m.hop = Len(log) + 1 /\ m.thread = t
  BY <1>2, <1>3, <1>4, <1>6, <1>7 DEF FederatedMessage
<1>9. m.hop = 1 => log = <<>>
  BY <1>3, <1>8
<1> QED BY <1>2, <1>3, <1>8, <1>9 DEF Own

LEMMA FederationSends ==
  ASSUME FederationInv, NEW s \in Sites, NEW m \in Federated!Writes(s) \cup Federated!Repeats(s), Federated!SendByAlias(s, m)
  PROVE  FederationInv'
<1>1. FederationTypes /\ calls \in Seq(CallType) /\ Len(calls) \in Nat /\ DOMAIN calls = 1 .. Len(calls)
  BY DEF FederationInv, FederationTypes
<1>2. m \in FederatedMessage /\ Own(s, m)
  <2>1. CASE m \in Federated!Writes(s)
    BY <2>1, WritesAreOwn DEF Federated!SendByAlias
  <2>2. CASE m \in Federated!Repeats(s)
    <3>1. PICK n \in 1 .. Len(calls) : calls[n].site = s /\ m = calls[n].message
      BY <1>1, <2>2 DEF Federated!Repeats
    <3> QED BY <1>1, <3>1, CallFields DEF FederationInv, CallsRecorded
  <2> QED BY <2>1, <2>2
<1>3. PICK e : e = Federated!NewFederatedEnvelope(s, m)
  OBVIOUS
<1>4. e \in CallType /\ e.site = s /\ e.message = m /\ e.step = "record"
  <2>1. now + Offset[s] \in Int
    BY <1>1, FederationAssumption DEF FederationTypes
  <2> QED BY <1>2, <1>3, <2>1 DEF CallType, Federated!NewFederatedEnvelope, Federated!Clock
<1>5. calls' = Append(calls, e)
  BY <1>3 DEF Federated!SendByAlias
<1>6. /\ calls' \in Seq(CallType) /\ Len(calls') = Len(calls) + 1 /\ calls'[Len(calls) + 1] = e
      /\ \A n \in 1 .. Len(calls) : calls'[n] = calls[n]
  BY <1>1, <1>4, <1>5
<1>7. CallsKept
  BY <1>1, <1>6 DEF CallsKept
<1>8. UNCHANGED <<threads, receipts, requests, now>>
  BY DEF Federated!SendByAlias
<1>9. LogsKept /\ Logs' /\ ReceiptsGrow
  BY <1>8, LogsUnchanged, NoReceipt DEF FederationInv
<1>10. FederationTypes'
  BY <1>1, <1>6, <1>8 DEF FederationTypes
<1>11. ReceiptsKept' /\ ReceivedOnce'
  BY <1>7, <1>8, <1>9, ReceiptsStay, ReceivedStays
<1>12. RequestsRecorded'
  BY <1>7, <1>8, <1>9, RequestsStay DEF FederationInv, RequestsRecorded
<1>13. ASSUME NEW n \in 1 .. Len(calls') PROVE CallRecorded(n)'
  <2>1. CASE n = Len(calls) + 1
    BY <1>2, <1>4, <1>6, <2>1 DEF CallRecorded, Own
  <2>2. CASE n \in 1 .. Len(calls)
    BY <1>6, <1>7, <1>9, <2>2, CallStays
  <2> QED BY <1>1, <1>6, <2>1, <2>2
<1>14. CallsRecorded'
  BY <1>13 DEF CallsRecorded, CallRecorded
<1> QED BY <1>9, <1>10, <1>11, <1>12, <1>14 DEF FederationInv

LEMMA FederationRecords ==
  ASSUME FederationInv, NEW n \in 1 .. Len(calls), Federated!RecordFederatedOutbound(n)
  PROVE  FederationInv'
<1>1. FederationTypes
  BY DEF FederationInv
<1>2. PICK s \in Sites, m \in FederatedMessage : s = calls[n].site /\ m = calls[n].message
  BY <1>1, CallFields
<1>3. Own(s, m)
  BY <1>2 DEF FederationInv, CallsRecorded
<1>4. UNCHANGED <<receipts, requests, now>> /\ ReceiptsGrow
  BY NoReceipt DEF Federated!RecordFederatedOutbound
<1>5. CASE Federated!advanceMessageThread(s, m) /\ Federated!Advance(s, m) /\ Federated!Call(n, "post")
  <2>1. /\ CallsKept /\ Len(calls') = Len(calls) /\ calls'[n].step = "post"
        /\ \A k \in 1 .. Len(calls) : k /= n => calls'[k] = calls[k]
    BY <1>1, <1>5, CallMoved DEF CallSteps
  <2>2. LogsKept /\ InLog(s, m)' /\ Logs'
    BY <1>1, <1>3, <1>5, LogsPersist, LogsGrow DEF FederationInv
  <2>3. FederationTypes'
    BY <1>1, <1>4, <1>5, <2>1, LogWritten DEF FederationTypes, CallsKept
  <2>4. ReceiptsKept' /\ ReceivedOnce'
    BY <1>3, <1>4, <1>5, <2>1, <2>2, ReceiptsStay, ReceivedNothing DEF Own
  <2>5. RequestsRecorded'
    BY <1>4, <2>1, <2>2, RequestsStay DEF FederationInv, RequestsRecorded
  <2>6. CallRecorded(n)'
    BY <1>2, <1>3, <2>1, <2>2 DEF CallRecorded, CallsKept, InLog, Own
  <2>7. CallsRecorded'
    BY <1>4, <2>1, <2>2, <2>6, CallsStay
  <2> QED BY <2>2, <2>3, <2>4, <2>5, <2>7 DEF FederationInv
<1>6. CASE Federated!Call(n, "failed") /\ UNCHANGED threads
  <2>1. /\ CallsKept /\ Len(calls') = Len(calls) /\ calls'[n].step = "failed"
        /\ \A k \in 1 .. Len(calls) : k /= n => calls'[k] = calls[k]
    BY <1>1, <1>6, CallMoved DEF CallSteps
  <2>2. LogsKept /\ Logs'
    BY <1>6, LogsUnchanged DEF FederationInv
  <2>3. FederationTypes'
    BY <1>1, <1>4, <1>6, <2>1 DEF FederationTypes, CallsKept
  <2>4. ReceiptsKept' /\ ReceivedOnce'
    BY <1>4, <1>6, <2>1, <2>2, ReceiptsStay, ReceivedStays
  <2>5. RequestsRecorded'
    BY <1>4, <2>1, <2>2, RequestsStay DEF FederationInv, RequestsRecorded
  <2>6. CallsRecorded'
    BY <1>4, <2>1, <2>2, CallStays, CallsStay
  <2> QED BY <2>2, <2>3, <2>4, <2>5, <2>6 DEF FederationInv
<1> QED BY <1>2, <1>5, <1>6 DEF Federated!RecordFederatedOutbound

(* A step that writes no thread.                                            *)
LEMMA ThreadsStay ==
  ASSUME FederationInv, CallsKept, UNCHANGED <<threads, receipts>>, now' \in Nat, requests' \subseteq RequestType, CallsRecorded',
         \A q \in requests' : /\ q.call \in 1 .. Len(calls) /\ InLog(calls[q.call].site, calls[q.call].message)
                              /\ q.state = "accepted" => q.call \in receipts[Federated!Peer(calls[q.call].site)]
  PROVE  FederationInv'
<1>1. LogsKept /\ Logs'
  BY LogsUnchanged DEF FederationInv
<1>2. ReceiptsKept' /\ ReceivedOnce'
  BY <1>1, ReceiptsStay, ReceivedStays
<1>3. RequestsRecorded'
  BY <1>1, RequestsStay
<1>4. FederationTypes'
  BY DEF FederationInv, FederationTypes, CallsKept
<1> QED BY <1>1, <1>2, <1>3, <1>4 DEF FederationInv

LEMMA FederationPosts ==
  ASSUME FederationInv, NEW n \in 1 .. Len(calls), Federated!sendOnce(n)
  PROVE  FederationInv'
<1>1. FederationTypes /\ UNCHANGED <<threads, receipts, now>> /\ calls[n].step = "post" /\ now' \in Nat
  BY DEF FederationInv, FederationTypes, Federated!sendOnce
<1>2. /\ CallsKept /\ Len(calls') = Len(calls) /\ calls'[n].step = "wait"
      /\ \A k \in 1 .. Len(calls) : k /= n => calls'[k] = calls[k]
  BY <1>1, CallPosted
<1>3. LogsKept /\ ReceiptsGrow
  BY <1>1, LogsUnchanged, NoReceipt
<1>4. PICK c : c = calls[n]
  OBVIOUS
<1>5. Own(c.site, c.message) /\ InLog(c.site, c.message) /\ c.posts \in Nat /\ calls'[n].site = c.site /\ calls'[n].message = c.message
  BY <1>1, <1>2, <1>4, CallFields DEF FederationInv, CallsRecorded, CallType, CallsKept
<1>6. CallRecorded(n)'
  BY <1>1, <1>2, <1>5 DEF CallRecorded, InLog, Own
<1>7. CallsRecorded'
  BY <1>2, <1>3, <1>6, CallsStay
<1>8. PICK q : q = [call |-> n, post |-> c.posts + 1, state |-> "sent", due |-> FALSE]
  OBVIOUS
<1>9. q \in RequestType /\ q.call = n /\ q.state = "sent"
  BY <1>5, <1>8 DEF RequestType
<1>10. requests' = requests \cup {q}
  BY <1>4, <1>8 DEF Federated!sendOnce
<1>11. requests' \subseteq RequestType
  BY <1>1, <1>9, <1>10 DEF FederationTypes
<1>12. ASSUME NEW r \in requests'
       PROVE  /\ r.call \in 1 .. Len(calls) /\ InLog(calls[r.call].site, calls[r.call].message)
              /\ r.state = "accepted" => r.call \in receipts[Federated!Peer(calls[r.call].site)]
  BY <1>4, <1>5, <1>9, <1>10 DEF FederationInv, RequestsRecorded
<1> QED BY <1>1, <1>2, <1>7, <1>11, <1>12, ThreadsStay

(* A call that waits is answered, posts again or gives up.                  *)
LEMMA FederationEnds ==
  ASSUME FederationInv, NEW n \in 1 .. Len(calls), NEW step \in {"post", "accepted", "failed"}, Federated!Call(n, step),
         calls[n].step = "wait", step = "accepted" => n \in receipts[Federated!Peer(calls[n].site)],
         requests' \subseteq requests, UNCHANGED <<threads, receipts, now>>
  PROVE  FederationInv'
<1>1. FederationTypes /\ now' \in Nat /\ requests' \subseteq RequestType
  BY DEF FederationInv, FederationTypes
<1>2. /\ CallsKept /\ Len(calls') = Len(calls) /\ calls'[n].step = step
      /\ \A k \in 1 .. Len(calls) : k /= n => calls'[k] = calls[k]
  BY <1>1, CallMoved DEF CallSteps
<1>3. LogsKept /\ ReceiptsGrow
  BY LogsUnchanged, NoReceipt
<1>4. PICK c : c = calls[n]
  OBVIOUS
<1>5. Own(c.site, c.message) /\ InLog(c.site, c.message) /\ calls'[n].site = c.site /\ calls'[n].message = c.message
  BY <1>2, <1>4 DEF FederationInv, CallsRecorded, CallsKept
<1>6. CallRecorded(n)'
  BY <1>2, <1>4, <1>5 DEF CallRecorded, InLog, Own
<1>7. CallsRecorded'
  BY <1>2, <1>3, <1>6, CallsStay
<1>8. ASSUME NEW r \in requests'
      PROVE  /\ r.call \in 1 .. Len(calls) /\ InLog(calls[r.call].site, calls[r.call].message)
             /\ r.state = "accepted" => r.call \in receipts[Federated!Peer(calls[r.call].site)]
  BY <1>8 DEF FederationInv, RequestsRecorded
<1> QED BY <1>1, <1>2, <1>7, <1>8, ThreadsStay

LEMMA FederationAnswered ==
  ASSUME FederationInv, NEW n \in 1 .. Len(calls), Federated!Answered(n) \/ Federated!Send(n)
  PROVE  FederationInv'
<1>1. requests' \subseteq requests /\ UNCHANGED <<threads, receipts, now>> /\ calls[n].step = "wait"
  BY DEF Federated!Answered, Federated!Send
<1>2. CASE Federated!Answered(n)
  <2>1. PICK r \in requests : /\ r.call = n
                              /\ Federated!Call(n, IF r.state = "accepted" THEN "accepted" ELSE "failed")
    BY <1>2 DEF Federated!Answered, Federated!Answer
  <2>2. r.state = "accepted" => n \in receipts[Federated!Peer(calls[n].site)]
    BY <2>1 DEF FederationInv, RequestsRecorded
  <2>3. PICK step \in {"post", "accepted", "failed"} : step = IF r.state = "accepted" THEN "accepted" ELSE "failed"
    OBVIOUS
  <2> QED BY <1>1, <2>1, <2>2, <2>3, FederationEnds
<1>3. CASE Federated!Send(n)
  <2>1. Federated!Call(n, "post") \/ Federated!Call(n, "failed")
    BY <1>3 DEF Federated!Send
  <2> QED BY <1>1, <2>1, FederationEnds
<1> QED BY <1>2, <1>3

-----------------------------------------------------------------------------
(* The receiver's steps.                                                    *)
LEMMA RequestBecomes ==
  ASSUME FederationTypes, NEW r \in requests, NEW state \in {"transact", "accepted", "refused"}, Federated!Becomes(r, state)
  PROVE  /\ requests' \subseteq RequestType
         /\ \A q \in requests' : q \in requests \/ (q.call = r.call /\ q.state = state)
<1>1. r \in RequestType
  BY DEF FederationTypes
<1>2. PICK due \in BOOLEAN : due = (state = "refused" /\ Federated!Deliverable(r))
  OBVIOUS
<1>3. PICK i : i = [r EXCEPT !.state = state]
  OBVIOUS
<1>4. i \in RequestType /\ i.call = r.call /\ i.state = state
  BY <1>1, <1>3 DEF RequestType
<1>5. PICK j : j = [i EXCEPT !.due = due]
  OBVIOUS
<1>6. j \in RequestType /\ j.call = r.call /\ j.state = state
  BY <1>4, <1>5 DEF RequestType
<1>7. j = [r EXCEPT !.state = state, !.due = (state = "refused" /\ Federated!Deliverable(r))]
  BY <1>2, <1>3, <1>5
<1>8. requests' \subseteq (requests \ {r}) \cup {j}
  BY <1>7 DEF Federated!Becomes
<1> QED BY <1>6, <1>8 DEF FederationTypes

LEMMA FederationAccepts ==
  ASSUME FederationInv, NEW r \in requests, NEW state \in {"transact", "accepted", "refused"}, Federated!Becomes(r, state),
         UNCHANGED <<threads, receipts, calls, now>>,
         state = "accepted" => r.call \in receipts[Federated!Peer(calls[r.call].site)]
  PROVE  FederationInv'
<1>1. FederationTypes /\ now' \in Nat
  BY DEF FederationInv, FederationTypes
<1>2. requests' \subseteq RequestType /\ \A q \in requests' : q \in requests \/ (q.call = r.call /\ q.state = state)
  BY <1>1, RequestBecomes
<1>3. CallsKept /\ CallsRecorded'
  BY <1>1, CallsUnchanged DEF FederationInv, CallsRecorded, InLog, Own
<1>4. ASSUME NEW q \in requests'
      PROVE  /\ q.call \in 1 .. Len(calls) /\ InLog(calls[q.call].site, calls[q.call].message)
             /\ q.state = "accepted" => q.call \in receipts[Federated!Peer(calls[q.call].site)]
  BY <1>2 DEF FederationInv, RequestsRecorded
<1> QED BY <1>1, <1>2, <1>3, <1>4, ThreadsStay

Brings(r, s, m) == s = Federated!Peer(calls[r.call].site) /\ m = calls[r.call].message

(* The message is the one that follows in the receiver's thread, so no      *)
(* receipt there is of it yet.                                              *)
LEMMA FederationReceives ==
  ASSUME FederationInv, NEW r \in requests, NEW s \in Sites, NEW m \in FederatedMessage,
         Brings(r, s, m),
         Federated!advanceMessageThread(s, m), Federated!Advance(s, m),
         receipts' = [receipts EXCEPT ![s] = @ \cup {r.call}], Federated!Becomes(r, "accepted"), UNCHANGED <<calls, now>>
  PROVE  FederationInv'
<1>1. FederationTypes /\ now' \in Nat /\ m.thread \in Federated!Threads /\ Len(threads[s][m.thread]) \in Nat
  BY MessageFields, LogFields DEF FederationInv, FederationTypes
<1>2. r.call \in 1 .. Len(calls) /\ r.call \in Nat /\ InLog(calls[r.call].site, m) /\ Own(calls[r.call].site, m)
      /\ calls[r.call].site \in Sites
  BY <1>1, CallFields DEF FederationInv, RequestsRecorded, CallsRecorded, Brings
<1>3. calls[r.call].site = Federated!Peer(s) /\ calls[r.call].site /= s
  BY <1>2, Peers, PeerOfPeer DEF Brings
<1>4. CallsKept
  BY <1>1, CallsUnchanged
<1>5. LogsKept /\ InLog(s, m)' /\ Logs'
  BY <1>1, <1>2, <1>3, LogsPersist, LogsGrow DEF FederationInv
<1>6. /\ receipts' \in [Sites -> SUBSET Nat] /\ receipts'[s] = receipts[s] \cup {r.call}
      /\ \A o \in Sites : o /= s => receipts'[o] = receipts[o]
  BY <1>1, <1>2 DEF FederationTypes
<1>7. ReceiptsGrow
  BY <1>6 DEF ReceiptsGrow
<1>8. requests' \subseteq RequestType /\ \A q \in requests' : q \in requests \/ (q.call = r.call /\ q.state = "accepted")
  BY <1>1, RequestBecomes
<1>9. FederationTypes'
  BY <1>1, <1>6, <1>8, LogWritten DEF FederationTypes
<1>10. CallsRecorded'
  <2>1. ASSUME NEW n \in 1 .. Len(calls') PROVE CallRecorded(n)'
    BY <1>4, <1>5, <1>7, CallStays
  <2> QED BY <2>1 DEF CallsRecorded, CallRecorded
<1>11. RequestsRecorded'
  <2>1. ASSUME NEW q \in requests'
        PROVE  /\ q.call \in 1 .. Len(calls) /\ InLog(calls[q.call].site, calls[q.call].message)
               /\ q.state = "accepted" => q.call \in receipts'[Federated!Peer(calls[q.call].site)]
    <3>1. CASE q.call = r.call
      BY <1>2, <1>6, <3>1 DEF Brings
    <3>2. CASE q \in requests /\ q.call /= r.call
      <4>1. /\ q.call \in 1 .. Len(calls) /\ InLog(calls[q.call].site, calls[q.call].message)
            /\ q.state = "accepted" => q.call \in receipts[Federated!Peer(calls[q.call].site)]
        BY <3>2 DEF FederationInv, RequestsRecorded
      <4>2. Federated!Peer(calls[q.call].site) \in Sites
        BY <1>1, <4>1, CallFields, Peers
      <4> QED BY <1>7, <4>1, <4>2 DEF ReceiptsGrow
    <3> QED BY <1>8, <2>1, <3>1, <3>2
  <2> QED BY <1>4, <1>5, <2>1, RequestsStay
<1>12. ReceiptsKept'
  <2>1. ASSUME NEW o \in Sites, NEW n \in receipts'[o]
        PROVE  n \in 1 .. Len(calls) /\ calls[n].site = Federated!Peer(o) /\ InLog(o, calls[n].message)'
    <3>1. CASE n \in receipts[o]
      <4>1. n \in 1 .. Len(calls) /\ calls[n].site = Federated!Peer(o) /\ InLog(o, calls[n].message)
        BY <3>1 DEF FederationInv, ReceiptsKept
      <4>2. PICK x \in FederatedMessage : x = calls[n].message /\ x = calls'[n].message
        BY <1>1, <4>1, CallFields
      <4>3. InLog(o, x)'
        BY <1>5, <4>1, <4>2 DEF LogsKept
      <4> QED BY <4>1, <4>2, <4>3 DEF InLog
    <3>2. CASE n \notin receipts[o]
      <4>1. o = s /\ n = r.call
        BY <1>6, <2>1, <3>2
      <4> QED BY <1>2, <1>3, <1>5, <4>1 DEF InLog, Brings
    <3> QED BY <3>1, <3>2
  <2> QED BY <2>1 DEF ReceiptsKept
<1>13. /\ m.hop = Len(threads[s][m.thread]) + 1 /\ Len(threads'[s][m.thread]) = m.hop /\ threads'[s][m.thread][m.hop] = m
       /\ \A h \in 1 .. Len(threads[s][m.thread]) : threads'[s][m.thread][h] = threads[s][m.thread][h]
       /\ \A o \in Sites, t \in Federated!Threads : o /= s \/ t /= m.thread => threads'[o][t] = threads[o][t]
  BY <1>1, LogWritten
<1>14. Receiving(s, m)' = {r.call}
  <2>1. ~InLog(s, m)
    BY <1>1, <1>13 DEF InLog
  <2>2. \A n \in receipts[s] : calls[n].message /= m
    BY <2>1 DEF FederationInv, ReceiptsKept
  <2> QED BY <1>6, <2>2 DEF Receiving, Brings
<1>15. ASSUME NEW o \in Sites, NEW x, o /= s \/ x /= m PROVE Receiving(o, x)' = Receiving(o, x)
  BY <1>6, <1>15 DEF Receiving, Brings
<1>16. ASSUME NEW o \in Sites, NEW t \in Federated!Threads, NEW h \in 1 .. Len(threads'[o][t]), Home[threads'[o][t][h].sender] /= o
       PROVE  \E c : Receiving(o, threads[o][t][h])' = {c}
  <2>1. PICK x : x = threads'[o][t][h]
    OBVIOUS
  <2>2. CASE o = s /\ t = m.thread /\ h = m.hop
    <3>1. x = m
      BY <1>13, <2>1, <2>2
    <3>2. Receiving(o, x)' = {r.call}
      BY <1>14, <2>2, <3>1
    <3> QED BY <2>1, <3>2 DEF Receiving
  <2>3. CASE ~(o = s /\ t = m.thread /\ h = m.hop)
    <3>1. h \in 1 .. Len(threads[o][t]) /\ x = threads[o][t][h]
      <4>1. CASE o = s /\ t = m.thread
        <5>1. h \in 1 .. Len(threads[s][m.thread])
          BY <1>1, <1>13, <1>16, <2>3, <4>1
        <5> QED BY <1>13, <2>1, <4>1, <5>1
      <4>2. CASE o /= s \/ t /= m.thread
        BY <1>13, <1>16, <2>1, <4>2
      <4> QED BY <4>1, <4>2
    <3>2. x.thread = t /\ x.hop = h
      BY <3>1 DEF FederationInv, Logs
    <3>3. o /= s \/ x /= m
      BY <2>3, <3>2
    <3>4. Home[threads[o][t][h].sender] /= o
      BY <1>16, <2>1, <3>1
    <3>5. Once(o, threads[o][t][h])
      BY <3>1, <3>4, ReceivedAt DEF FederationInv
    <3>6. \E c : Receiving(o, x) = {c}
      BY <3>1, <3>5, Zenon DEF Once
    <3>7. \E c : Receiving(o, x)' = {c}
      BY <1>15, <3>3, <3>6
    <3> QED BY <2>1, <3>7 DEF Receiving
  <2> QED BY <2>2, <2>3
<1>17. ReceivedOnce'
  BY <1>16 DEF ReceivedOnce
<1> QED BY <1>5, <1>9, <1>10, <1>11, <1>12, <1>17 DEF FederationInv

LEMMA FederationAnswers ==
  ASSUME FederationInv, NEW r \in requests, Federated!Accept(r) \/ Federated!AcceptFederatedMessage(r)
  PROVE  FederationInv'
<1>1. r.call \in 1 .. Len(calls)
  BY DEF FederationInv, RequestsRecorded
<1>2. calls[r.call].site \in Sites /\ calls[r.call].message \in FederatedMessage
  BY <1>1, CallFields DEF FederationInv
<1>3. PICK s \in Sites, m \in FederatedMessage : Brings(r, s, m)
  BY <1>2, Peers DEF Brings
<1>4. CASE Federated!Accept(r)
  <2>1. UNCHANGED <<threads, receipts, calls, now>>
    BY <1>4 DEF Federated!Accept
  <2>2. \/ Federated!Becomes(r, "refused")
        \/ Federated!Becomes(r, "accepted") /\ r.call \in receipts[Federated!Peer(calls[r.call].site)]
        \/ Federated!Becomes(r, "transact")
    BY <1>4 DEF Federated!Accept, Federated!readFederationReceipt, Federated!At
  <2> QED BY <2>1, <2>2, FederationAccepts
<1>5. CASE Federated!AcceptFederatedMessage(r)
  <2>1. UNCHANGED <<calls, now>>
    BY <1>5 DEF Federated!AcceptFederatedMessage
  <2>2. s = Federated!At(r) /\ m = calls[r.call].message
    BY <1>3 DEF Brings, Federated!At
  <2>3. \/ /\ Federated!advanceMessageThread(s, m) /\ Federated!Advance(s, m)
           /\ receipts' = [receipts EXCEPT ![s] = @ \cup {r.call}]
           /\ Federated!Becomes(r, "accepted")
        \/ Federated!Becomes(r, "refused") /\ UNCHANGED <<threads, receipts>>
    BY <1>5, <2>2 DEF Federated!AcceptFederatedMessage
  <2>4. CASE Federated!Becomes(r, "refused") /\ UNCHANGED <<threads, receipts>>
    BY <2>1, <2>4, FederationAccepts
  <2>5. CASE /\ Federated!advanceMessageThread(s, m) /\ Federated!Advance(s, m)
             /\ receipts' = [receipts EXCEPT ![s] = @ \cup {r.call}]
             /\ Federated!Becomes(r, "accepted")
    BY <1>3, <2>1, <2>5, FederationReceives
  <2> QED BY <2>3, <2>4, <2>5
<1> QED BY <1>4, <1>5

-----------------------------------------------------------------------------
(* What else happens at a deployment.                                       *)
LEMMA FederationAppends ==
  ASSUME FederationInv, NEW s \in Sites, NEW w \in Federated!Writes(s), Federated!AppendMessage(s, [w EXCEPT !.id = <<s, 0>>])
  PROVE  FederationInv'
<1>1. FederationTypes
  BY DEF FederationInv
<1>2. \E f : w = [thread |-> f.thread, hop |-> f.hop, sender |-> f.sender, recipient |-> f.recipient, id |-> f.id, cause |-> f.cause]
  <2>1. PICK t \in Federated!Threads, a \in Actors, b \in Actors : w = Federated!Message(s, t, a, b, <<s, Len(calls) + 1>>)
    BY DEF Federated!Writes
  <2> QED BY <2>1, Zenon DEF Federated!Message
<1>3. PICK m : m = [w EXCEPT !.id = <<s, 0>>]
  OBVIOUS
<1>4. m.sender = w.sender /\ m.thread = w.thread /\ m.hop = w.hop
  BY <1>2, <1>3
<1>5. Home[m.sender] = s /\ Federated!advanceMessageThread(s, m) /\ Federated!Advance(s, m) /\ UNCHANGED <<receipts, calls, requests, now>>
  BY <1>3 DEF Federated!AppendMessage
<1>6. w \in FederatedMessage /\ Own(s, w)
  BY <1>4, <1>5, WritesAreOwn
<1>7. <<s, 0>> \in Ids
  BY DEF Ids
<1>8. m \in FederatedMessage
  BY <1>3, <1>6, <1>7 DEF FederatedMessage
<1>9. Own(s, m)
  BY <1>4, <1>6 DEF Own
<1>10. CallsKept /\ ReceiptsGrow
  BY <1>1, <1>5, CallsUnchanged, NoReceipt
<1>11. LogsKept /\ Logs'
  BY <1>1, <1>5, <1>8, <1>9, LogsPersist, LogsGrow DEF FederationInv
<1>12. FederationTypes'
  BY <1>1, <1>5, <1>8, LogWritten DEF FederationTypes
<1>13. ReceiptsKept' /\ ReceivedOnce'
  BY <1>5, <1>8, <1>10, <1>11, ReceiptsStay, ReceivedNothing
<1>14. RequestsRecorded'
  BY <1>5, <1>10, <1>11, RequestsStay DEF FederationInv, RequestsRecorded
<1>15. CallsRecorded'
  <2>1. ASSUME NEW n \in 1 .. Len(calls') PROVE CallRecorded(n)'
    BY <1>5, <1>10, <1>11, CallStays
  <2> QED BY <2>1 DEF CallsRecorded, CallRecorded
<1> QED BY <1>11, <1>12, <1>13, <1>14, <1>15 DEF FederationInv

LEMMA FederationStops ==
  ASSUME FederationInv, NEW s \in Sites, NEW configured \in BOOLEAN, Federated!Stop(s, configured)
  PROVE  FederationInv'
<1>1. FederationTypes /\ UNCHANGED <<threads, receipts, now>> /\ requests' \subseteq requests
  BY DEF FederationInv, Federated!Stop
<1>2. calls \in Seq(CallType) /\ Len(calls) \in Nat /\ DOMAIN calls = 1 .. Len(calls) /\ now' \in Nat /\ requests' \subseteq RequestType
  BY <1>1 DEF FederationTypes
<1>3. DOMAIN calls' = 1 .. Len(calls)
  BY <1>2 DEF Federated!Stop
<1>4. ASSUME NEW n \in 1 .. Len(calls)
      PROVE  /\ calls'[n] \in CallType /\ calls'[n].site = calls[n].site /\ calls'[n].message = calls[n].message
             /\ calls'[n].step = calls[n].step \/ calls'[n].step = "gone"
  <2>1. PICK c \in CallType : c = calls[n]
    BY <1>1, CallFields
  <2>2. PICK j : j = [c EXCEPT !.step = "gone"]
    OBVIOUS
  <2>3. j \in CallType /\ j.site = c.site /\ j.message = c.message /\ j.step = "gone"
    BY <2>1, <2>2 DEF CallType
  <2>4. calls'[n] = j \/ calls'[n] = c
    BY <1>2, <2>1, <2>2 DEF Federated!Stop
  <2> QED BY <2>1, <2>3, <2>4
<1>5. calls' = [n \in 1 .. Len(calls) |-> calls'[n]]
  BY <1>2 DEF Federated!Stop
<1>6. calls' \in Seq(CallType) /\ Len(calls') = Len(calls)
  BY <1>2, <1>4, <1>5
<1>7. CallsKept
  BY <1>2, <1>4, <1>6 DEF CallsKept
<1>8. LogsKept /\ ReceiptsGrow
  BY <1>1, LogsUnchanged, NoReceipt
<1>9. CallsRecorded'
  <2>1. ASSUME NEW n \in 1 .. Len(calls') PROVE CallRecorded(n)'
    BY <1>4, <1>6, <1>7, <1>8, CallStays
  <2> QED BY <2>1 DEF CallsRecorded, CallRecorded
<1>10. ASSUME NEW q \in requests'
       PROVE  /\ q.call \in 1 .. Len(calls) /\ InLog(calls[q.call].site, calls[q.call].message)
              /\ q.state = "accepted" => q.call \in receipts[Federated!Peer(calls[q.call].site)]
  BY <1>1 DEF FederationInv, RequestsRecorded
<1> QED BY <1>1, <1>2, <1>7, <1>9, <1>10, ThreadsStay

LEMMA FederationTicks ==
  ASSUME FederationInv, now' \in Nat, UNCHANGED <<threads, receipts, calls, requests>>
  PROVE  FederationInv'
<1>1. CallsKept
  BY CallsUnchanged DEF FederationInv
<1>2. CallsRecorded'
  BY DEF FederationInv, CallsRecorded, InLog, Own
<1> QED BY <1>1, <1>2, ThreadsStay DEF FederationInv, FederationTypes, RequestsRecorded

LEMMA FederationNext ==
  ASSUME FederationInv, Federated!Next
  PROVE  FederationInv'
<1>1. DOMAIN calls = 1 .. Len(calls) /\ now \in Nat
  BY DEF FederationInv, FederationTypes
<1>2. CASE \E s \in Sites : \E m \in Federated!Writes(s) \cup Federated!Repeats(s) : Federated!SendByAlias(s, m)
  BY <1>2, FederationSends
<1>3. CASE \E s \in Sites : \E m \in Federated!Writes(s) : Federated!AppendMessage(s, [m EXCEPT !.id = <<s, 0>>])
  BY <1>3, FederationAppends
<1>4. CASE \E n \in DOMAIN calls : \/ Federated!RecordFederatedOutbound(n) \/ Federated!sendOnce(n)
                                   \/ Federated!Answered(n) \/ Federated!Send(n)
  BY <1>1, <1>4, FederationRecords, FederationPosts, FederationAnswered
<1>5. CASE \E r \in requests : Federated!Accept(r) \/ Federated!AcceptFederatedMessage(r)
  BY <1>5, FederationAnswers
<1>6. CASE \E s \in Sites, configured \in BOOLEAN : Federated!Stop(s, configured)
  BY <1>6, FederationStops
<1>7. CASE Federated!Tick
  BY <1>1, <1>7, FederationTicks DEF Federated!Tick
<1> QED BY <1>2, <1>3, <1>4, <1>5, <1>6, <1>7 DEF Federated!Next

-----------------------------------------------------------------------------
(* Projections.  A document differs from what would be made of the state as *)
(* it is only in what comes of a source whose events are not all projected, *)
(* and a rebuild that nothing overtook puts back what it found.             *)

Stale == {a \in Projection!Aggregates : checkpoint[a] < authority.rev[a]}

PartsOf(x) ==
  {p \in Projection!OfKind(IF Kind[x] = "task" THEN "work-invocation" ELSE "task") : Subject[p] = x}
AccountsOf(x) == IF Kind[x] = "task" THEN Projection!OfKind("work-budget") ELSE {}
SummarizedOf(x, k) == {a \in Projection!OfKind(k) : Subject[a] = x}

(* The content of x but for what comes of stale sources.                    *)
Matches(x, c, behind) ==
  /\ c.own = authority.rev[x] \/ x \in behind
  /\ DOMAIN c.parts = PartsOf(x) /\ \A p \in PartsOf(x) \ behind : c.parts[p] = authority.rev[p]
  /\ DOMAIN c.account = AccountsOf(x) /\ \A p \in AccountsOf(x) \ behind : c.account[p] = authority.rev[p]
  /\ c.used <= authority.used
  /\ DOMAIN c.summary = Projection!Summarized(x)
  /\ \A k \in Projection!Summarized(x) :
       c.summary[k] \in Projection!Summaries(x, k) \/ SummarizedOf(x, k) \cap behind /= {}

Shown(x) ==
  \/ documents[x] = None /\ (Projection!Materializable(x) => x \in Stale)
  \/ /\ documents[x] \in DocumentType /\ Projection!Materializable(x)
     /\ Matches(x, documents[x].content, Stale)

Documented ==
  /\ documents \in [Projection!Projected -> DocumentType \cup {None}]
  /\ \A x \in Projection!Projected : Shown(x)

AuthorityType ==
  [rev : [Projection!Aggregates -> Nat], bound : SUBSET Projection!Tasks, used : Nat, events : Nat]

ProjectionTypes ==
  /\ order \in Orders /\ authority \in AuthorityType
  /\ checkpoint \in [Projection!Aggregates -> Nat]
  /\ DOMAIN rebuild = {"pc", "upto", "meta", "made", "seen", "overtaken"} /\ rebuild.overtaken \in BOOLEAN
  /\ lost \in BOOLEAN

Checkpoints == \A a \in Projection!Aggregates : checkpoint[a] <= authority.rev[a]

(* A pass is where there are events it has read and not applied.            *)
InPass(p) ==
  p.at > 0 =>
    /\ p.at \in 1 .. Len(order)
    /\ p.upto \in [Projection!Aggregates -> Nat] /\ \A a \in Projection!Aggregates : p.upto[a] <= authority.rev[a]
    /\ checkpoint[order[p.at]] < p.upto[order[p.at]]

PutsBack == rebuild.pc = "replace" /\ ~rebuild.overtaken => rebuild.made = documents

ProjectionInv == ProjectionTypes /\ Checkpoints /\ InPass(pass) /\ (~lost => Documented /\ PutsBack)

LEMMA LeastNat ==
  ASSUME NEW S, S \subseteq Nat, S /= {}
  PROVE  \E j \in S : \A k \in S : j <= k
<1> DEFINE R == {ss \in Nat \X Nat : ss[1] < ss[2]}
<1>1. IsWellFoundedOn(R, Nat)
  BY NatLessThanWellFounded DEF OpToRel
<1>2. PICK x \in S : \A y \in S : ~ (<<y, x>> \in R)
  <2> HIDE DEF R
  <2> QED BY <1>1, WFMin
<1>3. \A y \in S : ~ (y < x)
  BY <1>2
<1> QED BY <1>3

LEMMA SourceNamed ==
  ASSUME order \in Orders
  PROVE  Projection!Aggregates \subseteq SourceNames
BY DEF Projection!Aggregates, SourceNames

(* A smaller set of stale sources says more.                                *)
LEMMA MatchesMore ==
  ASSUME NEW x, NEW c, NEW S, NEW T, S \subseteq T, Matches(x, c, S)
  PROVE  Matches(x, c, T)
BY DEF Matches

(* What is made of the state is the state's.                                *)
LEMMA ContentsMatch ==
  ASSUME ProjectionTypes, NEW x \in Projection!Projected, NEW c \in Projection!Contents(x)
  PROVE  c \in ContentType /\ Matches(x, c, {})
<1>1. PICK y : y = authority.rev
  OBVIOUS
<1>2. y \in [Projection!Aggregates -> Nat] /\ authority.used \in Nat
  BY <1>1 DEF ProjectionTypes, AuthorityType
<1>3. Projection!Aggregates \subseteq SourceNames
  BY SourceNamed DEF ProjectionTypes
<1>4. ASSUME NEW k
      PROVE  \A s \in Projection!Summaries(x, k) : s \in (SourceNames \cup {None}) \X Nat
  BY <1>1, <1>2, <1>3 DEF Projection!Summaries, Projection!OfKind
<1>5. ASSUME NEW f \in Projection!Choices(x)
      PROVE  /\ f \in SummaryType /\ DOMAIN f = Projection!Summarized(x)
             /\ \A k \in Projection!Summarized(x) : f[k] \in Projection!Summaries(x, k)
  <2>1. /\ f \in [Projection!Summarized(x) -> UNION {Projection!Summaries(x, k) : k \in Projection!Summarized(x)}]
        /\ \A k \in Projection!Summarized(x) : f[k] \in Projection!Summaries(x, k)
    BY <1>5 DEF Projection!Choices
  <2>2. f \in [Projection!Summarized(x) -> (SourceNames \cup {None}) \X Nat]
    BY <2>1, <1>4
  <2>3. Projection!Summarized(x) \in SUBSET {"escalation", "release-plan", "completion-review", "variant-group"}
    BY DEF Projection!Summarized
  <2> QED BY <2>1, <2>2, <2>3 DEF SummaryType
<1>6. ASSUME NEW S, S \subseteq Projection!Aggregates
      PROVE  [a \in S |-> y[a]] \in RevisionsType
  <2>1. [a \in S |-> y[a]] \in [S -> Nat] /\ S \in SUBSET SourceNames
    BY <1>2, <1>3, <1>6
  <2> QED BY <2>1 DEF RevisionsType
<1>7. <<>> \in RevisionsType /\ DOMAIN <<>> = {}
  <2>1. <<>> \in [{} -> Nat]
    OBVIOUS
  <2> QED BY <2>1 DEF RevisionsType
<1>8. y[x] \in Nat
  BY <1>2 DEF Projection!Projected, Projection!Tasks, Projection!OfKind
<1>9. CASE Kind[x] = "task"
  <2>1. /\ c.own = y[x] /\ c.parts = [a \in PartsOf(x) |-> y[a]] /\ c.account = [a \in AccountsOf(x) |-> y[a]]
        /\ c.used = authority.used /\ c.summary \in Projection!Choices(x)
        /\ c = [own |-> c.own, parts |-> c.parts, account |-> c.account, used |-> c.used, summary |-> c.summary]
    BY <1>1, <1>9 DEF Projection!Contents, Projection!TaskContents, Projection!Revisions, PartsOf, AccountsOf
  <2>2. PartsOf(x) \subseteq Projection!Aggregates /\ AccountsOf(x) \subseteq Projection!Aggregates
    BY DEF PartsOf, AccountsOf, Projection!OfKind
  <2>3. c.parts \in RevisionsType /\ c.account \in RevisionsType
    BY <2>1, <2>2, <1>6
  <2>4. /\ c.summary \in SummaryType /\ DOMAIN c.summary = Projection!Summarized(x)
        /\ \A k \in Projection!Summarized(x) : c.summary[k] \in Projection!Summaries(x, k)
    BY <2>1, <1>5
  <2>5. c \in ContentType
    BY <2>1, <2>3, <2>4, <1>2, <1>8 DEF ContentType
  <2> QED BY <1>1, <1>2, <2>1, <2>4, <2>5 DEF Matches
<1>10. CASE Kind[x] /= "task"
  <2>1. /\ c.own = y[x] /\ c.parts = [a \in PartsOf(x) |-> y[a]] /\ c.account = <<>>
        /\ c.used = 0 /\ c.summary \in Projection!Choices(x)
        /\ c = [own |-> c.own, parts |-> c.parts, account |-> c.account, used |-> c.used, summary |-> c.summary]
    BY <1>1, <1>10 DEF Projection!Contents, Projection!StoryContents, Projection!Revisions, Projection!Tasks, PartsOf
  <2>2. PartsOf(x) \subseteq Projection!Aggregates /\ AccountsOf(x) = {}
    BY <1>10 DEF PartsOf, AccountsOf, Projection!OfKind
  <2>3. c.parts \in RevisionsType /\ c.account \in RevisionsType /\ DOMAIN c.account = {}
    BY <2>1, <2>2, <1>6, <1>7
  <2>4. /\ c.summary \in SummaryType /\ DOMAIN c.summary = Projection!Summarized(x)
        /\ \A k \in Projection!Summarized(x) : c.summary[k] \in Projection!Summaries(x, k)
    BY <2>1, <1>5
  <2>5. c \in ContentType
    BY <2>1, <2>3, <2>4, <1>2, <1>8 DEF ContentType
  <2> QED BY <1>1, <1>2, <2>1, <2>2, <2>3, <2>4, <2>5 DEF Matches
<1> QED BY <1>9, <1>10

LEMMA ProjectionInit == Projection!Init => ProjectionInv
<1> SUFFICES ASSUME Projection!Init PROVE ProjectionInv
  OBVIOUS
<1>1. /\ order \in Orders /\ checkpoint = [a \in Projection!Aggregates |-> 0] /\ lost = FALSE
      /\ documents = [x \in Projection!Projected |-> None] /\ pass.at = 0
  BY DEF Projection!Init, Projection!Empty, Projection!Idle
<1>2. /\ DOMAIN rebuild = {"pc", "upto", "meta", "made", "seen", "overtaken"} /\ rebuild.overtaken = FALSE
      /\ rebuild.pc /= "replace"
  BY DEF Projection!Init, Projection!Resting, Projection!Finished
<1>3. authority \in AuthorityType
  BY DEF Projection!Init, AuthorityType
<1>4. \A a \in Projection!Aggregates : authority.rev[a] \in Nat
  BY <1>3 DEF AuthorityType
<1>5. Checkpoints
  BY <1>1, <1>4 DEF Checkpoints
<1>6. ASSUME NEW x \in Projection!Projected PROVE Shown(x)
  <2>1. documents[x] = None /\ checkpoint[x] = 0 /\ x \in Projection!Aggregates
    BY <1>1 DEF Projection!Projected, Projection!Tasks, Projection!OfKind
  <2> QED BY <2>1, <1>4 DEF Shown, Stale, Projection!Materializable
<1>7. Documented
  BY <1>1, <1>6 DEF Documented
<1>8. ProjectionTypes
  BY <1>1, <1>2, <1>3 DEF ProjectionTypes
<1>9. InPass(pass)
  BY <1>1 DEF InPass
<1> QED BY <1>2, <1>5, <1>7, <1>8, <1>9 DEF ProjectionInv, PutsBack

(* A source that has an event more is stale, and nothing else differs.      *)
LEMMA DecideMatches ==
  ASSUME ProjectionInv, NEW a \in Projection!Aggregates, NEW T, a \in T,
         NEW x, NEW c, Matches(x, c, Stale), Stale \subseteq T, UNCHANGED order,
         authority'.used >= authority.used, c.used \in Nat, authority'.used \in Nat,
         \A b \in Projection!Aggregates : b /= a => authority'.rev[b] = authority.rev[b],
         x \in Projection!Aggregates
  PROVE  Matches(x, c, T)'
<1>1. Matches(x, c, T)
  BY MatchesMore
<1>2. PartsOf(x)' = PartsOf(x) /\ AccountsOf(x)' = AccountsOf(x)
  BY DEF PartsOf, AccountsOf, Projection!OfKind, Projection!Aggregates
<1>3. PartsOf(x) \subseteq Projection!Aggregates /\ AccountsOf(x) \subseteq Projection!Aggregates
  BY DEF PartsOf, AccountsOf, Projection!OfKind
<1>4. authority.used \in Nat
  BY DEF ProjectionInv, ProjectionTypes, AuthorityType
<1>5. c.used <= authority'.used
  BY <1>1, <1>4 DEF Matches
<1>6. ASSUME NEW k, SummarizedOf(x, k) \cap T = {}
      PROVE  Projection!Summaries(x, k)' = Projection!Summaries(x, k)
  <2>1. \A b \in Projection!OfKind(k) : Subject[b] = x => authority'.rev[b] = authority.rev[b]
    BY <1>6 DEF SummarizedOf, Projection!OfKind
  <2>2. Projection!OfKind(k)' = Projection!OfKind(k)
    BY DEF Projection!OfKind, Projection!Aggregates
  <2> QED BY <2>1, <2>2 DEF Projection!Summaries
<1>7. \A k : SummarizedOf(x, k)' = SummarizedOf(x, k)
  BY DEF SummarizedOf, Projection!OfKind, Projection!Aggregates
<1>8. ASSUME NEW k \in Projection!Summarized(x)
      PROVE  c.summary[k] \in Projection!Summaries(x, k)' \/ SummarizedOf(x, k)' \cap T /= {}
  BY <1>1, <1>6, <1>7 DEF Matches
<1>9. Projection!Summarized(x)' = Projection!Summarized(x)
  BY DEF Projection!Summarized
<1>10. c.own = authority'.rev[x] \/ x \in T
  BY <1>1 DEF Matches
<1>11. /\ DOMAIN c.parts = PartsOf(x) /\ \A p \in PartsOf(x) \ T : c.parts[p] = authority'.rev[p]
       /\ DOMAIN c.account = AccountsOf(x) /\ \A p \in AccountsOf(x) \ T : c.account[p] = authority'.rev[p]
       /\ DOMAIN c.summary = Projection!Summarized(x)
  BY <1>1, <1>3 DEF Matches
<1> QED BY <1>2, <1>5, <1>8, <1>9, <1>10, <1>11 DEF Matches

LEMMA ProjectionDecides ==
  ASSUME ProjectionInv, NEW a \in Projection!Aggregates, Projection!Decide(a)
  PROVE  ProjectionInv'
<1>1. UNCHANGED <<order, checkpoint, documents, pass, rebuild, lost>>
  BY DEF Projection!Decide
<1>2. PICK b \in {authority.bound} \cup (IF a \in Projection!Tasks THEN {authority.bound \cup {a}} ELSE {}) :
        authority' = [rev |-> [authority.rev EXCEPT ![a] = @ + 1], bound |-> b,
                      used |-> authority.used + (IF Kind[a] = "work-invocation" /\ authority.rev[a] = 0 THEN 1 ELSE 0),
                      events |-> authority.events + 1]
  BY DEF Projection!Decide
<1>3. /\ authority.rev \in [Projection!Aggregates -> Nat] /\ authority.used \in Nat
      /\ authority.bound \in SUBSET Projection!Tasks /\ authority.events \in Nat
  BY DEF ProjectionInv, ProjectionTypes, AuthorityType
<1>4. /\ authority'.rev \in [Projection!Aggregates -> Nat] /\ authority'.rev[a] = authority.rev[a] + 1
      /\ \A d \in Projection!Aggregates : d /= a => authority'.rev[d] = authority.rev[d]
      /\ authority'.used \in Nat /\ authority'.used >= authority.used
  BY <1>2, <1>3
<1>5. authority'.bound = b /\ authority.bound \subseteq b /\ b \subseteq authority.bound \cup {a}
      /\ b \in SUBSET Projection!Tasks
  BY <1>2, <1>3
<1>6. authority' \in AuthorityType
  BY <1>2, <1>3, <1>4, <1>5 DEF AuthorityType
<1>7. Projection!Aggregates' = Projection!Aggregates /\ Projection!Tasks' = Projection!Tasks
      /\ Projection!Projected' = Projection!Projected
  BY <1>1 DEF Projection!Aggregates, Projection!Tasks, Projection!OfKind, Projection!Projected
<1>8. ProjectionTypes'
  BY <1>1, <1>6, <1>7 DEF ProjectionInv, ProjectionTypes, AuthorityType
<1>9. Checkpoints'
  BY <1>1, <1>3, <1>4, <1>7 DEF ProjectionInv, ProjectionTypes, Checkpoints
<1>10. InPass(pass)'
  <2>1. \A d \in Projection!Aggregates : authority'.rev[d] >= authority.rev[d]
    BY <1>3, <1>4
  <2>2. ASSUME pass.at > 0
        PROVE  /\ pass.at \in 1 .. Len(order)
               /\ pass.upto \in [Projection!Aggregates -> Nat]
               /\ \A d \in Projection!Aggregates : pass.upto[d] <= authority'.rev[d]
               /\ checkpoint[order[pass.at]] < pass.upto[order[pass.at]]
    BY <2>1, <2>2, <1>3, <1>4 DEF ProjectionInv, InPass
  <2> QED BY <2>2, <1>1, <1>7 DEF InPass
<1>11. Stale \subseteq Stale' /\ a \in Stale'
  BY <1>1, <1>3, <1>4, <1>7 DEF Stale, ProjectionInv, ProjectionTypes, Checkpoints
<1>12. ASSUME NEW x \in Projection!Projected, Shown(x)
       PROVE  Shown(x)'
  <2>1. x \in Projection!Aggregates
    BY DEF Projection!Projected, Projection!Tasks, Projection!OfKind
  <2>2. Projection!Materializable(x) => Projection!Materializable(x)'
    BY <2>1, <1>3, <1>4, <1>5 DEF Projection!Materializable
  <2>3. x /= a => (Projection!Materializable(x)' => Projection!Materializable(x))
    BY <2>1, <1>3, <1>4, <1>5 DEF Projection!Materializable
  <2>4. CASE documents[x] = None /\ (Projection!Materializable(x) => x \in Stale)
    BY <2>3, <2>4, <1>1, <1>11 DEF Shown
  <2>5. CASE /\ documents[x] \in DocumentType /\ Projection!Materializable(x)
             /\ Matches(x, documents[x].content, Stale)
    <3>1. PICK c : c = documents[x].content
      OBVIOUS
    <3>2. c.used \in Nat
      BY <2>5, <3>1 DEF DocumentType, ContentType
    <3>3. PICK T : T = Stale'
      OBVIOUS
    <3>4. a \in T /\ Stale \subseteq T /\ Matches(x, c, Stale)
      BY <3>1, <3>3, <1>11, <2>5
    <3>5. Matches(x, c, T)'
      BY <3>2, <3>4, <2>1, <1>1, <1>4, DecideMatches
    <3>6. Matches(x, documents[x].content, Stale)'
      BY <3>1, <3>3, <3>5, <1>1 DEF Matches
    <3> QED BY <2>2, <2>5, <3>6, <1>1 DEF Shown
  <2> QED BY <1>12, <2>4, <2>5 DEF Shown
<1>13. ~lost' => Documented' /\ PutsBack'
  BY <1>1, <1>7, <1>12 DEF ProjectionInv, Documented, PutsBack
<1> QED BY <1>8, <1>9, <1>10, <1>13 DEF ProjectionInv

(* Where a pass goes on there is something of it left.                      *)
LEMMA FromLeft ==
  ASSUME NEW i \in 1 .. Len(order), Len(order) \in Nat, NEW upto, NEW done,
         Projection!From(i, upto, done).at > 0
  PROVE  LET p == Projection!From(i, upto, done)
         IN p.upto = upto /\ p.at \in 1 .. Len(order) /\ done[order[p.at]] < upto[order[p.at]]
<1> DEFINE left == {j \in i .. Len(order) : done[order[j]] < upto[order[j]]}
<1>1. left /= {}
  BY DEF Projection!From, Projection!Idle
<1>2. left \subseteq Nat
  OBVIOUS
<1>3. \E j \in left : \A k \in left : j <= k
  <2> HIDE DEF left
  <2> QED BY <1>1, <1>2, LeastNat
<1>4. Projection!From(i, upto, done) = [at |-> CHOOSE j \in left : \A k \in left : j <= k, upto |-> upto]
  BY <1>1 DEF Projection!From
<1>5. PICK at : at = CHOOSE j \in left : \A k \in left : j <= k
  OBVIOUS
<1>6. at \in left
  <2> HIDE DEF left
  <2> QED BY <1>3, <1>5
<1>7. Projection!From(i, upto, done).at = at /\ Projection!From(i, upto, done).upto = upto
  BY <1>4, <1>5
<1> QED BY <1>6, <1>7

(* The state that the documents are of is as before.                        *)
LEMMA SameMatches ==
  ASSUME UNCHANGED <<order, authority>>, NEW x, NEW c, NEW T
  PROVE  Matches(x, c, T)' <=> Matches(x, c, T)
<1>1. /\ PartsOf(x)' = PartsOf(x) /\ AccountsOf(x)' = AccountsOf(x)
      /\ Projection!Summarized(x)' = Projection!Summarized(x)
  BY DEF PartsOf, AccountsOf, Projection!OfKind, Projection!Aggregates, Projection!Summarized
<1>2. \A k : SummarizedOf(x, k)' = SummarizedOf(x, k)
  BY DEF SummarizedOf, Projection!OfKind, Projection!Aggregates
<1>3. \A k : Projection!Summaries(x, k)' = Projection!Summaries(x, k)
  BY DEF Projection!Summaries, Projection!OfKind, Projection!Aggregates
<1> QED BY <1>1, <1>2, <1>3 DEF Matches

LEMMA ProjectionReads ==
  ASSUME ProjectionInv, UNCHANGED <<order, authority, checkpoint, documents, lost>>, InPass(pass)',
         DOMAIN rebuild' = {"pc", "upto", "meta", "made", "seen", "overtaken"}, rebuild'.overtaken \in BOOLEAN,
         ~lost => PutsBack'
  PROVE  ProjectionInv'
<1>1. ProjectionTypes'
  BY DEF ProjectionInv, ProjectionTypes, AuthorityType, Projection!Aggregates, Projection!Tasks, Projection!OfKind
<1>2. Checkpoints'
  BY DEF ProjectionInv, Checkpoints, Projection!Aggregates
<1>3. Stale' = Stale /\ Projection!Projected' = Projection!Projected
  BY DEF Stale, Projection!Projected, Projection!Tasks, Projection!OfKind, Projection!Aggregates
<1>4. ASSUME NEW x, Shown(x) PROVE Shown(x)'
  <2>1. Projection!Materializable(x)' <=> Projection!Materializable(x)
    BY DEF Projection!Materializable
  <2>2. PICK c : c = documents[x].content
    OBVIOUS
  <2>3. PICK T : T = Stale
    OBVIOUS
  <2>4. Matches(x, c, T)' <=> Matches(x, c, T)
    BY SameMatches
  <2>5. Matches(x, documents[x].content, Stale) => Matches(x, documents[x].content, Stale)'
    BY <2>2, <2>3, <2>4, <1>3 DEF Matches
  <2> QED BY <1>3, <1>4, <2>1, <2>5 DEF Shown
<1>5. Documented => Documented'
  BY <1>3, <1>4 DEF Documented
<1> QED BY <1>1, <1>2, <1>5 DEF ProjectionInv

LEMMA SourceOrder ==
  ASSUME ProjectionTypes
  PROVE  Len(order) \in Nat /\ \A i \in 1 .. Len(order) : order[i] \in Projection!Aggregates
BY SourcesAssumption DEF ProjectionTypes, Projection!Aggregates

LEMMA ProjectionBegins == ASSUME ProjectionInv, Projection!Begin PROVE ProjectionInv'
<1>1. UNCHANGED <<order, authority, checkpoint, documents, rebuild, lost>>
      /\ pass' = Projection!From(1, authority.rev, checkpoint)
  BY DEF Projection!Begin
<1>2. Len(order) \in Nat /\ \A i \in 1 .. Len(order) : order[i] \in Projection!Aggregates
  BY SourceOrder DEF ProjectionInv
<1>3. authority.rev \in [Projection!Aggregates -> Nat]
  BY DEF ProjectionInv, ProjectionTypes, AuthorityType
<1>4. ASSUME pass'.at > 0
      PROVE  /\ pass'.at \in 1 .. Len(order)
             /\ pass'.upto \in [Projection!Aggregates -> Nat]
             /\ \A d \in Projection!Aggregates : pass'.upto[d] <= authority.rev[d]
             /\ checkpoint[order[pass'.at]] < pass'.upto[order[pass'.at]]
  <2>1. Len(order) /= 0
    BY <1>1, <1>4 DEF Projection!From, Projection!Idle
  <2>2. pass'.upto = authority.rev /\ pass'.at \in 1 .. Len(order)
        /\ checkpoint[order[pass'.at]] < authority.rev[order[pass'.at]]
    BY <1>1, <1>2, <1>4, <2>1, FromLeft
  <2> QED BY <1>3, <2>2
<1>5. InPass(pass)'
  BY <1>1, <1>4 DEF InPass, Projection!Aggregates
<1>6. ~lost => PutsBack'
  BY <1>1 DEF ProjectionInv, PutsBack
<1>7. DOMAIN rebuild' = {"pc", "upto", "meta", "made", "seen", "overtaken"} /\ rebuild'.overtaken \in BOOLEAN
  BY <1>1 DEF ProjectionInv, ProjectionTypes
<1> QED BY <1>1, <1>5, <1>6, <1>7, ProjectionReads

LEMMA ProjectionFails == ASSUME ProjectionInv, Projection!Fail PROVE ProjectionInv'
<1>1. UNCHANGED <<order, authority, checkpoint, documents, rebuild, lost>> /\ pass'.at = 0
  BY DEF Projection!Fail, Projection!Idle
<1>2. InPass(pass)'
  BY <1>1 DEF InPass
<1>3. ~lost => PutsBack'
  BY <1>1 DEF ProjectionInv, PutsBack
<1>4. DOMAIN rebuild' = {"pc", "upto", "meta", "made", "seen", "overtaken"} /\ rebuild'.overtaken \in BOOLEAN
  BY <1>1 DEF ProjectionInv, ProjectionTypes
<1> QED BY <1>1, <1>2, <1>3, <1>4, ProjectionReads

(* A step of the rebuild but the last.                                      *)
LEMMA ProjectionRebuilds ==
  ASSUME ProjectionInv,
         \/ Projection!ReadEvents \/ Projection!Metadata \/ Projection!Materialize \/ Projection!ReadLive
         \/ Projection!Compare
  PROVE  ProjectionInv'
<1>1. UNCHANGED <<order, authority, checkpoint, documents, pass, lost>>
  BY DEF Projection!ReadEvents, Projection!Metadata, Projection!Materialize, Projection!ReadLive, Projection!Compare
<1>2. InPass(pass)'
  BY <1>1 DEF ProjectionInv, InPass, Projection!Aggregates
<1>3. DOMAIN rebuild = {"pc", "upto", "meta", "made", "seen", "overtaken"} /\ rebuild.overtaken \in BOOLEAN
  BY DEF ProjectionInv, ProjectionTypes
<1>4. CASE Projection!ReadEvents
  <2>1. /\ DOMAIN rebuild' = {"pc", "upto", "meta", "made", "seen", "overtaken"}
        /\ rebuild'.overtaken \in BOOLEAN /\ rebuild'.pc = "metadata"
    BY <1>4 DEF Projection!ReadEvents, Projection!Resting
  <2> QED BY <1>1, <1>2, <2>1, ProjectionReads DEF PutsBack
<1>5. CASE Projection!Metadata
  <2>1. PICK m : rebuild' = [rebuild EXCEPT !.pc = "materialize", !.meta = m]
    BY <1>5 DEF Projection!Metadata
  <2>2. /\ DOMAIN rebuild' = {"pc", "upto", "meta", "made", "seen", "overtaken"}
        /\ rebuild'.overtaken \in BOOLEAN /\ rebuild'.pc = "materialize"
    BY <1>3, <2>1
  <2> QED BY <1>1, <1>2, <2>2, ProjectionReads DEF PutsBack
<1>6. CASE Projection!Materialize
  <2>1. PICK m : rebuild' = [rebuild EXCEPT !.pc = "compare", !.made = m]
    BY <1>6 DEF Projection!Materialize
  <2>2. /\ DOMAIN rebuild' = {"pc", "upto", "meta", "made", "seen", "overtaken"}
        /\ rebuild'.overtaken \in BOOLEAN /\ rebuild'.pc = "compare"
    BY <1>3, <2>1
  <2> QED BY <1>1, <1>2, <2>2, ProjectionReads DEF PutsBack
<1>7. CASE Projection!ReadLive
  <2>1. /\ DOMAIN rebuild' = {"pc", "upto", "meta", "made", "seen", "overtaken"}
        /\ rebuild'.overtaken \in BOOLEAN /\ rebuild'.pc = "checkpoints"
    BY <1>3, <1>7 DEF Projection!ReadLive
  <2> QED BY <1>1, <1>2, <2>1, ProjectionReads DEF PutsBack
<1>8. CASE Projection!Compare
  <2>1. CASE checkpoint = rebuild.upto /\ rebuild.made = rebuild.seen
    <3>1. rebuild' = [rebuild EXCEPT !.pc = "replace", !.overtaken = documents /= rebuild.seen]
      BY <1>8, <2>1 DEF Projection!Compare
    <3>2. /\ DOMAIN rebuild' = {"pc", "upto", "meta", "made", "seen", "overtaken"}
          /\ rebuild'.overtaken = (documents /= rebuild.seen) /\ rebuild'.made = rebuild.made
      BY <1>3, <3>1
    <3>3. PutsBack'
      BY <1>1, <2>1, <3>2 DEF PutsBack
    <3> QED BY <1>1, <1>2, <3>2, <3>3, ProjectionReads
  <2>2. CASE ~(checkpoint = rebuild.upto /\ rebuild.made = rebuild.seen)
    <3>1. /\ DOMAIN rebuild' = {"pc", "upto", "meta", "made", "seen", "overtaken"}
          /\ rebuild'.overtaken \in BOOLEAN /\ rebuild'.pc = "done"
      BY <1>8, <2>2 DEF Projection!Compare, Projection!Finished, Projection!Resting
    <3> QED BY <1>1, <1>2, <3>1, ProjectionReads DEF PutsBack
  <2> QED BY <2>1, <2>2
<1> QED BY <1>4, <1>5, <1>6, <1>7, <1>8

LEMMA ProjectionReplaces == ASSUME ProjectionInv, Projection!Replace PROVE ProjectionInv'
<1>1. UNCHANGED <<order, authority, checkpoint, pass>> /\ lost' = (lost \/ rebuild.overtaken)
      /\ documents' = rebuild.made /\ rebuild.pc = "replace"
  BY DEF Projection!Replace
<1>2. /\ DOMAIN rebuild' = {"pc", "upto", "meta", "made", "seen", "overtaken"}
      /\ rebuild'.overtaken \in BOOLEAN /\ rebuild'.pc = "done"
  BY DEF Projection!Replace, Projection!Finished, Projection!Resting
<1>3. InPass(pass)'
  BY <1>1 DEF ProjectionInv, InPass, Projection!Aggregates
<1>4. CASE ~lost'
  <2>1. documents' = documents /\ lost' = lost
    BY <1>1, <1>4 DEF ProjectionInv, ProjectionTypes, PutsBack
  <2> QED BY <1>1, <1>2, <1>3, <2>1, ProjectionReads DEF PutsBack
<1>5. CASE lost'
  <2>1. ProjectionTypes'
    BY <1>1, <1>2 DEF ProjectionInv, ProjectionTypes, AuthorityType, Projection!Aggregates, Projection!Tasks,
                      Projection!OfKind
  <2>2. Checkpoints'
    BY <1>1 DEF ProjectionInv, Checkpoints, Projection!Aggregates
  <2> QED BY <2>1, <2>2, <1>3, <1>5 DEF ProjectionInv
<1> QED BY <1>4, <1>5

(* A document that an event is not routed to has nothing of its source.     *)
LEMMA NotRouted ==
  ASSUME ProjectionTypes, NEW a \in Projection!Aggregates, NEW x \in Projection!Projected,
         Projection!Materializable(x), x \notin Projection!projectionTargets(a),
         NEW c, NEW S, Matches(x, c, S)
  PROVE  Matches(x, c, S \ {a})
<1>1. Kind[x] \in {"story", "task"}
  BY DEF Projection!Projected, Projection!Tasks, Projection!OfKind
<1>2. x /= a
  BY <1>1 DEF Projection!projectionTargets
<1>3. a \notin PartsOf(x)
  BY <1>1 DEF Projection!projectionTargets, PartsOf, Projection!OfKind
<1>4. a \notin AccountsOf(x)
  BY <1>1 DEF Projection!projectionTargets, AccountsOf, Projection!OfKind, Projection!Materializable
<1>5. ASSUME NEW k \in Projection!Summarized(x) PROVE a \notin SummarizedOf(x, k)
  BY <1>5 DEF Projection!projectionTargets, SummarizedOf, Projection!OfKind, Projection!Summarized
<1> QED BY <1>2, <1>3, <1>4, <1>5 DEF Matches

LEMMA ProjectionApplies == ASSUME ProjectionInv, Projection!Apply PROVE ProjectionInv'
<1> DEFINE a == order[pass.at]
           targets == {x \in Projection!projectionTargets(a) : Projection!Materializable(x)}
<1>1. UNCHANGED <<order, authority, lost>> /\ pass.at > 0
  BY DEF Projection!Apply
<1>2. PICK content \in [targets -> UNION {Projection!Contents(x) : x \in targets}] :
        /\ \A x \in targets : content[x] \in Projection!Contents(x)
        /\ documents' = [x \in Projection!Projected |->
                           IF x \in targets THEN Projection!Document(x, content[x], Projection!NextEvent(a))
                           ELSE documents[x]]
  BY DEF Projection!Apply
<1>3. checkpoint' = [checkpoint EXCEPT ![a] = checkpoint[a] + 1]
  BY DEF Projection!Apply, Projection!NextEvent
<1>4. pass' = Projection!From(pass.at, pass.upto, checkpoint')
  BY DEF Projection!Apply
<1>5. rebuild' = [rebuild EXCEPT !.overtaken = @ \/ (rebuild.pc = "replace" /\ targets /= {})]
  BY DEF Projection!Apply
<1>6. Len(order) \in Nat /\ \A i \in 1 .. Len(order) : order[i] \in Projection!Aggregates
  BY SourceOrder DEF ProjectionInv
<1>7. /\ pass.at \in 1 .. Len(order) /\ a \in Projection!Aggregates /\ checkpoint[a] < pass.upto[a]
      /\ pass.upto \in [Projection!Aggregates -> Nat]
      /\ \A d \in Projection!Aggregates : pass.upto[d] <= authority.rev[d]
  BY <1>1, <1>6 DEF ProjectionInv, InPass
<1>8. authority.rev \in [Projection!Aggregates -> Nat] /\ checkpoint \in [Projection!Aggregates -> Nat]
  BY DEF ProjectionInv, ProjectionTypes, AuthorityType
<1>9. /\ checkpoint' \in [Projection!Aggregates -> Nat] /\ checkpoint'[a] = checkpoint[a] + 1
      /\ \A d \in Projection!Aggregates : d /= a => checkpoint'[d] = checkpoint[d]
  BY <1>3, <1>7, <1>8
<1>10. Projection!Aggregates' = Projection!Aggregates /\ Projection!Tasks' = Projection!Tasks
       /\ Projection!Projected' = Projection!Projected
  BY <1>1 DEF Projection!Aggregates, Projection!Tasks, Projection!OfKind, Projection!Projected
<1>11. /\ DOMAIN rebuild' = {"pc", "upto", "meta", "made", "seen", "overtaken"}
       /\ rebuild'.overtaken = (rebuild.overtaken \/ (rebuild.pc = "replace" /\ targets /= {}))
       /\ rebuild'.pc = rebuild.pc /\ rebuild'.made = rebuild.made
  <2> HIDE DEF targets
  <2> QED BY <1>5 DEF ProjectionInv, ProjectionTypes
<1>12. ProjectionTypes'
  <2>1. rebuild'.overtaken \in BOOLEAN
    BY <1>11
  <2> QED BY <1>1, <1>9, <1>10, <1>11, <2>1 DEF ProjectionInv, ProjectionTypes, AuthorityType
<1>13. checkpoint'[a] <= authority.rev[a]
  BY <1>7, <1>8, <1>9
<1>14. Checkpoints'
  BY <1>1, <1>9, <1>10, <1>13 DEF ProjectionInv, Checkpoints
<1>15. InPass(pass)'
  <2>1. ASSUME pass'.at > 0
        PROVE  /\ pass'.upto = pass.upto /\ pass'.at \in 1 .. Len(order)
               /\ checkpoint'[order[pass'.at]] < pass.upto[order[pass'.at]]
    BY <1>4, <1>6, <1>7, <2>1, FromLeft
  <2> QED BY <2>1, <1>1, <1>7, <1>10 DEF InPass
<1>16. Stale \ {a} \subseteq Stale'
  BY <1>1, <1>9, <1>10 DEF Stale
<1>17. ASSUME NEW x \in targets, x \in Projection!Projected, ~lost, Documented
       PROVE  documents'[x] \in DocumentType /\ documents'[x].content = content[x]
  <2>1. documents'[x] = Projection!Document(x, content[x], Projection!NextEvent(a))
    BY <1>2, <1>17
  <2>2. content[x] \in ContentType
    BY <1>2, <1>17, ContentsMatch DEF ProjectionInv
  <2>3. documents[x] \in DocumentType \cup {None}
    BY <1>17 DEF Documented
  <2>4. PICK r : r = IF documents[x] = None THEN 1 ELSE documents[x].revision + 1
    OBVIOUS
  <2>5. r \in Nat
    BY <2>3, <2>4 DEF DocumentType
  <2>6. Projection!NextEvent(a) \in SourceNames \X Nat
    <3>1. a \in SourceNames
      BY <1>7, SourceNamed DEF ProjectionInv, ProjectionTypes
    <3> HIDE DEF a
    <3> QED BY <3>1, <1>7, <1>8 DEF Projection!NextEvent
  <2>7. documents'[x] = [content |-> content[x], revision |-> r, last |-> Projection!NextEvent(a)]
    BY <2>1, <2>4 DEF Projection!Document
  <2> QED BY <2>2, <2>5, <2>6, <2>7 DEF DocumentType
<1>18. ASSUME NEW x \in Projection!Projected, ~lost, Documented
       PROVE  Shown(x)'
  <2>1. Projection!Materializable(x)' <=> Projection!Materializable(x)
    BY <1>1 DEF Projection!Materializable
  <2>2. PICK T : T = Stale'
    OBVIOUS
  <2>3. Stale \ {a} \subseteq T
    BY <1>16, <2>2
  <2>4. PICK c : c = documents'[x].content
    OBVIOUS
  <2>5. CASE x \in targets
    <3>1. documents'[x] \in DocumentType /\ c = content[x]
      BY <1>17, <1>18, <2>4, <2>5
    <3>2. Matches(x, c, {})
      BY <1>2, <2>5, <3>1, ContentsMatch DEF ProjectionInv
    <3>3. Matches(x, c, T)
      BY <3>2, MatchesMore
    <3>4. Matches(x, c, T)'
      BY <3>3, <1>1, SameMatches
    <3>5. Matches(x, documents[x].content, Stale)'
      BY <3>4, <2>2, <2>4 DEF Matches
    <3> QED BY <2>1, <2>5, <3>1, <3>5 DEF Shown
  <2>6. CASE x \notin targets
    <3>1. documents'[x] = documents[x]
      BY <1>2, <2>6
    <3>2. Shown(x)
      BY <1>18 DEF Documented
    <3>3. CASE ~Projection!Materializable(x)
      BY <3>1, <3>2, <3>3, <2>1 DEF Shown
    <3>4. CASE Projection!Materializable(x)
      <4>1. x \notin Projection!projectionTargets(a)
        BY <2>6, <3>4
      <4>2. x /= a
        BY <4>1 DEF Projection!projectionTargets, Projection!Projected, Projection!Tasks, Projection!OfKind
      <4>3. CASE documents[x] = None
        <5>1. x \in Stale
          BY <3>2, <3>4, <4>3, NoneAssumption DEF Shown
        <5> QED BY <5>1, <4>2, <4>3, <3>1, <1>16 DEF Shown
      <4>4. CASE documents[x] /= None
        <5>1. documents[x] \in DocumentType /\ Matches(x, c, Stale)
          BY <3>1, <3>2, <4>4, <2>4 DEF Shown
        <5>2. Matches(x, c, Stale \ {a})
          BY <5>1, <4>1, <3>4, <1>7, NotRouted DEF ProjectionInv
        <5>3. Matches(x, c, T)
          BY <5>2, <2>3, MatchesMore
        <5>4. Matches(x, c, T)'
          BY <5>3, <1>1, SameMatches
        <5>5. Matches(x, documents[x].content, Stale)'
          BY <5>4, <2>2, <2>4 DEF Matches
        <5> QED BY <5>1, <5>5, <3>1, <3>4, <2>1 DEF Shown
      <4> QED BY <4>3, <4>4
    <3> QED BY <3>3, <3>4
  <2> QED BY <2>5, <2>6
<1>19. ASSUME ~lost PROVE Documented' /\ PutsBack'
  <2>1. Documented /\ PutsBack
    BY <1>19 DEF ProjectionInv
  <2>2. \A x \in Projection!Projected : documents'[x] \in DocumentType \cup {None}
    <3> SUFFICES ASSUME NEW x \in Projection!Projected PROVE documents'[x] \in DocumentType \cup {None}
      OBVIOUS
    <3>1. CASE x \in targets
      BY <1>17, <1>19, <2>1, <3>1
    <3>2. CASE x \notin targets
      BY <1>2, <2>1, <3>2 DEF Documented
    <3> QED BY <3>1, <3>2
  <2>3. documents' \in [Projection!Projected -> DocumentType \cup {None}]
    BY <1>2, <2>2
  <2>4. Documented'
    BY <1>10, <1>18, <1>19, <2>1, <2>3 DEF Documented
  <2>5. targets = {} => documents' = documents
    BY <1>2, <2>1 DEF Documented
  <2>6. PutsBack'
    <3> HIDE DEF targets
    <3> QED BY <1>11, <2>1, <2>5 DEF PutsBack
  <2> QED BY <2>4, <2>6
<1> QED BY <1>1, <1>12, <1>14, <1>15, <1>19 DEF ProjectionInv

LEMMA ProjectionNext == ASSUME ProjectionInv, Projection!Next PROVE ProjectionInv'
BY ProjectionDecides, ProjectionBegins, ProjectionApplies, ProjectionFails, ProjectionRebuilds, ProjectionReplaces
   DEF Projection!Next

LEMMA ProjectionStutters ==
  ASSUME ProjectionInv, UNCHANGED <<order, authority, checkpoint, documents, pass, rebuild, lost>>
  PROVE  ProjectionInv'
<1>1. InPass(pass)'
  BY DEF ProjectionInv, InPass, Projection!Aggregates
<1>2. ~lost => PutsBack'
  BY DEF ProjectionInv, PutsBack
<1>3. DOMAIN rebuild' = {"pc", "upto", "meta", "made", "seen", "overtaken"} /\ rebuild'.overtaken \in BOOLEAN
  BY DEF ProjectionInv, ProjectionTypes
<1> QED BY <1>1, <1>2, <1>3, ProjectionReads

(* What matches the state in everything is what would be made of it, but    *)
(* for the debits.                                                          *)
LEMMA MatchesContents ==
  ASSUME NEW x, NEW c \in ContentType, Matches(x, c, {})
  PROVE  \E d \in Projection!Contents(x) : [c EXCEPT !.used = 0] = [d EXCEPT !.used = 0]
<1>1. PICK y : y = authority.rev
  OBVIOUS
<1>2. c = [own |-> c.own, parts |-> c.parts, account |-> c.account, used |-> c.used, summary |-> c.summary]
  BY DEF ContentType
<1>3. c.parts = [p \in DOMAIN c.parts |-> c.parts[p]]
  BY DEF ContentType, RevisionsType
<1>4. c.account = [p \in DOMAIN c.account |-> c.account[p]]
  BY DEF ContentType, RevisionsType
<1>5. c.own = y[x]
  BY <1>1 DEF Matches
<1>6. c.parts = [p \in PartsOf(x) |-> y[p]]
  BY <1>1, <1>3 DEF Matches
<1>7. c.account = [p \in AccountsOf(x) |-> y[p]]
  BY <1>1, <1>4 DEF Matches
<1>8. c.summary = [k \in DOMAIN c.summary |-> c.summary[k]]
  BY DEF ContentType, SummaryType
<1>9. c.summary \in Projection!Choices(x)
  BY <1>8 DEF Matches, Projection!Choices
<1>10. ASSUME NEW d, d = [own |-> c.own, parts |-> c.parts, account |-> c.account, used |-> d.used, summary |-> c.summary]
       PROVE  [c EXCEPT !.used = 0] = [d EXCEPT !.used = 0]
  BY <1>2, <1>10
<1>11. CASE Kind[x] = "task"
  <2>1. PICK d : d = [own |-> c.own, parts |-> c.parts, account |-> c.account, used |-> authority.used,
                      summary |-> c.summary]
    OBVIOUS
  <2>2. /\ c.parts = Projection!Revisions(Projection!OfKind("work-invocation"), x)
        /\ c.account = [p \in Projection!OfKind("work-budget") |-> authority.rev[p]]
    BY <1>1, <1>6, <1>7, <1>11 DEF PartsOf, AccountsOf, Projection!Revisions
  <2>3. d \in Projection!Contents(x)
    BY <1>1, <1>5, <1>9, <1>11, <2>1, <2>2 DEF Projection!Contents, Projection!TaskContents
  <2>4. d = [own |-> c.own, parts |-> c.parts, account |-> c.account, used |-> d.used, summary |-> c.summary]
    BY <2>1
  <2> QED BY <2>3, <2>4, <1>10
<1>12. CASE Kind[x] /= "task"
  <2>1. PICK d : d = [own |-> c.own, parts |-> c.parts, account |-> c.account, used |-> 0, summary |-> c.summary]
    OBVIOUS
  <2>2. c.parts = Projection!Revisions(Projection!Tasks, x)
    BY <1>1, <1>6, <1>12 DEF PartsOf, Projection!Revisions, Projection!Tasks
  <2>3. c.account = <<>>
    <3>1. c.account = [p \in {} |-> y[p]]
      BY <1>7, <1>12 DEF AccountsOf
    <3>2. <<>> = [p \in {} |-> y[p]]
      OBVIOUS
    <3> QED BY <3>1, <3>2
  <2>4. d \in Projection!Contents(x)
    BY <1>1, <1>5, <1>9, <1>12, <2>1, <2>2, <2>3 DEF Projection!Contents, Projection!StoryContents
  <2>5. d = [own |-> c.own, parts |-> c.parts, account |-> c.account, used |-> d.used, summary |-> c.summary]
    BY <2>1
  <2> QED BY <2>4, <2>5, <1>10
<1> QED BY <1>11, <1>12

LEMMA ProjectionProperty == ProjectionInv => Projection!DocumentsCurrent
<1> SUFFICES ASSUME ProjectionInv, checkpoint = authority.rev, ~lost, NEW x \in Projection!Projected
             PROVE  IF Projection!Materializable(x)
                    THEN /\ documents[x] /= None
                         /\ [documents[x].content EXCEPT !.used = 0]
                              \in {[c EXCEPT !.used = 0] : c \in Projection!Contents(x)}
                         /\ documents[x].content.used <= authority.used
                    ELSE documents[x] = None
  BY DEF Projection!DocumentsCurrent
<1>1. authority.rev \in [Projection!Aggregates -> Nat]
  BY DEF ProjectionInv, ProjectionTypes, AuthorityType
<1>2. Stale = {}
  BY <1>1 DEF Stale
<1>3. Shown(x)
  BY DEF ProjectionInv, Documented
<1>4. CASE Projection!Materializable(x)
  <2>1. documents[x] \in DocumentType /\ Matches(x, documents[x].content, {})
    BY <1>2, <1>3, <1>4 DEF Shown
  <2>2. documents[x].content \in ContentType
    BY <2>1 DEF DocumentType
  <2>3. \E d \in Projection!Contents(x) : [documents[x].content EXCEPT !.used = 0] = [d EXCEPT !.used = 0]
    BY <2>1, <2>2, MatchesContents
  <2>4. documents[x] /= None
    BY <2>1, NoneAssumption
  <2>5. documents[x].content.used <= authority.used
    BY <2>1 DEF Matches
  <2>6. [documents[x].content EXCEPT !.used = 0] \in {[c EXCEPT !.used = 0] : c \in Projection!Contents(x)}
    BY <2>3
  <2> QED BY <1>4, <2>4, <2>5, <2>6
<1>5. CASE ~Projection!Materializable(x)
  BY <1>3, <1>5 DEF Shown
<1> QED BY <1>4, <1>5

-----------------------------------------------------------------------------
(* The planning of a feature.  Revisions of the feature only grow, so that  *)
(* what is written at the revision that was read is written on what was     *)
(* read; but for a correction, the feature a pass is over stays as the pass *)
(* read it.  Only the pass starts rounds, before it takes a task on.        *)

PlanningStatuses == {"SUBMITTED", "READY_FOR_PLANNING", "SPECIFIED", "DESIGNED"}
PlannedFeature ==
  [status : PlanningStatuses \cup {"CLARIFICATION_REQUIRED", "PLANNED"}, revision : Nat, hop : Nat, scope : Nat \ {0},
   design : (0 .. MaxRound) \cup {None}, revised : BOOLEAN, plan : Nat, source : (0 .. MaxRound) \cup {None},
   supersession : (0 .. MaxRound) \cup {None}, correction : (0 .. MaxRound) \cup {None}]
StageNodes ==
  {"refine", "specify", "design"} \cup (IF workflow = "1" THEN {} ELSE {"finalize-plan"})
    \cup (IF workflow = "2.1" THEN {"revise-design", "finalize-plan-revised"} ELSE {})
StageMessage ==
  [to : {"product-owner", "project-manager", "architect"}, scope : Nat,
   node : {"refine", "specify", "design", "finalize-plan", "revise-design", "finalize-plan-revised", None},
   admission : {"ADMITTED", "REJECTED", None}]
StageTask ==
  [phase : {"READY", "ACTIVE", "COMPLETED", None}, blocked : {"decision", "invalid", None}, attempt : Nat,
   inv : {"AUTHORIZED", "SUCCEEDED", "FAILED", None},
   output : {"valid", "invalid", "questions", "needs_decision", None}, root : Nat \cup {None}, current : BOOLEAN]
StagePass ==
  [pc : {"bind", "task", "start", "settle", "node", "skip", "apply", "bindnext"}, f : PlannedFeature,
   t : Stage!Tasks \cup {None}]
CorrectionType == [f : PlannedFeature, round : 1 .. MaxRound]

StageTypes ==
  /\ workflow \in {"1", "2", "2.1"}
  /\ feature \in PlannedFeature
  /\ inbox \in Seq(StageMessage)
  /\ nodes \in [StageNodes -> {"OPEN", "ADMITTED", "RUNNING", "COMPLETED", "SKIPPED"}]
  /\ tasks \in [Stage!Tasks -> StageTask]
  /\ pass \in StagePass \cup {None}
  /\ op \in CorrectionType \cup {None}

(* A stage is done when its message is admitted and its node completed.     *)
StageDone(h) == inbox[h].admission = "ADMITTED" /\ nodes[inbox[h].node] = "COMPLETED"

StageThread ==
  /\ feature.hop >= 1 /\ Len(inbox) = feature.hop /\ inbox[1].scope = 1
  /\ \A h \in 1 .. Len(inbox) :
       /\ inbox[h].node \in StageNodes \cup {None}
       /\ inbox[h].admission = "ADMITTED" => inbox[h].node /= None
       /\ h < feature.hop => StageDone(h)

Specified ==
  /\ feature.status = "CLARIFICATION_REQUIRED" => StageDone(feature.hop)
  /\ feature.status = "DESIGNED" => workflow /= "1"
  /\ feature.source /= None \/ feature.supersession /= None => feature.plan > 0
  /\ feature.status = "PLANNED" =>
       /\ feature.source /= None
       /\ Stage!Completed(<<IF workflow = "1" THEN "architecture" ELSE "finalization", feature.source>>)

DesignLatest ==
  feature.design /= None =>
    /\ feature.status \in {"DESIGNED", "PLANNED"} /\ feature.correction = None
    /\ feature.design = Stage!latestArchitecturePlanRound /\ Stage!Completed(<<"architecture", feature.design>>)

CorrectionUsed ==
  feature.correction /= None =>
    /\ feature.scope > 1 /\ feature.correction <= Stage!latestArchitecturePlanRound + 1
    /\ feature.source /= None => feature.source >= feature.correction
    /\ feature.supersession /= None => feature.supersession >= feature.correction

(* What a pass knows of the task it has taken on.                           *)
TakenOn(p) ==
  /\ p.t \in Stage!Tasks /\ p.t[1] = Stage!planningStage(p.f.status) /\ tasks[p.t].phase /= None
  /\ inbox[p.f.hop].admission = "ADMITTED"
  /\ p.t[1] = "architecture" =>
       /\ p.t[2] = Stage!latestArchitecturePlanRound
       /\ p.f.revision = feature.revision /\ p.f.correction /= None => p.t[2] >= p.f.correction
  /\ p.t[1] = "finalization" => p.f.design = p.t[2]

PassKnows(p) ==
  /\ p.f.revision <= feature.revision /\ (p.f.revision = feature.revision => p.f = feature)
  /\ p.pc /= "bindnext" => p.f.status \in PlanningStatuses /\ p.f.status = feature.status /\ p.f.hop = feature.hop
  /\ p.pc \in {"start", "settle", "node", "skip", "apply"} => TakenOn(p)
  /\ p.pc \in {"node", "skip", "apply"} => Stage!Completed(p.t)
  /\ p.pc \in {"skip", "apply"} => StageDone(p.f.hop)

CorrectorKnows(o) ==
  /\ o.f.revision <= feature.revision /\ (o.f.revision = feature.revision => o.f = feature)
  /\ o.f.status = "SPECIFIED" /\ o.f.plan = 0 /\ o.round <= Stage!latestArchitecturePlanRound + 1

StageInv ==
  /\ StageTypes /\ StageThread /\ Specified /\ DesignLatest /\ CorrectionUsed
  /\ pass /= None => PassKnows(pass)
  /\ op /= None => CorrectorKnows(op)

LEMMA StageTasks ==
  /\ \A t \in Stage!Tasks : t = <<t[1], t[2]>> /\ t[2] \in 0 .. MaxRound
                            /\ t[1] \in {"refinement", "specification", "architecture", "finalization"}
  /\ \A r \in 0 .. MaxRound : <<"architecture", r>> \in Stage!Tasks /\ <<"finalization", r>> \in Stage!Tasks
  /\ <<"refinement", 0>> \in Stage!Tasks /\ <<"specification", 0>> \in Stage!Tasks
BY StageAssumption DEF Stage!Tasks

(* The latest round is the greatest of those there are.                     *)
RoundNumbered == Stage!latestArchitecturePlanRound \in 0 .. MaxRound
RoundGreatest ==
  /\ \A r \in Stage!Rounds : r <= Stage!latestArchitecturePlanRound
  /\ Stage!latestArchitecturePlanRound \in Stage!Rounds \/ Stage!latestArchitecturePlanRound = 0

LEMMA LatestRound == RoundNumbered /\ RoundGreatest
<1> USE DEF RoundNumbered, RoundGreatest
<1>1. Stage!Rounds \subseteq 0 .. MaxRound
  BY DEF Stage!Rounds
<1>2. CASE Stage!Rounds = {}
  BY <1>2, StageAssumption DEF Stage!latestArchitecturePlanRound
<1>3. CASE Stage!Rounds /= {}
  <2> DEFINE S == {k \in Nat : MaxRound - k \in Stage!Rounds}
  <2>1. PICK r \in Stage!Rounds : TRUE
    BY <1>3
  <2>2. MaxRound - r \in S
    BY <1>1, <2>1, StageAssumption
  <2>3. PICK k \in S : \A j \in S : k <= j
    BY <2>2, LeastNat
  <2>4. \A q \in Stage!Rounds : q <= MaxRound - k
    <3> TAKE q \in Stage!Rounds
    <3>1. MaxRound - q \in S
      BY <1>1, StageAssumption
    <3> QED BY <1>1, <2>3, <3>1, StageAssumption
  <2>5. \E m \in Stage!Rounds : \A q \in Stage!Rounds : q <= m
    BY <2>3, <2>4
  <2> HIDE DEF S
  <2>6. Stage!latestArchitecturePlanRound = CHOOSE m \in Stage!Rounds : \A q \in Stage!Rounds : q <= m
    BY <1>3 DEF Stage!latestArchitecturePlanRound
  <2>7. /\ Stage!latestArchitecturePlanRound \in Stage!Rounds
        /\ \A q \in Stage!Rounds : q <= Stage!latestArchitecturePlanRound
    BY <2>5, <2>6
  <2> QED BY <1>1, <2>7
<1> QED BY <1>2, <1>3

LEMMA SameRounds ==
  ASSUME \A r \in 0 .. MaxRound : (tasks'[<<"architecture", r>>].phase = None) <=> (tasks[<<"architecture", r>>].phase = None)
  PROVE  Stage!latestArchitecturePlanRound' = Stage!latestArchitecturePlanRound
<1>1. Stage!Rounds' = Stage!Rounds
  BY DEF Stage!Rounds
<1> QED BY <1>1 DEF Stage!latestArchitecturePlanRound

LEMMA StageInit == Stage!Init => StageInv
<1> SUFFICES ASSUME Stage!Init PROVE StageInv
  OBVIOUS
<1>1. workflow \in {"1", "2", "2.1"}
  BY StageAssumption DEF Stage!Init
<1>2. {Stage!Chain[i] : i \in DOMAIN Stage!Chain} = StageNodes
  <2>1. CASE workflow = "1"
    <3>1. Stage!Chain = <<"refine", "specify", "design">>
      BY <2>1 DEF Stage!Chain
    <3> QED BY <2>1, <3>1 DEF StageNodes
  <2>2. CASE workflow = "2"
    <3>1. Stage!Chain = <<"refine", "specify", "design", "finalize-plan">>
      BY <2>2 DEF Stage!Chain
    <3> QED BY <2>2, <3>1 DEF StageNodes
  <2>3. CASE workflow = "2.1"
    <3>1. Stage!Chain = <<"refine", "specify", "design", "finalize-plan", "revise-design", "finalize-plan-revised">>
      BY <2>3 DEF Stage!Chain
    <3> QED BY <2>3, <3>1 DEF StageNodes
  <2> QED BY <1>1, <2>1, <2>2, <2>3
<1>3. StageTypes
  <2>1. feature \in PlannedFeature
    BY DEF Stage!Init, PlannedFeature, PlanningStatuses
  <2>2. inbox \in Seq(StageMessage)
    BY DEF Stage!Init, StageMessage
  <2>3. tasks \in [Stage!Tasks -> StageTask]
    BY DEF Stage!Init, Stage!NoTask, StageTask
  <2> QED BY <1>1, <1>2, <2>1, <2>2, <2>3 DEF Stage!Init, StageTypes
<1>4. StageThread
  BY StageAssumption DEF Stage!Init, StageThread
<1> QED BY <1>3, <1>4, NoneAssumption, StageAssumption
        DEF StageInv, Stage!Init, Specified, DesignLatest, CorrectionUsed

LEMMA StageProperty == StageInv => Stage!PlannedAsSpecified
BY NoneAssumption, StageAssumption, LatestRound
   DEF RoundNumbered, StageInv, StageTypes, PlannedFeature, StageThread, StageDone, Specified, DesignLatest, CorrectionUsed, Stage!PlannedAsSpecified

(* What is admitted, completed or begun stays so.                           *)
StageStays ==
  /\ workflow' = workflow /\ Len(inbox') >= Len(inbox)
  /\ \A h \in 1 .. Len(inbox) :
       inbox[h].admission = "ADMITTED" => inbox'[h].admission = "ADMITTED" /\ inbox'[h].node = inbox[h].node
  /\ \A n \in StageNodes : nodes[n] = "COMPLETED" => nodes'[n] = "COMPLETED"
  /\ \A t \in Stage!Tasks : Stage!Completed(t) => Stage!Completed(t)'
  /\ \A t \in Stage!Tasks : tasks[t].phase /= None => tasks'[t].phase /= None
  /\ Stage!latestArchitecturePlanRound' >= Stage!latestArchitecturePlanRound

LEMMA DoneStays ==
  ASSUME StageThread, StageStays, NEW h \in 1 .. Len(inbox), StageDone(h)
  PROVE  StageDone(h)'
BY DEF StageThread, StageStays, StageDone

LEMMA SpecifiedStays ==
  ASSUME StageInv, StageStays, feature' = feature,
         feature.design /= None => Stage!latestArchitecturePlanRound' = Stage!latestArchitecturePlanRound
  PROVE  Specified' /\ DesignLatest' /\ CorrectionUsed'
<1>1. feature.status = "CLARIFICATION_REQUIRED" => StageDone(feature.hop)'
  <2>1. feature.hop \in 1 .. Len(inbox)
    BY DEF StageInv, StageTypes, PlannedFeature, StageThread
  <2> QED BY <2>1, DoneStays DEF StageInv, Specified
<1>2. \A r \in 0 .. MaxRound : /\ Stage!Completed(<<"architecture", r>>) => Stage!Completed(<<"architecture", r>>)'
                               /\ Stage!Completed(<<"finalization", r>>) => Stage!Completed(<<"finalization", r>>)'
  BY StageTasks DEF StageStays
<1>3. feature.source \in (0 .. MaxRound) \cup {None} /\ feature.design \in (0 .. MaxRound) \cup {None}
      /\ feature.correction \in (0 .. MaxRound) \cup {None}
  BY DEF StageInv, StageTypes, PlannedFeature
<1>4. Specified'
  <2>1. workflow' = workflow
    BY DEF StageStays
  <2>2. feature.status = "PLANNED" =>
          Stage!Completed(<<IF workflow = "1" THEN "architecture" ELSE "finalization", feature.source>>)'
    BY <1>2, <1>3, <2>1 DEF StageInv, Specified
  <2> QED BY <1>1, <2>1, <2>2 DEF StageInv, Specified
<1>5. DesignLatest'
  BY <1>2, <1>3 DEF StageInv, DesignLatest
<1>6. CorrectionUsed'
  <2>1. RoundNumbered /\ RoundNumbered'
    BY LatestRound, PTL
  <2> QED BY <1>3, <2>1, StageAssumption DEF StageInv, CorrectionUsed, StageStays, RoundNumbered
<1> QED BY <1>4, <1>5, <1>6

(* A pass over a feature that has not moved knows what it knew.             *)
LEMMA PassStays ==
  ASSUME StageInv, StageStays, feature' = feature,
         Stage!latestArchitecturePlanRound' = Stage!latestArchitecturePlanRound,
         NEW p \in StagePass, PassKnows(p)
  PROVE  PassKnows(p)'
<1>1. p.pc \in {"start", "settle", "node", "skip", "apply"} => p.f.hop \in 1 .. Len(inbox)
  BY DEF StageInv, StageTypes, PlannedFeature, StageThread, PassKnows
<1>2. p.pc \in {"start", "settle", "node", "skip", "apply"} => TakenOn(p)'
  BY <1>1 DEF PassKnows, TakenOn, StageStays
<1>3. p.pc \in {"node", "skip", "apply"} => Stage!Completed(p.t)'
  BY DEF PassKnows, TakenOn, StageStays
<1>4. p.pc \in {"skip", "apply"} => StageDone(p.f.hop)'
  BY <1>1, DoneStays DEF StageInv, PassKnows
<1> QED BY <1>2, <1>3, <1>4 DEF PassKnows

LEMMA CorrectorStays ==
  ASSUME StageInv, StageStays, StageTypes', feature' = feature \/ feature'.revision > feature.revision,
         NEW o \in CorrectionType, CorrectorKnows(o)
  PROVE  CorrectorKnows(o)'
<1>1. RoundNumbered /\ RoundNumbered'
  BY LatestRound, PTL
<1>2. o.f.revision \in Nat /\ feature.revision \in Nat /\ feature'.revision \in Nat /\ o.round \in 1 .. MaxRound
  BY DEF CorrectionType, PlannedFeature, StageInv, StageTypes
<1>3. o.round <= Stage!latestArchitecturePlanRound' + 1
  BY <1>1, <1>2, StageAssumption DEF CorrectorKnows, StageStays, RoundNumbered
<1>4. CASE feature' = feature
  BY <1>3, <1>4 DEF CorrectorKnows
<1>5. CASE feature'.revision > feature.revision
  <2>1. o.f.revision < feature'.revision
    BY <1>2, <1>5 DEF CorrectorKnows
  <2> QED BY <1>2, <1>3, <2>1 DEF CorrectorKnows
<1> QED BY <1>4, <1>5

(* The thread of a feature that has not moved.                              *)
LEMMA ThreadStays ==
  ASSUME StageInv, StageStays, feature' = feature, Len(inbox') = Len(inbox), inbox'[1].scope = inbox[1].scope,
         \A h \in 1 .. Len(inbox) : inbox'[h].node \in StageNodes \cup {None}
                                    /\ (inbox'[h].admission = "ADMITTED" => inbox'[h].node /= None)
  PROVE  StageThread'
<1>1. StageNodes' = StageNodes
  BY DEF StageStays, StageNodes
<1>2. \A h \in 1 .. Len(inbox) : h < feature.hop => StageDone(h)'
  BY DoneStays DEF StageInv, StageThread
<1> QED BY <1>1, <1>2 DEF StageInv, StageThread

(* So a step that leaves the feature keeps the invariant if the pass it     *)
(* leaves knows what it should.                                             *)
LEMMA StageMoves ==
  ASSUME StageInv, StageStays, StageTypes', StageThread', feature' = feature, op' = op \/ op' = None,
         feature.design /= None => Stage!latestArchitecturePlanRound' = Stage!latestArchitecturePlanRound,
         pass' /= None => PassKnows(pass)'
  PROVE  StageInv'
<1>1. Specified' /\ DesignLatest' /\ CorrectionUsed'
  BY SpecifiedStays
<1>2. PICK o : o = op
  OBVIOUS
<1>3. o /= None => CorrectorKnows(o)'
  BY <1>2, CorrectorStays DEF StageInv, StageTypes
<1>4. op' /= None => CorrectorKnows(op)'
  BY <1>2, <1>3
<1> QED BY <1>1, <1>4 DEF StageInv

(* A pass may stop; one that has taken a task on may go on, knowing more.   *)
PassGoes ==
  \/ pass' = pass \/ pass' = None
  \/ pass /= None /\ pass.pc = "bind" /\ pass' = [pass EXCEPT !.pc = "task"]
  \/ /\ pass /= None /\ pass.pc \in {"start", "settle", "node", "skip"}
     /\ \E pc \in {"settle", "node", "skip", "apply"} :
          /\ pass' = [pass EXCEPT !.pc = pc]
          /\ pc /= "settle" => tasks'[pass.t].phase = "COMPLETED"
          /\ pc \in {"skip", "apply"} =>
               inbox'[pass.f.hop].admission = "ADMITTED" /\ nodes'[inbox'[pass.f.hop].node] = "COMPLETED"

StageRest ==
  /\ inbox' \in Seq(StageMessage)
  /\ nodes' \in [StageNodes -> {"OPEN", "ADMITTED", "RUNNING", "COMPLETED", "SKIPPED"}]
  /\ tasks' \in [Stage!Tasks -> StageTask]
  /\ Stage!latestArchitecturePlanRound' = Stage!latestArchitecturePlanRound

LEMMA StageGoes ==
  ASSUME StageInv, StageStays, StageThread', StageRest, feature' = feature, op' = op \/ op' = None, PassGoes
  PROVE  StageInv'
<1>1. StageNodes' = StageNodes
  BY DEF StageStays, StageNodes
<1>2. PICK p : p = pass
  OBVIOUS
<1>3. PICK q : q = pass'
  OBVIOUS
<1>4. p = None \/ (p \in StagePass /\ PassKnows(p))
  BY <1>2 DEF StageInv, StageTypes
<1>5. p /= None => PassKnows(p)'
  BY <1>4, PassStays DEF StageRest
<1>6. /\ q = None \/ q \in StagePass
      /\ q /= None => PassKnows(q)'
  <2>1. CASE q = p \/ q = None
    BY <1>4, <1>5, <2>1
  <2>2. CASE p /= None /\ p.pc = "bind" /\ q = [p EXCEPT !.pc = "task"]
    <3>1. q \in StagePass /\ q.pc = "task" /\ q.f = p.f
      BY <1>4, <2>2 DEF StagePass
    <3>2. PassKnows(q)'
      BY <1>5, <2>2, <3>1 DEF PassKnows
    <3> QED BY <3>1, <3>2
  <2>3. CASE q /= p /\ q /= None /\ ~(p /= None /\ p.pc = "bind" /\ q = [p EXCEPT !.pc = "task"])
    <3>1. PICK pc \in {"settle", "node", "skip", "apply"} :
            /\ p /= None /\ p.pc \in {"start", "settle", "node", "skip"} /\ q = [p EXCEPT !.pc = pc]
            /\ pc /= "settle" => tasks'[p.t].phase = "COMPLETED"
            /\ pc \in {"skip", "apply"} =>
                 inbox'[p.f.hop].admission = "ADMITTED" /\ nodes'[inbox'[p.f.hop].node] = "COMPLETED"
      BY <1>2, <1>3, <2>3 DEF PassGoes
    <3>2. q \in StagePass /\ q.pc = pc /\ q.f = p.f /\ q.t = p.t
      BY <1>4, <3>1 DEF StagePass
    <3>3. PassKnows(p)'
      BY <1>5, <3>1
    <3>4. TakenOn(q)'
      BY <3>1, <3>2, <3>3 DEF PassKnows, TakenOn
    <3>5. PassKnows(q)'
      BY <3>1, <3>2, <3>3, <3>4 DEF PassKnows, StageDone, Stage!Completed
    <3> QED BY <3>2, <3>5
  <2> QED BY <2>1, <2>2, <2>3
<1>7. StageTypes'
  BY <1>1, <1>3, <1>6 DEF StageInv, StageTypes, StageStays, StageRest
<1>8. pass' /= None => PassKnows(pass)'
  BY <1>3, <1>6
<1> QED BY <1>7, <1>8, StageMoves DEF StageRest

LEMMA TaskWritten ==
  ASSUME StageInv, NEW t \in Stage!Tasks, NEW k \in StageTask, tasks' = [tasks EXCEPT ![t] = k],
         tasks[t].phase = "COMPLETED" => k.phase = "COMPLETED", (k.phase = None) <=> (tasks[t].phase = None),
         UNCHANGED <<workflow, feature, inbox, nodes>>
  PROVE  StageStays /\ StageThread' /\ StageRest
<1>1. tasks \in [Stage!Tasks -> StageTask]
  BY DEF StageInv, StageTypes
<1>2. tasks' \in [Stage!Tasks -> StageTask]
  BY <1>1
<1>3. \A u \in Stage!Tasks : /\ tasks[u].phase = "COMPLETED" => tasks'[u].phase = "COMPLETED"
                             /\ (tasks'[u].phase = None) <=> (tasks[u].phase = None)
  BY <1>1
<1>4. Stage!latestArchitecturePlanRound' = Stage!latestArchitecturePlanRound
  BY <1>3, StageTasks, SameRounds
<1>5. StageRest
  BY <1>2, <1>4 DEF StageRest, StageInv, StageTypes
<1>6. StageStays
  <2>1. Stage!latestArchitecturePlanRound \in Nat
    BY LatestRound DEF RoundNumbered
  <2> QED BY <1>3, <1>4, <2>1 DEF StageStays, Stage!Completed, StageInv, StageTypes
<1>7. StageThread'
  <2>1. StageThread
    BY DEF StageInv
  <2> QED BY <1>6, <2>1, ThreadStays DEF StageThread
<1> QED BY <1>5, <1>6, <1>7

(* Operators, agents and deployments on a task.                             *)
LEMMA StageTasksMove ==
  ASSUME StageInv, NEW t \in Stage!Tasks,
         \/ Stage!BindRecoveryProfile(t) \/ Stage!RetryCancelledFeaturePlanning(t) \/ Stage!Redeploy(t) \/ Stage!Execute(t)
  PROVE  StageInv'
<1>1. tasks[t] \in StageTask
  BY DEF StageInv, StageTypes
<1>2. PICK k \in StageTask : tasks' = [tasks EXCEPT ![t] = k] /\ k.phase = tasks[t].phase
  <2>1. CASE Stage!BindRecoveryProfile(t)
    <3>1. [tasks[t] EXCEPT !.current = FALSE] \in StageTask
      BY <1>1 DEF StageTask
    <3> QED BY <1>1, <2>1, <3>1 DEF Stage!BindRecoveryProfile, StageTask
  <2>2. CASE Stage!RetryCancelledFeaturePlanning(t)
    <3>1. PICK x \in StageTask : x = tasks[t]
      BY <1>1
    <3>2. PICK k : k = [tasks[t] EXCEPT !.current = TRUE, !.blocked = None, !.attempt = @ + 1, !.inv = "AUTHORIZED", !.output = None]
      OBVIOUS
    <3>3. k = [phase |-> x.phase, blocked |-> None, attempt |-> x.attempt + 1, inv |-> "AUTHORIZED", output |-> None,
               root |-> x.root, current |-> TRUE]
      BY <3>1, <3>2 DEF StageTask
    <3>4. k \in StageTask /\ k.phase = x.phase
      BY <3>1, <3>3 DEF StageTask
    <3>5. tasks' = [tasks EXCEPT ![t] = k]
      BY <2>2, <3>2, Zenon DEF Stage!RetryCancelledFeaturePlanning
    <3> QED BY <3>1, <3>4, <3>5
  <2>3. CASE Stage!Redeploy(t)
    <3>1. [tasks[t] EXCEPT !.output = "valid"] \in StageTask
      BY <1>1 DEF StageTask
    <3> QED BY <1>1, <2>3, <3>1 DEF Stage!Redeploy, StageTask
  <2>4. CASE Stage!Execute(t)
    <3>1. \A o \in Stage!Outputs(t) : o \in {"valid", "invalid", "questions", "needs_decision"}
      BY DEF Stage!Outputs
    <3>2. \A o \in Stage!Outputs(t) : [tasks[t] EXCEPT !.inv = "SUCCEEDED", !.output = o] \in StageTask
      BY <1>1, <3>1 DEF StageTask
    <3>3. [tasks[t] EXCEPT !.inv = "FAILED"] \in StageTask
      BY <1>1 DEF StageTask
    <3>4. \A o \in Stage!Outputs(t) : [tasks[t] EXCEPT !.inv = "SUCCEEDED", !.output = o].phase = tasks[t].phase
      BY <1>1 DEF StageTask
    <3>5. [tasks[t] EXCEPT !.inv = "FAILED"].phase = tasks[t].phase
      BY <1>1 DEF StageTask
    <3>6. CASE tasks' = [tasks EXCEPT ![t].inv = "FAILED"]
      BY <3>3, <3>5, <3>6
    <3>7. ASSUME NEW o \in Stage!Outputs(t), tasks' = [tasks EXCEPT ![t] = [@ EXCEPT !.inv = "SUCCEEDED", !.output = o]]
          PROVE  \E k \in StageTask : tasks' = [tasks EXCEPT ![t] = k] /\ k.phase = tasks[t].phase
      BY <3>2, <3>4, <3>7
    <3> QED BY <2>4, <3>6, <3>7 DEF Stage!Execute
  <2> QED BY <2>1, <2>2, <2>3, <2>4
<1>3. UNCHANGED <<workflow, feature, inbox, nodes, pass, op>>
  BY DEF Stage!BindRecoveryProfile, Stage!RetryCancelledFeaturePlanning, Stage!Redeploy, Stage!Execute
<1>4. StageStays /\ StageThread' /\ StageRest
  BY <1>2, <1>3, TaskWritten
<1> QED BY <1>3, <1>4, StageGoes DEF PassGoes

LEMMA NodeWritten ==
  ASSUME StageInv, NEW n, NEW s \in {"OPEN", "ADMITTED", "RUNNING", "COMPLETED", "SKIPPED"}, nodes' = [nodes EXCEPT ![n] = s],
         nodes[n] = "COMPLETED" => s = "COMPLETED", UNCHANGED <<workflow, feature, inbox, tasks>>
  PROVE  StageStays /\ StageThread' /\ StageRest
<1>1. nodes' \in [StageNodes -> {"OPEN", "ADMITTED", "RUNNING", "COMPLETED", "SKIPPED"}]
  BY DEF StageInv, StageTypes
<1>2. Stage!latestArchitecturePlanRound' = Stage!latestArchitecturePlanRound
  BY SameRounds
<1>3. StageRest
  BY <1>1, <1>2 DEF StageRest, StageInv, StageTypes
<1>4. StageStays
  <2>1. Stage!latestArchitecturePlanRound \in Nat
    BY LatestRound DEF RoundNumbered
  <2>2. \A m \in StageNodes : nodes[m] = "COMPLETED" => nodes'[m] = "COMPLETED"
    BY DEF StageInv, StageTypes
  <2> QED BY <1>2, <2>1, <2>2 DEF StageStays, Stage!Completed, StageInv, StageTypes
<1>5. StageThread'
  <2>1. StageThread
    BY DEF StageInv
  <2> QED BY <1>4, <2>1, ThreadStays DEF StageThread
<1> QED BY <1>3, <1>4, <1>5

(* A step on no task and no node.                                           *)
LEMMA StageUnwritten ==
  ASSUME StageInv, UNCHANGED <<workflow, feature, inbox, nodes, tasks>>
  PROVE  StageStays /\ StageThread' /\ StageRest
<1>1. Stage!latestArchitecturePlanRound' = Stage!latestArchitecturePlanRound
  BY SameRounds
<1>2. Stage!latestArchitecturePlanRound \in Nat
  BY LatestRound DEF RoundNumbered
<1>3. StageRest
  BY <1>1 DEF StageRest, StageInv, StageTypes
<1>4. StageStays
  BY <1>1, <1>2 DEF StageStays, Stage!Completed, StageInv, StageTypes
<1>5. StageThread'
  <2>1. StageThread
    BY DEF StageInv
  <2> QED BY <1>4, <2>1, ThreadStays DEF StageThread
<1> QED BY <1>3, <1>4, <1>5

(* The node of a pass that has taken a task on.                             *)
LEMMA NodeOfPass ==
  ASSUME StageInv, pass /= None, pass.pc \in {"start", "settle", "node", "skip", "apply"}
  PROVE  /\ pass \in StagePass /\ TakenOn(pass) /\ pass.f.hop = feature.hop /\ pass.f.hop \in 1 .. Len(inbox)
         /\ inbox[pass.f.hop].admission = "ADMITTED" /\ inbox[pass.f.hop].node \in StageNodes
<1>1. pass \in StagePass /\ PassKnows(pass)
  BY DEF StageInv, StageTypes
<1>2. pass.f.hop = feature.hop /\ TakenOn(pass)
  BY <1>1 DEF PassKnows
<1>3. feature.hop \in 1 .. Len(inbox)
  BY DEF StageInv, StageTypes, PlannedFeature, StageThread
<1> QED BY <1>1, <1>2, <1>3 DEF TakenOn, StageInv, StageThread

LEMMA StageStarts ==
  ASSUME StageInv, Stage!startFeatureWorkflowStage
  PROVE  StageInv'
<1>1. pass /= None /\ pass.pc = "start"
  BY DEF Stage!startFeatureWorkflowStage, Stage!At
<1>2. PICK n \in StageNodes : n = inbox[pass.f.hop].node
  BY <1>1, NodeOfPass
<1>3. UNCHANGED <<workflow, feature, inbox, tasks, op>>
  BY DEF Stage!startFeatureWorkflowStage
<1>4. PassGoes
  BY <1>1 DEF Stage!startFeatureWorkflowStage, Stage!Goto, Stage!Stop, PassGoes
<1>5. nodes[n] \in {"OPEN", "ADMITTED", "RUNNING", "COMPLETED", "SKIPPED"}
  BY <1>2 DEF StageInv, StageTypes
<1>6. UNCHANGED nodes \/ nodes' = [nodes EXCEPT ![n] = IF nodes[n] = "ADMITTED" THEN "RUNNING" ELSE nodes[n]]
  BY <1>2 DEF Stage!startFeatureWorkflowStage, Stage!Linked
<1>7. StageStays /\ StageThread' /\ StageRest
  BY <1>3, <1>5, <1>6, NodeWritten, StageUnwritten
<1> QED BY <1>3, <1>4, <1>7, StageGoes

LEMMA StageCompletes ==
  ASSUME StageInv, Stage!completeFeatureWorkflowStage
  PROVE  StageInv'
<1>1. pass /= None /\ pass.pc = "node"
  BY DEF Stage!completeFeatureWorkflowStage, Stage!At
<1>2. PICK n \in StageNodes : n = inbox[pass.f.hop].node
  BY <1>1, NodeOfPass
<1>3. UNCHANGED <<workflow, feature, inbox, tasks, op>>
  BY DEF Stage!completeFeatureWorkflowStage
<1>4. \/ UNCHANGED nodes /\ pass' = None
      \/ /\ nodes' = [nodes EXCEPT ![n] = "COMPLETED"]
         /\ \E pc \in {"skip", "apply"} : pass' = [pass EXCEPT !.pc = pc]
  BY <1>2 DEF Stage!completeFeatureWorkflowStage, Stage!Linked, Stage!Goto, Stage!Stop
<1>5. StageStays /\ StageThread' /\ StageRest
  BY <1>3, <1>4, NodeWritten, StageUnwritten
<1>6. PassGoes
  <2>1. tasks'[pass.t].phase = "COMPLETED"
    BY <1>1, <1>3 DEF StageInv, PassKnows, Stage!Completed
  <2>2. inbox'[pass.f.hop].admission = "ADMITTED"
    BY <1>1, <1>3, NodeOfPass
  <2>3. nodes' = [nodes EXCEPT ![n] = "COMPLETED"] => nodes'[inbox'[pass.f.hop].node] = "COMPLETED"
    BY <1>2, <1>3 DEF StageInv, StageTypes
  <2> QED BY <1>1, <1>4, <2>1, <2>2, <2>3 DEF PassGoes
<1> QED BY <1>3, <1>5, <1>6, StageGoes

LEMMA StageSkips ==
  ASSUME StageInv, Stage!skipUnusedFeatureRevision
  PROVE  StageInv'
<1>1. pass /= None /\ pass.pc = "skip"
  BY DEF Stage!skipUnusedFeatureRevision, Stage!At
<1>2. UNCHANGED <<workflow, feature, inbox, tasks, op>>
  BY DEF Stage!skipUnusedFeatureRevision
<1>3. PICK s : s = IF nodes["revise-design"] = "SKIPPED" THEN "finalize-plan-revised" ELSE "revise-design"
  OBVIOUS
<1>4. \/ nodes[s] = "OPEN" /\ nodes' = [nodes EXCEPT ![s] = "SKIPPED"] /\ UNCHANGED pass
      \/ UNCHANGED nodes /\ pass' = [pass EXCEPT !.pc = "apply"]
      \/ UNCHANGED nodes /\ pass' = None
  BY <1>3 DEF Stage!skipUnusedFeatureRevision, Stage!Ready, Stage!Goto, Stage!Stop
<1>5. StageStays /\ StageThread' /\ StageRest
  BY <1>2, <1>4, NodeWritten, StageUnwritten
<1>6. PassGoes
  <2>1. PassKnows(pass)
    BY <1>1 DEF StageInv
  <2>2. Stage!Completed(pass.t) /\ StageDone(pass.f.hop)
    BY <1>1, <2>1 DEF PassKnows
  <2> QED BY <1>1, <1>2, <1>4, <2>2 DEF PassGoes, Stage!Completed, StageDone
<1> QED BY <1>2, <1>5, <1>6, StageGoes

LEMMA StageSettles ==
  ASSUME StageInv, Stage!settleFeatureStage
  PROVE  StageInv'
<1>1. pass /= None /\ pass.pc = "settle"
  BY DEF Stage!settleFeatureStage, Stage!At
<1>2. UNCHANGED <<workflow, feature, inbox, nodes, op>>
  BY DEF Stage!settleFeatureStage
<1>3. PICK t \in Stage!Tasks : t = pass.t
  BY <1>1, NodeOfPass DEF TakenOn
<1>4. tasks[t] \in StageTask
  BY DEF StageInv, StageTypes
<1>5. \/ UNCHANGED tasks /\ pass' = None
      \/ tasks' = [tasks EXCEPT ![t].blocked = None] /\ UNCHANGED pass
      \/ tasks[t].phase = "COMPLETED" /\ pass' = [pass EXCEPT !.pc = "node"] /\ UNCHANGED tasks
      \/ (\E b \in {"decision", "invalid"} : tasks' = [tasks EXCEPT ![t].blocked = b]) /\ pass' = None
      \/ tasks' = [tasks EXCEPT ![t].phase = "COMPLETED"] /\ pass' = [pass EXCEPT !.pc = "node"]
  BY <1>3 DEF Stage!settleFeatureStage, Stage!Goto, Stage!Stop
<1>6. tasks[t].phase /= None
  BY <1>1, <1>3, NodeOfPass DEF TakenOn
<1>7. PICK k \in StageTask : /\ tasks' = [tasks EXCEPT ![t] = k] /\ k.phase /= None
                             /\ tasks[t].phase = "COMPLETED" => k.phase = "COMPLETED"
  <2>1. CASE UNCHANGED tasks
    <3>1. tasks' = [tasks EXCEPT ![t] = tasks[t]]
      BY <2>1 DEF StageInv, StageTypes
    <3> QED BY <1>4, <1>6, <3>1
  <2>2. ASSUME NEW b \in {"decision", "invalid", None}, tasks' = [tasks EXCEPT ![t].blocked = b]
        PROVE  \E k \in StageTask : /\ tasks' = [tasks EXCEPT ![t] = k] /\ k.phase /= None
                                    /\ tasks[t].phase = "COMPLETED" => k.phase = "COMPLETED"
    <3>1. [tasks[t] EXCEPT !.blocked = b] \in StageTask /\ [tasks[t] EXCEPT !.blocked = b].phase = tasks[t].phase
      BY <1>4 DEF StageTask
    <3> QED BY <1>6, <2>2, <3>1
  <2>3. CASE tasks' = [tasks EXCEPT ![t].phase = "COMPLETED"]
    <3>1. [tasks[t] EXCEPT !.phase = "COMPLETED"] \in StageTask /\ [tasks[t] EXCEPT !.phase = "COMPLETED"].phase = "COMPLETED"
      BY <1>4 DEF StageTask
    <3> QED BY <2>3, <3>1, StageAssumption
  <2> QED BY <1>5, <2>1, <2>2, <2>3
<1>8. StageStays /\ StageThread' /\ StageRest
  <2>1. (k.phase = None) <=> (tasks[t].phase = None)
    BY <1>6, <1>7
  <2> QED BY <1>2, <1>7, <2>1, TaskWritten
<1>9. PassGoes
  <2>1. tasks[t].phase = "COMPLETED" => tasks'[t].phase = "COMPLETED"
    <3>1. tasks'[t] = k
      BY <1>7 DEF StageInv, StageTypes
    <3> QED BY <1>7, <3>1
  <2>2. tasks' = [tasks EXCEPT ![t].phase = "COMPLETED"] => tasks'[t].phase = "COMPLETED"
    BY <1>4 DEF StageInv, StageTypes, StageTask
  <2> QED BY <1>1, <1>3, <1>5, <2>1, <2>2 DEF PassGoes
<1> QED BY <1>2, <1>8, <1>9, StageGoes

LEMMA MessageWritten ==
  ASSUME StageInv, NEW h \in 1 .. Len(inbox), NEW m \in StageMessage, inbox' = [inbox EXCEPT ![h] = m],
         m.scope = inbox[h].scope, m.node \in StageNodes \cup {None}, m.admission = "ADMITTED" => m.node /= None,
         inbox[h].admission = "ADMITTED" => m.admission = "ADMITTED" /\ m.node = inbox[h].node,
         nodes' \in [StageNodes -> {"OPEN", "ADMITTED", "RUNNING", "COMPLETED", "SKIPPED"}],
         \A n \in StageNodes : nodes[n] = "COMPLETED" => nodes'[n] = "COMPLETED",
         UNCHANGED <<workflow, feature, tasks>>
  PROVE  StageStays /\ StageThread' /\ StageRest
<1>1. inbox \in Seq(StageMessage) /\ tasks \in [Stage!Tasks -> StageTask]
  BY DEF StageInv, StageTypes
<1>2. /\ inbox' \in Seq(StageMessage) /\ Len(inbox') = Len(inbox)
      /\ \A g \in 1 .. Len(inbox) : inbox'[g] = IF g = h THEN m ELSE inbox[g]
  BY <1>1
<1>3. Stage!latestArchitecturePlanRound' = Stage!latestArchitecturePlanRound
  BY SameRounds
<1>4. Stage!latestArchitecturePlanRound \in Nat
  BY LatestRound DEF RoundNumbered
<1>5. StageRest
  BY <1>1, <1>2, <1>3 DEF StageRest
<1>6. StageStays
  BY <1>1, <1>2, <1>3, <1>4 DEF StageStays, Stage!Completed
<1>7. StageThread'
  <2>1. StageThread
    BY DEF StageInv
  <2>2. inbox'[1].scope = inbox[1].scope
    BY <1>1, <1>2, <2>1 DEF StageThread
  <2>3. \A g \in 1 .. Len(inbox) : inbox'[g].node \in StageNodes \cup {None}
                                    /\ (inbox'[g].admission = "ADMITTED" => inbox'[g].node /= None)
    BY <1>2, <2>1 DEF StageThread
  <2> QED BY <1>2, <1>6, <2>2, <2>3, ThreadStays
<1> QED BY <1>5, <1>6, <1>7

LEMMA StageAdmits ==
  ASSUME StageInv, NEW h \in DOMAIN inbox, Stage!Admit(h)
  PROVE  StageInv'
<1>1. inbox \in Seq(StageMessage) /\ StageThread
  BY DEF StageInv, StageTypes
<1>2. h \in 1 .. Len(inbox) /\ inbox[h] \in StageMessage
  BY <1>1
<1>3. inbox[h].node /= None /\ inbox[h].admission = None /\ UNCHANGED <<workflow, feature, tasks, pass, op>>
  BY DEF Stage!Admit
<1>4. inbox[h].node \in StageNodes
  BY <1>1, <1>2, <1>3 DEF StageThread
<1>5. PICK a \in {"ADMITTED", "REJECTED"} : inbox' = [inbox EXCEPT ![h] = [inbox[h] EXCEPT !.admission = a]]
  BY DEF Stage!Admit
<1>6. PICK m : m = [inbox[h] EXCEPT !.admission = a]
  OBVIOUS
<1>7. m \in StageMessage /\ m.scope = inbox[h].scope /\ m.node = inbox[h].node
  BY <1>2, <1>6 DEF StageMessage
<1>8. /\ nodes' \in [StageNodes -> {"OPEN", "ADMITTED", "RUNNING", "COMPLETED", "SKIPPED"}]
      /\ \A n \in StageNodes : nodes[n] = "COMPLETED" => nodes'[n] = "COMPLETED"
  <2>1. nodes \in [StageNodes -> {"OPEN", "ADMITTED", "RUNNING", "COMPLETED", "SKIPPED"}]
    BY DEF StageInv, StageTypes
  <2>2. UNCHANGED nodes \/ (nodes[inbox[h].node] = "OPEN" /\ nodes' = [nodes EXCEPT ![inbox[h].node] = "ADMITTED"])
    BY DEF Stage!Admit, Stage!Ready
  <2> QED BY <2>1, <2>2
<1>9. StageStays /\ StageThread' /\ StageRest
  <2>1. inbox[h].admission /= "ADMITTED"
    BY <1>3, StageAssumption
  <2>2. inbox' = [inbox EXCEPT ![h] = m]
    BY <1>5, <1>6
  <2> QED BY <1>2, <1>3, <1>4, <1>7, <1>8, <2>1, <2>2, MessageWritten
<1> QED BY <1>3, <1>9, StageGoes DEF PassGoes

(* A message that is not bound is bound to a node of the workflow.          *)
LEMMA MessageBound ==
  ASSUME StageInv, NEW h \in 1 .. Len(inbox), inbox[h].node = None, NEW s \in StageNodes,
         inbox' = [inbox EXCEPT ![h].node = s], UNCHANGED <<workflow, feature, nodes, tasks>>
  PROVE  StageStays /\ StageThread' /\ StageRest
<1>1. inbox \in Seq(StageMessage) /\ StageThread
  BY DEF StageInv, StageTypes
<1>2. inbox[h] \in StageMessage /\ inbox[h].admission /= "ADMITTED"
  BY <1>1 DEF StageThread
<1>3. PICK m : m = [inbox[h] EXCEPT !.node = s]
  OBVIOUS
<1>4. m \in StageMessage /\ m.scope = inbox[h].scope /\ m.node = s /\ m.admission = inbox[h].admission
  BY <1>2, <1>3 DEF StageMessage, StageNodes
<1>5. inbox' = [inbox EXCEPT ![h] = m]
  BY <1>3
<1>6. nodes \in [StageNodes -> {"OPEN", "ADMITTED", "RUNNING", "COMPLETED", "SKIPPED"}]
  BY DEF StageInv, StageTypes
<1> QED BY <1>2, <1>4, <1>5, <1>6, MessageWritten

LEMMA StageBinds ==
  ASSUME StageInv, Stage!bindCurrentFeatureWorkflowStage
  PROVE  StageInv'
<1>1. pass /= None /\ pass \in StagePass /\ PassKnows(pass) /\ UNCHANGED <<workflow, feature, nodes, tasks, op>>
  BY DEF Stage!bindCurrentFeatureWorkflowStage, Stage!At, StageInv, StageTypes
<1>2. feature.hop \in 1 .. Len(inbox) /\ workflow \in {"1", "2", "2.1"}
  BY DEF StageInv, StageTypes, PlannedFeature, StageThread
<1>3. CASE pass.pc = "bind"
  <2>1. pass.f.hop = feature.hop /\ pass.f.status = feature.status /\ pass.f.status \in PlanningStatuses
    BY <1>1, <1>3 DEF PassKnows
  <2>2. Stage!workflowStageForFeature(pass.f) \in StageNodes
    BY <1>2, <2>1 DEF StageInv, Specified, PlanningStatuses, StageNodes, Stage!workflowStageForFeature
  <2>3. /\ pass' = None \/ pass' = [pass EXCEPT !.pc = "task"]
        /\ \/ UNCHANGED inbox
           \/ /\ inbox[feature.hop].node = None
              /\ inbox' = [inbox EXCEPT ![feature.hop].node = Stage!workflowStageForFeature(pass.f)]
    BY <1>3, <2>1 DEF Stage!bindCurrentFeatureWorkflowStage, Stage!At, Stage!Linked, Stage!Goto, Stage!Stop
  <2>4. StageStays /\ StageThread' /\ StageRest
    BY <1>1, <1>2, <2>2, <2>3, MessageBound, StageUnwritten
  <2>5. PassGoes
    BY <1>1, <1>3, <2>3 DEF PassGoes
  <2> QED BY <1>1, <2>4, <2>5, StageGoes
<1>4. CASE pass.pc = "bindnext"
  <2>1. PICK s : s = Stage!workflowStageForFeature(feature)
    OBVIOUS
  <2>2. s /= None => s \in StageNodes
    BY <1>2, <2>1 DEF StageInv, Specified, StageNodes, Stage!workflowStageForFeature
  <2>3. /\ pass' = None
        /\ \/ UNCHANGED inbox
           \/ inbox[feature.hop].node = None /\ s /= None /\ inbox' = [inbox EXCEPT ![feature.hop].node = s]
    BY <1>4, <2>1 DEF Stage!bindCurrentFeatureWorkflowStage, Stage!At, Stage!Linked, Stage!Stop
  <2>4. StageStays /\ StageThread' /\ StageRest
    BY <1>1, <1>2, <2>2, <2>3, MessageBound, StageUnwritten
  <2> QED BY <1>1, <2>3, <2>4, StageGoes DEF PassGoes
<1> QED BY <1>3, <1>4 DEF Stage!bindCurrentFeatureWorkflowStage, Stage!At

LEMMA StageBegins ==
  ASSUME StageInv, Stage!Begin
  PROVE  StageInv'
<1>1. UNCHANGED <<workflow, feature, inbox, nodes, tasks, op>>
  BY DEF Stage!Begin
<1>2. StageStays /\ StageThread' /\ StageRest
  BY <1>1, StageUnwritten
<1>3. PICK p : p = [pc |-> "bind", f |-> feature, t |-> None]
  OBVIOUS
<1>4. feature \in PlannedFeature
  BY DEF StageInv, StageTypes
<1>5. feature.status \in PlanningStatuses
  BY DEF Stage!Begin, Stage!planningStage, PlanningStatuses
<1>6. p \in StagePass
  BY <1>3, <1>4 DEF StagePass
<1>7. pass' = p
  BY <1>3 DEF Stage!Begin
<1>8. StageTypes'
  <2>1. StageNodes' = StageNodes
    BY <1>1 DEF StageNodes
  <2> QED BY <1>1, <1>6, <1>7, <2>1 DEF StageInv, StageTypes
<1>9. PassKnows(p)'
  <2>1. feature.revision \in Nat
    BY <1>4 DEF PlannedFeature
  <2> QED BY <1>1, <1>3, <1>5, <2>1 DEF PassKnows
<1>10. pass' /= None => PassKnows(pass)'
  BY <1>7, <1>9
<1> QED BY <1>1, <1>2, <1>8, <1>10, StageMoves DEF StageRest

LEMMA StageReads ==
  ASSUME StageInv, Stage!ReadSpecification
  PROVE  StageInv'
<1>1. UNCHANGED <<workflow, feature, inbox, nodes, tasks, pass>>
  BY DEF Stage!ReadSpecification
<1>2. StageStays /\ StageThread' /\ StageRest
  BY <1>1, StageUnwritten
<1>3. PICK o : o = [f |-> feature, round |-> Stage!latestArchitecturePlanRound + 1]
  OBVIOUS
<1>4. feature \in PlannedFeature
  BY DEF StageInv, StageTypes
<1>5. o \in CorrectionType
  BY <1>3, <1>4, LatestRound, StageAssumption DEF Stage!ReadSpecification, CorrectionType, RoundNumbered
<1>6. op' = o
  BY <1>3 DEF Stage!ReadSpecification
<1>7. StageTypes'
  <2>1. StageNodes' = StageNodes
    BY <1>1 DEF StageNodes
  <2> QED BY <1>1, <1>5, <1>6, <2>1 DEF StageInv, StageTypes
<1>8. CorrectorKnows(o)'
  <2>1. feature.revision \in Nat
    BY <1>4 DEF PlannedFeature
  <2>2. o.round <= Stage!latestArchitecturePlanRound' + 1
    BY <1>2, <1>3, LatestRound DEF StageRest, RoundNumbered
  <2>3. o.f = feature /\ feature.status = "SPECIFIED" /\ feature.plan = 0
    BY <1>3 DEF Stage!ReadSpecification
  <2> QED BY <1>1, <2>1, <2>2, <2>3 DEF CorrectorKnows
<1>9. Specified' /\ DesignLatest' /\ CorrectionUsed'
  BY <1>1, <1>2, SpecifiedStays DEF StageRest
<1>10. PICK p : p = pass
  OBVIOUS
<1>11. p /= None => PassKnows(p)'
  BY <1>1, <1>2, <1>10, PassStays DEF StageInv, StageTypes, StageRest
<1>12. pass' /= None => PassKnows(pass)'
  BY <1>1, <1>10, <1>11
<1>13. op' /= None => CorrectorKnows(op)'
  BY <1>6, <1>8
<1> QED BY <1>2, <1>7, <1>9, <1>12, <1>13 DEF StageInv

LEMMA StageCrashes == ASSUME StageInv, Stage!Crash PROVE StageInv'
<1>1. UNCHANGED <<workflow, feature, inbox, nodes, tasks, op>> /\ pass' = None
  BY DEF Stage!Crash, Stage!Stop
<1> QED BY <1>1, StageUnwritten, StageGoes DEF PassGoes

(* The task of a pass is one of the latest round or starts a later one, not *)
(* before the one the specification was corrected for.                      *)
LEMMA TaskOfPass ==
  ASSUME StageInv, pass /= None, pass.pc = "task", NEW t, t = Stage!PlanningTask(pass.f)
  PROVE  /\ t \in Stage!Tasks /\ t[1] = Stage!planningStage(pass.f.status)
         /\ t[1] = "architecture" =>
              /\ feature.status = "SPECIFIED" /\ t[2] >= Stage!latestArchitecturePlanRound
              /\ pass.f.revision = feature.revision /\ pass.f.correction /= None => t[2] >= pass.f.correction
<1>1. pass \in StagePass /\ PassKnows(pass)
  BY DEF StageInv, StageTypes
<1>2. PICK f \in PlannedFeature : f = pass.f
  BY <1>1 DEF StagePass
<1>3. f.status \in PlanningStatuses /\ f.status = feature.status /\ (f.revision = feature.revision => f = feature)
  BY <1>1, <1>2 DEF PassKnows
<1>4. PICK r \in 0 .. MaxRound : r = Stage!latestArchitecturePlanRound
  BY LatestRound DEF RoundNumbered
<1>5. PICK d : d = Stage!desiredArchitecturePlanRound(f)
  OBVIOUS
<1>6. /\ f.supersession \in (0 .. MaxRound) \cup {None} /\ f.correction \in (0 .. MaxRound) \cup {None}
      /\ MaxRound \in Nat \ {0} /\ None \notin Nat
  BY StageAssumption, NoneAssumption DEF PlannedFeature
<1>7. d \in 0 .. MaxRound /\ d >= r
  BY <1>4, <1>5, <1>6 DEF Stage!desiredArchitecturePlanRound
<1>8. f.revision = feature.revision /\ f.correction /= None => d >= f.correction
  <2> SUFFICES ASSUME f = feature, f.correction /= None PROVE d >= f.correction
    BY <1>3
  <2>1. f.correction <= r + 1 /\ (f.supersession /= None => f.supersession >= f.correction)
    BY <1>4 DEF StageInv, CorrectionUsed
  <2> QED BY <1>4, <1>5, <1>6, <2>1 DEF Stage!desiredArchitecturePlanRound
<1>9. CASE f.status = "SPECIFIED"
  <2>1. t = <<"architecture", d>>
    BY <1>2, <1>5, <1>9 DEF Stage!PlanningTask
  <2>2. t \in Stage!Tasks /\ t[1] = "architecture" /\ t[2] = d
    BY <1>7, <2>1, StageTasks
  <2>3. Stage!planningStage(pass.f.status) = "architecture"
    BY <1>2, <1>9 DEF Stage!planningStage
  <2> QED BY <1>2, <1>3, <1>4, <1>7, <1>8, <1>9, <2>2, <2>3
<1>10. CASE f.status = "DESIGNED"
  <2>1. t = <<"finalization", r>>
    BY <1>2, <1>4, <1>10 DEF Stage!PlanningTask
  <2> QED BY <1>2, <1>10, <2>1, StageTasks DEF Stage!planningStage
<1>11. CASE f.status \in {"SUBMITTED", "READY_FOR_PLANNING"}
  <2>1. t = <<Stage!planningStage(f.status), 0>>
    BY <1>2, <1>11 DEF Stage!PlanningTask
  <2> QED BY <1>2, <1>11, <2>1, StageTasks DEF Stage!planningStage
<1> QED BY <1>3, <1>9, <1>10, <1>11 DEF PlanningStatuses

LEMMA StageTakesOn ==
  ASSUME StageInv, Stage!ensureFeaturePlanningTask
  PROVE  StageInv'
<1>1. pass /= None /\ pass.pc = "task" /\ UNCHANGED <<workflow, feature, inbox, nodes, op>>
  BY DEF Stage!ensureFeaturePlanningTask, Stage!At
<1>2. pass \in StagePass /\ PassKnows(pass) /\ pass.f \in PlannedFeature
  BY <1>1 DEF StageInv, StageTypes, StagePass
<1>3. PICK t : t = Stage!PlanningTask(pass.f)
  OBVIOUS
<1>4. /\ t \in Stage!Tasks /\ t[1] = Stage!planningStage(pass.f.status)
      /\ t[1] = "architecture" =>
           /\ feature.status = "SPECIFIED" /\ t[2] >= Stage!latestArchitecturePlanRound
           /\ pass.f.revision = feature.revision /\ pass.f.correction /= None => t[2] >= pass.f.correction
  BY <1>1, <1>3, TaskOfPass
<1>5. tasks \in [Stage!Tasks -> StageTask] /\ tasks[t] \in StageTask
  BY <1>4 DEF StageInv, StageTypes
<1>6. PICK root \in Nat \cup {None} : root = IF \E u \in Stage!Tasks : tasks[u].root = pass.f.hop THEN None ELSE pass.f.hop
  BY <1>2 DEF PlannedFeature
<1>7. \/ pass' = None /\ UNCHANGED tasks
      \/ tasks[t].phase = None /\ tasks' = [tasks EXCEPT ![t].phase = "READY"] /\ UNCHANGED pass
      \/ /\ tasks[t].phase = "READY" /\ UNCHANGED pass
         /\ tasks' = [tasks EXCEPT ![t] = [@ EXCEPT !.phase = "ACTIVE", !.attempt = 1, !.inv = "AUTHORIZED", !.root = root]]
      \/ /\ tasks[t].phase /= None /\ inbox[pass.f.hop].admission = "ADMITTED" /\ Stage!Follows(pass.f, t)
         /\ pass' = [pass EXCEPT !.pc = "start", !.t = t] /\ UNCHANGED tasks
  BY <1>3, <1>6 DEF Stage!ensureFeaturePlanningTask, Stage!Linked, Stage!Stop
<1>8. CASE pass' = None /\ UNCHANGED tasks
  BY <1>1, <1>8, StageUnwritten, StageGoes DEF PassGoes
<1>9. CASE tasks[t].phase = None /\ tasks' = [tasks EXCEPT ![t].phase = "READY"] /\ UNCHANGED pass
  <2>1. PICK k \in StageTask : k = [tasks[t] EXCEPT !.phase = "READY"] /\ k.phase = "READY"
    <3>1. [tasks[t] EXCEPT !.phase = "READY"] \in StageTask /\ [tasks[t] EXCEPT !.phase = "READY"].phase = "READY"
      BY <1>5 DEF StageTask
    <3> QED BY <3>1
  <2>2. tasks' = [tasks EXCEPT ![t] = k]
    BY <1>9, <2>1
  <2>3. tasks' \in [Stage!Tasks -> StageTask] /\ \A u \in Stage!Tasks : tasks'[u] = IF u = t THEN k ELSE tasks[u]
    BY <1>4, <1>5, <2>1, <2>2
  <2>4. \A u \in Stage!Tasks : /\ tasks[u].phase = "COMPLETED" => tasks'[u].phase = "COMPLETED"
                               /\ tasks[u].phase /= None => tasks'[u].phase /= None
    BY <1>9, <2>1, <2>3, StageAssumption
  <2>5. Stage!Rounds \subseteq Stage!Rounds'
    BY <2>4, StageTasks DEF Stage!Rounds
  <2>6. Stage!latestArchitecturePlanRound \in 0 .. MaxRound /\ Stage!latestArchitecturePlanRound' \in 0 .. MaxRound
    <3>1. RoundNumbered /\ RoundNumbered'
      BY LatestRound, PTL
    <3> QED BY <3>1 DEF RoundNumbered
  <2>7. Stage!latestArchitecturePlanRound' >= Stage!latestArchitecturePlanRound
    <3>1. RoundGreatest /\ RoundGreatest'
      BY LatestRound, PTL
    <3>2. CASE Stage!latestArchitecturePlanRound = 0
      BY <2>6, <3>2, StageAssumption
    <3>3. CASE Stage!latestArchitecturePlanRound \in Stage!Rounds
      BY <2>5, <2>6, <3>1, <3>3, StageAssumption DEF RoundGreatest
    <3> QED BY <3>1, <3>2, <3>3 DEF RoundGreatest
  <2>8. StageStays
    <3>1. \A u \in Stage!Tasks : Stage!Completed(u) => Stage!Completed(u)'
      BY <2>4 DEF Stage!Completed
    <3>2. Len(inbox) \in Nat
      BY DEF StageInv, StageTypes
    <3> QED BY <1>1, <2>4, <2>7, <3>1, <3>2 DEF StageStays
  <2>9. StageThread'
    <3>1. StageThread
      BY DEF StageInv
    <3> QED BY <1>1, <2>8, <3>1, ThreadStays DEF StageThread
  <2>10. feature.design /= None => Stage!latestArchitecturePlanRound' = Stage!latestArchitecturePlanRound
    <3> SUFFICES ASSUME feature.design /= None
                 PROVE  Stage!latestArchitecturePlanRound' = Stage!latestArchitecturePlanRound
      OBVIOUS
    <3>1. feature.status /= "SPECIFIED"
      BY DEF StageInv, DesignLatest
    <3>2. t[1] /= "architecture"
      BY <1>4, <3>1
    <3>3. \A r \in 0 .. MaxRound : tasks'[<<"architecture", r>>] = tasks[<<"architecture", r>>]
      <4> TAKE r \in 0 .. MaxRound
      <4>1. PICK u : u = <<"architecture", r>>
        OBVIOUS
      <4>2. u \in Stage!Tasks /\ u /= t
        BY <3>2, <4>1, StageTasks
      <4> QED BY <2>3, <4>1, <4>2
    <3> QED BY <3>3, SameRounds
  <2>11. StageTypes'
    <3>1. StageNodes' = StageNodes
      BY <1>1 DEF StageNodes
    <3> QED BY <1>1, <1>9, <2>3, <3>1 DEF StageInv, StageTypes
  <2>12. PassKnows(pass)'
    BY <1>1, <1>2, <1>9 DEF PassKnows
  <2> QED BY <1>1, <2>8, <2>9, <2>10, <2>11, <2>12, StageMoves
<1>10. CASE /\ tasks[t].phase = "READY" /\ UNCHANGED pass
            /\ tasks' = [tasks EXCEPT ![t] = [@ EXCEPT !.phase = "ACTIVE", !.attempt = 1, !.inv = "AUTHORIZED", !.root = root]]
  <2>1. PICK x \in StageTask : x = tasks[t]
    BY <1>5
  <2>2. PICK k : k = [tasks[t] EXCEPT !.phase = "ACTIVE", !.attempt = 1, !.inv = "AUTHORIZED", !.root = root]
    OBVIOUS
  <2>3. k = [phase |-> "ACTIVE", blocked |-> x.blocked, attempt |-> 1, inv |-> "AUTHORIZED", output |-> x.output,
             root |-> root, current |-> x.current]
    BY <2>1, <2>2 DEF StageTask
  <2>4. k \in StageTask /\ k.phase = "ACTIVE"
    BY <2>1, <2>3 DEF StageTask
  <2>5. tasks' = [tasks EXCEPT ![t] = k]
    BY <1>10, <2>2, Zenon
  <2>6. tasks[t].phase /= "COMPLETED" /\ ((k.phase = None) <=> (tasks[t].phase = None))
    BY <1>10, <2>4, StageAssumption
  <2>7. StageStays /\ StageThread' /\ StageRest
    BY <1>1, <1>4, <2>4, <2>5, <2>6, TaskWritten
  <2> QED BY <1>1, <1>10, <2>7, StageGoes DEF PassGoes
<1>11. CASE /\ tasks[t].phase /= None /\ inbox[pass.f.hop].admission = "ADMITTED" /\ Stage!Follows(pass.f, t)
            /\ pass' = [pass EXCEPT !.pc = "start", !.t = t] /\ UNCHANGED tasks
  <2>1. StageStays /\ StageThread' /\ StageRest
    BY <1>1, <1>11, StageUnwritten
  <2>2. PICK p : p = [pass EXCEPT !.pc = "start", !.t = t]
    OBVIOUS
  <2>3. p \in StagePass /\ p.pc = "start" /\ p.f = pass.f /\ p.t = t
    BY <1>2, <1>4, <2>2 DEF StagePass
  <2>4. TakenOn(p)
    <3>1. t[1] = "architecture" => t[2] = Stage!latestArchitecturePlanRound
      <4> SUFFICES ASSUME t[1] = "architecture" PROVE t[2] = Stage!latestArchitecturePlanRound
        OBVIOUS
      <4>1. t = <<"architecture", t[2]>> /\ t[2] \in 0 .. MaxRound
        BY <1>4, StageTasks
      <4>2. t[2] \in Stage!Rounds
        BY <1>11, <4>1 DEF Stage!Rounds
      <4> QED BY <1>4, <4>1, <4>2, LatestRound DEF RoundNumbered, RoundGreatest
    <3>2. t[1] = "finalization" => pass.f.design = t[2]
      BY <1>11 DEF Stage!Follows
    <3> QED BY <1>4, <1>11, <2>3, <3>1, <3>2 DEF TakenOn
  <2>5. PassKnows(p)
    BY <1>1, <1>2, <2>3, <2>4 DEF PassKnows
  <2>6. PassKnows(p)'
    BY <1>1, <2>1, <2>3, <2>5, PassStays DEF StageRest
  <2>7. StageTypes'
    <3>1. StageNodes' = StageNodes
      BY <1>1 DEF StageNodes
    <3> QED BY <1>1, <1>11, <2>2, <2>3, <3>1 DEF StageInv, StageTypes
  <2>8. PassKnows(pass)'
    BY <1>11, <2>2, <2>6
  <2> QED BY <1>1, <2>1, <2>7, <2>8, StageMoves DEF StageRest
<1> QED BY <1>7, <1>8, <1>9, <1>10, <1>11

(* A write of the feature, with a message or without one.                   *)
LEMMA FeatureWritten ==
  ASSUME StageInv, feature' \in PlannedFeature, UNCHANGED <<workflow, nodes, tasks>>,
         \/ inbox' = inbox /\ feature'.hop = feature.hop
         \/ /\ feature'.hop = feature.hop + 1 /\ StageDone(feature.hop)
            /\ \E m \in StageMessage : m.node = None /\ m.admission = None /\ inbox' = Append(inbox, m)
  PROVE  StageStays /\ StageThread' /\ StageRest
<1>1. /\ inbox \in Seq(StageMessage) /\ Len(inbox) \in Nat /\ tasks \in [Stage!Tasks -> StageTask]
      /\ nodes \in [StageNodes -> {"OPEN", "ADMITTED", "RUNNING", "COMPLETED", "SKIPPED"}]
  BY DEF StageInv, StageTypes
<1>2. Stage!latestArchitecturePlanRound' = Stage!latestArchitecturePlanRound
  BY SameRounds
<1>3. Stage!latestArchitecturePlanRound \in Nat
  BY LatestRound DEF RoundNumbered
<1>4. StageThread /\ feature.hop = Len(inbox) /\ Len(inbox) >= 1
  BY DEF StageInv, StageThread
<1>5. CASE inbox' = inbox /\ feature'.hop = feature.hop
  <2>1. StageRest /\ StageStays
    BY <1>1, <1>2, <1>3, <1>5 DEF StageRest, StageStays, Stage!Completed
  <2>2. StageNodes' = StageNodes
    BY DEF StageNodes
  <2>3. \A h \in 1 .. Len(inbox) : StageDone(h) => StageDone(h)'
    BY <1>5 DEF StageDone
  <2> QED BY <1>4, <1>5, <2>1, <2>2, <2>3 DEF StageThread
<1>6. ASSUME feature'.hop = feature.hop + 1, StageDone(feature.hop), NEW m \in StageMessage, m.node = None, m.admission = None,
             inbox' = Append(inbox, m)
      PROVE  StageStays /\ StageThread' /\ StageRest
  <2>1. /\ inbox' \in Seq(StageMessage) /\ Len(inbox') = Len(inbox) + 1
        /\ inbox'[Len(inbox) + 1] = m /\ \A h \in 1 .. Len(inbox) : inbox'[h] = inbox[h]
    BY <1>1, <1>6
  <2>2. StageRest /\ StageStays
    BY <1>1, <1>2, <1>3, <2>1 DEF StageRest, StageStays, Stage!Completed
  <2>3. StageNodes' = StageNodes
    BY DEF StageNodes
  <2>4. \A h \in 1 .. Len(inbox) : StageDone(h)'
    BY <1>1, <1>4, <1>6, <2>2, DoneStays DEF StageThread
  <2>5. inbox'[1].scope = 1 /\ feature'.hop >= 1 /\ Len(inbox') = feature'.hop
    BY <1>1, <1>4, <1>6, <2>1 DEF StageThread
  <2>6. ASSUME NEW h \in 1 .. Len(inbox')
        PROVE  /\ inbox'[h].node \in StageNodes \cup {None} /\ (inbox'[h].admission = "ADMITTED" => inbox'[h].node /= None)
               /\ h < feature'.hop => StageDone(h)'
    <3>1. CASE h \in 1 .. Len(inbox)
      BY <1>4, <2>1, <2>4, <3>1 DEF StageThread
    <3>2. CASE h = Len(inbox) + 1
      BY <1>1, <1>4, <1>6, <2>1, <3>2, StageAssumption
    <3> QED BY <1>1, <2>1, <3>1, <3>2
  <2> QED BY <2>2, <2>3, <2>5, <2>6 DEF StageThread
<1> QED BY <1>5, <1>6

(* It keeps the invariant if the feature and the pass are as they should.   *)
LEMMA PlanningMoves ==
  ASSUME StageInv, StageStays, StageThread', StageRest, UNCHANGED workflow, feature' \in PlannedFeature,
         feature'.revision = feature.revision + 1, op' = op \/ op' = None, Specified', DesignLatest', CorrectionUsed',
         pass' \in StagePass \cup {None}, pass' /= None => PassKnows(pass)'
  PROVE  StageInv'
<1>1. StageNodes' = StageNodes
  BY DEF StageNodes
<1>2. op \in CorrectionType \cup {None}
  BY DEF StageInv, StageTypes
<1>3. StageTypes'
  BY <1>1, <1>2 DEF StageInv, StageTypes, StageRest
<1>4. feature'.revision > feature.revision
  BY DEF StageInv, StageTypes, PlannedFeature
<1>5. PICK o : o = op
  OBVIOUS
<1>6. o /= None => CorrectorKnows(o)'
  BY <1>2, <1>3, <1>4, <1>5, CorrectorStays DEF StageInv
<1>7. op' /= None => CorrectorKnows(op)'
  BY <1>5, <1>6
<1> QED BY <1>3, <1>7 DEF StageInv

(* A pass that has applied its output knows no more of the feature.         *)
LEMMA PassBehind ==
  ASSUME StageInv, NEW p \in StagePass, p.pc = "bindnext", p.f.revision <= feature.revision,
         feature' \in PlannedFeature, feature'.revision = feature.revision + 1
  PROVE  PassKnows(p)'
<1>1. p.f.revision \in Nat /\ feature.revision \in Nat
  BY DEF StageInv, StageTypes, StagePass, PlannedFeature
<1> QED BY <1>1 DEF PassKnows

(* The fields of a feature that a write of its status alone leaves.         *)
SameSpecification(g, f) ==
  /\ g.scope = f.scope /\ g.plan = f.plan /\ g.source = f.source /\ g.supersession = f.supersession
  /\ g.correction = f.correction

LEMMA StatusSet ==
  ASSUME NEW f \in PlannedFeature, NEW s \in PlanningStatuses \cup {"CLARIFICATION_REQUIRED", "PLANNED"},
         NEW g, g = [f EXCEPT !.status = s]
  PROVE  /\ g \in PlannedFeature /\ g.status = s /\ g.hop = f.hop /\ g.design = f.design /\ g.revision = f.revision
         /\ SameSpecification(g, f)
BY DEF PlannedFeature, SameSpecification

LEMMA RevisionSet ==
  ASSUME NEW f \in PlannedFeature, NEW r \in Nat, NEW g, g = [f EXCEPT !.revision = r]
  PROVE  /\ g \in PlannedFeature /\ g.revision = r /\ g.status = f.status /\ g.hop = f.hop /\ g.design = f.design
         /\ SameSpecification(g, f)
BY DEF PlannedFeature, SameSpecification

LEMMA HopSet ==
  ASSUME NEW f \in PlannedFeature, NEW h \in Nat, NEW g, g = [f EXCEPT !.hop = h]
  PROVE  /\ g \in PlannedFeature /\ g.hop = h /\ g.status = f.status /\ g.revision = f.revision /\ g.design = f.design
         /\ SameSpecification(g, f)
BY DEF PlannedFeature, SameSpecification

(* AdvanceFeature and AdvanceWithMessage write the next feature.            *)
LEMMA Advanced ==
  ASSUME NEW f \in PlannedFeature, NEW next \in PlannedFeature, Stage!AdvanceFeature(f, next)
  PROVE  /\ feature' \in PlannedFeature /\ feature'.revision = f.revision + 1 /\ feature'.status = next.status
         /\ feature'.hop = next.hop /\ feature'.design = next.design /\ SameSpecification(feature', next) /\ inbox' = inbox
<1>1. f.revision + 1 \in Nat
  BY DEF PlannedFeature
<1> QED BY <1>1, RevisionSet DEF Stage!AdvanceFeature

LEMMA AdvancedWithMessage ==
  ASSUME NEW f \in PlannedFeature, NEW next \in PlannedFeature, NEW sender,
         NEW to \in {"product-owner", "project-manager", "architect"}, Stage!AdvanceWithMessage(f, next, sender, to)
  PROVE  /\ feature' \in PlannedFeature /\ feature'.revision = f.revision + 1 /\ feature'.status = next.status
         /\ feature'.hop = f.hop + 1 /\ feature'.design = next.design /\ SameSpecification(feature', next)
         /\ f.scope = inbox[1].scope
         /\ \E m \in StageMessage : m.node = None /\ m.admission = None /\ inbox' = Append(inbox, m)
<1>1. f.revision + 1 \in Nat /\ f.hop + 1 \in Nat /\ f.scope \in Nat
  BY DEF PlannedFeature
<1>2. PICK a : a = [next EXCEPT !.revision = f.revision + 1]
  OBVIOUS
<1>3. /\ a \in PlannedFeature /\ a.revision = f.revision + 1 /\ a.status = next.status /\ a.design = next.design
      /\ SameSpecification(a, next)
  BY <1>1, <1>2, RevisionSet
<1>4. PICK b : b = [a EXCEPT !.hop = f.hop + 1]
  OBVIOUS
<1>5. /\ b \in PlannedFeature /\ b.hop = f.hop + 1 /\ b.status = a.status /\ b.revision = a.revision /\ b.design = a.design
      /\ SameSpecification(b, a)
  BY <1>1, <1>3, <1>4, HopSet
<1>6. feature' = b
  BY <1>2, <1>4 DEF Stage!AdvanceWithMessage
<1>7. Stage!Message(f, to) \in StageMessage /\ Stage!Message(f, to).node = None /\ Stage!Message(f, to).admission = None
  BY <1>1 DEF Stage!Message, StageMessage
<1>8. inbox' = Append(inbox, Stage!Message(f, to)) /\ f.scope = inbox[1].scope
  BY DEF Stage!AdvanceWithMessage, Stage!advanceMessageThread
<1>9. SameSpecification(b, next)
  BY <1>3, <1>5 DEF SameSpecification
<1> QED BY <1>3, <1>5, <1>6, <1>7, <1>8, <1>9

(* A specification handed on without a design of it.                        *)
LEMMA HandedOn ==
  ASSUME StageInv, StageStays, StageRest, UNCHANGED workflow, feature'.design = None, SameSpecification(feature', feature),
         feature'.status \in {"CLARIFICATION_REQUIRED", "READY_FOR_PLANNING", "SPECIFIED"},
         feature'.status = "CLARIFICATION_REQUIRED" => StageDone(feature.hop)' /\ feature'.hop = feature.hop
  PROVE  Specified' /\ DesignLatest' /\ CorrectionUsed'
<1>1. CorrectionUsed'
  BY DEF StageInv, CorrectionUsed, SameSpecification, StageRest
<1>2. DesignLatest'
  BY DEF DesignLatest
<1>3. Specified'
  BY DEF StageInv, Specified, SameSpecification
<1> QED BY <1>1, <1>2, <1>3

LEMMA StageResponds ==
  ASSUME StageInv, Stage!RespondToClarification
  PROVE  StageInv'
<1>1. feature.status = "CLARIFICATION_REQUIRED" /\ UNCHANGED <<workflow, nodes, tasks, pass, op>>
  BY DEF Stage!RespondToClarification
<1>2. PICK f \in PlannedFeature : f = feature
  BY DEF StageInv, StageTypes
<1>3. PICK next : next = [f EXCEPT !.status = "READY_FOR_PLANNING"]
  OBVIOUS
<1>4. /\ next \in PlannedFeature /\ next.status = "READY_FOR_PLANNING" /\ next.design = f.design /\ SameSpecification(next, f)
  BY <1>2, <1>3, StatusSet DEF PlanningStatuses
<1>5. Stage!AdvanceWithMessage(f, next, "product-owner", "project-manager")
  BY <1>2, <1>3 DEF Stage!RespondToClarification
<1>6. /\ feature' \in PlannedFeature /\ feature'.revision = f.revision + 1 /\ feature'.status = next.status
      /\ feature'.hop = f.hop + 1 /\ feature'.design = next.design /\ SameSpecification(feature', next)
      /\ \E m \in StageMessage : m.node = None /\ m.admission = None /\ inbox' = Append(inbox, m)
  BY <1>2, <1>4, <1>5, AdvancedWithMessage
<1>7. StageDone(feature.hop) /\ feature.design = None
  BY <1>1 DEF StageInv, Specified, DesignLatest
<1>8. StageStays /\ StageThread' /\ StageRest
  BY <1>1, <1>2, <1>6, <1>7, FeatureWritten
<1>9. SameSpecification(feature', feature)
  BY <1>2, <1>4, <1>6 DEF SameSpecification
<1>10. Specified' /\ DesignLatest' /\ CorrectionUsed'
  BY <1>1, <1>2, <1>4, <1>6, <1>7, <1>8, <1>9, HandedOn
<1>11. PICK p : p = pass
  OBVIOUS
<1>12. p /= None => p \in StagePass /\ PassKnows(p)'
  <2> SUFFICES ASSUME p /= None PROVE p \in StagePass /\ PassKnows(p)'
    OBVIOUS
  <2>1. p \in StagePass /\ PassKnows(p)
    BY <1>11 DEF StageInv, StageTypes
  <2>2. p.pc = "bindnext" /\ p.f.revision <= feature.revision
    BY <1>1, <2>1 DEF PassKnows, PlanningStatuses
  <2> QED BY <1>2, <1>6, <2>1, <2>2, PassBehind
<1>13. pass' /= None => PassKnows(pass)'
  BY <1>1, <1>11, <1>12
<1> QED BY <1>1, <1>2, <1>6, <1>8, <1>10, <1>11, <1>12, <1>13, PlanningMoves

LEMMA StageCorrects ==
  ASSUME StageInv, Stage!CorrectSpecification
  PROVE  StageInv'
<1>1. op /= None /\ op' = None /\ UNCHANGED <<workflow, nodes, tasks, pass>>
  BY DEF Stage!CorrectSpecification
<1>2. op \in CorrectionType /\ CorrectorKnows(op)
  BY <1>1 DEF StageInv, StageTypes
<1>3. CASE UNCHANGED <<feature, inbox>>
  BY <1>1, <1>3, StageUnwritten, StageGoes DEF PassGoes
<1>4. CASE Stage!AdvanceFeature(op.f, [op.f EXCEPT !.scope = @ + 1, !.correction = op.round])
  <2>1. PICK f \in PlannedFeature : f = op.f
    BY <1>2 DEF CorrectionType
  <2>2. PICK r \in 1 .. MaxRound : r = op.round
    BY <1>2 DEF CorrectionType
  <2>3. PICK next : next = [f EXCEPT !.scope = @ + 1, !.correction = r]
    OBVIOUS
  <2>4. Stage!AdvanceFeature(f, next)
    BY <1>4, <2>1, <2>2, <2>3
  <2>5. f = feature /\ f.status = "SPECIFIED" /\ f.plan = 0 /\ r <= Stage!latestArchitecturePlanRound + 1
    BY <1>2, <2>1, <2>2, <2>4 DEF CorrectorKnows, Stage!AdvanceFeature, Stage!Unchanged
  <2>6. /\ next \in PlannedFeature /\ next.status = f.status /\ next.hop = f.hop /\ next.design = f.design
        /\ next.plan = f.plan /\ next.source = f.source /\ next.supersession = f.supersession
        /\ next.scope = f.scope + 1 /\ next.correction = r
    <3>1. f.scope + 1 \in Nat \ {0} /\ r \in (0 .. MaxRound) \cup {None}
      BY <2>1, <2>2, StageAssumption DEF PlannedFeature
    <3>2. next = [f EXCEPT !.scope = f.scope + 1, !.correction = r]
      BY <2>3
    <3>3. next \in PlannedFeature
      BY <2>1, <3>1, <3>2 DEF PlannedFeature
    <3>4. /\ next.status = f.status /\ next.hop = f.hop /\ next.design = f.design
          /\ next.plan = f.plan /\ next.source = f.source /\ next.supersession = f.supersession
          /\ next.scope = f.scope + 1 /\ next.correction = r
      BY <2>1, <3>2 DEF PlannedFeature
    <3> QED BY <3>3, <3>4
  <2>7. /\ feature' \in PlannedFeature /\ feature'.revision = f.revision + 1 /\ feature'.status = next.status
        /\ feature'.hop = next.hop /\ feature'.design = next.design /\ SameSpecification(feature', next) /\ inbox' = inbox
    BY <2>1, <2>4, <2>6, Advanced
  <2>8. StageStays /\ StageThread' /\ StageRest
    BY <1>1, <2>5, <2>6, <2>7, FeatureWritten
  <2>9. feature.design = None /\ feature.source = None /\ feature.supersession = None
    BY <2>1, <2>5 DEF StageInv, DesignLatest, Specified
  <2>10. Specified' /\ DesignLatest'
    BY <2>5, <2>6, <2>7, <2>9 DEF Specified, DesignLatest, SameSpecification
  <2>11. CorrectionUsed'
    <3>1. feature'.scope > 1
      BY <2>1, <2>5, <2>6, <2>7 DEF PlannedFeature, SameSpecification
    <3> QED BY <2>5, <2>6, <2>7, <2>8, <2>9, <3>1 DEF CorrectionUsed, SameSpecification, StageRest
  <2>12. PICK p : p = pass
    OBVIOUS
  <2>13. p /= None => p \in StagePass /\ PassKnows(p)'
    <3> SUFFICES ASSUME p /= None PROVE p \in StagePass /\ PassKnows(p)'
      OBVIOUS
    <3>1. p \in StagePass /\ PassKnows(p)
      BY <2>12 DEF StageInv, StageTypes
    <3>2. p.f.revision < feature'.revision /\ p.f.revision <= feature'.revision /\ p.f.revision /= feature'.revision
      BY <2>1, <2>5, <2>7, <3>1 DEF PassKnows, StagePass, PlannedFeature
    <3>3. feature'.status = feature.status /\ feature'.hop = feature.hop
      BY <2>5, <2>6, <2>7
    <3>4. TakenOn(p) => TakenOn(p)'
      BY <1>1, <2>7, <2>8, <3>2 DEF TakenOn, StageRest
    <3>5. StageDone(p.f.hop) => StageDone(p.f.hop)'
      BY <1>1, <2>7 DEF StageDone
    <3>6. Stage!Completed(p.t) => Stage!Completed(p.t)'
      BY <1>1 DEF Stage!Completed
    <3> QED BY <3>1, <3>2, <3>3, <3>4, <3>5, <3>6 DEF PassKnows
  <2>14. pass' /= None => PassKnows(pass)'
    BY <1>1, <2>12, <2>13
  <2> QED BY <1>1, <2>5, <2>7, <2>8, <2>10, <2>11, <2>12, <2>13, <2>14, PlanningMoves
<1> QED BY <1>3, <1>4 DEF Stage!CorrectSpecification

LEMMA StageReplans ==
  ASSUME StageInv, Stage!RequestReplan
  PROVE  StageInv'
<1>1. feature.status = "PLANNED" /\ UNCHANGED <<workflow, nodes, tasks, pass, op>>
  BY DEF Stage!RequestReplan
<1>2. PICK f \in PlannedFeature : f = feature
  BY DEF StageInv, StageTypes
<1>3. PICK r \in 1 .. MaxRound : r = Stage!latestArchitecturePlanRound + 1
  BY LatestRound, StageAssumption DEF Stage!RequestReplan, RoundNumbered
<1>4. PICK next : next = [f EXCEPT !.status = "SPECIFIED", !.design = None, !.scope = @ + 1, !.supersession = r]
  OBVIOUS
<1>5. Stage!AdvanceFeature(f, next)
  BY <1>2, <1>3, <1>4 DEF Stage!RequestReplan
<1>6. /\ next \in PlannedFeature /\ next.status = "SPECIFIED" /\ next.hop = f.hop /\ next.design = None
      /\ next.plan = f.plan /\ next.source = f.source /\ next.supersession = r
      /\ next.scope = f.scope + 1 /\ next.correction = f.correction
  <2>1. f.scope + 1 \in Nat \ {0} /\ r \in (0 .. MaxRound) \cup {None} /\ None \in (0 .. MaxRound) \cup {None}
    BY <1>2, <1>3, StageAssumption DEF PlannedFeature
  <2>2. "SPECIFIED" \in PlanningStatuses \cup {"CLARIFICATION_REQUIRED", "PLANNED"}
    BY DEF PlanningStatuses
  <2>3. next = [f EXCEPT !.status = "SPECIFIED", !.design = None, !.scope = f.scope + 1, !.supersession = r]
    BY <1>4
  <2>4. next \in PlannedFeature
    BY <1>2, <2>1, <2>2, <2>3 DEF PlannedFeature
  <2>5. /\ next.status = "SPECIFIED" /\ next.hop = f.hop /\ next.design = None
        /\ next.plan = f.plan /\ next.source = f.source /\ next.supersession = r
        /\ next.scope = f.scope + 1 /\ next.correction = f.correction
    BY <1>2, <2>3 DEF PlannedFeature
  <2> QED BY <2>4, <2>5
<1>7. /\ feature' \in PlannedFeature /\ feature'.revision = f.revision + 1 /\ feature'.status = next.status
      /\ feature'.hop = next.hop /\ feature'.design = next.design /\ SameSpecification(feature', next) /\ inbox' = inbox
  BY <1>2, <1>5, <1>6, Advanced
<1>8. StageStays /\ StageThread' /\ StageRest
  BY <1>1, <1>2, <1>6, <1>7, FeatureWritten
<1>9. Specified' /\ DesignLatest'
  <2>1. feature.source /= None /\ feature.plan > 0
    BY <1>1 DEF StageInv, Specified
  <2> QED BY <1>2, <1>6, <1>7, <2>1 DEF Specified, DesignLatest, SameSpecification
<1>10. CorrectionUsed'
  <2>1. f.scope \in Nat
    BY <1>2 DEF PlannedFeature
  <2>2. CorrectionUsed /\ f.correction \in (0 .. MaxRound) \cup {None}
    BY <1>2 DEF StageInv, PlannedFeature
  <2> QED BY <1>2, <1>3, <1>6, <1>7, <1>8, <2>1, <2>2 DEF CorrectionUsed, SameSpecification, StageRest
<1>11. PICK p : p = pass
  OBVIOUS
<1>12. p /= None => p \in StagePass /\ PassKnows(p)'
  <2> SUFFICES ASSUME p /= None PROVE p \in StagePass /\ PassKnows(p)'
    OBVIOUS
  <2>1. p \in StagePass /\ PassKnows(p)
    BY <1>11 DEF StageInv, StageTypes
  <2>2. p.pc = "bindnext" /\ p.f.revision <= feature.revision
    BY <1>1, <2>1 DEF PassKnows, PlanningStatuses
  <2> QED BY <1>2, <1>7, <2>1, <2>2, PassBehind
<1>13. pass' /= None => PassKnows(pass)'
  BY <1>1, <1>11, <1>12
<1> QED BY <1>1, <1>2, <1>7, <1>8, <1>9, <1>10, <1>11, <1>12, <1>13, PlanningMoves

(* What the coordinator makes of a feature that is handed on, designed or   *)
(* planned.                                                                 *)
LEMMA StageHandsOn ==
  ASSUME StageInv, StageDone(feature.hop), UNCHANGED <<workflow, nodes, tasks>>, NEW f \in PlannedFeature, f = feature,
         NEW next \in PlannedFeature, NEW sender, NEW to \in {"product-owner", "project-manager", "architect"},
         Stage!AdvanceWithMessage(f, next, sender, to), next.design = None, SameSpecification(next, f),
         next.status \in {"READY_FOR_PLANNING", "SPECIFIED"}
  PROVE  /\ feature' \in PlannedFeature /\ feature'.revision = feature.revision + 1
         /\ StageStays /\ StageThread' /\ StageRest /\ Specified' /\ DesignLatest' /\ CorrectionUsed'
<1>1. /\ feature' \in PlannedFeature /\ feature'.revision = f.revision + 1 /\ feature'.status = next.status
      /\ feature'.hop = f.hop + 1 /\ feature'.design = next.design /\ SameSpecification(feature', next)
      /\ \E m \in StageMessage : m.node = None /\ m.admission = None /\ inbox' = Append(inbox, m)
  BY AdvancedWithMessage
<1>2. StageStays /\ StageThread' /\ StageRest
  BY <1>1, FeatureWritten
<1>3. SameSpecification(feature', feature)
  BY <1>1 DEF SameSpecification
<1>4. Specified' /\ DesignLatest' /\ CorrectionUsed'
  BY <1>1, <1>2, <1>3, HandedOn
<1> QED BY <1>1, <1>2, <1>4

LEMMA StageAsks ==
  ASSUME StageInv, StageDone(feature.hop), UNCHANGED <<workflow, nodes, tasks>>, NEW f \in PlannedFeature, f = feature,
         f.design = None, Stage!AdvanceFeature(f, [f EXCEPT !.status = "CLARIFICATION_REQUIRED"])
  PROVE  /\ feature' \in PlannedFeature /\ feature'.revision = feature.revision + 1
         /\ StageStays /\ StageThread' /\ StageRest /\ Specified' /\ DesignLatest' /\ CorrectionUsed'
<1>1. PICK next : next = [f EXCEPT !.status = "CLARIFICATION_REQUIRED"]
  OBVIOUS
<1>2. /\ next \in PlannedFeature /\ next.status = "CLARIFICATION_REQUIRED" /\ next.hop = f.hop /\ next.design = f.design
      /\ SameSpecification(next, f)
  BY <1>1, StatusSet
<1>3. /\ feature' \in PlannedFeature /\ feature'.revision = f.revision + 1 /\ feature'.status = next.status
      /\ feature'.hop = next.hop /\ feature'.design = next.design /\ SameSpecification(feature', next) /\ inbox' = inbox
  BY <1>1, <1>2, Advanced
<1>4. StageStays /\ StageThread' /\ StageRest
  BY <1>2, <1>3, FeatureWritten
<1>5. SameSpecification(feature', feature)
  BY <1>2, <1>3 DEF SameSpecification
<1>6. StageDone(feature.hop)'
  <2>1. nodes'[inbox'[feature.hop].node] = "COMPLETED" /\ inbox'[feature.hop].admission = "ADMITTED"
    BY <1>3 DEF StageDone
  <2> QED BY <1>2, <1>3, <2>1 DEF StageDone
<1>7. Specified' /\ DesignLatest' /\ CorrectionUsed'
  BY <1>2, <1>3, <1>4, <1>5, <1>6, HandedOn
<1> QED BY <1>3, <1>4, <1>7

LEMMA StageDesigns ==
  ASSUME StageInv, StageDone(feature.hop), UNCHANGED <<workflow, nodes, tasks>>, NEW f \in PlannedFeature, f = feature,
         workflow /= "1", Stage!Completed(<<"architecture", Stage!latestArchitecturePlanRound>>),
         Stage!RecordDesign(f, Stage!latestArchitecturePlanRound)
  PROVE  /\ feature' \in PlannedFeature /\ feature'.revision = feature.revision + 1
         /\ StageStays /\ StageThread' /\ StageRest /\ Specified' /\ DesignLatest' /\ CorrectionUsed'
<1>1. PICK r \in 0 .. MaxRound : r = Stage!latestArchitecturePlanRound
  BY LatestRound DEF RoundNumbered
<1>2. PICK next : next = [f EXCEPT !.status = "DESIGNED", !.design = r]
  OBVIOUS
<1>3. /\ next \in PlannedFeature /\ next.status = "DESIGNED" /\ next.design = r /\ SameSpecification(next, f)
  <2>1. "DESIGNED" \in PlanningStatuses \cup {"CLARIFICATION_REQUIRED", "PLANNED"}
    BY DEF PlanningStatuses
  <2>2. next \in PlannedFeature
    BY <1>1, <1>2, <2>1 DEF PlannedFeature
  <2>3. next.status = "DESIGNED" /\ next.design = r /\ SameSpecification(next, f)
    BY <1>2 DEF PlannedFeature, SameSpecification
  <2> QED BY <2>2, <2>3
<1>4. /\ feature' \in PlannedFeature /\ feature'.revision = f.revision + 1 /\ feature'.status = next.status
      /\ feature'.hop = f.hop + 1 /\ feature'.design = next.design /\ SameSpecification(feature', next)
      /\ f.scope = inbox[1].scope
      /\ \E m \in StageMessage : m.node = None /\ m.admission = None /\ inbox' = Append(inbox, m)
  BY <1>1, <1>2, <1>3, AdvancedWithMessage DEF Stage!RecordDesign
<1>5. StageStays /\ StageThread' /\ StageRest
  BY <1>4, FeatureWritten
<1>6. feature.correction = None
  BY <1>4 DEF StageInv, StageThread, CorrectionUsed
<1>7. Stage!Completed(<<"architecture", r>>)'
  BY <1>1 DEF Stage!Completed
<1>8. Specified'
  BY <1>3, <1>4 DEF StageInv, Specified, SameSpecification
<1>9. DesignLatest' /\ CorrectionUsed'
  BY <1>1, <1>3, <1>4, <1>5, <1>6, <1>7 DEF DesignLatest, CorrectionUsed, SameSpecification, StageRest
<1> QED BY <1>4, <1>5, <1>8, <1>9

LEMMA StagePlans ==
  ASSUME StageInv, UNCHANGED <<workflow, nodes, tasks>>, NEW f \in PlannedFeature, f = feature, NEW r \in 0 .. MaxRound,
         Stage!Completed(<<IF workflow = "1" THEN "architecture" ELSE "finalization", r>>),
         f.correction /= None => f.design = None /\ r >= f.correction, Stage!ApplyPlan(f, r)
  PROVE  /\ feature' \in PlannedFeature /\ feature'.revision = feature.revision + 1
         /\ StageStays /\ StageThread' /\ StageRest /\ Specified' /\ DesignLatest' /\ CorrectionUsed'
<1>1. PICK next : next = [f EXCEPT !.status = "PLANNED", !.plan = @ + 1, !.supersession = None, !.source = r]
  OBVIOUS
<1>2. /\ next \in PlannedFeature /\ next.status = "PLANNED" /\ next.plan = f.plan + 1 /\ next.supersession = None
      /\ next.source = r /\ next.design = f.design /\ next.scope = f.scope /\ next.correction = f.correction /\ next.hop = f.hop
  <2>1. f.plan + 1 \in Nat /\ None \in (0 .. MaxRound) \cup {None}
    BY DEF PlannedFeature
  <2>2. next = [f EXCEPT !.status = "PLANNED", !.plan = f.plan + 1, !.supersession = None, !.source = r]
    BY <1>1
  <2>3. next \in PlannedFeature
    BY <2>1, <2>2 DEF PlannedFeature
  <2>4. /\ next.status = "PLANNED" /\ next.plan = f.plan + 1 /\ next.supersession = None /\ next.source = r
        /\ next.design = f.design /\ next.scope = f.scope /\ next.correction = f.correction /\ next.hop = f.hop
    BY <2>2 DEF PlannedFeature
  <2> QED BY <2>3, <2>4
<1>3. /\ feature' \in PlannedFeature /\ feature'.revision = f.revision + 1 /\ feature'.status = next.status
      /\ feature'.hop = next.hop /\ feature'.design = next.design /\ SameSpecification(feature', next) /\ inbox' = inbox
  BY <1>1, <1>2, Advanced DEF Stage!ApplyPlan
<1>4. StageStays /\ StageThread' /\ StageRest
  BY <1>2, <1>3, FeatureWritten
<1>5. Stage!Completed(<<IF workflow = "1" THEN "architecture" ELSE "finalization", r>>)'
  BY DEF Stage!Completed
<1>6. Specified'
  <2>1. feature'.plan > 0 /\ feature'.source = r /\ r /= None
    BY <1>2, <1>3, NoneAssumption, StageAssumption DEF PlannedFeature, SameSpecification
  <2> QED BY <1>2, <1>3, <1>5, <2>1 DEF Specified
<1>7. DesignLatest'
  <2>1. \A x \in 0 .. MaxRound : Stage!Completed(<<"architecture", x>>) => Stage!Completed(<<"architecture", x>>)'
    BY DEF Stage!Completed
  <2>2. f.design \in (0 .. MaxRound) \cup {None}
    BY DEF PlannedFeature
  <2> QED BY <1>2, <1>3, <1>4, <2>1, <2>2 DEF StageInv, DesignLatest, SameSpecification, StageRest
<1>8. CorrectionUsed'
  BY <1>2, <1>3, <1>4 DEF StageInv, CorrectionUsed, SameSpecification, StageRest
<1> QED BY <1>3, <1>4, <1>6, <1>7, <1>8

LEMMA StageApplies ==
  ASSUME StageInv, Stage!applyFeatureStageOutput
  PROVE  StageInv'
<1>1. pass /= None /\ pass.pc = "apply" /\ UNCHANGED <<workflow, nodes, tasks, op>>
  BY DEF Stage!applyFeatureStageOutput, Stage!At
<1>2. CASE ~Stage!Applicable(pass.f, pass.t)
  <2>1. UNCHANGED <<feature, inbox>> /\ pass' = None
    BY <1>2 DEF Stage!applyFeatureStageOutput, Stage!Stop
  <2> QED BY <1>1, <2>1, StageUnwritten, StageGoes DEF PassGoes
<1>3. CASE Stage!Applicable(pass.f, pass.t)
  <2>1. pass \in StagePass /\ PassKnows(pass) /\ TakenOn(pass)
    BY <1>1, NodeOfPass DEF StageInv
  <2>2. PICK f \in PlannedFeature : f = pass.f
    BY <2>1 DEF StagePass
  <2>3. f = feature
    BY <1>3, <2>1, <2>2 DEF PassKnows, Stage!Applicable, Stage!Unchanged
  <2>4. PICK t \in Stage!Tasks : t = pass.t
    BY <2>1 DEF TakenOn
  <2>5. /\ t[1] = Stage!planningStage(f.status) /\ f.status \in PlanningStatuses /\ StageDone(feature.hop) /\ Stage!Completed(t)
        /\ t[1] = "architecture" =>
             t[2] = Stage!latestArchitecturePlanRound /\ (f.correction /= None => t[2] >= f.correction)
        /\ t[1] = "finalization" => f.design = t[2]
    BY <1>1, <2>1, <2>2, <2>3, <2>4 DEF PassKnows, TakenOn
  <2>6. t = <<t[1], t[2]>> /\ t[2] \in 0 .. MaxRound
    BY StageTasks
  <2>7. Stage!Apply(f, t) /\ pass' = [pass EXCEPT !.pc = "bindnext"]
    BY <1>3, <2>2, <2>4 DEF Stage!applyFeatureStageOutput, Stage!Goto
  <2>8. f.status /= "DESIGNED" => f.design = None
    BY <2>3, <2>5 DEF StageInv, DesignLatest, PlanningStatuses
  <2>9. /\ feature' \in PlannedFeature /\ feature'.revision = feature.revision + 1
        /\ StageStays /\ StageThread' /\ StageRest /\ Specified' /\ DesignLatest' /\ CorrectionUsed'
    <3>1. CASE t[1] = "refinement"
      <4>1. f.design = None
        BY <2>5, <2>8, <3>1 DEF Stage!planningStage
      <4>2. Stage!Refine(f, tasks[t].output)
        BY <2>7, <3>1 DEF Stage!Apply
      <4>3. CASE tasks[t].output = "questions"
        BY <1>1, <2>2, <2>3, <2>5, <4>1, <4>2, <4>3, StageAsks DEF Stage!Refine
      <4>4. CASE tasks[t].output /= "questions"
        <5>1. PICK next : next = [f EXCEPT !.status = "READY_FOR_PLANNING"]
          OBVIOUS
        <5>2. next \in PlannedFeature /\ next.status = "READY_FOR_PLANNING" /\ next.design = f.design /\ SameSpecification(next, f)
          BY <5>1, StatusSet DEF PlanningStatuses
        <5>3. Stage!AdvanceWithMessage(f, next, "product-owner", "project-manager")
          BY <4>2, <4>4, <5>1 DEF Stage!Refine
        <5> QED BY <1>1, <2>2, <2>3, <2>5, <4>1, <5>2, <5>3, StageHandsOn
      <4> QED BY <4>3, <4>4
    <3>2. CASE t[1] = "specification"
      <4>1. f.design = None
        BY <2>5, <2>8, <3>2 DEF Stage!planningStage
      <4>2. PICK next : next = [f EXCEPT !.status = "SPECIFIED"]
        OBVIOUS
      <4>3. next \in PlannedFeature /\ next.status = "SPECIFIED" /\ next.design = f.design /\ SameSpecification(next, f)
        BY <4>2, StatusSet DEF PlanningStatuses
      <4>4. Stage!AdvanceWithMessage(f, next, "project-manager", "architect")
        BY <2>7, <3>2, <4>2 DEF Stage!Apply, Stage!Specify
      <4> QED BY <1>1, <2>2, <2>3, <2>5, <4>1, <4>3, <4>4, StageHandsOn
    <3>3. CASE t[1] = "architecture"
      <4>1. f.design = None
        BY <2>5, <2>8, <3>3 DEF Stage!planningStage
      <4>2. CASE workflow = "1"
        <5>1. Stage!ApplyPlan(f, t[2])
          BY <2>7, <3>3, <4>2 DEF Stage!Apply
        <5>2. Stage!Completed(<<IF workflow = "1" THEN "architecture" ELSE "finalization", t[2]>>)
          BY <2>5, <2>6, <3>3, <4>2
        <5> QED BY <1>1, <2>3, <2>5, <2>6, <3>3, <4>1, <5>1, <5>2, StagePlans
      <4>3. CASE workflow /= "1"
        <5>1. Stage!RecordDesign(f, Stage!latestArchitecturePlanRound)
          BY <2>5, <2>7, <3>3, <4>3 DEF Stage!Apply
        <5>2. Stage!Completed(<<"architecture", Stage!latestArchitecturePlanRound>>)
          BY <2>5, <2>6, <3>3
        <5> QED BY <1>1, <2>3, <2>5, <4>3, <5>1, <5>2, StageDesigns
      <4> QED BY <4>2, <4>3
    <3>4. CASE t[1] = "finalization"
      <4>1. f.status = "DESIGNED"
        BY <2>5, <3>4 DEF Stage!planningStage, PlanningStatuses
      <4>2. workflow /= "1" /\ f.design /= None /\ f.correction = None
        BY <2>3, <2>5, <2>6, <3>4, <4>1, NoneAssumption, StageAssumption DEF StageInv, Specified, DesignLatest
      <4>3. CASE Stage!RevisionRequested(f, t)
        <5>1. PICK next : next = [f EXCEPT !.status = "SPECIFIED", !.design = None, !.revised = TRUE]
          OBVIOUS
        <5>2. next \in PlannedFeature
          <6>1. "SPECIFIED" \in PlanningStatuses \cup {"CLARIFICATION_REQUIRED", "PLANNED"}
            BY DEF PlanningStatuses
          <6> QED BY <5>1, <6>1 DEF PlannedFeature
        <5>3. next.status = "SPECIFIED" /\ next.design = None /\ SameSpecification(next, f)
          BY <5>1 DEF PlannedFeature, SameSpecification
        <5>4. Stage!AdvanceWithMessage(f, next, "project-manager", "architect")
          BY <2>7, <3>4, <4>3, <5>1 DEF Stage!Apply, Stage!RequestDesignRevision
        <5> QED BY <1>1, <2>3, <2>5, <5>2, <5>3, <5>4, StageHandsOn
      <4>4. CASE ~Stage!RevisionRequested(f, t)
        <5>1. Stage!ApplyPlan(f, t[2])
          BY <2>7, <3>4, <4>4 DEF Stage!Apply
        <5>2. Stage!Completed(<<IF workflow = "1" THEN "architecture" ELSE "finalization", t[2]>>)
          BY <2>5, <2>6, <3>4, <4>2
        <5> QED BY <1>1, <2>3, <2>6, <4>2, <5>1, <5>2, StagePlans
      <4> QED BY <4>3, <4>4
    <3> QED BY <3>1, <3>2, <3>3, <3>4, StageTasks
  <2>10. PICK q : q = [pass EXCEPT !.pc = "bindnext"]
    OBVIOUS
  <2>11. q \in StagePass /\ q.pc = "bindnext" /\ q.f = pass.f
    BY <2>1, <2>10 DEF StagePass
  <2>12. PassKnows(q)'
    <3>1. q.f.revision <= feature.revision
      BY <2>1, <2>11 DEF PassKnows
    <3> QED BY <2>9, <2>11, <3>1, PassBehind
  <2>13. pass' \in StagePass /\ PassKnows(pass)'
    BY <2>7, <2>10, <2>11, <2>12
  <2> QED BY <1>1, <2>9, <2>13, PlanningMoves
<1> QED BY <1>2, <1>3

LEMMA StageNext == ASSUME StageInv, Stage!Next PROVE StageInv'
<1>1. CASE Stage!Pass
  BY <1>1, StageBegins, StageBinds, StageTakesOn, StageStarts, StageSettles, StageCompletes, StageSkips, StageApplies
     DEF Stage!Pass
<1>2. CASE Stage!Operator
  BY <1>2, StageResponds, StageReads, StageCorrects, StageReplans, StageTasksMove DEF Stage!Operator
<1>3. CASE Stage!Others
  BY <1>3, StageTasksMove, StageAdmits DEF Stage!Others
<1> QED BY <1>1, <1>2, <1>3, StageCrashes DEF Stage!Next

-----------------------------------------------------------------------------
(* The composition.                                                         *)

OrganizationInv ==
  /\ subject = "stage" => StageInv
  /\ subject = "delivery" => DeliveryInv
  /\ subject = "workspace" => WorkspaceInv
  /\ subject = "review" => ReviewInv
  /\ subject = "workflow" => WorkflowInv
  /\ subject = "bus" => BusInv
  /\ subject = "federation" => FederationInv
  /\ subject = "projection" => ProjectionInv

LEMMA OrganizationInit == Init => OrganizationInv
BY StageInit, DeliveryInit, WorkspaceInit, ReviewInit, WorkflowInit, BusInit, FederationInit, ProjectionInit
   DEF Init, OrganizationInv

LEMMA OrganizationStep ==
  ASSUME OrganizationInv, Next
  PROVE  OrganizationInv'
<1>1. CASE DeliveryStep
  BY <1>1, DeliveryNext DEF DeliveryStep, OrganizationInv
<1>2. CASE WorkspaceStep
  BY <1>2, WorkspaceNext DEF WorkspaceStep, OrganizationInv
<1>3. CASE ReviewStep
  BY <1>3, ReviewNext DEF ReviewStep, OrganizationInv
<1>4. CASE BusStep
  BY <1>4, BusNext DEF BusStep, OrganizationInv
<1>5. CASE WorkflowStep
  BY <1>5, WorkflowNext DEF WorkflowStep, OrganizationInv
<1>6. CASE FederationStep
  BY <1>6, FederationNext DEF FederationStep, OrganizationInv
<1>7. CASE ProjectionStep
  BY <1>7, ProjectionNext DEF ProjectionStep, OrganizationInv
<1>8. CASE StageStep
  BY <1>8, StageNext DEF StageStep, OrganizationInv
<1> QED BY <1>1, <1>2, <1>3, <1>4, <1>5, <1>6, <1>7, <1>8 DEF Next

(* Nothing moves.                                                           *)
LEMMA OrganizationStutter ==
  ASSUME OrganizationInv, UNCHANGED allVars
  PROVE  OrganizationInv'
<1>1. ASSUME DeliveryInv PROVE DeliveryInv'
  BY <1>1 DEF allVars, featureVars, deliveryVars, DeliveryInv, DeliveryTypes, CallTypes, WorkDone, StoriesAccepted, Accepting, Completing
<1>2. ASSUME WorkspaceInv PROVE WorkspaceInv'
  <2>1. UNCHANGED <<tree, view, scope, up, gated, registered, prep>>
    BY DEF allVars, workspaceVars
  <2>2. prep' \in PrepType \cup {None}
    BY <1>2, <2>1 DEF WorkspaceInv, WorkspaceTypes
  <2>3. Workspace!Unmoved' = Workspace!Unmoved
    BY <2>1 DEF Workspace!Unmoved, Workspace!Multiple, Workspace!Clean, Workspace!Heads, Workspace!Targets
  <2>4. Prepared'
    BY <1>2, <2>1, <2>3, SameCandidates DEF WorkspaceInv, Prepared
  <2> QED BY <1>2, <2>1, <2>2, <2>4, PreparationMoves
<1>3. ASSUME ReviewInv PROVE ReviewInv'
  BY <1>3 DEF allVars, reviewVars, ReviewInv, ReviewTypes, ReviewType, AllSound, Sound, Succession, Closed, Passing, Finished,
              Review!TimedOut, Review!Missing, Review!Branches
<1>4. ASSUME BusInv PROVE BusInv'
  BY <1>4 DEF allVars, busVars, BusInv, BusTypes, ClaimsHeld, ClaimsDiffer, Threaded, LastOfThread, HopsOfThread, Succeeding
<1>5. ASSUME WorkflowInv PROVE WorkflowInv'
  <2>1. UNCHANGED <<instance, messages, request>>
    BY DEF allVars, workflowVars
  <2> QED BY <1>5, <2>1, WorkflowRead DEF WorkflowInv, Started
<1>6. ASSUME FederationInv PROVE FederationInv'
  BY <1>6, FederationTicks DEF allVars, federationVars, FederationInv, FederationTypes
<1>7. ASSUME ProjectionInv PROVE ProjectionInv'
  BY <1>7, ProjectionStutters DEF allVars, projectionVars
<1>8. ASSUME StageInv PROVE StageInv'
  <2>1. UNCHANGED <<workflow, feature, inbox, nodes, tasks, pass, op>>
    BY DEF allVars, stageVars, featureVars
  <2> QED BY <1>8, <2>1, StageUnwritten, StageGoes DEF PassGoes
<1>9. UNCHANGED subject
  BY DEF allVars
<1> QED BY <1>1, <1>2, <1>3, <1>4, <1>5, <1>6, <1>7, <1>8, <1>9 DEF OrganizationInv

LEMMA Organized == Spec => []OrganizationInv
<1>1. OrganizationInv /\ [Next]_allVars => OrganizationInv'
  BY OrganizationStep, OrganizationStutter
<1> QED BY <1>1, OrganizationInit, PTL DEF Spec

(* A feature is handed over only once its stage is admitted and completed,  *)
(* its design is the latest round and completed, what it is planned from is *)
(* completed and not older than the last correction, for any number of      *)
(* rounds, hops and attempts, whatever operators correct, retry or replan   *)
(* during a pass and wherever a pass stops (applyFeatureStageOutput,        *)
(* CorrectSpecification, RequestReplan, desiredArchitecturePlanRound).      *)
THEOREM PlansAreAsSpecified == Spec => []PlannedAsSpecified
<1>1. OrganizationInv => PlannedAsSpecified
  BY StageProperty DEF OrganizationInv, PlannedAsSpecified
<1> QED BY <1>1, Organized, PTL

(* A story is completed only when all its tasks are, and afterwards only a  *)
(* task that was reopened is open; an accepted feature has every story of   *)
(* the plan in force accepted; for any number of stories, tasks and plan    *)
(* versions, and whatever was reopened, replanned or died meanwhile         *)
(* (completeAndAcceptFeatureStory, RetryFailedTask, RequestFeatureReplan).  *)
THEOREM DeliveriesAreWhole == Spec => []DeliveredWhole
<1>1. OrganizationInv => DeliveredWhole
  BY DeliveryProperty DEF OrganizationInv, DeliveredWhole
<1> QED BY <1>1, Organized, PTL

(* A task is bound to a candidate the gates passed on, through a receipted  *)
(* view that a running daemon knows, and no receipt is of a missing         *)
(* directory, for any targets and commits and any crash in between          *)
(* (rebindTaskCandidateWorkspace, writeExclusiveSynced, rehydrate).         *)
THEOREM BindingsAreGated == Spec => []BoundIsGated
<1>1. OrganizationInv => BoundIsGated
  BY WorkspaceProperty DEF OrganizationInv, BoundIsGated
<1> QED BY <1>1, Organized, PTL

(* Each review of a task but the last was timed out and receipted before    *)
(* the next was opened, results are the validators' exactly up to the       *)
(* deadline, and work is completed only by a review they all passed, for    *)
(* any number of reviews and validators (prepareCompletionReview,           *)
(* closeExpiredCompletionReview).                                           *)
THEOREM ReviewsSucceed == Spec => []ReviewsInSuccession
<1>1. OrganizationInv => ReviewsInSuccession
  BY ReviewProperty DEF OrganizationInv, ReviewsInSuccession
<1> QED BY <1>1, Organized, PTL

(* A node is given out or skipped only when all it follows in the graph is  *)
(* completed (skipped before an optional stage, failed before a repair) and *)
(* all that those follow is over, for any definition of stages, any wiring  *)
(* of the expansions and any sequence of bindings, expansions, admissions   *)
(* and transitions (predecessorsSatisfied, ExpandWorkflowNode,              *)
(* applyWorkflowTransition).                                                *)
THEOREM WorkFollows == Spec => []NodesInOrder
<1>1. OrganizationInv => NodesInOrder
  BY WorkflowProperty DEF OrganizationInv, NodesInOrder
<1> QED BY <1>1, Organized, PTL

(* At any moment at most one claim of a message is unexpired, for any       *)
(* number of roles, restarts, leases and sweeps (AcquireMessage,            *)
(* updateOrganizationalClaim, SweepMessages).                               *)
THEOREM HoldersAreUnique == Spec => []OneLiveHolder
<1>1. OrganizationInv => OneLiveHolder
  BY BusProperty DEF OrganizationInv, OneLiveHolder
<1> QED BY <1>1, Organized, PTL

(* Each message of a thread comes from the role the one before it went to,  *)
(* for any number of threads and roles, readdressed or not                  *)
(* (advanceMessageThread, ReaddressMessage).                                *)
THEOREM ThreadsHandOver == Spec => []HandedOver
<1>1. OrganizationInv => HandedOver
  BY BusProperty DEF OrganizationInv, HandedOver
<1> QED BY <1>1, Organized, PTL

(* Two deployments have the same thread as far as both have it, what one    *)
(* took from the other the other had recorded, once, and a receipt is of a  *)
(* message the other has, for any number of threads and calls, whatever is  *)
(* lost, doubled, late or stopped (advanceMessageThread,                    *)
(* RecordFederatedOutbound, AcceptFederatedMessage).                        *)
THEOREM ThreadsStayInAgreement == Spec => []ThreadsAgree
<1>1. OrganizationInv => ThreadsAgree
  BY FederationProperty DEF OrganizationInv, ThreadsAgree
<1> QED BY <1>1, Organized, PTL

(* Once every event is projected, every document is what would be made of   *)
(* the state as it is, unless a rebuild was overtaken, for any aggregates,  *)
(* events and routes and whatever passes failed                             *)
(* (ApplyOperationalProjectionEvent, projectionTargets,                     *)
(* RebuildOperationalProjections).                                          *)
THEOREM DocumentsStayCurrent == Spec => []DocumentsCurrent
<1>1. OrganizationInv => DocumentsCurrent
  BY ProjectionProperty DEF OrganizationInv, DocumentsCurrent
<1> QED BY <1>1, Organized, PTL
===============================================================================
