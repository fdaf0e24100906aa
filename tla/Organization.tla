---------------------------- MODULE Organization ----------------------------
(***************************************************************************)
(* The organization's work: planning a feature, delivering it, the          *)
(* workspaces and reviews of its tasks, its workflow, the messages of its   *)
(* roles, those to another deployment and the read model.  Each has its own *)
(* state in the code, so a behaviour is one of any of them: subject says    *)
(* which.  A variable that two of them have stands for the one of the       *)
(* component at work; the others are None.                                  *)
(***************************************************************************)
EXTENDS Integers, Sequences, FiniteSets

CONSTANTS None

CONSTANTS Workflows, StageHops, MaxRound, MaxAttempt            \* FeatureStage

CONSTANTS Stories, PlanTasks, StoryOf, Validates, MaxVersion,
          MaxOperatorCalls                                      \* FeatureDelivery

CONSTANTS Plans, Assembly, Validator, Promotion, MaxCommit      \* CandidateWorkspace

CONSTANTS Validators, Evidence, EvidenceLimit, ReviewDeadline,
          MaxReviewTime                                         \* TaskReview

CONSTANTS Stages, DependsOn, Optional, Repair, Messages, StageOf, Expansions,
          MaxRevision                                           \* WorkflowInstance

CONSTANTS Roles, BusThreads, Progress, ThreadHops, MaximumAttempts, MaximumReaddresses,
          Leases, Life, MaxMessages, MaxRestarts, MaxBusTime, MaxLoaded  \* MessageBus

CONSTANTS Sites, Actors, Home, Opener, FederatedHops, TTL, Skew, Offset,
          MaxSends, MaxStops, MaxFederationTime                 \* Federation

CONSTANTS Orders, Rebuilds, Kind, Subject, MaxEvents            \* Projections

VARIABLES subject,
          workflow, inbox, nodes, op,                         \* FeatureStage
          feature, tasks, pass,                               \* and FeatureDelivery
          stories, sweep, stale, retry, late, replan, accept, calls,
          tree, view, gated, prep, registered, scope, up,     \* CandidateWorkspace
          verdict, reviews, completed, now,                   \* TaskReview
          instance, messages, admissions, request,            \* WorkflowInstance
          threads, roles, loaded, claims,                     \* MessageBus
          receipts, requests, routes, stops,                  \* Federation
          order, authority, checkpoint, documents, rebuild, lost \* Projections

Stage == INSTANCE FeatureStage WITH MaximumHops <- StageHops

Delivery == INSTANCE FeatureDelivery WITH Tasks <- PlanTasks, MaxCalls <- MaxOperatorCalls

Workspace == INSTANCE CandidateWorkspace

Review == INSTANCE TaskReview WITH Deadline <- ReviewDeadline, MaxTime <- MaxReviewTime

Workflow == INSTANCE WorkflowInstance

Bus == INSTANCE MessageBus WITH Actors <- Roles, Threads <- BusThreads, MaximumHops <- ThreadHops, MaxTime <- MaxBusTime

(* With a deadline on every request.                                        *)
Federated == INSTANCE Federation WITH
  MaximumHops <- FederatedHops, Bounded <- TRUE, MaxCalls <- MaxSends, MaxTime <- MaxFederationTime

Projection == INSTANCE Projections

-----------------------------------------------------------------------------
(* What is stored, and what the constants are.                              *)

WorkPhases ==
  {"PROPOSED", "IN_PROGRESS", "CREATED", "ACTIVE", "COMPLETED", "APPROVED", "RELEASING", "QUALIFIED", "MERGED",
   "RELEASED", "ACCEPTED"}
WorkType == [phase : WorkPhases \cup {None}, blocked : {"waiting", "retired", None}, rev : Nat]
PlanPass == [rev : Nat, version : Delivery!Versions]
SweepType == [rev : Nat, version : Delivery!Versions, seen : Seq(WorkType)]
RetryType == [version : Delivery!Versions, task : Delivery!T, rev : Nat]
ReplanType ==
  [rev : Nat, version : Delivery!Versions, tasks : [Delivery!T -> WorkType], stories : [Delivery!S -> WorkType],
   at : Nat \ {0}]
AcceptType ==
  [rev : Nat, version : Delivery!Versions, code : BOOLEAN, at : 1 .. (Len(Stories) + 1), next : Delivery!Past \cup {"read"},
   story : WorkType \cup {None}, revs : [Delivery!T -> Nat]]

NodeNames == Stages \cup Messages \cup UNION Expansions
NodeType ==
  [stage : Stages, preds : SUBSET NodeNames,
   state : {"PENDING", "READY", "ADMITTED", "RUNNING", "BLOCKED", "COMPLETED", "SKIPPED", "FAILED", "CANCELLED"},
   from : {"READY", "ADMITTED", "RUNNING", None}, for : Messages \cup {None}, attempt : Nat]
Nodes == UNION {[D -> NodeType] : D \in SUBSET NodeNames}
InstanceType ==
  [state : {"ACTIVE", "BLOCKED", "COMPLETED", "FAILED", "CANCELLED"}, revision : Nat, proposed : SUBSET Messages,
   nodes : Nodes]

SourceNames == UNION {{o[i] : i \in 1 .. Len(o)} : o \in Orders}
RevisionsType == UNION {[D -> Nat] : D \in SUBSET SourceNames}
SummaryType ==
  UNION {[D -> (SourceNames \cup {None}) \X Nat] :
           D \in SUBSET {"escalation", "release-plan", "completion-review", "variant-group"}}
ContentType == [own : Nat, parts : RevisionsType, account : RevisionsType, used : Nat, summary : SummaryType]
DocumentType == [content : ContentType, revision : Nat, last : SourceNames \X Nat]

(* The versions of the workflow; a feature can be designed again.           *)
ASSUME StageAssumption ==
  /\ Workflows \subseteq {"1", "2", "2.1"} /\ MaxRound \in Nat \ {0}
  /\ None \notin {"READY", "ACTIVE", "COMPLETED", "ADMITTED"}

(* A plan lists its stories and tasks.                                      *)
ASSUME PlanAssumption ==
  /\ Len(Stories) \in Nat /\ DOMAIN Stories = 1 .. Len(Stories)
  /\ Len(PlanTasks) \in Nat /\ DOMAIN PlanTasks = 1 .. Len(PlanTasks)
  /\ StoryOf \in [Delivery!T -> Delivery!S] /\ MaxVersion \in Nat

(* Views are of an assembly or for one of two tasks.                        *)
ASSUME WorkspaceAssumption ==
  MaxCommit \in Nat \ {0} /\ Assembly /= Validator /\ Assembly /= Promotion /\ Validator /= Promotion

(* A definition is of its own stages, none of which follows itself; no node *)
(* is named after a message before it is bound to it.                       *)
ASSUME WorkflowAssumption ==
  /\ DependsOn \in [Stages -> SUBSET Stages] /\ \A s \in Stages : s \notin DependsOn[s]
  /\ StageOf \in [Messages -> Stages] /\ Messages \cap (Stages \cup UNION Expansions) = {}
  /\ None \notin InstanceType

(* Times, deadlines and leases are numbers.                                 *)
ASSUME ReviewAssumption == ReviewDeadline \in Nat
ASSUME BusAssumption == Leases \subseteq Nat /\ Life \in Nat

(* Two deployments, and actors at home in one of them.                      *)
ASSUME FederationAssumption ==
  /\ \E a, b \in Sites : a /= b /\ Sites = {a, b}
  /\ Home \in [Actors -> Sites] /\ Opener \in [DOMAIN Opener -> Actors] /\ Offset \in [Sites -> Int]

(* Sources are listed.                                                      *)
ASSUME SourcesAssumption == \A o \in Orders : Len(o) \in Nat

ASSUME NoneAssumption ==
  /\ None \notin WorkPhases \cup {"waiting", "retired"} /\ None \notin PlanPass
  /\ None \notin ReplanType /\ None \notin AcceptType /\ None \notin SweepType /\ None \notin RetryType
  /\ None \notin DocumentType
  /\ None \notin Nat /\ None \notin {"VALIDATOR", "POLICY_TIMEOUT", "PASS", "FAIL", "BLOCKED"}

-----------------------------------------------------------------------------
(* The composition.                                                         *)

stageVars == <<workflow, inbox, nodes, op>>
featureVars == <<feature, tasks>>
deliveryVars == <<stories, sweep, stale, retry, late, replan, accept>>
workspaceVars == <<tree, view, gated, prep, registered, scope, up>>
reviewVars == <<verdict, reviews, completed>>
workflowVars == <<instance, admissions, request>>
busVars == <<roles, loaded, claims>>
federationVars == <<receipts, requests, routes, stops>>
projectionVars == <<order, authority, checkpoint, documents, rebuild, lost>>
allVars == <<subject, stageVars, featureVars, deliveryVars, workspaceVars, reviewVars, workflowVars, busVars,
             federationVars, projectionVars, pass, calls, now, messages, threads>>

NoStage == workflow = None /\ inbox = None /\ nodes = None /\ op = None
NoFeature == feature = None /\ tasks = None
NoDelivery ==
  /\ stories = None /\ sweep = None /\ stale = None /\ retry = None /\ late = None
  /\ replan = None /\ accept = None
NoWorkspace == tree = None /\ view = None /\ gated = None /\ prep = None /\ registered = None /\ scope = None /\ up = None
NoReview == verdict = None /\ reviews = None /\ completed = None
NoWorkflow == instance = None /\ admissions = None /\ request = None
NoBus == roles = None /\ loaded = None /\ claims = None
NoFederation == receipts = None /\ requests = None /\ routes = None /\ stops = None
NoProjection == order = None /\ authority = None /\ checkpoint = None /\ documents = None /\ rebuild = None /\ lost = None

Init ==
  \/ /\ subject = "stage" /\ Stage!Init
     /\ NoDelivery /\ NoWorkspace /\ NoReview /\ NoWorkflow /\ NoBus /\ NoFederation /\ NoProjection
     /\ calls = None /\ now = None /\ messages = None /\ threads = None
  \/ /\ subject = "delivery" /\ Delivery!Init
     /\ NoStage /\ NoWorkspace /\ NoReview /\ NoWorkflow /\ NoBus /\ NoFederation /\ NoProjection
     /\ now = None /\ messages = None /\ threads = None
  \/ /\ subject = "workspace" /\ Workspace!Init
     /\ NoStage /\ NoFeature /\ NoDelivery /\ NoReview /\ NoWorkflow /\ NoBus /\ NoFederation /\ NoProjection
     /\ pass = None /\ calls = None /\ now = None /\ messages = None /\ threads = None
  \/ /\ subject = "review" /\ Review!Init
     /\ NoStage /\ NoFeature /\ NoDelivery /\ NoWorkspace /\ NoWorkflow /\ NoBus /\ NoFederation /\ NoProjection
     /\ calls = None /\ messages = None /\ threads = None
  \/ /\ subject = "workflow" /\ Workflow!Init
     /\ NoStage /\ NoFeature /\ NoDelivery /\ NoWorkspace /\ NoReview /\ NoBus /\ NoFederation /\ NoProjection
     /\ pass = None /\ calls = None /\ now = None /\ threads = None
  \/ /\ subject = "bus" /\ Bus!Init
     /\ NoStage /\ NoFeature /\ NoDelivery /\ NoWorkspace /\ NoReview /\ NoWorkflow /\ NoFederation /\ NoProjection
     /\ pass = None /\ calls = None
  \/ /\ subject = "federation" /\ Federated!Init
     /\ NoStage /\ NoFeature /\ NoDelivery /\ NoWorkspace /\ NoReview /\ NoWorkflow /\ NoBus /\ NoProjection
     /\ pass = None /\ messages = None
  \/ /\ subject = "projection" /\ Projection!Init
     /\ NoStage /\ NoFeature /\ NoDelivery /\ NoWorkspace /\ NoReview /\ NoWorkflow /\ NoBus /\ NoFederation
     /\ calls = None /\ now = None /\ messages = None /\ threads = None

StageStep == subject = "stage" /\ Stage!Next
  /\ UNCHANGED <<subject, deliveryVars, workspaceVars, reviewVars, workflowVars, busVars, federationVars, projectionVars,
                 calls, now, messages, threads>>
DeliveryStep == subject = "delivery" /\ Delivery!Next
  /\ UNCHANGED <<subject, stageVars, workspaceVars, reviewVars, workflowVars, busVars, federationVars, projectionVars,
                 now, messages, threads>>
WorkspaceStep == subject = "workspace" /\ Workspace!Next
  /\ UNCHANGED <<subject, stageVars, featureVars, deliveryVars, reviewVars, workflowVars, busVars, federationVars, projectionVars,
                 pass, calls, now, messages, threads>>
ReviewStep == subject = "review" /\ Review!Next
  /\ UNCHANGED <<subject, stageVars, featureVars, deliveryVars, workspaceVars, workflowVars, busVars, federationVars, projectionVars,
                 calls, messages, threads>>
WorkflowStep == subject = "workflow" /\ Workflow!Next
  /\ UNCHANGED <<subject, stageVars, featureVars, deliveryVars, workspaceVars, reviewVars, busVars, federationVars, projectionVars,
                 pass, calls, now, threads>>
BusStep == subject = "bus" /\ Bus!Next
  /\ UNCHANGED <<subject, stageVars, featureVars, deliveryVars, workspaceVars, reviewVars, workflowVars, federationVars, projectionVars,
                 pass, calls>>
FederationStep == subject = "federation" /\ Federated!Next
  /\ UNCHANGED <<subject, stageVars, featureVars, deliveryVars, workspaceVars, reviewVars, workflowVars, busVars, projectionVars,
                 pass, messages>>
ProjectionStep == subject = "projection" /\ Projection!Next
  /\ UNCHANGED <<subject, stageVars, featureVars, deliveryVars, workspaceVars, reviewVars, workflowVars, busVars, federationVars,
                 calls, now, messages, threads>>

Next ==
  \/ StageStep \/ DeliveryStep \/ WorkspaceStep \/ ReviewStep
  \/ WorkflowStep \/ BusStep \/ FederationStep \/ ProjectionStep

Spec == Init /\ [][Next]_allVars

-----------------------------------------------------------------------------
(* The properties of the components.                                        *)

(* What is planned is what was specified: see FeatureStage.                 *)
PlannedAsSpecified == subject = "stage" => Stage!PlannedAsSpecified

(* A feature that is delivered is delivered whole: see FeatureDelivery.     *)
DeliveredWhole == subject = "delivery" => Delivery!DeliveredWhole

(* A task is bound to what the gates passed on: see CandidateWorkspace.     *)
BoundIsGated == subject = "workspace" => Workspace!BoundIsGated

(* Reviews of a task succeed each other: see TaskReview.                    *)
ReviewsInSuccession == subject = "review" => Review!ReviewsInSuccession

(* Work follows what it depends on: see WorkflowInstance.                   *)
NodesInOrder == subject = "workflow" => Workflow!NodesInOrder

(* A message has one live holder: see MessageBus.                           *)
OneLiveHolder == subject = "bus" => Bus!OneLiveHolder

(* The messages of a thread hand the work over: see MessageBus.             *)
HandedOver == subject = "bus" => Bus!HandedOver

(* Two deployments agree on a thread: see Federation.                       *)
ThreadsAgree == subject = "federation" => Federated!ThreadsAgree

(* Projected documents are of the state as it is: see Projections.          *)
DocumentsCurrent == subject = "projection" => Projection!DocumentsCurrent
=============================================================================
