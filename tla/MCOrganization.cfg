CONSTANTS
  None = None
  Workflows = {"1", "2", "2.1"}  StageHops = 8  MaxRound = 2  MaxAttempt = 2
  Stories <- StoriesInOrder  PlanTasks <- TasksInOrder  StoryOf <- StoryOfTask  Validates <- ValidatedBy  MaxVersion = 2  MaxOperatorCalls = 3
  Plans = {{"t1", "t2"}, {"t1"}}  Assembly = "assembly"  Validator = "validator"  Promotion = "promotion"  MaxCommit = 2
  Validators = {"v1", "v2"}  Evidence = "e1"  EvidenceLimit = 2  ReviewDeadline = 1  MaxReviewTime = 2
  Stages = {"design", "build", "fix"}  DependsOn <- StageBefore  Optional = {"design"}  Repair = {"fix"}
  Messages = {"m1", "m2", "m3"}  StageOf <- StageFor  Expansions = {{"x", "y"}}  MaxRevision = 7
  Roles = {"a1", "a2", "a3"}  BusThreads = {"t1", "t2"}  Progress = {"p1", "p2"}
  ThreadHops = 2  MaximumAttempts = 2  MaximumReaddresses = 1  Leases = {1}  Life = 2
  MaxMessages = 2  MaxRestarts = 1  MaxBusTime = 2  MaxLoaded = 1
  Sites = {"here", "there"}  Actors = {"a", "b", "c"}  Home <- HomeOf  Opener <- OpenerOf
  FederatedHops = 3  TTL = 2  Skew = 0  Offset <- Ahead  MaxSends = 2  MaxStops = 1  MaxFederationTime = 2
  Orders <- Sources  Rebuilds <- FewSources  Kind <- Kinds  Subject <- About  MaxEvents = 2
SPECIFICATION Spec
CONSTRAINTS Representative RepresentativeNodes
INVARIANTS
  PlannedAsSpecified
  DeliveredWhole
  BoundIsGated
  ReviewsInSuccession
  NodesInOrder
  OneLiveHolder
  HandedOver
  ThreadsAgree
  DocumentsCurrent
CHECK_DEADLOCK FALSE
