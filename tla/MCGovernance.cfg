CONSTANTS
  None = None
  a1 = a1  a2 = a2  k1 = k1
  Reviews = {r1, r2}  Branches = {b1, b2}  Artifacts = {k1}  Evidence = {e1}
  ReviewResults = {"PASS", "FAIL", "BLOCKED"}
  ReviewRounds = 1  AdjudicationRounds = 1  BranchDeadline = 0  AdjudicationDeadline = 0
  MaxReviewEpoch = 2  MaxReviewTime = 1  MaxReviewRevision = 4
  Callers = {c1, c2}  Merges = 2  ExecutionRounds = 2  MaxPlanRevision = 9
  Escalations = {r1, r2}  Conditions = {k1, k2}  EscalationRounds = 1  EscalationDeadline = 1
  MaxEscalationEpoch = 2  MaxEscalationTime = 3
  Candidates = {k1, k2, e1}  Authors = {a1, a2, h1}  Isolations = {x1, x2, h2}  Comparator = h1
  Count = 2  Replacements = 1  Quorum = 2  SubmissionDeadline = 1  DecisionDeadline = 2  MaxVariantTime = 3
  Humans = {h1, h2}  MaxProfile = 3  MaxInteractionRevision = 6
  Keys = {k1, k2, e1}  Actors = {a1, a2}  ActorOf <- Actor
  MaxActiveTotal = 1  MaxActivePerActor = 1  MaxReconciliations = 1  MaxVersion = 7
  Coordinators = {c1, c2}  Executions = {x1, x2}  Cost <- Price  MaxPowerEpoch = 3  MaxSetBacks = 1
  Threshold = 1  Allowance = 2  MaxRuntimeTime = 5
SPECIFICATION Spec
SYMMETRY Symmetry
INVARIANTS
  CompletedWorkWasPassed
  VerdictIsOfLastResults
  ReleaseFollowsBranch
  EscalatedOnce
  SelectionIsOfAllCompared
  ClosedOnAnswers
  RunningHoldsCapacity
  AtMostOneLateCommand
  SuspensionExcluded
CHECK_DEADLOCK FALSE
