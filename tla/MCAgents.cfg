CONSTANTS
  Nil = Nil
  w1 = w1  w2 = w2
  Workers <- TwoWorkers  Limits <- Briefs  MaxLease = 2
  HostCallers = {"operator"}  MaxFence = 2  MaxRoleRevision = 6
  TaskPlans = {{"a", "v"}, {"a", "v", "p"}}
  PurposeOf <- PurposeOfTask  TargetsOf <- Targets  DependenciesOf <- Dependencies  OwnerOf <- Self
  AttemptLimit = 2  ReviewRoundLimit = 1  MaxInvocations = 4  MaxProfile = 2  MaxDisturbances = 2
SPECIFICATION AgentsSpec
SYMMETRY Symmetry
VIEW View
CONSTRAINT Bounded
INVARIANTS
  CompletedOnVerdicts
  OneAttemptPerTask
  EffectsAsRecorded
  StoppedHasNoProcess
CHECK_DEADLOCK FALSE
