SPECIFICATION MCSpec
CONSTANTS
  Tasks = {t1}
  Purposes = {"IMPLEMENTATION", "VALIDATION"}
  Revalidated = {"VALIDATION"}
  Allowed = {"SUCCEEDED", "CANCELLED", "START_FAILED"}
  Invocations = {i1, i2}
  Handlers = {h1, h2}
  Budgets <- MCBudgets
  None = None
  MaxAccountRev = 2
  MaxTaskRev = 7
  MaxExecution = 2
  MaxTime = 1
  MaxDeadline = 2
SYMMETRY Symmetry
CHECK_DEADLOCK FALSE
INVARIANT DebitsAreCounted AttemptsAreLinear LateAuthorizationUnused
VIEW View
