SPECIFICATION Spec
CONSTANTS
  A = A
  B = B
  X = X
  worker = worker
  h1 = h1
  h2 = h2
  Aggregates = {A, B, X}
  Actors = {worker}
  Handlers = {h1, h2}
  NoCommand = NoCommand
  Commands <- IdempotencyCommands
  Readable <- CreateHiddenLater
  Grants <- AllTypes
  AttemptLimit = 1
  MaxPolicy = 2
SYMMETRY HandlerSymmetry
INVARIANTS DecidedOnce AnswersAreCanonical
