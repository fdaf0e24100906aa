SPECIFICATION Spec
CONSTANTS
  A = A
  X = X
  worker = worker
  h1 = h1
  h2 = h2
  Aggregates = {A, X}
  Actors = {worker}
  Handlers = {h1, h2}
  NoCommand = NoCommand
  Commands <- MCCommands
  Readable <- AllTypes
  Grants <- AllTypes
  AttemptLimit = 1
  MaxPolicy = 1
SYMMETRY HandlerSymmetry
INVARIANTS GuardsHeldTogether
