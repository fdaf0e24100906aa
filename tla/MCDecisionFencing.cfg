SPECIFICATION Spec
CONSTANTS
  A = A
  B = B
  X = X
  worker = worker
  h1 = h1
  h2 = h2
  Aggregates = {A, B, X}
  Actors = {worker}
  Handlers = {h1, h2}
  NoCommand = NoCommand
  Commands <- FencingCommands
  Readable <- AllTypes
  Grants <- AllTypes
  AttemptLimit = 1
  MaxPolicy = 1
SYMMETRY HandlerSymmetry
VIEW ActiveView
INVARIANTS FencedAfterReplacement
PROPERTIES ImplementsAtomicKernel
