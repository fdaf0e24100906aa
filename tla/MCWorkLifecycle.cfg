SPECIFICATION Spec
CONSTANTS
  a1 = a1
  a2 = a2
  none = none
  Actors <- MCActors
  NoActor = none
  MaxRevision = 8
  MaxScope = 3
SYMMETRY MCSymmetry
VIEW LogView
INVARIANTS FoldReproducesState
PROPERTIES TerminalFrozen OwnerChangesAreVersioned
CHECK_DEADLOCK FALSE
