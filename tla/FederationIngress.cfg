CONSTANTS
  Sites = {"here", "there"}
  Actors = {"a", "b"}
  Home <- TwoHomes
  Opener <- OneThread
  MaximumHops = 2
  TTL = 2
  Skew = 0
  Offset <- NoOffset
  Bounded = FALSE
  None = None
  MaxCalls = 1
  MaxStops = 0
  MaxTime = 1
SPECIFICATION Spec
INVARIANT GoodIsAccepted
CHECK_DEADLOCK FALSE
