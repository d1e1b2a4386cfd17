SPECIFICATION RegionSpec
CONSTANTS
  Topics = {"queue", "access"}
  Requests = {r1}
  None = None
  MaxVersion = 2
CHECK_DEADLOCK FALSE
INVARIANTS FailuresShow
