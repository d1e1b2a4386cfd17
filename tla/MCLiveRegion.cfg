SPECIFICATION FairRegionSpec
CONSTANTS
  Topics = {"queue", "access"}
  Requests = {r1, r2}
  None = None
  MaxVersion = 2
CHECK_DEADLOCK FALSE
INVARIANTS
  BadgeIsTrue
PROPERTIES
  UsesLiveUpdates
  RefusedPagesGoBlank
