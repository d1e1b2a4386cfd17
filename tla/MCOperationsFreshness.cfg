SPECIFICATION FairWholeSpec
CONSTANTS
  Topics = {queue}
  Callers = {c1, c2}
  MaxQueue = 0
  Requests = {r1}
  None = None
  MaxVersion = 3
CHECK_DEADLOCK FALSE
INVARIANTS
  StaleScreensAreExplained
PROPERTIES
  ChangesAreSeen
