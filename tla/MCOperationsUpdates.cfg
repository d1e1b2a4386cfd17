SPECIFICATION FairSpec
CONSTANTS
  Callers = {c1, c2}
  Keys = {queue, access}
  MaxQueue = 1
  MaxChanges = 3
CHECK_DEADLOCK FALSE
INVARIANTS
  NoChangeForgotten
PROPERTIES
  ChangesAreTold
