SPECIFICATION FairSpec
CONSTANTS
  NoParent = NoParent
  MaxSpans = 3
  MaxDepth = 2
  Traces = {t1, t2, t3}
  Payloads <- MCPayloads
  Recorders = {r1, r2}
  PageSize = 2
  BatchSize = 2
  MaxId = 4
  MaxTime = 1
INVARIANTS
  RowsDecode
  WalksMissNothing
PROPERTIES
  ExpiredRowsGo
CHECK_DEADLOCK FALSE
