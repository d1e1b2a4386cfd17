SPECIFICATION ViewerSpec
CONSTANTS
  Topics = {"agents", "access"}
  Requests = {r1, r2}
  None = None
  MaxVersion = 2
  Stored = 2
INVARIANTS
  NoticesSurvive
  ShownIsChosen
  RefusalIsFinal
PROPERTIES
  SeenNeverGoesBack
  NoticesAnswered
