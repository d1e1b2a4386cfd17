SPECIFICATION SkillSpec
CONSTANTS
  r1 = r1
  r2 = r2
  p1 = p1
  p2 = p2
  Runs = {r1}
  Pids = {p1}
  Workdir = workdir
  Nobody = nobody
  Supported <- MCSupported
  Arguments = {}
  Sources = 1
  Setups = {}
  Exts = {}
  Heads = {}
  MaxTokens = 0
  MaxRtf = 0
  Ids = {}
  Documents = 0
  Content = {}
  MaxItems = 0
  MaxRefs = 0
  PageLines = {}
  Numbers = {}
  Blank = ""
  MaxText = 0
  Lines <- MCLines
  MaxLines = 5
  MinTitles = 2
  MinBody = 1
  Window = 2
  Master = "SKILL.md"
  Supporting = {}
  Chapters = {}
  Notes = {}
  MaxFiles = 3
  MaxBytes = 2
  MaxEdits = 0
INVARIANT LostFenceHidesNothing
CHECK_DEADLOCK FALSE
