SPECIFICATION SkillSpec
CONSTANTS
  r1 = r1
  r2 = r2
  p1 = p1
  p2 = p2
  Runs = {r1, r2}
  Pids = {p1, p2}
  Workdir = workdir
  Nobody = nobody
  Supported <- MCSupported
  Arguments <- MCArguments
  Sources = 2
  Setups <- MCSetups
  Exts <- MCExts
  Heads <- MCHeads
  MaxTokens = 5
  MaxRtf = 7
  Ids = {1, 2}
  Documents = 3
  Content = {1, 2}
  MaxItems = 3
  MaxRefs = 3
  PageLines <- MCPageLines
  Numbers = {"7"}
  Blank = ""
  MaxText = 7
  Lines <- MCLines
  MaxLines = 5
  MinTitles = 2
  MinBody = 1
  Window = 2
  Master = "SKILL.md"
  Supporting = {"glossary.md"}
  Chapters = {"chapters/1.md", "chapters/2.md"}
  Notes = {"notes.md"}
  MaxFiles = 3
  MaxBytes = 2
  MaxEdits = 2
SYMMETRY Symmetry
INVARIANTS
  MetadataFollowsText
  BatchesAreAccountedFor
  FallbackIsComplete
  TextIsOfItsSource
  BlocksStayApart
  OnlyDestinationsAreDropped
  SpineOrderIsKept
  BodiesAreKept
  FencesAreNeutral
  PassedMeansScanned
CHECK_DEADLOCK FALSE
