----------------------------- MODULE BookToSkill -----------------------------
(* The programs of the book-to-skill skill side by side: the runs of the      *)
(* extractor (ExtractionRuns, extended here), what it does with each source,  *)
(* the parsers it carries itself, the detection of chapters, and the scan of  *)
(* the skill an agent then wrote. They share no state but files, which the    *)
(* parts model: one of them, picked at the start, takes the steps.            *)
EXTENDS ExtractionRuns

CONSTANTS
  Sources, Setups, Exts, Heads,                          \* of SourceExtraction
  MaxTokens, MaxRtf, Ids, Documents, Content, MaxItems, MaxRefs, PageLines,
  Numbers, Blank, MaxText,                               \* of the parsers
  Lines, MaxLines, MinTitles, MinBody, Window,           \* of ChapterDetection
  Master, Supporting, Chapters, Notes, MaxFiles, MaxBytes, MaxEdits  \* of SkillScan

\* Members of an EPUB are numbers, in the order of their names.
ASSUME ContentIsNamed == Documents \in Nat /\ Content \in SUBSET (1 .. Documents)
\* What the patterns find in a line of a text.
LineKinds == {"fence", "heading", "underline", "text", "contents", "chapter", "blank"}
ASSUME LinesAreRead ==
  \A line \in Lines :
    line \in [kind : LineKinds, mark : Nat, title : STRING, number : Nat,
             chapter : Nat, size : Nat]
ASSUME FilesAreFinite ==
  IsFiniteSet(Supporting) /\ IsFiniteSet(Chapters) /\ IsFiniteSet(Notes)

VARIABLES
  part,                                                  \* the program at work
  stage, doc, ext, head, format, mode, install, tools, chain, tried, drawn,
  left, silent, why, report,
  page, parts, skipDepth, pending,
  raw, out, depth, skipAtDepth, result,
  members, opf, items, itemrefs,
  pages, lines, counts,
  disk, folder, edits, settled, scanning, unread, opened, flagged, unscanned, status

Source == INSTANCE SourceExtraction WITH text <- drawn
Html == INSTANCE HtmlText
Rtf == INSTANCE RtfGroups
Epub == INSTANCE EpubOrder
Pdf == INSTANCE PdfPages WITH Lines <- PageLines
Chapter == INSTANCE ChapterDetection
Scan == INSTANCE SkillScan

sourceVars == <<stage, doc, ext, head, format, mode, install, tools, chain, tried,
                drawn, left, silent, why, report>>
htmlVars == <<page, parts, skipDepth, pending>>
rtfVars == <<raw, out, depth, skipAtDepth, result>>
epubVars == <<members, opf, items, itemrefs>>
chapterVars == <<lines, counts>>
scanVars == <<disk, folder, edits, settled, scanning, unread, opened, flagged,
              unscanned, status>>
all == <<part, vars, sourceVars, htmlVars, rtfVars, epubVars, pages, chapterVars,
         scanVars>>

Parts == {"runs", "source", "html", "rtf", "epub", "pdf", "chapters", "scan"}

(* A part that is not at work stays as it began; a choice its beginning has   *)
(* is made only when it is.                                                   *)
Begins(name, init, same) == init /\ (part = name \/ same)
SkillInit ==
  /\ part \in Parts
  /\ Init /\ Html!Init /\ Rtf!Init /\ Pdf!Init /\ Chapter!Init
  /\ Begins("source", Source!Init, left = 0)
  /\ Begins("epub", Epub!Init, opf = "none" /\ members = {})
  /\ Begins("scan", Scan!Init, \A file \in Scan!Files : disk[file] = "absent")

RunsStep ==
  /\ part = "runs"
  /\ UNCHANGED <<part, sourceVars, htmlVars, rtfVars, epubVars, pages, chapterVars, scanVars>>
  /\ Next
SourceStep ==
  /\ part = "source"
  /\ UNCHANGED <<part, vars, htmlVars, rtfVars, epubVars, pages, chapterVars, scanVars>>
  /\ Source!Next
HtmlStep ==
  /\ part = "html"
  /\ UNCHANGED <<part, vars, sourceVars, rtfVars, epubVars, pages, chapterVars, scanVars>>
  /\ Html!Next
RtfStep ==
  /\ part = "rtf"
  /\ UNCHANGED <<part, vars, sourceVars, htmlVars, epubVars, pages, chapterVars, scanVars>>
  /\ Rtf!Next
EpubStep ==
  /\ part = "epub"
  /\ UNCHANGED <<part, vars, sourceVars, htmlVars, rtfVars, pages, chapterVars, scanVars>>
  /\ Epub!Next
PdfStep ==
  /\ part = "pdf"
  /\ UNCHANGED <<part, vars, sourceVars, htmlVars, rtfVars, epubVars, chapterVars, scanVars>>
  /\ Pdf!Next
ChapterStep ==
  /\ part = "chapters"
  /\ UNCHANGED <<part, vars, sourceVars, htmlVars, rtfVars, epubVars, pages, scanVars>>
  /\ Chapter!Next
ScanStep ==
  /\ part = "scan"
  /\ UNCHANGED <<part, vars, sourceVars, htmlVars, rtfVars, epubVars, pages, chapterVars>>
  /\ Scan!Next

SkillNext ==
  \/ RunsStep \/ SourceStep \/ HtmlStep \/ RtfStep
  \/ EpubStep \/ PdfStep \/ ChapterStep \/ ScanStep

SkillSpec == SkillInit /\ [][SkillNext]_all
-----------------------------------------------------------------------------
(* No parser the machine has is left out before a source is given up, and a   *)
(* format reported ready is not given up untried.                             *)
FallbackIsComplete == Source!FallbackIsComplete

(* The text kept for a source is visible text drawn from that source, unless  *)
(* Calibre said so of a conversion it did not write.                          *)
TextIsOfItsSource == Source!TextIsOfItsSource

(* Blocks and cells of a page separate words, and nothing else does.          *)
BlocksStayApart == Html!BlocksStayApart

(* Only destination groups that close are dropped from an RTF file.           *)
OnlyDestinationsAreDropped == Rtf!OnlyDestinationsAreDropped

(* An EPUB is read in the order of its spine, each document once, unless its  *)
(* package is lost.                                                           *)
SpineOrderIsKept == Epub!SpineOrderIsKept

(* From a PDF's pages only page numbers and running lines are cut.            *)
BodiesAreKept == Pdf!BodiesAreKept

(* Code blocks add no chapter, and nothing but a block hides one.             *)
FencesAreNeutral == Chapter!FencesAreNeutral

(* A fence that extraction lost hides no heading: the code says so, and does  *)
(* not keep to it.                                                            *)
LostFenceHidesNothing == Chapter!LostFenceHidesNothing

(* A scan that passes read every file it does not name as left out, of those  *)
(* nobody changed meanwhile.                                                  *)
PassedMeansScanned == Scan!PassedMeansScanned
=============================================================================
