-------------------------- MODULE SourceExtraction --------------------------
(* One source after another through extract_single_file of the book-to-skill  *)
(* skill, as pdf_inspector_integration wraps it: the look at the first bytes, *)
(* the offer to install what is missing, the chain of parsers of the format,  *)
(* the removal of invisible characters. A parser's answer is arbitrary; what  *)
(* is modelled is what the code does with it. `--check` may be asked first.   *)
EXTENDS Naturals, FiniteSets, SequencesExt

CONSTANTS
  Sources,  \* how many files the batch has
  Setups,   \* the sets of tools a machine may have installed
  Exts,     \* the extensions to try: formats, or "other" for an unknown one
  Heads     \* what a file's first bytes may say it is

VARIABLES
  stage,              \* where extract_single_file is
  doc,                \* the source, by its position in the batch
  ext, head, format,  \* its extension, its first bytes, document_format
  mode, install,      \* extraction_mode and install_mode
  tools,              \* the modules that can be imported and commands on PATH
  chain, tried,       \* parsers still to try, and those tried
  text,               \* what the parser gave: whose text, by which parser, what
  left,               \* the source whose text ebook-convert-output.txt holds,
                      \* 0 if there is no such file; an earlier batch's may be
                      \* in a work directory that is used again
  silent,             \* ebook-convert reported success for this source and
                      \* wrote nothing
  why,                \* what the ExtractionError says
  report              \* what --check said of each group

batch == <<mode, install, report>>
file == <<doc, ext, head, format>>
output == <<left, silent>>
vars == <<stage, doc, ext, head, format, mode, install, tools, chain, tried,
          text, left, silent, why, report>>

(* A parser: the tools it needs, what it may answer (text, nothing but        *)
(* invisible characters, a blank, or an exception), and whether nothing is    *)
(* tried after it.                                                            *)
Given == {"text", "invisible", "blank"}
Answers == Given \cup {"raised"}
Parser(needs, answers, final) == [needs |-> needs, answers |-> answers, final |-> final]
PdfParsers ==
  [p \in {"pdftotext", "pypdf", "pdfminer", "docling"} |-> Parser({p}, Answers, FALSE)]
EpubParsers ==
  [ebooklib |-> Parser({"ebooklib", "bs4"}, Answers, FALSE), zipfile |-> Parser({}, Answers, FALSE)]
TextParsers == [plain_text |-> Parser({}, Given, FALSE)]
HtmlParsers ==
  [trafilatura |-> Parser({"trafilatura"}, Answers, FALSE), bs4 |-> Parser({"bs4"}, Given, TRUE),
   html_parser |-> Parser({}, Given, FALSE)]
DocxParsers ==
  [docx |-> Parser({"docx"}, Answers, FALSE), zipfile_docx |-> Parser({}, Answers, FALSE)]
RtfParsers ==
  [striprtf |-> Parser({"striprtf"}, Answers, FALSE), rtf_regex |-> Parser({}, Given, TRUE)]
CalibreParsers == [ebook_convert |-> Parser({"ebook_convert"}, Answers, FALSE)]
Parsers ==
  [pdf |-> PdfParsers, epub |-> EpubParsers, text |-> TextParsers, html |-> HtmlParsers,
   docx |-> DocxParsers, rtf |-> RtfParsers, calibre |-> CalibreParsers]
Has(parser) == Parsers[format][parser].needs \subseteq tools

(* The groups of the report: the tools of each, and whether one is enough.    *)
Group(uses, any, required) == [uses |-> uses, any |-> any, required |-> required]
DependencyGroups ==
  [pdf_inspector |-> Group({"pdf_inspector"}, TRUE, FALSE),
   pdf |-> Group({"pypdf", "pdfminer", "pdftotext"}, TRUE, FALSE),
   technical |-> Group({"docling"}, TRUE, FALSE),
   epub |-> Group({"ebooklib", "bs4"}, FALSE, FALSE),
   docx |-> Group({"docx"}, TRUE, FALSE),
   html |-> Group({"trafilatura", "bs4"}, TRUE, FALSE),
   rtf |-> Group({"striprtf"}, TRUE, FALSE),
   calibre |-> Group({"ebook_convert"}, FALSE, TRUE)]
Nothing == [of |-> 0, by |-> "none", is |-> "blank"]

Init ==
  /\ stage = "arguments" /\ doc = 0
  /\ ext = "none" /\ head = "none" /\ format = "none"
  /\ mode = "text" /\ install = "ask" /\ tools = {}
  /\ chain = <<>> /\ tried = {} /\ text = Nothing
  /\ left \in {0, Sources + 1} /\ silent = FALSE /\ why = "none" /\ report = [g \in DOMAIN DependencyGroups |-> "unasked"]
-----------------------------------------------------------------------------
Satisfied(group) ==
  IF group.any THEN group.uses \cap tools # {} ELSE group.uses \subseteq tools
Status(group) ==
  CASE Satisfied(group) -> "ready"
    [] ~Satisfied(group) /\ group.required -> "missing"
    [] OTHER -> "fallback"

(* The machine, the flags and BOOK_SKILL_INSTALL_MISSING; "ask" is a terminal *)
(* that can be asked.                                                         *)
ParseArguments(m, i, setup) ==
  /\ UNCHANGED <<file, chain, tried, text, output, why, report>>
  /\ stage = "arguments"
  /\ stage' = "next"
  /\ mode' = m /\ install' = i /\ tools' = setup
RunDependencyCheck ==
  /\ UNCHANGED <<stage, file, mode, install, tools, chain, tried, text, output, why>>
  /\ stage = "next" /\ doc = 0 /\ report.pdf = "unasked"
  /\ report' = [g \in DOMAIN DependencyGroups |-> Status(DependencyGroups[g])]

Skip(reason) ==
  /\ stage' = "skipped"
  /\ why' = reason
NextSource(e, h) ==
  /\ UNCHANGED <<batch, tools, left>>
  /\ stage \in {"next", "skipped", "extracted"} /\ doc < Sources
  /\ doc' = doc + 1
  /\ ext' = e /\ head' = h /\ format' = e
  /\ chain' = <<>> /\ tried' = {} /\ text' = Nothing /\ silent' = FALSE
  /\ stage' = "look" /\ why' = "none"

(* What is left of a text when the invisible characters are gone.             *)
Visible(is) == is = "text"

(* The hook: what looks like a PDF is shown to pdf-inspector when that is     *)
(* installed. In text mode, Markdown it has no doubt about and that can be    *)
(* seen is the answer; what is untrusted, or not to be seen, is left to the   *)
(* chain, and so is every document in technical mode.                         *)
LooksLikePdf == ext = "pdf" \/ head = "pdf"
Doubts == {"raised", "type", "confidence", "ocr", "encoding"}
Trusted(markdown, doubts) == markdown # "blank" /\ doubts = {}
ResultFromInspector ==
  /\ stage' = "measure"
  /\ text' = [of |-> doc, by |-> "pdf_inspector", is |-> "text"]
InspectPdf(markdown, doubts) ==
  /\ UNCHANGED <<file, batch, tools, chain, tried, output, why>>
  /\ stage = "look"
  /\ LooksLikePdf /\ "pdf_inspector" \in tools
  /\ IF mode = "text" /\ Trusted(markdown, doubts) /\ Visible(markdown)
     THEN ResultFromInspector
     ELSE stage' = "sniff" /\ UNCHANGED text
NotInspected ==
  /\ UNCHANGED <<file, batch, tools, chain, tried, text, output, why>>
  /\ stage = "look"
  /\ ~(LooksLikePdf /\ "pdf_inspector" \in tools)
  /\ stage' = "sniff"

(* A missing file is refused; a file of an unknown extension is what its      *)
(* first bytes say, a ZIP what it holds.                                      *)
Sniffed == IF ext # "other" THEN ext ELSE head
Sniff(exists) ==
  /\ UNCHANGED <<doc, ext, head, batch, tools, chain, tried, text, output>>
  /\ stage = "sniff"
  /\ format' = IF exists THEN Sniffed ELSE ext
  /\ IF exists /\ Sniffed \in DOMAIN Parsers
     THEN stage' = "prepare" /\ UNCHANGED why
     ELSE Skip(IF exists THEN "unsupported" ELSE "not found")
-----------------------------------------------------------------------------
(* prepare_dependencies: modules a format can use, in order, and whether one  *)
(* of them is enough. A package that is missing is offered.                   *)
Offer(modules, any) == [modules |-> modules, any |-> any]
Offers ==
  CASE format = "pdf" ->
         (IF mode = "technical" THEN {Offer(<<"docling">>, FALSE)} ELSE {})
         \cup (IF "pdftotext" \notin tools THEN {Offer(<<"pypdf", "pdfminer">>, TRUE)} ELSE {})
    [] format = "epub" -> {Offer(<<"ebooklib", "bs4">>, FALSE)}
    [] format = "html" -> {Offer(<<"trafilatura", "bs4">>, TRUE)}
    [] format = "docx" -> {Offer(<<"docx">>, FALSE)}
    [] format = "rtf" -> {Offer(<<"striprtf">>, FALSE)}
    [] OTHER -> {}
Packages(offer) ==
  LET missing == ToSet(offer.modules) \ tools IN
  IF offer.any
  THEN IF missing = ToSet(offer.modules) THEN {Head(offer.modules)} ELSE {}
  ELSE missing
Missing == UNION {Packages(offer) : offer \in Offers}

(* The parsers of a format, best first. In technical mode a PDF goes to       *)
(* Docling before them.                                                       *)
TextChain ==
  [pdf |-> <<"pdftotext", "pypdf", "pdfminer">>, epub |-> <<"ebooklib", "zipfile">>,
   text |-> <<"plain_text">>, html |-> <<"trafilatura", "bs4", "html_parser">>,
   docx |-> <<"docx", "zipfile_docx">>, rtf |-> <<"striprtf", "rtf_regex">>,
   calibre |-> <<"ebook_convert">>]
\* Mutant: in technical mode no other parser follows Docling.
ChainOfMode(f) ==
  IF f = "pdf" /\ mode = "technical" THEN <<"docling">> ELSE TextChain[f]
Chain(f) ==
  (IF f = "pdf" /\ mode = "technical" THEN <<"docling">> ELSE <<>>) \o TextChain[f]

(* pip installs all that was agreed to, some of it or none. Input that ends   *)
(* at the question is no ExtractionError: it ends the batch.                  *)
PrepareDependencies(got) ==
  /\ UNCHANGED <<file, batch, tried, text, output>>
  /\ stage = "prepare"
  /\ got \subseteq Missing /\ (install = "no" => got = {})
  /\ tools' = tools \cup got
  /\ chain' = Chain(format)
  /\ IF format = "calibre" /\ "ebook_convert" \notin tools
     THEN Skip("needs Calibre")
     ELSE stage' = "parse" /\ UNCHANGED why
Interrupted ==
  /\ UNCHANGED <<file, batch, tools, chain, tried, text, output, why>>
  /\ stage = "prepare" /\ install = "ask" /\ Missing # {}
  /\ stage' = "aborted"

(* A PDF whose first pages give pdftotext nothing is a scan; a file that is   *)
(* read whole may not be readable.                                            *)
LooksImageOnly ==
  /\ UNCHANGED <<file, batch, tools, chain, tried, text, output>>
  /\ stage = "parse" /\ format = "pdf" /\ chain = Chain(format) /\ "pdftotext" \in tools
  /\ Skip("image only")
ReadTextFileFails ==
  /\ UNCHANGED <<file, batch, tools, chain, tried, text, output>>
  /\ stage = "parse" /\ format \in {"text", "html", "rtf"} /\ chain = Chain(format)
  /\ Skip("unreadable")
-----------------------------------------------------------------------------
NotAvailable ==
  /\ UNCHANGED <<stage, file, batch, tools, tried, text, output, why>>
  /\ stage = "parse" /\ chain # <<>>
  /\ ~Has(Head(chain))
  /\ chain' = Tail(chain)

(* A blank or an exception goes on to the next parser.                        *)
Parse(parser, answer) ==
  /\ UNCHANGED <<file, batch, tools, output, why>>
  /\ stage = "parse" /\ chain # <<>> /\ parser = Head(chain)
  /\ Has(parser) /\ parser # "ebook_convert"
  /\ answer \in Parsers[format][parser].answers
  /\ tried' = tried \cup {parser}
  /\ text' = [of |-> doc, by |-> parser,
              is |-> IF answer = "raised" THEN "blank" ELSE answer]
  /\ IF answer \in {"text", "invisible"} \/ Parsers[format][parser].final
     THEN stage' = "sanitize" /\ UNCHANGED chain
     ELSE chain' = Tail(chain) /\ UNCHANGED stage

(* bs4, or the parser that stands in for it, rejects the markup: nothing but  *)
(* ImportError is caught there.                                               *)
RejectedMarkup ==
  /\ UNCHANGED <<file, batch, tools, chain, tried, text, output, why>>
  /\ stage = "parse" /\ chain # <<>>
  /\ Head(chain) \in {"bs4", "html_parser"} /\ Has(Head(chain))
  /\ stage' = "aborted"

(* A DOCX with a DOCTYPE or an entity is refused by whichever parser opens it.*)
UnsafeXml ==
  /\ UNCHANGED <<file, batch, tools, chain, tried, text, output>>
  /\ stage = "parse" /\ format = "docx" /\ chain # <<>>
  /\ Has(Head(chain))
  /\ Skip("refused")

(* Calibre writes its text to the one file the batch has for that, which      *)
(* nothing removes. A run of it may have written the file or not, whether it  *)
(* fails, is timed out or succeeds; one that succeeded has succeeded for the  *)
(* code when the file is there, be it an earlier source's.                    *)
\* Mutant: a conversion succeeded when its output file is there.
OutputExists(wrote, succeeded) == left # 0 \/ wrote
Converted(wrote, succeeded) == succeeded
EbookConvert(wrote, succeeded, answer) ==
  /\ UNCHANGED <<file, batch, tools, why>>
  /\ stage = "parse" /\ chain = <<"ebook_convert">>
  /\ left' = IF wrote THEN doc ELSE left
  /\ silent' = (succeeded /\ ~wrote)
  /\ tried' = {"ebook_convert"}
  /\ IF Converted(wrote, succeeded) /\ left' # 0 /\ answer # "blank"
     THEN /\ text' = [of |-> left', by |-> "ebook_convert", is |-> answer]
          /\ stage' = "sanitize" /\ UNCHANGED chain
     ELSE chain' = <<>> /\ UNCHANGED <<stage, text>>

(* No parser of the chain gave text.                                          *)
Exhausted ==
  /\ UNCHANGED <<file, batch, tools, chain, tried, text, output>>
  /\ stage = "parse" /\ chain = <<>>
  /\ Skip("no text")

(* Invisible characters go; a text that had nothing else is refused.          *)
Sanitize ==
  /\ UNCHANGED <<file, batch, tools, chain, tried, text, output>>
  /\ stage = "sanitize"
  /\ IF Visible(text.is)
     THEN stage' = "measure" /\ UNCHANGED why
     ELSE Skip(IF text.by = "bs4" /\ text.is = "blank" THEN "no text" ELSE "nothing visible")

(* The file's size is read last, and may be gone by then.                     *)
Measure(readable) ==
  /\ UNCHANGED <<file, batch, tools, chain, tried, text, output>>
  /\ stage = "measure"
  /\ IF readable THEN stage' = "extracted" /\ UNCHANGED why ELSE Skip("unreadable")

Next ==
  \/ \E m \in {"text", "technical"}, i \in {"yes", "no", "ask"}, setup \in Setups :
       ParseArguments(m, i, setup)
  \/ RunDependencyCheck
  \/ \E e \in Exts, h \in Heads : NextSource(e, h)
  \/ \E markdown \in Given, doubts \in SUBSET Doubts : InspectPdf(markdown, doubts)
  \/ NotInspected
  \/ \E exists \in BOOLEAN : Sniff(exists)
  \/ \E got \in SUBSET Missing : PrepareDependencies(got)
  \/ Interrupted \/ LooksImageOnly \/ ReadTextFileFails \/ NotAvailable
  \/ chain # <<>> /\ \E answer \in Answers : Parse(Head(chain), answer)
  \/ RejectedMarkup \/ UnsafeXml
  \/ \E wrote, succeeded \in BOOLEAN, answer \in Given :
       EbookConvert(wrote, succeeded, answer)
  \/ Exhausted \/ Sanitize
  \/ \E readable \in BOOLEAN : Measure(readable)

Spec == Init /\ [][Next]_vars
-----------------------------------------------------------------------------
(* A source is given up for want of text, or of Calibre, only after every     *)
(* parser of its format that the machine has was tried, Docling's failure     *)
(* included (bs4 stands for html.parser); so a format that --check reported   *)
(* ready never fails without one of the tools the report is about tried.      *)
GivenUp == stage = "skipped" /\ why \in {"no text", "needs Calibre"}
Ready == format \in DOMAIN report /\ report[format] = "ready"
FallbackIsComplete ==
  GivenUp =>
    /\ \A parser \in ToSet(TextChain[format]) :
         Has(parser) =>
           parser \in tried \/ (parser = "html_parser" /\ "bs4" \in tried)
    /\ Ready => \E parser \in tried :
         LET needs == Parsers[format][parser].needs IN
         needs # {} /\ needs \subseteq DependencyGroups[format].uses

(* What is published for a source is visible text that a parser tried on it   *)
(* drew from it: never what an earlier source left behind, be it by a         *)
(* conversion that failed half-way, nor, in technical mode, the inspector's.  *)
(* Only where ebook-convert reports success and writes nothing is an earlier  *)
(* source's text published under this one's name.                             *)
TextIsOfItsSource ==
  stage = "extracted" =>
    /\ text.of = doc \/ (text.by = "ebook_convert" /\ silent)
    /\ Visible(text.is)
    /\ text.by \in tried \/ (text.by = "pdf_inspector" /\ mode = "text")
=============================================================================
