-------------------------- MODULE ChapterDetection --------------------------
(* detect_structure of the book-to-skill skill: how many chapters a text has, *)
(* from numbered headings in many languages or, without them, from Markdown   *)
(* headings outside code blocks. The text grows line by line; a line is what  *)
(* the patterns find in it, the detection a function of the lines.            *)
EXTENDS Naturals, FiniteSets, SequencesExt

CONSTANTS
  Lines,      \* the lines a text may have: [kind, mark, title, number,
              \* chapter, size]
  MaxLines,   \* the length of a text
  MinTitles,  \* _MIN_NUMBERED_TITLES
  MinBody,    \* _MIN_NUMBERED_BODY_CHARS
  Window      \* the lines a table of contents is looked for in

VARIABLES
  lines,  \* the text
  counts  \* what is counted in it

-----------------------------------------------------------------------------
(* The lines of code blocks that close: a fence opens one unless one is open, *)
(* and only a fence of the same character closes it.                          *)
FenceStep(doc, scan, i) ==
  CASE doc[i].kind # "fence" -> scan
    [] doc[i].kind = "fence" /\ scan.opener = 0 -> [scan EXCEPT !.opener = i]
    [] OTHER -> IF doc[i].mark = doc[scan.opener].mark
                THEN [opener |-> 0, inside |-> scan.inside \cup (scan.opener .. i)]
                ELSE scan
ClosedFenceLines(doc) ==
  FoldLeftDomain(LAMBDA scan, i : FenceStep(doc, scan, i),
                 [opener |-> 0, inside |-> {}], doc).inside
\* Mutant: any two fences make a block, and one that is left open hides the rest.
LiveFenceLines(doc) ==
  LET Open(i) == Cardinality({j \in 1 .. i : doc[j].kind = "fence"}) % 2 = 1
  IN {i \in DOMAIN doc : doc[i].kind = "fence" \/ Open(i)}
FencedLines(doc) == ClosedFenceLines(doc)

(* A heading is a title marked by # or =, or any line with a word in it that  *)
(* an underline at least as long follows at once. A marked title that begins  *)
(* with a digit waits for the verdict on its depth.                           *)
IsSetext(doc, i, prev) ==
  /\ doc[i].kind = "underline" /\ prev # 0
  /\ doc[prev].kind # "underline" /\ doc[prev].title # ""
  /\ doc[i].size >= doc[prev].size
HeadingStep(doc, fenced, scan, i) ==
  CASE i \in fenced -> [scan EXCEPT !.prev = 0]
    [] i \notin fenced /\ IsSetext(doc, i, scan.prev) ->
         [scan EXCEPT !.prev = 0, !.at = Append(@, i),
                      !.titles = @ \cup {<<doc[i].mark, doc[scan.prev].title>>}]
    [] i \notin fenced /\ doc[i].kind = "heading" ->
         [prev |-> 0, at |-> Append(scan.at, i),
          titles |-> IF doc[i].number # 0 THEN scan.titles
                     ELSE scan.titles \cup {<<doc[i].mark, doc[i].title>>},
          numbered |-> IF doc[i].number = 0 THEN scan.numbered
                       ELSE Append(scan.numbered, <<doc[i].mark, doc[i].title, i>>)]
    [] OTHER -> [scan EXCEPT !.prev = IF doc[i].kind = "blank" THEN 0 ELSE i]
Headings(doc) ==
  LET fenced == FencedLines(doc) IN
  FoldLeftDomain(LAMBDA scan, i : HeadingStep(doc, fenced, scan, i),
                 [prev |-> 0, at |-> <<>>, titles |-> {}, numbered |-> <<>>], doc)

(* Numbered titles of one depth are chapters when there are enough of them    *)
(* and the text under them, up to the next heading of any depth, is long      *)
(* enough by its median.                                                      *)
Sizes(doc) == [i \in DOMAIN doc |-> doc[i].size]
Body(sizes, at, i) ==
  LET after == {j \in ToSet(at) : j > i}
      end == IF after = {} THEN Len(sizes) ELSE Min(after) - 1
  IN FoldLeft(LAMBDA sum, size : sum + size, 0, SubSeq(sizes, i + 1, end))
AreStructural(sizes, at, entries) ==
  LET bodies == SortSeq([e \in DOMAIN entries |-> Body(sizes, at, entries[e][3])], <)
      half == Len(bodies) \div 2
      twiceMedian == IF Len(bodies) % 2 = 1 THEN 2 * bodies[half + 1]
                     ELSE bodies[half] + bodies[half + 1]
  IN Len(entries) >= MinTitles /\ twiceMedian >= 2 * MinBody
Titles(sizes, scan) ==
  LET entries(depth) == SelectSeq(scan.numbered, LAMBDA entry : entry[1] = depth)
  IN scan.titles \cup
     {<<entry[1], entry[2]>> : entry \in
        {e \in ToSet(scan.numbered) : AreStructural(sizes, scan.at, entries(e[1]))}}

(* The titles at the shallowest depth that has two; all of them if none has.  *)
ShallowestCount(titles) ==
  LET at(depth) == {title \in titles : title[1] = depth}
      deep == {depth \in {title[1] : title \in titles} : Cardinality(at(depth)) >= 2}
  IN IF deep # {} THEN Cardinality(at(Min(deep))) ELSE Cardinality(titles)
StructuralChapterCount(doc) == ShallowestCount(Titles(Sizes(doc), Headings(doc)))

(* A chapter line has a number, plain or behind a heading's mark.             *)
ChapterNumber(line) == IF line.kind \in {"chapter", "heading"} THEN line.chapter ELSE 0
ChapterNumbers(doc) == {ChapterNumber(doc[i]) : i \in DOMAIN doc} \ {0}
Counts(doc) ==
  [numeric |-> Cardinality(ChapterNumbers(doc)),
   structural |-> StructuralChapterCount(doc),
   toc |-> \E i \in DOMAIN doc : i <= Window /\ doc[i].kind = "contents"]

(* Two chapter numbers decide; with fewer, the headings do if they are more.  *)
DetectStructure(count) ==
  LET numeric == count.numeric
      structural == count.structural
  IN [chapters |-> IF numeric >= 2 \/ numeric > structural THEN numeric ELSE structural,
      method |-> CASE numeric >= 2 -> "numeric"
                   [] numeric < 2 /\ structural > numeric -> "structural"
                   [] numeric = 1 /\ structural <= 1 -> "numeric"
                   [] OTHER -> "none",
      toc |-> count.toc]

Init == lines = <<>> /\ counts = Counts(<<>>)
AddLine(line) ==
  /\ Len(lines) < MaxLines
  /\ lines' = Append(lines, line)
  /\ counts' = Counts(Append(lines, line))
Next == \E line \in Lines : AddLine(line)
Spec == Init /\ [][Next]_<<lines, counts>>
-----------------------------------------------------------------------------
(* What a code block that closes says never changes the chapters found by     *)
(* headings, nor, unless it numbers a chapter or lists the contents, anything *)
(* else that is detected; and nothing but such a block hides a heading: one   *)
(* that is passed over stands between two fences of the same character with   *)
(* no other of that character between them.                                   *)
Mask(doc) ==
  LET fenced == FencedLines(doc)
  IN [i \in DOMAIN doc |->
        IF i \in fenced /\ doc[i].kind # "fence"
        THEN [doc[i] EXCEPT !.kind = "text", !.mark = 0] ELSE doc[i]]
Speaks(doc) ==
  \E i \in FencedLines(doc) : ChapterNumber(doc[i]) # 0 \/ doc[i].kind = "contents"
Passed(doc) == {i \in DOMAIN doc \ ToSet(Headings(doc).at) : doc[i].kind = "heading"}
Fence(i, mark) == lines[i].kind = "fence" /\ lines[i].mark = mark
FencesAreNeutral ==
  /\ \A count \in {Counts(Mask(lines))} :
       /\ counts.structural = count.structural
       /\ Speaks(lines) \/ DetectStructure(counts) = DetectStructure(count)
  /\ \A i \in Passed(lines) :
       \E j \in 1 .. i - 1, k \in i + 1 .. Len(lines) :
         /\ Fence(j, lines[j].mark) /\ Fence(k, lines[j].mark)
         /\ \A l \in j + 1 .. k - 1 : ~Fence(l, lines[j].mark)

(* What the docstring of _closed_fence_line_numbers says of a fence that      *)
(* extraction lost: of a text whose fences all close, no heading is lost when *)
(* one of them is. It is: what is left of the pair makes a block with the     *)
(* next fence of its character, and what stands between the two is passed     *)
(* over.                                                                      *)
Found(doc) ==
  LET scan == Headings(doc)
  IN scan.titles \cup {<<entry[1], entry[2]>> : entry \in ToSet(scan.numbered)}
LostFenceHidesNothing ==
  LET fences == {i \in DOMAIN lines : lines[i].kind = "fence"} IN
  fences \subseteq FencedLines(lines) =>
    \A i \in fences : Found(lines) \subseteq Found(RemoveAt(lines, i))
=============================================================================
