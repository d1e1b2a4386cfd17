------------------------------ MODULE PdfPages ------------------------------
(* clean_pdftotext of the book-to-skill skill, which takes the running        *)
(* headers, footers and page numbers out of a PDF's text. The text grows line *)
(* by line and page by page; the cleaning is a function of it. Joining words  *)
(* split at a line's end, which comes after, is left out.                     *)
EXTENDS Naturals, FiniteSets, SequencesExt

CONSTANTS
  Lines,    \* what a line can read
  Numbers,  \* the lines that are page numbers
  Blank,    \* an empty line
  MaxText   \* lines and form feeds a text may have

VARIABLE pages  \* the text, split at its form feeds

Init == pages = <<<<>>>>

Size == Len(FlattenSeq(pages)) + Len(pages)
AddLine(line) ==
  Size <= MaxText /\ pages' = [pages EXCEPT ![Len(pages)] = Append(@, line)]
FormFeed == Size <= MaxText /\ pages' = Append(pages, <<>>)

Next == (\E line \in Lines \cup {Blank} : AddLine(line)) \/ FormFeed
Spec == Init /\ [][Next]_pages
-----------------------------------------------------------------------------
NonBlank(page) == {i \in DOMAIN page : page[i] # Blank}
Edges(page) ==
  LET nb == NonBlank(page) IN
  IF nb = {} THEN {} ELSE {Min(nb), Max(nb)}

At(page, side) == IF side = "first" THEN Min(NonBlank(page)) ELSE Max(NonBlank(page))

\* Mutant: a page of one line votes for it twice.
VotingTwice(page) == IF NonBlank(page) = {} THEN {} ELSE {"first", "last"}
(* Each page votes for its first and its last line, once if it has only one,  *)
(* and more votes than half the pages make a line boilerplate.                *)
Voting(page) ==
  {side \in {"first", "last"} :
     /\ NonBlank(page) # {}
     /\ side = "last" => Cardinality(NonBlank(page)) > 1}
Edge(line) ==
  Cardinality({vote \in (DOMAIN pages) \X {"first", "last"} :
                 LET page == pages[vote[1]] IN
                 vote[2] \in Voting(page) /\ page[At(page, vote[2])] = line})
Boilerplate == {line \in Lines : 2 * Edge(line) > Len(pages)}

Cut(page) == {i \in Edges(page) : page[i] \in Boilerplate \cup Numbers}
Without(page, cut) ==
  FlattenSeq([i \in DOMAIN page |-> IF i \in cut THEN <<>> ELSE <<page[i]>>])
CleanPdftotext ==
  FlattenSeq(IF Len(pages) >= 3
             THEN [p \in DOMAIN pages |-> Without(pages[p], Cut(pages[p]))] ELSE pages)
-----------------------------------------------------------------------------
(* Nothing goes from the inside of a page, and from its edges only a page     *)
(* number or a line that is at the edge of more than half the pages. (A page  *)
(* that begins and ends with the same line votes twice for it, and is not in  *)
(* question.)                                                                 *)
HasTwin(page) ==
  LET nb == NonBlank(page) IN
  nb # {} /\ Min(nb) # Max(nb) /\ page[Min(nb)] = page[Max(nb)]
Recurs(line) ==
  2 * Cardinality({p \in DOMAIN pages : \E i \in Edges(pages[p]) : pages[p][i] = line})
    > Len(pages)
Running(page) == {i \in Edges(page) : page[i] \in Numbers \/ Recurs(page[i])}
BodiesAreKept ==
  (\A p \in DOMAIN pages : ~HasTwin(pages[p])) =>
    CleanPdftotext =
      FlattenSeq([p \in DOMAIN pages |->
        IF Len(pages) < 3 THEN pages[p] ELSE Without(pages[p], Running(pages[p]))])
=============================================================================
