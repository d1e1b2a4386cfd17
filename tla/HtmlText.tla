------------------------------ MODULE HtmlText ------------------------------
(* _HTMLTextExtractor of the book-to-skill skill, the HTML parser the EPUB    *)
(* and HTML extractions fall back to: one action per handler, over a page     *)
(* that grows tag by tag. Tags are of three kinds, a run of text is a word,   *)
(* which stands for its own place in the page, or the blanks between tags.    *)
EXTENDS Naturals, FiniteSets, SequencesExt

CONSTANT MaxTokens  \* the length of the page

VARIABLES
  page,       \* the tokens read: of the feed and of the property
  parts,      \* _parts: <<"word", place>>, or a separator or blanks with 0
  skipDepth,  \* _skip_depth
  pending     \* _pending, or "none"

vars == <<page, parts, skipDepth, pending>>

Init == page = <<>> /\ parts = <<>> /\ skipDepth = 0 /\ pending = "none"

Tags == {"head", "p", "td"}  \* SKIP_TAGS, BLOCK_TAGS and CELL_TAGS, one of each
Token(kind, tag) == [kind |-> kind, tag |-> tag]
Feed(token) == Len(page) < MaxTokens /\ page' = Append(page, token)

Mark(tag) ==
  pending' = CASE tag = "p" -> "\n"
               [] tag = "td" /\ pending = "none" -> "\t"
               [] OTHER -> pending

HandleStartTag(tag) ==
  /\ UNCHANGED parts
  /\ Feed(Token("start", tag))
  /\ skipDepth' = IF tag = "head" THEN skipDepth + 1 ELSE skipDepth
  /\ Mark(tag)

\* Mutant: only an opening tag separates.
MarkNothing(tag) == pending' = pending
MarkEnd(tag) == Mark(tag)
HandleEndTag(tag) ==
  /\ UNCHANGED parts
  /\ Feed(Token("end", tag))
  /\ skipDepth' = IF tag = "head" /\ skipDepth > 0 THEN skipDepth - 1 ELSE skipDepth
  /\ MarkEnd(tag)

(* Text inside a skipped element is dropped. A boundary that is pending goes  *)
(* before the next word, unless nothing came before; blanks do not meet it.   *)
HandleWord ==
  /\ UNCHANGED skipDepth
  /\ Feed(Token("data", "word"))
  /\ IF skipDepth > 0
     THEN UNCHANGED <<parts, pending>>
     ELSE /\ parts' = (IF pending # "none" /\ parts # <<>> THEN Append(parts, <<pending, 0>>)
                      ELSE parts)
                     \o <<<<"word", Len(page) + 1>>>>
          /\ pending' = "none"
HandleBlank ==
  /\ UNCHANGED <<skipDepth, pending>>
  /\ Feed(Token("data", "blank"))
  /\ parts' = IF skipDepth > 0 \/ pending # "none" THEN parts ELSE Append(parts, <<"blank", 0>>)

Next ==
  \/ \E tag \in Tags : HandleStartTag(tag) \/ HandleEndTag(tag)
  \/ HandleWord \/ HandleBlank

Spec == Init /\ [][Next]_vars
-----------------------------------------------------------------------------
(* Two words of the text are on one line exactly when no block opened or      *)
(* closed between them in the page, and are then apart by a tab exactly when  *)
(* a cell did; no word is lost or repeated but those of a skipped element.    *)
Count(kind, from, to) == Cardinality({i \in from .. to : page[i] = Token(kind, "head")})
Kept(i) ==
  /\ page[i] = Token("data", "word")
  /\ \A j \in 1 .. i : Count("start", j, i) <= Count("end", j, i)

Words == {m \in DOMAIN parts : parts[m][1] = "word"}
Separators(m, n) == {parts[k][1] : k \in m + 1 .. n - 1} \cap {"\n", "\t"}
Boundary(i, j) ==
  LET tags == {page[k].tag : k \in i + 1 .. j - 1} IN
  IF "p" \in tags THEN {"\n"} ELSE IF "td" \in tags THEN {"\t"} ELSE {}
BlocksStayApart ==
  /\ {parts[m][2] : m \in Words} = {i \in DOMAIN page : Kept(i)}
  /\ \A m, n \in Words : m < n =>
       /\ parts[m][2] < parts[n][2]
       /\ (m + 1 .. n - 1) \cap Words = {} =>
            Separators(m, n) = Boundary(parts[m][2], parts[n][2])
=============================================================================
