------------------------------ MODULE EpubOrder ------------------------------
(* extract_with_zipfile of the book-to-skill skill: in which order, and which *)
(* of them, the documents of an EPUB become text. The package document grows  *)
(* item by item; the order is a function of it and of the archive. A document *)
(* is a number, archives are sorted by name; its text is HtmlText's.          *)
EXTENDS Naturals, FiniteSets, SequencesExt

CONSTANTS
  Ids,        \* ids of manifest items
  Documents,  \* how many members the manifest may name
  Content,    \* those that end in .html or .xhtml
  MaxItems,   \* items of a manifest
  MaxRefs     \* itemrefs of a spine

VARIABLES
  members,   \* what the archive holds
  opf,       \* its package document: "present", "none", or "missing" when
             \* container.xml names one that is not there
  items,     \* the manifest: ids and what they name, in order
  itemrefs   \* the spine: ids, in order

vars == <<members, opf, items, itemrefs>>

\* Hrefs as _resolve_manifest_href gives them; 0 is none.
Hrefs == 1 .. Documents
Packages == {"present", "none", "missing"}

Init == members \in SUBSET Hrefs /\ opf \in Packages /\ items = <<>> /\ itemrefs = <<>>

AddItem(id, href) ==
  /\ UNCHANGED <<members, opf, itemrefs>>
  /\ opf = "present" /\ Len(items) < MaxItems
  /\ items' = Append(items, [id |-> id, href |-> href])
AddItemref(id) ==
  /\ UNCHANGED <<members, opf, items>>
  /\ opf = "present" /\ Len(itemrefs) < MaxRefs
  /\ itemrefs' = Append(itemrefs, id)

Next ==
  \/ \E id \in Ids, href \in Hrefs : AddItem(id, href)
  \/ \E id \in Ids : AddItemref(id)
Spec == Init /\ [][Next]_vars
-----------------------------------------------------------------------------
(* A dictionary: an id given twice keeps its first place and its last href.   *)
Put(manifest, item) ==
  [ids |-> IF Contains(manifest.ids, item.id) THEN manifest.ids
           ELSE Append(manifest.ids, item.id),
   href |-> [manifest.href EXCEPT ![item.id] = item.href]]
Manifest == FoldLeft(Put, [ids |-> <<>>, href |-> [id \in Ids |-> 0]], items)

\* Mutant: a document that two items or itemrefs name is read twice.
AddAgain(order, href) == IF href = 0 THEN order ELSE Append(order, href)
(* The spine, then what else of the manifest is content; each document once.  *)
AddUnseen(order, href) ==
  IF href = 0 \/ Contains(order, href) THEN order ELSE Append(order, href)
SpineOrder ==
  LET manifest == Manifest
      spine == [k \in DOMAIN itemrefs |-> manifest.href[itemrefs[k]]]
      values == [k \in DOMAIN manifest.ids |-> manifest.href[manifest.ids[k]]]
      rest == [k \in DOMAIN values |-> IF values[k] \in Content THEN values[k] ELSE 0]
  IN FoldLeft(AddUnseen, <<>>, spine \o rest)

(* Without a package, or with one that names nothing, what the archive has,   *)
(* by name. A document that is not there is passed over; a package that is    *)
(* not there ends the extraction.                                             *)
Those(docs, chosen) ==
  FoldLeft(LAMBDA kept, href : IF href \in chosen THEN Append(kept, href) ELSE kept,
           <<>>, docs)
HtmlFiles ==
  IF SpineOrder # <<>> THEN SpineOrder
  ELSE Those([href \in Hrefs |-> href], members \cap Content)
ExtractWithZipfile == IF opf = "missing" THEN <<>> ELSE Those(HtmlFiles, members)
-----------------------------------------------------------------------------
(* A document is in the text once, before another exactly when the spine is   *)
(* first at it, whatever the manifest's order; after them comes each content  *)
(* document that only the manifest names. Nothing either names is lost that   *)
(* the archive has, and nothing is lost where neither names anything,         *)
(* but for a package that is itself lost: it takes all with it.               *)
Named(id) ==
  LET at == {k \in DOMAIN items : items[k].id = id} IN
  IF at = {} THEN 0 ELSE items[Max(at)].href
Spined(href) == {k \in DOMAIN itemrefs : Named(itemrefs[k]) = href}
Listed == {Named(id) : id \in Ids} \ {0}
Due == {href \in Listed : Spined(href) # {} \/ href \in Content}
SpineOrderIsKept ==
  LET order == ExtractWithZipfile
      first(href) == Min(Spined(href))
  IN /\ IsInjective(order)
     /\ opf # "missing" =>
          ToSet(order) = members \cap (IF Due # {} THEN Due ELSE Content)
     /\ \A i, j \in DOMAIN order :
          Spined(order[i]) # {} =>
            (i < j <=> i # j /\ (Spined(order[j]) = {} \/ first(order[i]) < first(order[j])))
=============================================================================
