--------------------------- MODULE TraceDocuments ---------------------------
(***************************************************************************)
(* What an agent trace is turned into on its way to the viewer.  The       *)
(* recorder (lib/observability/agent_trace_recorder.rb) turns the flat     *)
(* list of spans of the telemetry SDK into a tree, or rejects it; the      *)
(* viewer (app/frontend/agents/trace-page.ts) checks the tree again, and   *)
(* one document it refuses hides the whole page of them.  A span keeps its *)
(* id, its parent and whether its own fields are in order; a document      *)
(* keeps the number of spans at every depth.                               *)
(***************************************************************************)
EXTENDS Naturals, FiniteSets, SequencesExt

CONSTANTS
  NoParent,   \* JSON's null
  MaxSpans,   \* MAX_SPANS, 256 in the recorder and in the viewer
  MaxDepth    \* 32 in the recorder and in the viewer

ASSUME LimitsAssumption == MaxSpans \in Nat \ {0} /\ MaxDepth \in Nat \ {0}

Invalid == [spansCount |-> 0, levels |-> <<>>]

Ids(spans) == {span.id : span \in ToSet(spans)}

RootIds(spans) == {span.id : span \in {s \in ToSet(spans) : s.parent = NoParent}}

Children(spans, ids) == {span.id : span \in {s \in ToSet(spans) : s.parent \in ids}}

\* convert, a depth at a time: the ids of the spans at depths 0 .. limit - 1.
Levels(spans, limit) ==
  LET level[d \in 1 .. limit] ==
        IF d = 1 THEN RootIds(spans) ELSE Children(spans, level[d - 1])
  IN  level

Converted(spans, limit) ==
  LET level == Levels(spans, limit)
  IN  UNION {level[d] : d \in 1 .. limit}

\* The document with the spans of the first limit depths.
Sized(spans, limit) ==
  LET level == Levels(spans, limit)
      depths == {d \in 1 .. limit : level[d] # {}}
  IN  [spansCount |-> Cardinality(Converted(spans, limit)),
       levels |-> [d \in 1 .. Cardinality(depths) |-> Cardinality(level[d])]]

\* The recorder's conditions on the list itself.
WellFormed(spans) ==
  /\ Len(spans) \in 1 .. MaxSpans
  /\ Cardinality({i \in 1 .. Len(spans) : spans[i].parent = NoParent}) = 1
  /\ Cardinality(Ids(spans)) = Len(spans)
  /\ \A i \in 1 .. Len(spans) : spans[i].sound

\* Mutant: a span as deep as the limit is converted.
DocumentOneDeeper(spans) ==
  IF WellFormed(spans) /\ Converted(spans, MaxDepth + 1) = Ids(spans)
  THEN Sized(spans, MaxDepth + 1) ELSE Invalid

\* Mutant: the spans that were not visited are left out.
DocumentOfVisited(spans) ==
  IF WellFormed(spans) THEN Sized(spans, MaxDepth) ELSE Invalid

\* attributes: the document of a payload, or InvalidTrace.  Every span has to
\* be visited, and none at the depth limit.
Document(spans) ==
  IF WellFormed(spans) /\ Converted(spans, MaxDepth) = Ids(spans)
  THEN Sized(spans, MaxDepth) ELSE Invalid

\* decodeTracePage on one document.
Decodes(document) ==
  LET count == FoldSeq(LAMBDA n, total : n + total, 0, document.levels)
  IN  /\ Len(document.levels) \in 1 .. MaxDepth
      /\ count <= MaxSpans
      /\ document.levels[1] = 1
      /\ count = document.spansCount

-----------------------------------------------------------------------------
\* A payload is a tree: one span has no parent, and every other one reaches it
\* by a chain of parents shorter than MaxDepth.
ParentOf(spans, id) == spans[CHOOSE i \in 1 .. Len(spans) : spans[i].id = id].parent

IsTree(spans) ==
  /\ IsInjective([i \in 1 .. Len(spans) |-> spans[i].id])
  /\ Cardinality(RootIds(spans)) = 1
  /\ \A id \in Ids(spans) : \E n \in 0 .. MaxDepth - 1 :
       LET up[k \in 0 .. n] ==
             IF k = 0 THEN id
             ELSE IF up[k - 1] \in Ids(spans) THEN ParentOf(spans, up[k - 1]) ELSE up[k - 1]
       IN  up[n] \in RootIds(spans)

=============================================================================
