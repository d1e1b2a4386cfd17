--------------------------- MODULE MCAgentTraces ---------------------------
(* AgentTraces on a small instance: at most two spans deep, three in all.   *)
EXTENDS AgentTraces

Span(id, parent) == [id |-> id, parent |-> parent, sound |-> TRUE]
Root == Span("a", NoParent)

\* A tree as large and as deep as allowed, and a list for each reason to refuse
\* one: too deep, too many, a parent that is not there, a cycle, two roots,
\* none, an id twice, a span that is not in order, and nothing.
MCPayloads == {
  <<Span("b", "a"), Root, Span("c", "a")>>,
  <<Root, Span("b", "a"), Span("c", "b")>>,
  <<Root, Span("b", "a"), Span("c", "a"), Span("d", "a")>>,
  <<Root, Span("b", "x")>>,
  <<Root, Span("b", "c"), Span("c", "b")>>,
  <<Root, Span("b", NoParent)>>,
  <<Span("b", "b")>>,
  <<Root, Span("b", "a"), Span("b", "a")>>,
  <<[Root EXCEPT !.sound = FALSE]>>,
  <<>> }
=============================================================================
