---------------------------- MODULE AgentTraces ----------------------------
(***************************************************************************)
(* The agent_traces table: recorders insert a trace each, prune deletes    *)
(* what is older than the retention, and an operator walks the pages of    *)
(* the viewer from the latest to the earliest (AgentTrace,                 *)
(* AgentTraceRecorder, Operations::AgentsController, index.tsx).  Ids are  *)
(* drawn when a row is inserted and seen when it commits, in any order;    *)
(* retention goes by the time a trace started, not by its id; and a page   *)
(* is fetched again whenever the table changes.                            *)
(***************************************************************************)
EXTENDS TraceDocuments, FiniteSetsExt

CONSTANTS
  Traces,      \* trace_ids
  Payloads,    \* lists of spans the SDK hands over
  Recorders,   \* threads that end a generation
  PageSize,    \* PAGE_SIZE
  BatchSize,   \* of in_batches
  MaxId,       \* bound: ids drawn
  MaxTime      \* bound: the time

ASSUME SizesAssumption ==
  /\ PageSize \in Nat \ {0} /\ BatchSize \in Nat \ {0}
  /\ MaxId \in Nat /\ MaxTime \in Nat

\* A span whose own fields are in order has an id, which is not null.
ASSUME PayloadsAssumption ==
  \A spans \in Payloads :
    /\ spans \in Seq(ToSet(spans))
    /\ \A span \in ToSet(spans) : span.sound => span.id # NoParent

VARIABLES
  rows,      \* the committed rows, by id
  lastId,    \* the table's sequence
  inserts,   \* per recorder, its open insert
  horizon,   \* RETENTION.ago
  prune,     \* the prune under way
  walk       \* the operator's walk

vars == <<rows, lastId, inserts, horizon, prune, walk>>

Id     == 1 .. MaxId
Idle   == [at |-> "idle"]
Latest == MaxId + 1    \* a page without "before"
NoMore == 0            \* a next_cursor of null

\* A row, and as history the spans it was made of.
Row == [trace : Traces, started : 0 .. MaxTime, spans : Payloads,
        document : {Document(p) : p \in Payloads} \ {Invalid}]

TypeOK ==
  /\ DOMAIN rows \subseteq Id /\ \A i \in DOMAIN rows : rows[i] \in Row
  /\ lastId \in 0 .. MaxId
  /\ inserts \in [Recorders -> {Idle} \cup [at : {"inserted"}, id : Id, row : Row]]
  /\ horizon \in 0 .. MaxTime
  /\ prune \in {Idle} \cup [at : {"pruning"}, horizon : 0 .. MaxTime, after : 0 .. MaxId]
  /\ walk \in {Idle} \cup [at : {"walking"}, before : 1 .. Latest, next : 0 .. MaxId,
                           shown : SUBSET Id, expected : SUBSET Id]

Init ==
  /\ rows = [i \in {} |-> {}]
  /\ lastId = 0
  /\ inserts = [r \in Recorders |-> Idle]
  /\ horizon = 0
  /\ prune = Idle
  /\ walk = Idle

-----------------------------------------------------------------------------
(* Recorders                                                               *)

Inserting(r) == inserts[r].at = "inserted"

\* Time passes.
Tick ==
  /\ horizon < MaxTime
  /\ horizon' = horizon + 1
  /\ UNCHANGED <<rows, lastId, inserts, prune, walk>>

\* create! inserts a valid trace that started at s.  The unique index makes it
\* wait for an open insert of the same trace, and refuses a stored one, of
\* which the sequence alone remembers.
Insert(r, t, s, p) ==
  /\ ~Inserting(r) /\ lastId < MaxId
  /\ \A q \in Recorders : Inserting(q) => inserts[q].row.trace # t
  /\ Document(p) # Invalid
  /\ lastId' = lastId + 1
  /\ inserts' =
       IF \E i \in DOMAIN rows : rows[i].trace = t THEN inserts
       ELSE [inserts EXCEPT ![r] =
              [at |-> "inserted", id |-> lastId + 1,
               row |-> [trace |-> t, started |-> s, spans |-> p, document |-> Document(p)]]]
  /\ UNCHANGED <<rows, horizon, prune, walk>>

Commit(r) ==
  /\ Inserting(r)
  /\ rows' = [i \in DOMAIN rows \cup {inserts[r].id} |->
                IF i = inserts[r].id THEN inserts[r].row ELSE rows[i]]
  /\ inserts' = [inserts EXCEPT ![r] = Idle]
  /\ UNCHANGED <<lastId, horizon, prune, walk>>

\* The connection fails: reported, and the trace is not stored.
Rollback(r) ==
  /\ Inserting(r)
  /\ inserts' = [inserts EXCEPT ![r] = Idle]
  /\ UNCHANGED <<rows, lastId, horizon, prune, walk>>

-----------------------------------------------------------------------------
(* prune                                                                   *)

BeginPrune ==
  /\ prune = Idle
  /\ prune' = [at |-> "pruning", horizon |-> horizon, after |-> 0]
  /\ UNCHANGED <<rows, lastId, inserts, horizon, walk>>

\* The rows the prune under way is still to delete.
Expired == {i \in DOMAIN rows : rows[i].started < prune.horizon /\ i > prune.after}

\* The BatchSize first of them.
Batch == {i \in Expired : Cardinality({j \in Expired : j <= i}) <= BatchSize}

\* Mutant: a batch that is not full is left for later.
PruneFullBatches ==
  /\ prune # Idle
  /\ rows' = IF Cardinality(Batch) < BatchSize THEN rows
             ELSE [i \in DOMAIN rows \ Batch |-> rows[i]]
  /\ prune' = IF Cardinality(Batch) < BatchSize THEN Idle
              ELSE [prune EXCEPT !.after = Max(Batch)]
  /\ UNCHANGED <<lastId, inserts, horizon, walk>>

\* A batch; one that is not full is the last.
PruneBatch ==
  /\ prune # Idle
  /\ rows' = [i \in DOMAIN rows \ Batch |-> rows[i]]
  /\ prune' = IF Cardinality(Batch) < BatchSize THEN Idle
              ELSE [prune EXCEPT !.after = Max(Batch)]
  /\ UNCHANGED <<lastId, inserts, horizon, walk>>

\* The worker stops between two batches.
PruneCrash ==
  /\ prune # Idle
  /\ prune' = Idle
  /\ UNCHANGED <<rows, lastId, inserts, horizon, walk>>

-----------------------------------------------------------------------------
(* The viewer                                                              *)

Retained == {i \in DOMAIN rows : rows[i].started >= horizon}

Older(before) == {i \in Retained : i < before}

\* LIMIT: the PageSize newest of them.
Newest(ids) == {i \in ids : Cardinality({j \in ids : j >= i}) <= PageSize}

\* Mutant: the cursor is the row that was read to know whether there is more.
PageCursorBeyond(before) ==
  LET older == Older(before)
      page  == Newest(older)
  IN  [rows |-> page, next |-> IF page = older THEN NoMore ELSE Max(older \ page)]

\* index: a page of retained rows, newest first, and the cursor of the next.
Page(before) ==
  LET older == Older(before)
      page  == Newest(older)
  IN  [rows |-> page, next |-> IF page = older THEN NoMore ELSE Min(page)]

Show(before, shown, expected) ==
  /\ walk' = [at |-> "walking", before |-> before, next |-> Page(before).next,
              shown |-> shown \cup Page(before).rows, expected |-> expected]
  /\ UNCHANGED <<rows, lastId, inserts, horizon, prune>>

\* The page opens, or "Latest" is pressed.
Open == Show(Latest, {}, Retained)

\* "Earlier"
Earlier ==
  /\ walk # Idle /\ walk.next # NoMore
  /\ Show(walk.next, walk.shown, walk.expected)

\* An event, a reconnection or the tab coming back: the same page again.
Refresh ==
  /\ walk # Idle
  /\ Show(walk.before, walk.shown, walk.expected)

Next ==
  \/ Tick
  \/ \E r \in Recorders :
       \/ Commit(r) \/ Rollback(r)
       \/ \E t \in Traces : \E s \in horizon .. MaxTime : \E p \in Payloads : Insert(r, t, s, p)
  \/ BeginPrune \/ PruneBatch \/ PruneCrash
  \/ Open \/ Earlier \/ Refresh

Spec == Init /\ [][Next]_vars

\* prune runs every hour, and not every run of it is stopped before its batch.
FairSpec == Spec /\ WF_vars(BeginPrune) /\ SF_vars(PruneBatch)

-----------------------------------------------------------------------------
(* Properties                                                              *)

\* The viewer accepts what the recorder stored: one row it refused would hide
\* the page it is on, and all before it, from everybody. What is stored is a
\* whole tree: no span of a trace was left out.
RowsDecode ==
  \A i \in DOMAIN rows :
    /\ Decodes(rows[i].document)
    /\ IsTree(rows[i].spans) /\ rows[i].document.spansCount = Len(rows[i].spans)

\* Walking from the latest page, whatever is recorded and pruned on the way,
\* the operator is shown every retained trace that was there at the start and
\* is not before the walk's cursor: every one of them at its end.
WalksMissNothing ==
  walk # Idle => {i \in walk.expected \cap Retained : i >= walk.next} \subseteq walk.shown

\* prune deletes nothing within the retention.
PruneSparesRetained ==
  [][\A i \in DOMAIN rows \ DOMAIN rows' : rows[i].started < horizon]_vars

\* A trace older than the retention is deleted.
ExpiredRowsGo ==
  \A i \in Id :
    (i \in DOMAIN rows /\ rows[i].started < horizon) ~> (i \notin DOMAIN rows)

(* The inductive invariant.                                                *)

\* An id under way is nobody else's, and was in no table a walk began with.
IdsAreFresh ==
  /\ DOMAIN rows \subseteq 1 .. lastId
  /\ walk # Idle => walk.expected \subseteq 1 .. lastId
  /\ \A r \in Recorders : Inserting(r) =>
       /\ inserts[r].id \in (1 .. lastId) \ DOMAIN rows
       /\ walk # Idle => inserts[r].id \notin walk.expected
       /\ \A q \in Recorders : Inserting(q) /\ inserts[q].id = inserts[r].id => q = r

\* prune goes by a time that has passed.
PruneIsLate == prune # Idle => prune.horizon <= horizon

\* The pages before the one on the screen, and that page, showed it all.
PagesShowAll ==
  walk # Idle =>
    \A i \in walk.expected \cap Retained :
      i >= walk.before \/ i >= walk.next => i \in walk.shown

Inductive == TypeOK /\ IdsAreFresh /\ PruneIsLate /\ PagesShowAll

=============================================================================
