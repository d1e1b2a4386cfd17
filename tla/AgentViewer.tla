---------------------------- MODULE AgentViewer ----------------------------
(***************************************************************************)
(* app/frontend/agents/index.tsx: the viewer of agent traces on top of     *)
(* startLiveUpdates (LiveUpdates, extended here).  The document carries no *)
(* traces: it shows one page of them once it was fetched, and starts live  *)
(* updates anew for each page the user chooses.  What a refresh asks for   *)
(* belongs to the start it was made for; a refusal removes the stream      *)
(* without which there is no other start.  Traces are numbered in the      *)
(* order of their commits and none is pruned (AgentTraces has both).       *)
(***************************************************************************)
EXTENDS LiveUpdates

CONSTANT Stored   \* the traces recorded before the viewer was first opened

\* startLiveUpdates("agents", ...): the topics of LiveUpdates are the viewer's.
ViewerTopics == Topics = {"agents", "access"}

VARIABLES
  source,      \* the document has the element of the stream
  cursor,      \* the page chosen: the traces before this one, or the latest
  asked,       \* per request, the cursor it was started with
  previous,    \* the last payload this start of live updates fetched
  state        \* what is shown

viewer == <<source, cursor, asked, previous, state>>
all    == <<vars, viewer>>

Cursors == {None} \cup 1 .. (Stored + MaxVersion)

\* The payload before c when the traces changed n times: the newest trace, for a
\* page holds one, and the cursor of the page after it.
Payload(c, n) ==
  LET rest == {i \in 1 .. (Stored + n) : c = None \/ i < c}
      data == {i \in rest : \A j \in rest : j <= i}
  IN  [data |-> data, next |-> IF rest = data THEN {} ELSE data]

\* null is no payload.
ASSUME ViewerAssumption ==
  Stored \in Nat /\ \A c \in Cursors, n \in 0 .. MaxVersion : Payload(c, n) # None

Loading  == [is |-> "loading"]
Expired  == [is |-> "error"]
Broken   == [is |-> "render_error"]
Ready(p) == [is |-> "ready", page |-> p]

Is(status) == state.is = status

ViewerTypeOK ==
  /\ TypeOK
  /\ source \in BOOLEAN /\ cursor \in Cursors
  /\ asked \in [Requests -> Cursors]
  /\ LET payloads == {Payload(c, n) : c \in Cursors, n \in 0 .. MaxVersion}
     IN  /\ previous \in {None} \cup payloads
         /\ state \in {Loading, Expired, Broken} \cup {Ready(p) : p \in payloads}

ViewerInit ==
  /\ Init
  /\ source = TRUE
  /\ cursor = None /\ asked = [r \in Requests |-> None]
  /\ previous = None /\ state = Loading

-----------------------------------------------------------------------------
\* What changes nothing of the viewer: the server, the stream and the tab; a link
\* of the document, each of which loads another; and a failure, under whose
\* message what was shown stays.  (Only the badge shows the connection's state.)
Elsewhere ==
  /\ UNCHANGED viewer
  /\ \/ \E t \in Topics : Commit(t) \/ \E n \in 0 .. MaxVersion : Changed(t, n)
     \/ ConnectionChanged \/ Hide \/ Show \/ Leave
     \/ \E r \in Requests : Answer(r) \/ Fail(r)

\* refresh(), up to its fetch.
Fetch(r) ==
  /\ Run(r)
  /\ asked' = [asked EXCEPT ![r] = cursor]
  /\ UNCHANGED <<source, cursor, previous, state>>

\* refresh(), with a payload in the response: shown when it differs from the last.
Refresh(r) ==
  LET payload == Payload(asked[r], runs[r].snapshot["agents"])
  IN  /\ Resolve(r)
      /\ ~Denied(runs[r].snapshot)
      /\ previous' = payload
      /\ state' = IF previous = payload THEN state ELSE Ready(payload)
      /\ UNCHANGED <<source, cursor, asked>>

\* refresh(), redirected to sign-in or refused.
Expire(r) ==
  /\ Refuse(r)
  /\ Denied(runs[r].snapshot)
  /\ source' = FALSE
  /\ state' = Expired
  /\ UNCHANGED <<cursor, asked, previous>>

-----------------------------------------------------------------------------
\* The effect: startLiveUpdates, with nothing shown or compared with yet.
Start ==
  /\ stopped' = FALSE /\ failed' = FALSE
  /\ Abort
  /\ pending' = TRUE /\ Schedule
  /\ previous' = None /\ state' = Loading

\* The two buttons.
Offered(c) ==
  \/ c = None /\ cursor # None /\ ~Is("render_error")
  \/ Is("ready") /\ c \in state.page.next

\* Mutant: the effect has no cleanup.
ChooseAlongside(c) ==
  /\ Offered(c) /\ ~stopped
  /\ cursor' = c
  /\ UNCHANGED <<version, noticed, seen, stopped, hidden, runs, source, asked>>
  /\ failed' = FALSE
  /\ request' = None
  /\ pending' = TRUE /\ Schedule
  /\ previous' = None /\ state' = Loading

\* Mutant: live updates start without the stream.
ChooseUnsubscribed(c) ==
  /\ Offered(c)
  /\ cursor' = c
  /\ UNCHANGED <<version, noticed, seen, hidden, source, asked>>
  /\ Start

\* setCursor: the effect of the cursor before calls stop(), and the next one starts.
Choose(c) ==
  /\ Offered(c) /\ ~stopped
  /\ cursor' = c
  /\ UNCHANGED <<version, noticed, seen, hidden, source, asked>>
  /\ Start

\* Without the stream startLiveUpdates throws, which ViewerBoundary catches.
ChooseExpired(c) ==
  /\ Offered(c) /\ ~source
  /\ cursor' = c
  /\ state' = Broken
  /\ UNCHANGED <<vars, source, asked, previous>>

\* The document, which the server renders for administrators only.
Open ==
  /\ stopped /\ ~Denied(version)
  /\ source' = TRUE /\ cursor' = None
  /\ hidden' \in BOOLEAN
  /\ UNCHANGED <<version, noticed, seen, asked>>
  /\ Start

ViewerNext ==
  \/ Elsewhere
  \/ Open
  \/ \E r \in Requests : Fetch(r) \/ Refresh(r) \/ Expire(r)
  \/ \E c \in Cursors : Choose(c) \/ ChooseExpired(c)

\* Timers fire and requests end, as in LiveUpdates.
ViewerSpec ==
  /\ ViewerInit /\ [][ViewerNext]_all
  /\ WF_all(\E r \in Requests : Fetch(r))
  /\ WF_all(\E r \in Requests : Refresh(r) \/ Expire(r) \/ (UNCHANGED viewer /\ Fail(r)))

-----------------------------------------------------------------------------
(* Properties                                                              *)

\* What is shown was fetched for the page chosen: no answer to a request for the
\* page before it is shown under the new one.  When the page is settled it is not
\* left loading, and shows every change it was told of.
ShownIsChosen ==
  /\ Settled /\ ~failed => Is("ready")
  /\ Is("ready") =>
       \E n \in (IF Settled /\ ~failed THEN noticed["agents"] ELSE 0) .. version["agents"] :
         state.page = Payload(cursor, n)

\* A refusal is final: "401/403 clears displayed data", docs/observability.md, and
\* until the document is loaded again, whichever button is pressed, nothing is
\* shown and nothing asked.
RefusalIsFinal ==
  ~source => ~Is("ready") /\ ~timer /\ \A r \in Requests : ~Running(r)
=============================================================================
