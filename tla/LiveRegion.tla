----------------------------- MODULE LiveRegion -----------------------------
(***************************************************************************)
(* app/javascript/controllers/live_region_controller.js: the queue pages   *)
(* (Overview, Mission Control) on top of startLiveUpdates (LiveUpdates,    *)
(* extended here).  The fetched copy waits while the user edits, and a     *)
(* refused request empties the page.  A snapshot stands for the HTML the   *)
(* server rendered.                                                        *)
(***************************************************************************)
EXTENDS LiveUpdates

VARIABLES
  connected,   \* the stream source has the attribute
  content,     \* what the page shows
  kept,        \* pendingContent: fetched and not shown yet
  status,      \* the badge
  editing      \* an input of the region has the focus, or a job is selected

region     == <<connected, content, kept, status, editing>>
regionVars == <<vars, region>>

\* startLiveUpdates("queue", ...): the topics of LiveUpdates are the region's.
RegionTopics == Topics = {"queue", "access"}

\* null is no page the server renders.
ASSUME NullIsNoPage == None \notin Snapshot

Badge(up) == IF up THEN "live" ELSE "offline"

RegionInit ==
  /\ Init
  /\ connected \in BOOLEAN
  /\ content = version /\ kept = None
  /\ status = Badge(connected)
  /\ editing = FALSE

-----------------------------------------------------------------------------
\* What the region has no part in: the server, the events, the tab, and a request
\* until its answer is there.
OutsideRegion ==
  /\ UNCHANGED region
  /\ \/ \E t \in Topics : Commit(t) \/ \E n \in 0 .. MaxVersion : Changed(t, n)
     \/ Hide \/ Show
     \/ \E r \in Requests : Run(r) \/ Answer(r)

\* renderPending(), with the copy to show and whether the user edits.
Render(copy, busy) ==
  /\ content' = IF copy = None \/ busy THEN content ELSE copy
  /\ kept' = IF busy THEN copy ELSE None
  /\ status' = IF copy = None THEN status
               ELSE IF busy THEN "paused" ELSE Badge(connected)

\* The callback of the observer.
Connected ==
  /\ ConnectionChanged
  /\ connected' = ~connected
  /\ status' = Badge(~connected)
  /\ UNCHANGED <<content, kept, editing>>

\* refresh(), with a page in the response.
RefreshRegion(r) ==
  /\ Resolve(r)
  /\ ~Denied(runs[r].snapshot)
  /\ Render(runs[r].snapshot, editing)
  /\ UNCHANGED <<connected, editing>>

\* Mutant: a refused page goes on asking.
EmptyRegionWithoutStop(r) ==
  /\ runs[r].at = "answered" /\ Denied(runs[r].snapshot)
  /\ content' = None /\ kept' = None
  /\ status' = "denied"
  /\ UNCHANGED <<version, noticed, seen, stopped, hidden, pending, failed, connected, editing>>
  /\ Finish(r)

\* refresh(), redirected to sign-in or refused.
EmptyRegion(r) ==
  /\ Refuse(r)
  /\ Denied(runs[r].snapshot)
  /\ content' = None /\ kept' = None
  /\ status' = "denied"
  /\ UNCHANGED <<connected, editing>>

\* The callback for failures.
Failed(r) ==
  /\ Fail(r)
  /\ status' = IF ~stopped /\ ~hidden THEN "offline" ELSE status
  /\ UNCHANGED <<connected, content, kept, editing>>

\* focusin
Edit ==
  /\ ~stopped /\ ~hidden /\ ~editing
  /\ editing' = TRUE
  /\ UNCHANGED <<vars, connected, content, kept, status>>

\* resume, on focusout and change: the user is done, or goes on with another
\* input.  Emptying the region takes the focus from an input in it.
Resume(busy) ==
  /\ ~hidden /\ editing
  /\ editing' = busy
  /\ Render(kept, busy)
  /\ UNCHANGED <<vars, connected>>

\* disconnect()
Disconnect ==
  /\ Leave
  /\ content' = None /\ kept' = None
  /\ editing' = FALSE
  /\ UNCHANGED <<connected, status>>

\* connect(), on a page the server renders for administrators only.
Connect ==
  /\ ~Denied(version)
  /\ Visit
  /\ content' = version /\ kept' = None
  /\ connected' \in BOOLEAN
  /\ status' = Badge(connected')
  /\ editing' = FALSE

RegionNext ==
  \/ OutsideRegion
  \/ Connected \/ Edit \/ Disconnect \/ Connect
  \/ \E busy \in BOOLEAN : Resume(busy)
  \/ \E r \in Requests : RefreshRegion(r) \/ EmptyRegion(r) \/ Failed(r)

RegionSpec == RegionInit /\ [][RegionNext]_regionVars

FairRegionSpec ==
  /\ RegionSpec
  /\ WF_regionVars(\E r \in Requests : UNCHANGED region /\ Run(r))
  /\ WF_regionVars(\E r \in Requests : RefreshRegion(r) \/ EmptyRegion(r) \/ Failed(r))

-----------------------------------------------------------------------------
(* Properties                                                              *)

Newer(shown) == \A t \in Topics : shown[t] >= noticed[t]

\* What the badge says of a settled page is so, unless a request failed: live
\* content is what the events told of, and so is the copy a paused page keeps.
BadgeIsTrue ==
  Settled /\ ~failed =>
    /\ status = "live" => content # None /\ Newer(content)
    /\ status = "paused" => kept # None /\ Newer(kept)

\* While the user edits, nothing replaces what is edited, but a refusal.
EditsAreKept ==
  [][editing /\ editing' => content' = content \/ status' = "denied"]_regionVars

\* The controller uses startLiveUpdates as it is meant to be used.
UsesLiveUpdates == Spec

\* A user whose role was taken away ends up with an empty page, once the page
\* hears of it: "401/403 clears displayed data", docs/observability.md.
RefusedPagesGoBlank ==
  (Denied(noticed) /\ Denied(version)) ~>
    (content = None \/ failed \/ hidden \/ ~Denied(version))

\* "Connection failures show 'Connection interrupted'", docs/observability.md: on
\* a page at rest, its stream connected, whose last request failed, the badge does
\* not claim that the page is live.
FailuresShow == Settled /\ failed /\ connected => status # "live"

=============================================================================
