------------------------- MODULE LiveUpdatesProofs -------------------------
(***************************************************************************)
(* Proofs about LiveUpdates, for any topics and any number of requests the *)
(* browser could run at a time, and about the three modules that extend    *)
(* it: LiveRegion, AgentViewer and OperationsFreshness.                    *)
(***************************************************************************)
EXTENDS LiveRegion, AgentViewer, OperationsFreshness, TLAPS

USE ConstantsAssumption

LEMMA TypeInit == Init => TypeOK
  <1>1. 0 \in 0 .. MaxVersion
    BY DEF ConstantsAssumption
  <1> QED
    BY <1>1 DEF Init, TypeOK, Snapshot

LEMMA TypeStep == TypeOK /\ [Next]_vars => TypeOK'
  <1> SUFFICES ASSUME TypeOK, [Next]_vars PROVE TypeOK'
    OBVIOUS
  <1> USE DEF TypeOK, Snapshot, Request, Idle, Running, Invalidate, Schedule, CancelAll, Abort, Finish, page
  <1>1. ASSUME NEW t \in Topics, Commit(t) PROVE TypeOK'
    BY <1>1 DEF Commit
  <1>2. ASSUME NEW t \in Topics, NEW n \in 0 .. MaxVersion, Changed(t, n) PROVE TypeOK'
    BY <1>2 DEF Changed
  <1>3. CASE ConnectionChanged \/ Hide \/ Show \/ Leave \/ Visit
    BY <1>3 DEF ConnectionChanged, Hide, Show, Leave, Visit
  <1>4. ASSUME NEW r \in Requests, Run(r) PROVE TypeOK'
    BY <1>4 DEF Run
  <1>5. ASSUME NEW r \in Requests, Answer(r) PROVE TypeOK'
    BY <1>5 DEF Answer
  <1>6. ASSUME NEW r \in Requests, Settle(r) PROVE TypeOK'
    <2>1. CASE Resolve(r)
      <3>1. runs[r].snapshot \in Snapshot
        BY <2>1 DEF Resolve
      <3> QED
        BY <2>1, <3>1 DEF Resolve
    <2>2. CASE Fail(r)
      BY <2>2 DEF Fail
    <2>3. CASE Refuse(r)
      BY <2>3 DEF Refuse
    <2> QED
      BY <1>6, <2>1, <2>2, <2>3 DEF Settle
  <1>7. CASE UNCHANGED vars
    BY <1>7 DEF vars
  <1> QED
    BY <1>1, <1>2, <1>3, <1>4, <1>5, <1>6, <1>7 DEF Next

THEOREM TypeCorrect == Spec => []TypeOK
  BY TypeInit, TypeStep, PTL DEF Spec

-----------------------------------------------------------------------------
(* The requests of a page in order.                                        *)

Alone == OneRequestAtATime /\ HiddenMakesNoRequests /\ PendingIsScheduled /\ TimerIsAlone

LEMMA AloneInit == Init => Alone
  <1> SUFFICES ASSUME Init PROVE Alone
    OBVIOUS
  <1>1. \A r \in Requests : ~Running(r) /\ request # r
    BY DEF Init, Running, Idle, ConstantsAssumption
  <1> QED
    BY <1>1 DEF Init, Alone, OneRequestAtATime, HiddenMakesNoRequests, PendingIsScheduled,
      TimerIsAlone

LEMMA AloneStep == TypeOK /\ Alone /\ [Next]_vars => Alone'
  <1> SUFFICES ASSUME TypeOK, Alone, [Next]_vars PROVE Alone'
    OBVIOUS
  <1> USE DEF Alone, Running, OneRequestAtATime, HiddenMakesNoRequests, PendingIsScheduled,
    TimerIsAlone, ConstantsAssumption
  <1>1. ASSUME NEW t \in Topics, Commit(t) PROVE Alone'
    BY <1>1 DEF Commit, page
  <1>2. ASSUME NEW t \in Topics, NEW n \in 0 .. MaxVersion, Changed(t, n) PROVE Alone'
    BY <1>2 DEF Changed, Invalidate, Schedule
  <1>3. CASE ConnectionChanged
    BY <1>3 DEF ConnectionChanged, Invalidate, Schedule
  <1>4. CASE Hide \/ Leave
    <2>1. request' = None /\ \A r \in Requests : runs'[r].at = "idle"
      BY <1>4 DEF Hide, Leave, CancelAll, Abort, TypeOK, Idle, Request
    <2> QED
      BY <1>4, <2>1 DEF Hide, Leave, CancelAll
  <1>5. CASE Show \/ Visit
    BY <1>5 DEF Show, Visit, Invalidate, Schedule
  <1>6. ASSUME NEW r \in Requests, Run(r) PROVE Alone'
    <2>1. /\ runs'[r] = [at |-> "fetching", snapshot |-> version]
          /\ \A q \in Requests \ {r} : runs'[q] = runs[q]
      BY <1>6 DEF Run, TypeOK
    <2> QED
      BY <1>6, <2>1 DEF Run
  <1>7. ASSUME NEW r \in Requests, Answer(r) PROVE Alone'
    <2>1. /\ runs'[r] = [at |-> "answered", snapshot |-> version]
          /\ \A q \in Requests \ {r} : runs'[q] = runs[q]
      BY <1>7 DEF Answer, TypeOK
    <2>2. \A q \in Requests : Running(q)' <=> Running(q)
      BY <1>7, <2>1 DEF Answer
    <2> QED
      BY <1>7, <2>2 DEF Answer
  <1>8. ASSUME NEW r \in Requests, Settle(r) PROVE Alone'
    <2>1. request = r
      BY <1>8 DEF Settle, Resolve, Fail, Refuse
    <2>2. request' = None /\ \A q \in Requests : runs'[q].at = "idle"
      <3>1. \A q \in Requests \ {r} : runs[q].at = "idle" /\ runs'[q] = runs[q]
        BY <1>8, <2>1 DEF Settle, Resolve, Fail, Refuse, Finish, TypeOK
      <3>2. runs'[r] = [at |-> "idle"]
        BY <1>8 DEF Settle, Resolve, Fail, Refuse, Finish, TypeOK, Idle
      <3> QED
        BY <1>8, <3>1, <3>2 DEF Settle, Resolve, Fail, Refuse, Finish
    <2> QED
      BY <1>8, <2>1, <2>2 DEF Settle, Resolve, Fail, Refuse, Finish, Schedule
  <1>9. CASE UNCHANGED vars
    BY <1>9 DEF vars, page
  <1> QED
    BY <1>1, <1>2, <1>3, <1>4, <1>5, <1>6, <1>7, <1>8, <1>9 DEF Next

\* A page never has two requests under way.
THEOREM OneRequestRuns == Spec => []OneRequestAtATime
  <1>1. Alone => OneRequestAtATime
    BY DEF Alone
  <1> QED
    BY <1>1, TypeInit, TypeStep, AloneInit, AloneStep, PTL DEF Spec

\* A hidden or stopped page has none, and no timer that would start one.
THEOREM HiddenPagesAreQuiet == Spec => []HiddenMakesNoRequests
  <1>1. Alone => HiddenMakesNoRequests
    BY DEF Alone
  <1> QED
    BY <1>1, TypeInit, TypeStep, AloneInit, AloneStep, PTL DEF Spec

-----------------------------------------------------------------------------
(* What the page has seen.                                                 *)

LEMMA OldestInit == Init => OldestFirst
  <1> SUFFICES ASSUME Init PROVE OldestFirst
    OBVIOUS
  <1>1. \A r \in Requests : ~Running(r)
    BY DEF Init, Running, Idle
  <1>2. \A t \in Topics : version[t] = 0 /\ noticed[t] = 0 /\ seen[t] = 0
    BY DEF Init
  <1> QED
    <2>1. ASSUME NEW t \in Topics PROVE noticed[t] <= version[t] /\ seen[t] <= version[t]
      <3>1. version[t] = 0 /\ noticed[t] = 0 /\ seen[t] = 0 /\ 0 <= 0
        BY <1>2
      <3> QED
        BY <3>1
    <2> QED
      BY <1>1, <2>1 DEF OldestFirst

LEMMA OldestStep == TypeOK /\ Alone /\ OldestFirst /\ [Next]_vars => OldestFirst'
  <1> SUFFICES ASSUME TypeOK, Alone, OldestFirst, [Next]_vars PROVE OldestFirst'
    OBVIOUS
  <1>n. \A t \in Topics : version[t] \in Nat /\ noticed[t] \in Nat /\ seen[t] \in Nat
    BY DEF TypeOK, Snapshot
  <1>r. ASSUME NEW r \in Requests, Running(r), NEW t \in Topics
        PROVE  runs[r].snapshot[t] \in Nat
    BY <1>r DEF TypeOK, Snapshot, Request, Idle, Running
  <1>1. ASSUME NEW u \in Topics, Commit(u) PROVE OldestFirst'
    <2>1. \A t \in Topics : version[t] <= version'[t]
      BY <1>1, <1>n DEF Commit, TypeOK
    <2>2. \A t \in Topics : version'[t] \in Nat
      BY <1>1, <1>n DEF Commit, TypeOK
    <2> QED
      BY <1>1, <1>n, <1>r, <2>1, <2>2 DEF Commit, page, OldestFirst, Running
  <1>2. ASSUME NEW u \in Topics, NEW n \in 0 .. MaxVersion, Changed(u, n) PROVE OldestFirst'
    BY <1>2, <1>n DEF Changed, OldestFirst, Running, TypeOK
  <1>3. CASE ConnectionChanged \/ Show
    BY <1>3 DEF ConnectionChanged, Show, OldestFirst, Running
  <1>4. CASE Hide \/ Leave
    <2>1. \A r \in Requests : runs'[r] = runs[r] \/ runs'[r].at = "idle"
      BY <1>4 DEF Hide, Leave, CancelAll, Abort, Idle
    <2> QED
      BY <1>4, <2>1 DEF Hide, Leave, OldestFirst, Running
  <1>5. CASE Visit
    <2>1. \A r \in Requests : ~Running(r)'
      BY <1>5 DEF Visit, Alone, HiddenMakesNoRequests, Running
    <2> QED
      BY <1>5, <1>n, <2>1 DEF Visit, OldestFirst
  <1>6. ASSUME NEW r \in Requests, Run(r) \/ Answer(r) PROVE OldestFirst'
    <2>1. /\ runs'[r].snapshot = version
          /\ \A q \in Requests \ {r} : runs'[q] = runs[q]
      BY <1>6 DEF Run, Answer, TypeOK
    <2> QED
      BY <1>6, <1>n, <2>1 DEF Run, Answer, OldestFirst, Running
  <1>7. ASSUME NEW r \in Requests, Settle(r) PROVE OldestFirst'
    <2>1. \A q \in Requests : ~Running(q)'
      BY <1>7, AloneStep DEF Next, Alone, OneRequestAtATime, Settle, Resolve, Fail, Refuse, Finish,
        ConstantsAssumption
    <2>2. \A t \in Topics : seen'[t] <= version[t]
      BY <1>7 DEF Settle, Resolve, Fail, Refuse, OldestFirst, Running
    <2> QED
      BY <1>7, <2>1, <2>2 DEF Settle, Resolve, Fail, Refuse, OldestFirst
  <1>8. CASE UNCHANGED vars
    BY <1>8 DEF vars, page, OldestFirst, Running
  <1> QED
    BY <1>1, <1>2, <1>3, <1>4, <1>5, <1>6, <1>7, <1>8 DEF Next

\* The page goes from a state of the server to a later one, whatever order the
\* answers come in.
THEOREM SeenOnlyAdvances == Spec => SeenNeverGoesBack
  <1>1. TypeOK /\ Alone /\ OldestFirst /\ [Next]_vars => [\A t \in Topics : seen'[t] >= seen[t]]_vars
    <2> SUFFICES ASSUME TypeOK, OldestFirst, [Next]_vars, NEW t \in Topics PROVE seen'[t] >= seen[t]
      OBVIOUS
    <2>1. seen[t] \in Nat /\ version[t] \in Nat /\ seen[t] <= version[t]
      BY DEF TypeOK, Snapshot, OldestFirst
    <2>2. CASE Visit
      BY <2>1, <2>2 DEF Visit
    <2>3. ASSUME NEW r \in Requests, Resolve(r) PROVE seen'[t] >= seen[t]
      <3>1. runs[r].snapshot[t] \in Nat /\ seen[t] <= runs[r].snapshot[t]
        BY <2>3 DEF Resolve, Running, OldestFirst, TypeOK, Snapshot, Request, Idle
      <3> QED
        BY <2>1, <2>3, <3>1 DEF Resolve
    <2>4. CASE seen' = seen
      BY <2>1, <2>4
    <2>5. seen' = seen \/ Visit \/ \E r \in Requests : Resolve(r)
      BY DEF Next, Commit, Changed, ConnectionChanged, Hide, Show, Leave, Run, Answer, Settle,
        Fail, Refuse, vars
    <2> QED
      BY <2>2, <2>3, <2>4, <2>5
  <1> QED
    BY <1>1, TypeInit, TypeStep, AloneInit, AloneStep, OldestInit, OldestStep, PTL
      DEF Spec, SeenNeverGoesBack

-----------------------------------------------------------------------------
(* Events.                                                                 *)

LEMMA CurrentInit == Init => AnswersAreCurrent
  BY DEF Init, AnswersAreCurrent

LEMMA CurrentStep ==
  TypeOK /\ Alone /\ OldestFirst /\ AnswersAreCurrent /\ [Next]_vars => AnswersAreCurrent'
  <1> SUFFICES ASSUME TypeOK, Alone, OldestFirst, AnswersAreCurrent, [Next]_vars
               PROVE  AnswersAreCurrent'
    OBVIOUS
  <1>1. ASSUME NEW t \in Topics, Commit(t) PROVE AnswersAreCurrent'
    BY <1>1 DEF Commit, page, AnswersAreCurrent
  <1>2. CASE (\E t \in Topics, n \in 0 .. MaxVersion : Changed(t, n)) \/ ConnectionChanged \/ Show \/ Visit
    BY <1>2 DEF Changed, ConnectionChanged, Show, Visit, Invalidate, AnswersAreCurrent
  <1>3. CASE Hide \/ Leave
    <2>1. \A r \in Requests : runs'[r] = runs[r] \/ runs'[r].at = "idle"
      BY <1>3 DEF Hide, Leave, CancelAll, Abort, Idle
    <2> QED
      BY <1>3, <2>1 DEF Hide, Leave, AnswersAreCurrent
  <1>4. ASSUME NEW r \in Requests, Run(r) PROVE AnswersAreCurrent'
    <2>1. runs'[r].at = "fetching" /\ \A q \in Requests \ {r} : runs'[q] = runs[q] /\ ~Running(q)
      BY <1>4 DEF Run, TypeOK, Alone, OneRequestAtATime, TimerIsAlone, ConstantsAssumption
    <2> QED
      BY <2>1 DEF AnswersAreCurrent, Running
  <1>5. ASSUME NEW r \in Requests, Answer(r) PROVE AnswersAreCurrent'
    <2>1. /\ runs'[r] = [at |-> "answered", snapshot |-> version]
          /\ \A q \in Requests \ {r} : runs'[q] = runs[q]
      BY <1>5 DEF Answer, TypeOK
    <2>2. \A t \in Topics : version[t] >= noticed[t]
      BY DEF OldestFirst, TypeOK, Snapshot
    <2> QED
      BY <1>5, <2>1, <2>2 DEF Answer, AnswersAreCurrent
  <1>6. ASSUME NEW r \in Requests, Settle(r) PROVE AnswersAreCurrent'
    <2>1. \A q \in Requests : runs'[q] = runs[q] \/ runs'[q].at = "idle"
      BY <1>6 DEF Settle, Resolve, Fail, Refuse, Finish, TypeOK, Idle
    <2> QED
      BY <1>6, <2>1 DEF Settle, Resolve, Fail, Refuse, AnswersAreCurrent
  <1>7. CASE UNCHANGED vars
    BY <1>7 DEF vars, page, AnswersAreCurrent
  <1> QED
    BY <1>1, <1>2, <1>3, <1>4, <1>5, <1>6, <1>7 DEF Next

LEMMA SurviveInit == Init => NoticesSurvive
  BY DEF Init, NoticesSurvive

LEMMA SurviveStep ==
  /\ TypeOK /\ Alone /\ OldestFirst /\ AnswersAreCurrent /\ NoticesSurvive /\ [Next]_vars
  => NoticesSurvive'
  <1> SUFFICES ASSUME TypeOK, Alone, OldestFirst, AnswersAreCurrent, NoticesSurvive, [Next]_vars
               PROVE  NoticesSurvive'
    OBVIOUS
  <1>n. \A t \in Topics : version[t] \in Nat /\ noticed[t] \in Nat /\ seen[t] \in Nat
                         /\ noticed[t] <= version[t]
    BY DEF TypeOK, Snapshot, OldestFirst
  <1>1. ASSUME NEW t \in Topics, Commit(t) PROVE NoticesSurvive'
    BY <1>1 DEF Commit, page, NoticesSurvive, Covers
  <1>2. ASSUME pending', Schedule PROVE NoticesSurvive'
    BY <1>2 DEF Schedule, NoticesSurvive
  <1>3. CASE (\E t \in Topics, n \in 0 .. MaxVersion : Changed(t, n)) \/ ConnectionChanged \/ Show \/ Visit
    BY <1>2, <1>3 DEF Changed, ConnectionChanged, Show, Visit, Invalidate
  <1>4. CASE Hide \/ Leave
    BY <1>4 DEF Hide, Leave, NoticesSurvive
  <1>5. ASSUME NEW r \in Requests, Run(r) PROVE NoticesSurvive'
    <2>1. runs'[r].at = "fetching"
      BY <1>5 DEF Run, TypeOK
    <2> QED
      BY <2>1 DEF NoticesSurvive, Covers
  <1>6. ASSUME NEW r \in Requests, Answer(r) PROVE NoticesSurvive'
    <2>1. runs'[r] = [at |-> "answered", snapshot |-> version]
      BY <1>6 DEF Answer, TypeOK
    <2>2. \A t \in Topics : Covers(r, t, noticed[t])'
      BY <1>6, <1>n, <2>1 DEF Answer, Covers
    <2> QED
      BY <2>2 DEF NoticesSurvive
  <1>7. ASSUME NEW r \in Requests, Resolve(r) PROVE NoticesSurvive'
    <2>2. CASE pending
      BY <1>2, <1>7, <2>2 DEF Resolve, Finish
    <2>3. CASE ~pending /\ (stopped \/ hidden)
      BY <1>7, <2>3 DEF Resolve, NoticesSurvive
    <2>4. CASE ~pending /\ ~stopped /\ ~hidden
      <3>1. \A t \in Topics : seen'[t] >= noticed[t]
        BY <1>7, <2>4 DEF Resolve, AnswersAreCurrent
      <3> QED
        BY <1>7, <3>1 DEF Resolve, NoticesSurvive
    <2> QED
      BY <2>2, <2>3, <2>4 DEF TypeOK
  <1>8. ASSUME NEW r \in Requests, Fail(r) \/ Refuse(r) PROVE NoticesSurvive'
    <2>1. stopped' \/ hidden' \/ failed'
      BY <1>8 DEF Fail, Refuse, TypeOK
    <2> QED
      BY <2>1 DEF NoticesSurvive
  <1>9. CASE UNCHANGED vars
    BY <1>9 DEF vars, page, NoticesSurvive, Covers
  <1> QED
    BY <1>1, <1>3, <1>4, <1>5, <1>6, <1>7, <1>8, <1>9 DEF Next, Settle

\* No event is lost between the stream and the screen.
THEOREM NoticesAlwaysSurvive == Spec => []NoticesSurvive
  BY TypeInit, TypeStep, AloneInit, AloneStep, OldestInit, OldestStep, CurrentInit, CurrentStep,
    SurviveInit, SurviveStep, PTL DEF Spec

-----------------------------------------------------------------------------
(* The inductive invariant, for what runs on top of startLiveUpdates.      *)

LEMMA InductiveParts ==
  Inductive <=> TypeOK /\ Alone /\ OldestFirst /\ AnswersAreCurrent /\ NoticesSurvive
  BY DEF Inductive, Alone

LEMMA InductiveInit == Init => Inductive
  BY InductiveParts, TypeInit, AloneInit, OldestInit, CurrentInit, SurviveInit

LEMMA InductiveStep == Inductive /\ [Next]_vars => Inductive'
  <1> SUFFICES ASSUME Inductive, [Next]_vars PROVE Inductive'
    OBVIOUS
  <1>1. TypeOK' /\ Alone' /\ OldestFirst' /\ AnswersAreCurrent' /\ NoticesSurvive'
    BY InductiveParts, TypeStep, AloneStep, OldestStep, CurrentStep, SurviveStep
  <1> QED
    BY <1>1 DEF Inductive, Alone

\* A settled page that no request failed has seen what it was told of.
LEMMA SettledIsSeen ==
  ASSUME Inductive, Settled, ~failed
  PROVE  ~pending /\ \A t \in Topics : seen[t] >= noticed[t]
  <1>1. ~pending
    BY DEF Settled, Inductive, PendingIsScheduled
  <1>2. \A r \in Requests : ~Running(r)
    BY DEF Settled, Inductive, OneRequestAtATime, ConstantsAssumption
  <1>3. \A r \in Requests, t \in Topics : ~Covers(r, t, noticed[t])
    BY <1>2 DEF Covers, Running
  <1> QED
    BY <1>1, <1>3 DEF Settled, Inductive, NoticesSurvive

-----------------------------------------------------------------------------
(* The live region.                                                        *)

\* A change of the region alone is a stutter of the updates.
LEMMA RegionImplements == [RegionNext]_regionVars => [Next]_vars
  <1> SUFFICES ASSUME [RegionNext]_regionVars PROVE Next \/ UNCHANGED vars
    OBVIOUS
  <1>1. CASE OutsideRegion
    BY <1>1 DEF OutsideRegion, Next
  <1>2. CASE Connected \/ Disconnect \/ Connect
    BY <1>2 DEF Connected, Disconnect, Connect, Next
  <1>3. CASE Edit \/ \E busy \in BOOLEAN : Resume(busy)
    BY <1>3 DEF Edit, Resume
  <1>4. ASSUME NEW r \in Requests, RefreshRegion(r) \/ EmptyRegion(r) \/ Failed(r) PROVE Next
    BY <1>4 DEF RefreshRegion, EmptyRegion, Failed, Next, Settle
  <1>5. CASE UNCHANGED regionVars
    BY <1>5 DEF regionVars
  <1> QED
    BY <1>1, <1>2, <1>3, <1>4, <1>5 DEF RegionNext

\* The controller is an implementation of LiveUpdates: every step of it is a
\* step of startLiveUpdates, or leaves startLiveUpdates alone.
THEOREM RegionUsesLiveUpdates == RegionSpec => UsesLiveUpdates
  <1>1. RegionInit => Init
    BY DEF RegionInit
  <1> QED
    BY <1>1, RegionImplements, PTL DEF RegionSpec, UsesLiveUpdates, Spec

\* Whatever is fetched, and whatever fails, an input that keeps the focus keeps
\* its region, unless the request was refused.
THEOREM EditsAreAlwaysKept == RegionSpec => EditsAreKept
  <1>1. [RegionNext]_regionVars =>
          [editing /\ editing' => content' = content \/ status' = "denied"]_regionVars
    <2> SUFFICES ASSUME [RegionNext]_regionVars, editing, editing'
                 PROVE  content' = content \/ status' = "denied"
      OBVIOUS
    <2>1. CASE OutsideRegion \/ Connected \/ Edit \/ Disconnect \/ Connect
      BY <2>1 DEF OutsideRegion, Connected, Edit, Disconnect, Connect, region
    <2>2. ASSUME NEW busy \in BOOLEAN, Resume(busy) PROVE content' = content
      BY <2>2 DEF Resume, Render
    <2>3. ASSUME NEW r \in Requests, RefreshRegion(r) \/ EmptyRegion(r) \/ Failed(r)
          PROVE  content' = content \/ status' = "denied"
      BY <2>3 DEF RefreshRegion, EmptyRegion, Failed, Render
    <2>4. CASE UNCHANGED regionVars
      BY <2>4 DEF regionVars, region
    <2> QED
      BY <2>1, <2>2, <2>3, <2>4 DEF RegionNext
  <1> QED
    BY <1>1, PTL DEF RegionSpec, EditsAreKept

\* What was read last is on the screen or waits for the user, and unless a
\* request is to come, under way or failed, the badge says which.
ShowsSeen == content = seen /\ kept = None
KeepsSeen == kept = seen /\ kept # None
BadgeFits == (status = "live" => kept = None) /\ (status = "paused" => kept # None)
Shown ==
  ~stopped =>
    /\ ShowsSeen \/ KeepsSeen
    /\ BadgeFits \/ hidden \/ failed \/ pending \/ request # None

LEMMA ShownInit == RegionInit => Shown
  BY DEF RegionInit, Init, Shown, ShowsSeen

LEMMA ShownStep == Inductive /\ Shown /\ [RegionNext]_regionVars => Shown'
  <1> SUFFICES ASSUME Inductive, Shown, [RegionNext]_regionVars PROVE Shown'
    OBVIOUS
  <1> USE DEF Shown, ShowsSeen, KeepsSeen, BadgeFits
  <1>1. CASE OutsideRegion
    <2>1. ASSUME NEW t \in Topics, Commit(t) PROVE Shown'
      BY <1>1, <2>1 DEF OutsideRegion, Commit, page, region
    <2>2. ASSUME NEW t \in Topics, NEW n \in 0 .. MaxVersion, Changed(t, n) PROVE Shown'
      BY <1>1, <2>2 DEF OutsideRegion, Changed, Invalidate, region
    <2>3. CASE Hide \/ Show
      BY <1>1, <2>3 DEF OutsideRegion, Hide, Show, Invalidate, region
    <2>4. ASSUME NEW r \in Requests, Run(r) \/ Answer(r) PROVE Shown'
      BY <1>1, <2>4 DEF OutsideRegion, Run, Answer, region, ConstantsAssumption
    <2> QED
      BY <1>1, <2>1, <2>2, <2>3, <2>4 DEF OutsideRegion
  <1>2. CASE Connected \/ Disconnect
    BY <1>2 DEF Connected, Disconnect, ConnectionChanged, Leave, Invalidate
  <1>3. CASE Connect
    BY <1>3 DEF Connect, Visit, Invalidate
  <1>4. CASE Edit
    BY <1>4 DEF Edit, vars, page
  <1>5. ASSUME NEW busy \in BOOLEAN, Resume(busy) PROVE Shown'
    BY <1>5 DEF Resume, Render, Badge, vars, page
  <1>6. ASSUME NEW r \in Requests, RefreshRegion(r) PROVE Shown'
    <2>1. runs[r].snapshot # None
      BY <1>6, NullIsNoPage DEF NullIsNoPage, RefreshRegion, Resolve, Inductive, TypeOK, Request, Idle
    <2> QED
      BY <1>6, <2>1 DEF RefreshRegion, Resolve, Render, Badge
  <1>7. ASSUME NEW r \in Requests, EmptyRegion(r) PROVE Shown'
    BY <1>7 DEF EmptyRegion, Refuse
  <1>8. ASSUME NEW r \in Requests, Failed(r) PROVE Shown'
    BY <1>8 DEF Failed, Fail
  <1>9. CASE UNCHANGED regionVars
    BY <1>9 DEF regionVars, vars, page, region
  <1> QED
    BY <1>1, <1>2, <1>3, <1>4, <1>5, <1>6, <1>7, <1>8, <1>9 DEF RegionNext

\* An administrator who sees "live", and no request failed, sees what every
\* event told of, however the requests, the edits and the connection went.
THEOREM BadgeIsAlwaysTrue == RegionSpec => []BadgeIsTrue
  <1>1. RegionInit => Inductive /\ Shown
    BY InductiveInit, ShownInit DEF RegionInit
  <1>2. Inductive /\ Shown /\ [RegionNext]_regionVars => (Inductive /\ Shown)'
    BY RegionImplements, InductiveStep, ShownStep
  <1>3. Inductive /\ Shown => BadgeIsTrue
    <2> SUFFICES ASSUME Inductive, Shown, Settled, ~failed PROVE
                   /\ status = "live" => content # None /\ Newer(content)
                   /\ status = "paused" => kept # None /\ Newer(kept)
      BY DEF BadgeIsTrue
    <2>1. seen # None
      BY NullIsNoPage DEF NullIsNoPage, Inductive, TypeOK
    <2>2. Newer(seen) /\ ~pending
      BY SettledIsSeen DEF Newer
    <2>3. (ShowsSeen \/ KeepsSeen) /\ BadgeFits
      BY <2>2 DEF Shown, Settled
    <2> QED
      BY <2>1, <2>2, <2>3 DEF ShowsSeen, KeepsSeen, BadgeFits
  <1> QED
    BY <1>1, <1>2, <1>3, PTL DEF RegionSpec

-----------------------------------------------------------------------------
(* The viewer of agent traces.                                             *)

\* A request under way asks for the page chosen.
AskedIsChosen == \A r \in Requests : Running(r) => asked[r] = cursor

\* Without the stream the viewer has stopped, and shows no traces.
GoneIsStopped == ~source => stopped /\ ~Is("ready")

\* What is shown is what this start of live updates fetched last, if anything.
PreviousIsShown ==
  source => IF previous = None
            THEN state = Loading
            ELSE state = Ready(previous) /\ previous = Payload(cursor, seen["agents"])

\* Until a start has fetched something it is about to, or has failed to.
FirstIsComing == previous = None => stopped \/ hidden \/ failed \/ timer \/ request # None

ViewerInductive ==
  /\ cursor \in Cursors /\ asked \in [Requests -> Cursors] /\ source \in BOOLEAN
  /\ AskedIsChosen /\ GoneIsStopped /\ PreviousIsShown /\ FirstIsComing

\* A start, after stop() or on a page that had stopped, is as good as Init.
LEMMA StartStep ==
  ASSUME Inductive, Start, hidden' \in BOOLEAN, hidden' => ~timer,
         UNCHANGED <<version, noticed, seen>>
  PROVE  Inductive' /\ (\A r \in Requests : ~Running(r)') /\ (hidden' \/ timer')
  <1>1. \A r \in Requests : r = request \/ runs[r] = Idle
    BY DEF Inductive, OneRequestAtATime, Running, TypeOK, Request, Idle
  <1>2. request' = None /\ \A r \in Requests : runs'[r] = Idle
    BY <1>1 DEF Start, Abort
  <1>3. \A r \in Requests : ~Running(r)'
    BY <1>2 DEF Running, Idle
  <1>4. /\ stopped' = FALSE /\ failed' = FALSE /\ pending' = TRUE
        /\ timer' \in BOOLEAN /\ (timer' <=> ~hidden')
    BY <1>2 DEF Start, Schedule, Inductive, TypeOK
  <1>5. TypeOK'
    <2>1. runs' \in [Requests -> {Idle} \cup Request]
      BY DEF Start, Abort, Inductive, TypeOK
    <2> QED
      BY <1>2, <1>4, <2>1 DEF Inductive, TypeOK, Snapshot
  <1>6. OneRequestAtATime' /\ HiddenMakesNoRequests' /\ PendingIsScheduled' /\ TimerIsAlone'
    BY <1>2, <1>3, <1>4, ConstantsAssumption DEF OneRequestAtATime, HiddenMakesNoRequests,
      PendingIsScheduled, TimerIsAlone, ConstantsAssumption
  <1>7. NoticesSurvive' /\ AnswersAreCurrent'
    BY <1>4 DEF NoticesSurvive, AnswersAreCurrent
  <1>8. OldestFirst'
    BY <1>3 DEF Inductive, OldestFirst
  <1> QED
    BY <1>3, <1>4, <1>5, <1>6, <1>7, <1>8 DEF Inductive

\* Every other step of the viewer is one of startLiveUpdates, or a stutter.
LEMMA ViewerFollowsStep == Inductive /\ [ViewerNext]_all => Inductive'
  <1> SUFFICES ASSUME Inductive, [ViewerNext]_all PROVE Inductive'
    OBVIOUS
  <1>1. CASE Elsewhere
    <2>1. Next
      BY <1>1 DEF Elsewhere, Next, Settle
    <2> QED
      BY <2>1, InductiveStep
  <1>2. CASE Open
    <2>1. ~timer
      BY <1>2 DEF Open, Inductive, HiddenMakesNoRequests
    <2> QED
      BY <1>2, <2>1, StartStep DEF Open
  <1>3. ASSUME NEW r \in Requests, Fetch(r) \/ Refresh(r) \/ Expire(r) PROVE Inductive'
    <2>1. Next
      BY <1>3 DEF Fetch, Refresh, Expire, Next, Settle
    <2> QED
      BY <2>1, InductiveStep
  <1>4. ASSUME NEW c \in Cursors, Choose(c) PROVE Inductive'
    <2>1. hidden' = hidden /\ hidden \in BOOLEAN /\ (hidden => ~timer)
      BY <1>4 DEF Choose, Inductive, HiddenMakesNoRequests, TypeOK
    <2> QED
      BY <1>4, <2>1, StartStep DEF Choose
  <1>5. ASSUME NEW c \in Cursors, ChooseExpired(c) PROVE Inductive'
    <2>1. [Next]_vars
      BY <1>5 DEF ChooseExpired
    <2> QED
      BY <2>1, InductiveStep
  <1>6. CASE UNCHANGED all
    <2>1. [Next]_vars
      BY <1>6 DEF all
    <2> QED
      BY <2>1, InductiveStep
  <1> QED
    BY <1>1, <1>2, <1>3, <1>4, <1>5, <1>6 DEF ViewerNext

LEMMA ViewerInitInductive == ViewerInit => Inductive /\ ViewerInductive
  <1> SUFFICES ASSUME ViewerInit PROVE ViewerInductive
    BY InductiveInit DEF ViewerInit
  <1>1. \A r \in Requests : ~Running(r)
    BY DEF ViewerInit, Init, Running, Idle
  <1>2. timer = ~hidden
    BY DEF ViewerInit, Init
  <1> QED
    BY <1>1, <1>2 DEF ViewerInit, ViewerInductive, AskedIsChosen, GoneIsStopped, PreviousIsShown,
      FirstIsComing, Cursors

\* The last request started is the only one, whatever was started before.
LEMMA ViewerStep ==
  ASSUME ViewerTopics, Inductive, ViewerInductive, [ViewerNext]_all
  PROVE  ViewerInductive'
  <1> USE DEF ViewerInductive
  <1>a. "agents" \in Topics
    BY DEF ViewerTopics
  <1>b. \A r \in Requests : Running(r) => request = r /\ ~stopped /\ ~hidden
    BY DEF Inductive, OneRequestAtATime, HiddenMakesNoRequests
  <1>1. CASE Elsewhere
    <2>1. UNCHANGED <<source, cursor, asked, previous, state>>
      BY <1>1 DEF Elsewhere, viewer
    <2>2. seen' = seen /\ (stopped => stopped')
      BY <1>1 DEF Elsewhere, Commit, page, Changed, ConnectionChanged, Hide, Show, Leave, Answer, Fail
    <2>3. \A r \in Requests : Running(r)' => Running(r)
      <3>1. CASE Hide \/ Leave
        BY <3>1 DEF Hide, Leave, CancelAll, Abort, Running, Idle
      <3>2. ASSUME NEW r \in Requests, Answer(r) \/ Fail(r)
            PROVE  \A q \in Requests : Running(q)' => Running(q)
        BY <3>2 DEF Answer, Fail, Finish, Running, Idle, Inductive, TypeOK
      <3>3. CASE UNCHANGED runs
        BY <3>3 DEF Running
      <3> QED
        BY <1>1, <3>1, <3>2, <3>3 DEF Elsewhere, Commit, page, Changed, ConnectionChanged, Show
    <2>4. FirstIsComing'
      <3> SUFFICES ASSUME previous = None
                   PROVE  (stopped \/ hidden \/ failed \/ timer \/ request # None)'
        BY <2>1 DEF FirstIsComing
      <3>1. ASSUME NEW t \in Topics, Commit(t) PROVE (stopped \/ hidden \/ failed \/ timer \/ request # None)'
        BY <3>1 DEF Commit, page, FirstIsComing
      <3>2. CASE (\E t \in Topics, n \in 0 .. MaxVersion : Changed(t, n)) \/ ConnectionChanged \/ Show
        BY <3>2 DEF Changed, ConnectionChanged, Show, Invalidate, Schedule
      <3>3. CASE Hide \/ Leave
        BY <3>3 DEF Hide, Leave
      <3>4. ASSUME NEW r \in Requests, Answer(r) PROVE (stopped \/ hidden \/ failed \/ timer \/ request # None)'
        BY <3>4 DEF Answer, FirstIsComing
      <3>5. ASSUME NEW r \in Requests, Fail(r) PROVE (stopped \/ hidden \/ failed \/ timer \/ request # None)'
        BY <1>b, <3>5 DEF Fail
      <3> QED
        BY <1>1, <3>1, <3>2, <3>3, <3>4, <3>5 DEF Elsewhere
    <2> QED
      BY <2>1, <2>2, <2>3, <2>4 DEF AskedIsChosen, GoneIsStopped, PreviousIsShown, Is
  <1>2. ASSUME Start, source' = TRUE, cursor' \in Cursors, asked' = asked, hidden' \in BOOLEAN,
               hidden' => ~timer, UNCHANGED <<version, noticed, seen>>
        PROVE  ViewerInductive'
    <2>1. (\A r \in Requests : ~Running(r)') /\ (hidden' \/ timer')
      BY <1>2, StartStep
    <2>2. previous' = None /\ state' = Loading
      BY <1>2 DEF Start
    <2> QED
      BY <1>2, <2>1, <2>2 DEF AskedIsChosen, GoneIsStopped, PreviousIsShown, FirstIsComing
  <1>3. CASE Open
    <2>1. ~timer
      BY <1>3 DEF Open, Inductive, HiddenMakesNoRequests
    <2> QED
      BY <1>2, <1>3, <2>1 DEF Open, Cursors
  <1>4. ASSUME NEW c \in Cursors, Choose(c) PROVE ViewerInductive'
    <2>1. source = TRUE
      BY <1>4 DEF Choose, GoneIsStopped
    <2>2. hidden' = hidden /\ hidden \in BOOLEAN /\ (hidden => ~timer)
      BY <1>4 DEF Choose, Inductive, HiddenMakesNoRequests, TypeOK
    <2> QED
      BY <1>2, <1>4, <2>1, <2>2 DEF Choose
  <1>5. ASSUME NEW c \in Cursors, ChooseExpired(c) PROVE ViewerInductive'
    <2>1. /\ UNCHANGED <<stopped, hidden, failed, timer, request, runs>>
          /\ cursor' = c /\ state' = Broken /\ ~source /\ UNCHANGED <<source, asked, previous>>
      BY <1>5 DEF ChooseExpired, vars, page
    <2>2. \A r \in Requests : ~Running(r)'
      BY <1>b, <2>1 DEF GoneIsStopped, Running
    <2> QED
      BY <2>1, <2>2 DEF AskedIsChosen, GoneIsStopped, PreviousIsShown, FirstIsComing, Is, Broken
  <1>6. ASSUME NEW r \in Requests, Fetch(r) PROVE ViewerInductive'
    <2>1. /\ UNCHANGED <<source, cursor, previous, state, seen, stopped>>
          /\ asked' = [asked EXCEPT ![r] = cursor] /\ request' = r
          /\ \A q \in Requests \ {r} : runs'[q] = runs[q]
      BY <1>6 DEF Fetch, Run, Inductive, TypeOK
    <2>2. request' # None
      BY <2>1, ConstantsAssumption DEF ConstantsAssumption
    <2> QED
      BY <2>1, <2>2 DEF AskedIsChosen, GoneIsStopped, PreviousIsShown, FirstIsComing, Running, Is
  <1>7. ASSUME NEW r \in Requests, Refresh(r) \/ Expire(r) PROVE ViewerInductive'
    <2>1. Running(r) /\ request = r /\ ~stopped /\ ~hidden /\ asked[r] = cursor
      BY <1>b, <1>7 DEF Refresh, Expire, Resolve, Refuse, Running, AskedIsChosen
    <2>2. source
      BY <2>1 DEF GoneIsStopped
    <2>3. \A q \in Requests : ~Running(q)'
      <3>1. runs'[r] = Idle /\ \A q \in Requests \ {r} : runs'[q] = runs[q] \/ runs'[q] = Idle
        BY <1>7 DEF Refresh, Expire, Resolve, Refuse, Finish, Inductive, TypeOK
      <3> QED
        BY <1>b, <2>1, <3>1 DEF Running, Idle
    <2>4. CASE Refresh(r)
      <3> DEFINE payload == Payload(cursor, runs[r].snapshot["agents"])
      <3>1. /\ previous' = payload
            /\ state' = IF previous = payload THEN state ELSE Ready(payload)
            /\ seen' = runs[r].snapshot
            /\ UNCHANGED <<source, cursor, asked>>
        BY <2>1, <2>4 DEF Refresh, Resolve
      <3>2. runs[r].snapshot["agents"] \in 0 .. MaxVersion
        BY <1>a, <2>1 DEF Inductive, TypeOK, Snapshot, Request, Idle, Running
      <3>3. payload # None
        BY <3>2, ViewerAssumption DEF ViewerAssumption
      <3>4. state' = Ready(payload)
        BY <2>2, <3>1, <3>3 DEF PreviousIsShown
      <3>5. previous' # None /\ previous' = Payload(cursor', seen'["agents"])
        BY <3>1, <3>3
      <3> HIDE DEF payload
      <3> QED
        BY <2>2, <2>3, <3>1, <3>4, <3>5 DEF AskedIsChosen, GoneIsStopped, PreviousIsShown, FirstIsComing
    <2>5. CASE Expire(r)
      BY <2>3, <2>5 DEF Expire, Refuse, AskedIsChosen, GoneIsStopped, PreviousIsShown, FirstIsComing,
        Is, Expired
    <2> QED
      BY <1>7, <2>4, <2>5
  <1>8. CASE UNCHANGED all
    BY <1>8 DEF all, vars, page, viewer, AskedIsChosen, GoneIsStopped, PreviousIsShown,
      FirstIsComing, Running, Is
  <1> QED
    BY <1>1, <1>3, <1>4, <1>5, <1>6, <1>7, <1>8 DEF ViewerNext

\* Whichever pages the user chooses and however slowly they are fetched, what the
\* viewer shows was fetched for the page chosen last; and a settled viewer shows
\* it, with every change it was told of.
THEOREM ShownIsAlwaysChosen ==
  ASSUME ViewerTopics
  PROVE  ViewerSpec => []ShownIsChosen
  <1>1. ViewerInit => Inductive /\ ViewerInductive
    BY ViewerInitInductive
  <1>2. Inductive /\ ViewerInductive /\ [ViewerNext]_all => (Inductive /\ ViewerInductive)'
    BY ViewerFollowsStep, ViewerStep
  <1>3. Inductive /\ ViewerInductive => ShownIsChosen
    <2> SUFFICES ASSUME Inductive, ViewerInductive PROVE ShownIsChosen
      OBVIOUS
    <2>a. "agents" \in Topics
      BY DEF ViewerTopics
    <2>1. Settled /\ ~failed => previous # None /\ source
      BY DEF Settled, ViewerInductive, FirstIsComing, GoneIsStopped
    <2>2. Is("ready") => source /\ previous # None
      BY DEF ViewerInductive, GoneIsStopped, PreviousIsShown, Is, Loading
    <2>3. source /\ previous # None =>
            Is("ready") /\ state.page = Payload(cursor, seen["agents"])
      BY DEF ViewerInductive, PreviousIsShown, Is, Ready
    <2>4. /\ seen["agents"] \in 0 .. version["agents"]
          /\ noticed["agents"] \in Nat /\ version["agents"] \in Nat
      BY <2>a DEF Inductive, OldestFirst, TypeOK, Snapshot
    <2>5. Settled /\ ~failed => seen["agents"] >= noticed["agents"]
      BY <2>a, SettledIsSeen
    <2>6. seen["agents"] \in (IF Settled /\ ~failed THEN noticed["agents"] ELSE 0) .. version["agents"]
      BY <2>4, <2>5
    <2> QED
      BY <2>1, <2>2, <2>3, <2>6 DEF ShownIsChosen
  <1> QED
    BY <1>1, <1>2, <1>3, PTL DEF ViewerSpec

\* After a refusal the viewer shows no trace and asks for none, whichever button is
\* pressed, until its document is loaded again.
THEOREM RefusalIsAlwaysFinal ==
  ASSUME ViewerTopics
  PROVE  ViewerSpec => []RefusalIsFinal
  <1>1. ViewerInit => Inductive /\ ViewerInductive
    BY ViewerInitInductive
  <1>2. Inductive /\ ViewerInductive /\ [ViewerNext]_all => (Inductive /\ ViewerInductive)'
    BY ViewerFollowsStep, ViewerStep
  <1>3. Inductive /\ ViewerInductive => RefusalIsFinal
    BY DEF Inductive, ViewerInductive, GoneIsStopped, HiddenMakesNoRequests, RefusalIsFinal
  <1> QED
    BY <1>1, <1>2, <1>3, PTL DEF ViewerSpec

-----------------------------------------------------------------------------
(* From a commit to the screen.                                            *)

Facts == INSTANCE OperationsUpdatesProofs WITH
  pending <- pendingKeys, Keys <- Topics, MaxChanges <- MaxVersion

\* What the proofs of OperationsUpdates are about is the publisher of the whole.
LEMMA FactsAreOfPublisher ==
  /\ Publisher!Init => Facts!Init
  /\ [Publisher!Next]_(Publisher!vars) => [Facts!Next]_(Facts!vars)
  <1>1. Publisher!Next => Facts!Next
    BY DEF Publisher!Next, Publisher!Commit, Publisher!Publish, Publisher!Add, Publisher!Post,
      Publisher!Reject, Publisher!Withdraw, Publisher!Start, Publisher!Broadcast,
      Publisher!BroadcastFails, Publisher!Fork, Publisher!Shutdown, Publisher!ShutdownTimesOut,
      Publisher!Exit, Publisher!NextTask, Publisher!Report, Publisher!Later, Publisher!Return, Publisher!Go,
      Publisher!At, Publisher!Idle,
      Facts!Next, Facts!Commit, Facts!Publish, Facts!Add, Facts!Post,
      Facts!Reject, Facts!Withdraw, Facts!Start, Facts!Broadcast,
      Facts!BroadcastFails, Facts!Fork, Facts!Shutdown, Facts!ShutdownTimesOut, Facts!Exit,
      Facts!NextTask, Facts!Report, Facts!Later, Facts!Return, Facts!Go,
      Facts!At, Facts!Idle
  <1>2. Publisher!vars = Facts!vars
    BY DEF Publisher!vars, Facts!vars
  <1>3. Publisher!Init => Facts!Init
    BY DEF Publisher!Init, Publisher!Idle, Facts!Init, Facts!Idle
  <1> QED
    BY <1>1, <1>2, <1>3 DEF Publisher!vars, Facts!vars

PublisherInductive == Facts!TypeOK /\ Facts!Core

LEMMA PublisherInit == Publisher!Init => PublisherInductive
  <1>1. Facts!ConstantsAssumption
    BY QueueAssumption DEF Facts!ConstantsAssumption, ConstantsAssumption
  <1> QED
    BY <1>1, FactsAreOfPublisher, Facts!TypeInit, Facts!CoreInit DEF PublisherInductive

LEMMA PublisherStep ==
  PublisherInductive /\ [Publisher!Next]_(Publisher!vars) => PublisherInductive'
  <1>1. Facts!ConstantsAssumption
    BY QueueAssumption DEF Facts!ConstantsAssumption, ConstantsAssumption
  <1> QED
    BY <1>1, FactsAreOfPublisher, Facts!TypeStep, Facts!CoreStep DEF PublisherInductive

\* A step of the whole is one of the page's, or leaves the page alone.
LEMMA BrowserFollows == Inductive /\ [WholeNext]_whole => [Next]_vars
  <1> SUFFICES ASSUME Inductive, [WholeNext]_whole PROVE Next \/ UNCHANGED vars
    OBVIOUS
  <1>1. ASSUME NEW c \in Callers, NEW t \in Topics, CommitAndTell(c, t) PROVE Next
    BY <1>1 DEF CommitAndTell, Publisher!Commit, browser, Commit, Next
  <1>2. ASSUME NEW c \in Callers, Publish(c) PROVE UNCHANGED vars
    BY <1>2 DEF Publish, browser, vars
  <1>3. CASE Work \/ Broadcast
    BY <1>3 DEF Work, Broadcast, browser, vars
  <1>4. ASSUME NEW t \in Topics, NEW n \in 0 .. MaxVersion, Deliver(t, n) PROVE Next
    <2>1. noticed[t] \in 0 .. MaxVersion
      BY DEF Inductive, TypeOK, Snapshot
    <2>2. \E m \in 0 .. MaxVersion : Changed(t, m)
      BY <1>4, <2>1 DEF Deliver
    <2> QED
      BY <2>2 DEF Next
  <1>5. CASE Subscribe \/ Drop
    BY <1>5 DEF Subscribe, Drop, Next
  <1>6. CASE Browse
    BY <1>6 DEF Browse, Next
  <1>7. CASE ComeAndGo
    BY <1>7 DEF ComeAndGo, Next
  <1>8. CASE UNCHANGED whole
    BY <1>8 DEF whole, browser, vars
  <1> QED
    BY <1>1, <1>2, <1>3, <1>4, <1>5, <1>6, <1>7, <1>8 DEF WholeNext

\* A step of the whole is one of the publisher's, or leaves the publisher alone.
LEMMA PublisherFollows == [WholeNext]_whole => [Publisher!Next]_(Publisher!vars)
  <1> SUFFICES ASSUME [WholeNext]_whole PROVE Publisher!Next \/ UNCHANGED Publisher!vars
    OBVIOUS
  <1>1. ASSUME NEW c \in Callers, NEW t \in Topics, CommitAndTell(c, t) PROVE Publisher!Next
    BY <1>1 DEF CommitAndTell, Publisher!Next
  <1>2. ASSUME NEW c \in Callers, Publish(c) PROVE Publisher!Next
    BY <1>2 DEF Publish, Publisher!Next
  <1>3. CASE Work \/ Broadcast
    BY <1>3 DEF Work, Broadcast, Publisher!Next
  <1>4. CASE UNCHANGED <<publisher, version>>
    BY <1>4 DEF publisher, Publisher!vars
  <1> QED
    BY <1>1, <1>2, <1>3, <1>4 DEF WholeNext, Deliver, Subscribe, Drop, Browse, ComeAndGo, whole

\* An answer that misses the newest change of topic t leaves something pending.
AnswersReach(t) ==
  pending \/ \A r \in Requests : runs[r].at = "answered" => runs[r].snapshot[t] >= version[t]

\* The newest change of topic t was seen, or a request is to come that will see it.
SeenSoon(t) ==
  \/ seen[t] >= version[t] \/ failed \/ timer \/ (pending /\ request # None)
  \/ \E r \in Requests : Covers(r, t, version[t])

\* A broadcast that came after the newest change is on the stream or was heard,
\* unless there is no visible page on the stream to hear it.
ToldReaches(t) ==
  told[t] = version[t] =>
    stopped \/ hidden \/ ~subscribed \/ version[t] \in stream[t] \/ (AnswersReach(t) /\ SeenSoon(t))

WholeInductive ==
  /\ stream \in [Topics -> SUBSET (0 .. MaxVersion)]
  /\ \A t \in Topics : ToldReaches(t)

\* What is used of the publisher's invariant.
LEMMA PublisherBounds ==
  ASSUME PublisherInductive
  PROVE  /\ told \in [Topics -> 0 .. MaxVersion]
         /\ \A t \in Topics : told[t] \in Nat /\ lost[t] \in Nat /\ version[t] \in Nat
         /\ \A t \in Topics : told[t] <= version[t] /\ lost[t] <= version[t]
         /\ worker.at = "sending" =>
              /\ worker.key \in Topics /\ worker.sent \in 0 .. MaxVersion
              /\ worker.sent <= version[worker.key]
  <1>1. \A t \in Topics : told[t] <= version[t] /\ lost[t] <= version[t]
    BY DEF PublisherInductive, Facts!Core, Facts!QueueIsWorked
  <1>2. told \in [Topics -> 0 .. MaxVersion] /\ lost \in [Topics -> 0 .. MaxVersion]
        /\ version \in [Topics -> 0 .. MaxVersion]
    BY DEF PublisherInductive, Facts!TypeOK
  <1>3. ASSUME worker.at = "sending"
        PROVE  /\ worker.key \in Topics /\ worker.sent \in 0 .. MaxVersion
               /\ worker.sent <= version[worker.key]
    <2>1. worker # Facts!Idle /\ worker \in Facts!Task
      BY <1>3 DEF PublisherInductive, Facts!TypeOK, Facts!Idle
    <2> QED
      BY <2>1 DEF PublisherInductive, Facts!Core, Facts!QueueIsWorked, Facts!Task
  <1> QED
    BY <1>1, <1>2, <1>3

LEMMA WholeInductiveInit == WholeInit => WholeInductive
  BY DEF WholeInit, WholeInductive, ToldReaches

\* The page does something of its own: whatever ends a request, or brings the tab
\* back, leaves a request to come if one is needed.
LEMMA BrowseStep ==
  ASSUME Inductive, NEW t \in Topics, ToldReaches(t), UNCHANGED <<version, told, stream, subscribed>>,
         Hide \/ Show \/ \E r \in Requests : Run(r) \/ Answer(r) \/ Settle(r)
  PROVE  ToldReaches(t)'
  <1> SUFFICES ASSUME told[t] = version[t], subscribed, version[t] \notin stream[t],
                      ~stopped', ~hidden'
               PROVE  AnswersReach(t)' /\ SeenSoon(t)'
    BY DEF ToldReaches
  <1>a. version \in Snapshot /\ seen \in Snapshot /\ runs \in [Requests -> {Idle} \cup Request]
        /\ pending \in BOOLEAN /\ timer \in BOOLEAN
    BY DEF Inductive, TypeOK
  <1>b. \A r \in Requests : Running(r) <=> request = r
    BY DEF Inductive, OneRequestAtATime
  <1>c. \A r \in Requests : Running(r) => ~timer
    BY <1>b, ConstantsAssumption DEF Inductive, TimerIsAlone
  <1>1. CASE Hide
    BY <1>1 DEF Hide
  <1>2. CASE Show
    <2>1. pending' /\ (timer' \/ request' # None)
      BY <1>2 DEF Show, Invalidate, Schedule
    <2> QED
      BY <2>1 DEF AnswersReach, SeenSoon
  <1>3. ASSUME NEW r \in Requests, Run(r) PROVE AnswersReach(t)' /\ SeenSoon(t)'
    <2>1. runs'[r].at = "fetching"
      BY <1>3, <1>a DEF Run
    <2>2. \A q \in Requests \ {r} : runs'[q].at = "idle"
      BY <1>3, <1>a, <1>b, <1>c DEF Run, Running
    <2> QED
      BY <2>1, <2>2 DEF AnswersReach, SeenSoon, Covers
  <1>4. ASSUME ~stopped, ~hidden PROVE AnswersReach(t) /\ SeenSoon(t)
    BY <1>4 DEF ToldReaches
  <1>5. ASSUME NEW r \in Requests, Answer(r) PROVE AnswersReach(t)' /\ SeenSoon(t)'
    <2>1. AnswersReach(t) /\ SeenSoon(t)
      BY <1>4, <1>5 DEF Answer
    <2>2. version[t] \in Nat /\ runs'[r] = [at |-> "answered", snapshot |-> version]
      BY <1>5, <1>a DEF Answer, Snapshot
    <2>3. \A q \in Requests \ {r} : runs'[q] = runs[q]
      BY <1>5, <1>a DEF Answer
    <2>4. AnswersReach(t)'
      BY <1>5, <2>1, <2>2, <2>3 DEF Answer, AnswersReach
    <2>5. Covers(r, t, version[t])'
      BY <1>5, <2>2 DEF Answer, Covers
    <2> QED
      BY <2>4, <2>5 DEF SeenSoon
  <1>6. ASSUME NEW r \in Requests, Finish(r), Running(r), pending' = pending, ~stopped, ~hidden,
               (seen' = runs[r].snapshot /\ runs[r].at = "answered") \/ failed'
        PROVE  AnswersReach(t)' /\ SeenSoon(t)'
    <2>1. \A q \in Requests : runs'[q] = Idle
      BY <1>6, <1>a, <1>b DEF Finish, Running, Request, Idle
    <2>2. AnswersReach(t)'
      BY <2>1 DEF AnswersReach, Idle
    <2>3. CASE pending
      <3>1. pending' /\ request' = None
        BY <1>6, <2>3 DEF Finish
      <3>2. timer'
        BY <1>6, <3>1 DEF Finish, Schedule
      <3> QED
        BY <2>2, <3>2 DEF SeenSoon
    <2>4. CASE ~pending
      <3>1. \A q \in Requests : runs[q].at = "answered" => runs[q].snapshot[t] >= version[t]
        BY <1>4, <1>6, <2>4 DEF AnswersReach
      <3>2. failed' \/ seen'[t] >= version[t]
        BY <1>6, <3>1
      <3> QED
        BY <2>2, <3>2 DEF SeenSoon
    <2> QED
      BY <2>2, <2>3, <2>4
  <1>7. ASSUME NEW r \in Requests, Resolve(r) PROVE AnswersReach(t)' /\ SeenSoon(t)'
    BY <1>6, <1>7 DEF Resolve, Running
  <1>8. ASSUME NEW r \in Requests, Fail(r) PROVE AnswersReach(t)' /\ SeenSoon(t)'
    BY <1>6, <1>8 DEF Fail
  <1>9. ASSUME NEW r \in Requests, Refuse(r) PROVE stopped'
    BY <1>9 DEF Refuse
  <1> QED
    BY <1>1, <1>2, <1>3, <1>5, <1>7, <1>8, <1>9 DEF Settle

\* Hearing of anything, the page has a request to come.
LEMMA HeardStep ==
  ASSUME Inductive, NEW t \in Topics, Invalidate,
         UNCHANGED <<version, told, stopped, hidden, request>>
  PROVE  ToldReaches(t)'
  <1>1. pending' /\ (stopped' \/ hidden' \/ timer' \/ request' # None)
    BY DEF Invalidate, Schedule
  <1> QED
    BY <1>1 DEF ToldReaches, AnswersReach, SeenSoon

\* A broadcast that came after the newest change is put on the stream.
LEMMA BroadcastStep ==
  ASSUME PublisherInductive, WholeInductive, Broadcast
  PROVE  WholeInductive'
  <1> DEFINE k == worker.key
             n == worker.sent
  <1>1. worker.at = "sending" /\ k \in Topics /\ n \in 0 .. MaxVersion /\ n <= version[k]
    BY PublisherBounds DEF Broadcast, Publisher!Broadcast
  <1>2. told' = [told EXCEPT ![k] = IF told[k] < n THEN n ELSE told[k]]
    BY DEF Broadcast, Publisher!Broadcast, Publisher!Later
  <1>3. stream' \in [Topics -> SUBSET (0 .. MaxVersion)]
    BY <1>1 DEF Broadcast, WholeInductive
  <1>4. ASSUME NEW t \in Topics PROVE ToldReaches(t)'
    <2>1. stream[t] \subseteq stream'[t]
      BY <1>1 DEF Broadcast, WholeInductive
    <2>2. CASE told'[t] = told[t]
      BY <2>1, <2>2 DEF WholeInductive, ToldReaches, AnswersReach, SeenSoon, Covers, Broadcast,
        browser, page
    <2>3. CASE told'[t] # told[t]
      <3>1. t = k /\ told'[t] = n
        BY <1>1, <1>2, <2>3, PublisherBounds
      <3>2. subscribed => n \in stream'[t]
        BY <1>1, <3>1 DEF Broadcast, WholeInductive
      <3> QED
        BY <3>1, <3>2 DEF ToldReaches, Broadcast
    <2> QED
      BY <2>2, <2>3
  <1> QED
    BY <1>3, <1>4 DEF WholeInductive

LEMMA WholeStep ==
  ASSUME Inductive, PublisherInductive, WholeInductive, [WholeNext]_whole
  PROVE  WholeInductive'
  <1>0. stream \in [Topics -> SUBSET (0 .. MaxVersion)]
    BY DEF WholeInductive
  <1>1. ASSUME NEW c \in Callers, NEW k \in Topics, CommitAndTell(c, k) PROVE WholeInductive'
    <2>1. version' = [version EXCEPT ![k] = @ + 1] /\ told' = told
      BY <1>1 DEF CommitAndTell, Publisher!Commit
    <2>2. version \in [Topics -> 0 .. MaxVersion]
      BY DEF Inductive, TypeOK, Snapshot
    <2>3. ASSUME NEW t \in Topics, told'[t] = version'[t] PROVE version'[t] = version[t]
      BY <2>1, <2>2, <2>3, PublisherBounds
    <2>4. ASSUME NEW t \in Topics PROVE ToldReaches(t)'
      BY <1>1, <2>1, <2>3 DEF CommitAndTell, browser, page, WholeInductive, ToldReaches,
        AnswersReach, SeenSoon, Covers
    <2> QED
      BY <1>0, <1>1, <2>4 DEF CommitAndTell, WholeInductive
  <1>2. ASSUME UNCHANGED <<browser, version, told, subscribed, stream>> PROVE WholeInductive'
    BY <1>2 DEF WholeInductive, ToldReaches, AnswersReach, SeenSoon, Covers, browser, page
  <1>3. ASSUME NEW c \in Callers, Publish(c) PROVE WholeInductive'
    BY <1>2, <1>3 DEF Publish, Publisher!Publish, Publisher!Add, Publisher!Post,
      Publisher!Reject, Publisher!Withdraw
  <1>4. CASE Work
    BY <1>2, <1>4 DEF Work, Publisher!Start, Publisher!BroadcastFails, Publisher!Shutdown,
      Publisher!ShutdownTimesOut, Publisher!Exit
  <1>5. CASE Broadcast
    BY <1>5, BroadcastStep
  <1>6. ASSUME NEW t \in Topics, NEW n \in 0 .. MaxVersion, Deliver(t, n) PROVE WholeInductive'
    <2>1. stream' \in [Topics -> SUBSET (0 .. MaxVersion)]
      BY <1>0, <1>6 DEF Deliver
    <2>2. Invalidate /\ UNCHANGED <<version, told, stopped, hidden, request>>
      BY <1>6 DEF Deliver, Changed, publisher
    <2> QED
      BY <2>1, <2>2, HeardStep DEF WholeInductive
  <1>7. CASE Subscribe \/ Drop
    <2>1. stream' \in [Topics -> SUBSET (0 .. MaxVersion)]
      BY <1>0, <1>7 DEF Subscribe, Drop
    <2>2. Invalidate /\ UNCHANGED <<version, told, stopped, hidden, request>>
      BY <1>7 DEF Subscribe, Drop, ConnectionChanged, publisher
    <2> QED
      BY <2>1, <2>2, HeardStep DEF WholeInductive
  <1>8. CASE Browse
    BY <1>0, <1>8, BrowseStep DEF Browse, WholeInductive, publisher
  <1>9. CASE ComeAndGo
    BY <1>9 DEF ComeAndGo, WholeInductive, ToldReaches
  <1>10. CASE UNCHANGED whole
    BY <1>2, <1>10 DEF whole, publisher
  <1> QED
    BY <1>1, <1>3, <1>4, <1>5, <1>6, <1>7, <1>8, <1>9, <1>10 DEF WholeNext

AllInductive == Inductive /\ PublisherInductive /\ WholeInductive

LEMMA AllInductiveInit == WholeInit => AllInductive
  BY InductiveInit, PublisherInit, WholeInductiveInit DEF WholeInit, AllInductive

LEMMA AllInductiveStep == AllInductive /\ [WholeNext]_whole => AllInductive'
  BY BrowserFollows, InductiveStep, PublisherFollows, PublisherStep, WholeStep DEF AllInductive

\* The page on its way from a commit is startLiveUpdates, step by step.
THEOREM WholeUsesLiveUpdates == WholeSpec => Spec
  <1>1. WholeInit => Init
    BY DEF WholeInit
  <1>2. AllInductive /\ [WholeNext]_whole => [Next]_vars
    BY BrowserFollows DEF AllInductive
  <1> QED
    BY <1>1, <1>2, AllInductiveInit, AllInductiveStep, PTL DEF WholeSpec, Spec

\* And the publisher is the one of OperationsUpdates.
THEOREM WholeUsesOperationsUpdates == WholeSpec => Publisher!Spec
  <1>1. WholeInit => Publisher!Init
    BY DEF WholeInit
  <1> QED
    BY <1>1, PublisherFollows, PTL DEF WholeSpec, Publisher!Spec

\* However commits, broadcasts, the stream and the page interleave, a screen that
\* does not show the newest change has it on its way, or somebody was told.
THEOREM StaleScreensAreAlwaysExplained == WholeSpec => []StaleScreensAreExplained
  <1>1. AllInductive => StaleScreensAreExplained
    <2> SUFFICES ASSUME AllInductive, NEW t \in Topics, seen[t] < version[t],
                        ~stopped, ~hidden, subscribed, ~failed, ~(lost[t] > seen[t])
                 PROVE  OnItsWay(t)
      BY DEF StaleScreensAreExplained
    <2>1. seen[t] \in Nat /\ version[t] \in Nat /\ told[t] \in Nat /\ lost[t] \in Nat
      BY PublisherBounds DEF AllInductive, Inductive, TypeOK, Snapshot
    <2>2. Facts!Later(told[t], lost[t]) = version[t]
            \/ Facts!Unpublished(t) \/ Facts!Owned(t) \/ Facts!InFlight(t)
      BY DEF AllInductive, PublisherInductive, Facts!Core, Facts!NoChangeForgotten
    <2>3. CASE Facts!Later(told[t], lost[t]) = version[t]
      <3>1. told[t] = version[t]
        BY <2>1, <2>3 DEF Facts!Later
      <3>2. ~(seen[t] >= version[t])
        BY <2>1
      <3> QED
        BY <3>1, <3>2 DEF AllInductive, WholeInductive, ToldReaches, SeenSoon, OnItsWay
    <2>4. CASE Facts!Unpublished(t) \/ Facts!Owned(t) \/ Facts!InFlight(t)
      BY <2>4 DEF OnItsWay, Facts!Unpublished, Facts!Owned, Facts!InFlight, Facts!Queued,
        Facts!Taken, Facts!Posting, Facts!Idle, Publisher!Unpublished, Publisher!Owned,
        Publisher!InFlight, Publisher!Queued, Publisher!Taken, Publisher!Posting, Publisher!Idle
    <2> QED
      BY <2>2, <2>3, <2>4
  <1> QED
    BY <1>1, AllInductiveInit, AllInductiveStep, PTL DEF WholeSpec

=============================================================================
