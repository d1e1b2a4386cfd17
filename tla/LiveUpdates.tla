---------------------------- MODULE LiveUpdates ----------------------------
(***************************************************************************)
(* startLiveUpdates of app/javascript/live_updates.js: a page of the       *)
(* operations panel keeps up with the server.  An event says only that a   *)
(* topic changed; the page then fetches.  Events coalesce on a timer, one  *)
(* request runs at a time, a hidden tab makes none, and a failed request   *)
(* is reported and not repeated until something happens.  The server is    *)
(* its count of committed changes per topic.                               *)
(***************************************************************************)
EXTENDS Naturals

CONSTANTS
  Topics,      \* the topics the page follows: its own and "access"
  Requests,    \* bound: requests at a time, if nothing kept them to one
  None,        \* JavaScript's null
  MaxVersion   \* bound: changes of one topic

ASSUME ConstantsAssumption ==
  /\ MaxVersion \in Nat
  /\ None \notin Requests

VARIABLES
  version,   \* per topic, the changes committed
  noticed,   \* per topic, the newest change an event brought here came after
  seen,      \* what the last request that succeeded read of the server
  stopped, hidden, pending, timer,   \* as in the code, timer as a flag
  request,   \* the request the page knows of
  runs,      \* the requests under way
  failed     \* the last request failed, and the page was told so

page == <<stopped, hidden, pending, timer, request, runs, failed>>
vars == <<version, noticed, seen, page>>

Snapshot == [Topics -> 0 .. MaxVersion]
Idle     == [at |-> "idle"]
Request  == [at : {"fetching", "answered"}, snapshot : Snapshot]

TypeOK ==
  /\ version \in Snapshot /\ noticed \in Snapshot /\ seen \in Snapshot
  /\ stopped \in BOOLEAN /\ hidden \in BOOLEAN
  /\ pending \in BOOLEAN /\ timer \in BOOLEAN
  /\ request \in Requests \cup {None}
  /\ runs \in [Requests -> {Idle} \cup Request]
  /\ failed \in BOOLEAN

\* A page the server has just rendered, in a tab that may be in the background.
Init ==
  /\ version = [t \in Topics |-> 0]
  /\ noticed = version /\ seen = version
  /\ hidden \in BOOLEAN
  /\ stopped = FALSE /\ pending = TRUE /\ timer = ~hidden
  /\ request = None
  /\ runs = [r \in Requests |-> Idle]
  /\ failed = FALSE

-----------------------------------------------------------------------------
Running(r) == runs[r].at # "idle"

\* Mutant: a request under way does not hold the next one back.
ScheduleAnyway ==
  timer' = (timer \/ (~stopped' /\ ~hidden' /\ pending'))

\* schedule(), called when the step has set everything else.
Schedule ==
  timer' = (timer \/ (~stopped' /\ ~hidden' /\ request' = None /\ pending'))

Invalidate ==
  /\ pending' = TRUE
  /\ Schedule

\* request?.abort(): the refresh rejects at once.
Abort ==
  /\ request' = None
  /\ runs' = [r \in Requests |-> IF r = request THEN Idle ELSE runs[r]]

\* What stop() and hiding have in common.
CancelAll ==
  /\ Abort
  /\ timer' = FALSE

(* The server and the stream                                               *)

\* What Admin::BaseController makes of a request: an odd count of access changes
\* is a user who is no administrator.
Denied(snapshot) == snapshot["access"] % 2 = 1

Commit(t) ==
  /\ version[t] < MaxVersion
  /\ version' = [version EXCEPT ![t] = @ + 1]
  /\ UNCHANGED <<noticed, seen, page>>

\* Mutant: an event during a request is dropped.
ChangedWhenIdle(t, n) ==
  /\ ~stopped
  /\ n \in noticed[t] .. version[t]
  /\ noticed' = [noticed EXCEPT ![t] = n]
  /\ UNCHANGED <<version, seen, stopped, hidden, request, runs, failed>>
  /\ pending' = (pending \/ request = None)
  /\ Schedule

\* changed(): an event published after change n of the topic.  One may bring
\* nothing new.
Changed(t, n) ==
  /\ ~stopped
  /\ n \in noticed[t] .. version[t]
  /\ noticed' = [noticed EXCEPT ![t] = n]
  /\ UNCHANGED <<version, seen, stopped, hidden, request, runs, failed>>
  /\ Invalidate

\* The observer: the stream connected or disconnected.
ConnectionChanged ==
  /\ ~stopped
  /\ UNCHANGED <<version, noticed, seen, stopped, hidden, request, runs, failed>>
  /\ Invalidate

-----------------------------------------------------------------------------
(* The page                                                                *)

\* visibilityChanged()
Hide ==
  /\ ~stopped /\ ~hidden
  /\ hidden' = TRUE
  /\ CancelAll
  /\ UNCHANGED <<version, noticed, seen, stopped, pending, failed>>

\* Mutant: coming back to the tab waits for the next event.
ShowWithoutRefresh ==
  /\ ~stopped /\ hidden
  /\ hidden' = FALSE
  /\ UNCHANGED <<version, noticed, seen, stopped, pending, request, runs, failed>>
  /\ Schedule

Show ==
  /\ ~stopped /\ hidden
  /\ hidden' = FALSE
  /\ UNCHANGED <<version, noticed, seen, stopped, request, runs, failed>>
  /\ Invalidate

\* run(), up to its await.
Run(r) ==
  /\ timer /\ ~Running(r)
  /\ timer' = FALSE
  /\ pending' = FALSE
  /\ request' = r
  /\ runs' = [runs EXCEPT ![r] = [at |-> "fetching", snapshot |-> version]]
  /\ UNCHANGED <<version, noticed, seen, stopped, hidden, failed>>

\* The server serves the request.
Answer(r) ==
  /\ runs[r].at = "fetching"
  /\ runs' = [runs EXCEPT ![r] = [at |-> "answered", snapshot |-> version]]
  /\ UNCHANGED <<version, noticed, seen, stopped, hidden, pending, timer, request, failed>>

\* run() ends: whichever request it was, the page now knows of none.
Finish(r) ==
  /\ runs' = [runs EXCEPT ![r] = Idle]
  /\ request' = None
  /\ Schedule

\* Mutant: events that came during a request are taken as answered by it.
ResolveForgetting(r) ==
  /\ runs[r].at = "answered"
  /\ seen' = runs[r].snapshot
  /\ failed' = FALSE
  /\ pending' = FALSE
  /\ UNCHANGED <<version, noticed, stopped, hidden>>
  /\ Finish(r)

\* refresh resolved: the page shows what the server read.
Resolve(r) ==
  /\ runs[r].at = "answered"
  /\ seen' = runs[r].snapshot
  /\ failed' = FALSE
  /\ UNCHANGED <<version, noticed, stopped, hidden, pending>>
  /\ Finish(r)

\* refresh rejected: an HTTP or decoding error, the network, or ten seconds.
Fail(r) ==
  /\ Running(r)
  /\ failed' = (failed \/ (~stopped /\ ~hidden))
  /\ UNCHANGED <<version, noticed, seen, stopped, hidden, pending>>
  /\ Finish(r)

\* A redirect, 401 or 403: refresh calls stop() and resolves.
Refuse(r) ==
  /\ runs[r].at = "answered"
  /\ stopped' = TRUE
  /\ timer' = FALSE
  /\ request' = None
  /\ runs' = [q \in Requests |-> IF q \in {r, request} THEN Idle ELSE runs[q]]
  /\ UNCHANGED <<version, noticed, seen, hidden, pending, failed>>

\* The page goes away and calls stop().
Leave ==
  /\ ~stopped
  /\ stopped' = TRUE
  /\ CancelAll
  /\ UNCHANGED <<version, noticed, seen, hidden, pending, failed>>

\* A visit, or a reload after AnyCable lost the stream's history: the server
\* renders the page and startLiveUpdates runs again.
Visit ==
  /\ stopped
  /\ stopped' = FALSE
  /\ failed' = FALSE
  /\ seen' = version
  /\ hidden' \in BOOLEAN
  /\ UNCHANGED <<version, noticed, request, runs>>
  /\ Invalidate

Settle(r) == Resolve(r) \/ Fail(r) \/ Refuse(r)

Next ==
  \/ \E t \in Topics : Commit(t) \/ \E n \in 0 .. MaxVersion : Changed(t, n)
  \/ ConnectionChanged \/ Hide \/ Show \/ Leave \/ Visit
  \/ \E r \in Requests : Run(r) \/ Answer(r) \/ Settle(r)

Spec == Init /\ [][Next]_vars

\* Timers fire, and a request ends within the ten seconds of its own timer.
Fairness ==
  /\ WF_vars(\E r \in Requests : Run(r))
  /\ WF_vars(\E r \in Requests : Settle(r))

FairSpec == Spec /\ Fairness

-----------------------------------------------------------------------------
(* Properties                                                              *)

\* The page waits for nothing but events.
Settled == ~stopped /\ ~hidden /\ ~timer /\ request = None

\* One request at a time: the page knows of every request under way.
OneRequestAtATime == \A r \in Requests : Running(r) <=> request = r

\* A hidden tab makes no requests and is not about to; nor does a page that
\* was left, or refused.
HiddenMakesNoRequests ==
  hidden \/ stopped => ~timer /\ \A r \in Requests : ~Running(r)

\* A request under way that the server serves after change n of topic t.
Covers(r, t, n) ==
  runs[r].at = "fetching" \/ (runs[r].at = "answered" /\ runs[r].snapshot[t] >= n)

\* Every change an event told of is seen, unless the page was told of a
\* failure, is in the background or is gone, or a request is to come or under
\* way that will see it.
NoticesSurvive ==
  stopped \/ hidden \/ failed \/ timer \/ (pending /\ request # None)
    \/ \A t \in Topics :
         seen[t] >= noticed[t] \/ \E r \in Requests : Covers(r, t, noticed[t])

\* An older answer never replaces a newer one.
SeenNeverGoesBack == [][\A t \in Topics : seen'[t] >= seen[t]]_vars

\* An event is answered: its change is seen, or the failure to see it reported.
NoticesAnswered ==
  \A t \in Topics : \A n \in 1 .. MaxVersion :
    noticed[t] = n ~> (seen[t] >= n \/ failed \/ hidden \/ stopped)

(* The inductive invariant.                                                *)

\* What is pending waits for the timer, the request under way or the tab.
PendingIsScheduled ==
  pending /\ ~stopped /\ ~hidden /\ request = None => timer

\* Only a page without a request waits for the timer.
TimerIsAlone == timer => request = None /\ pending

\* Nothing was read, or told of, before it was committed, nor is a request
\* older than the answers before it.
OldestFirst ==
  \A t \in Topics :
    /\ noticed[t] <= version[t] /\ seen[t] <= version[t]
    /\ \A r \in Requests : Running(r) =>
         seen[t] <= runs[r].snapshot[t] /\ runs[r].snapshot[t] <= version[t]

\* An answer misses no event but those that left something pending.
AnswersAreCurrent ==
  stopped \/ pending \/ \A r \in Requests : \A t \in Topics :
    runs[r].at = "answered" => runs[r].snapshot[t] >= noticed[t]

Inductive ==
  /\ TypeOK /\ OneRequestAtATime /\ HiddenMakesNoRequests /\ NoticesSurvive
  /\ PendingIsScheduled /\ TimerIsAlone /\ OldestFirst /\ AnswersAreCurrent

=============================================================================
