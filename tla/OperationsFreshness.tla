------------------------ MODULE OperationsFreshness ------------------------
(***************************************************************************)
(* From a committed change to an operator's screen: the publisher in the   *)
(* process that commits, AnyCable's stream, and startLiveUpdates in the    *)
(* browser.  Nothing on the way is durable: the publisher may fail or      *)
(* overflow and the stream may drop, and a reconnected page makes up for   *)
(* it by fetching.                                                         *)
(***************************************************************************)
EXTENDS LiveUpdates, Sequences

CONSTANTS Callers, MaxQueue   \* as in OperationsUpdates

ASSUME QueueAssumption == MaxQueue \in Nat

VARIABLES
  pendingKeys, queue, worker, calls, executor, stale, told, lost,  \* the publisher
  stream,      \* events AnyCable has accepted and not delivered, per topic
  subscribed   \* AnyCable sends the page's stream to its socket

Publisher == INSTANCE OperationsUpdates WITH
  pending <- pendingKeys, Keys <- Topics, MaxChanges <- MaxVersion

browser   == <<noticed, seen, page>>
publisher == <<pendingKeys, queue, worker, calls, executor, stale, told, lost>>
whole     == <<publisher, version, stream, subscribed, browser>>

WholeInit ==
  /\ Publisher!Init
  /\ Init
  /\ stream = [t \in Topics |-> {}]
  /\ subscribed = FALSE

-----------------------------------------------------------------------------
\* The database commits and its callback is about to publish.
CommitAndTell(c, t) ==
  /\ UNCHANGED <<browser, stream, subscribed>>
  /\ Publisher!Commit(c, t)

Publish(c) ==
  /\ UNCHANGED <<browser, version, stream, subscribed>>
  /\ Publisher!Publish(c)

\* The worker of the publisher, apart from a broadcast that AnyCable accepts.
Work ==
  /\ UNCHANGED <<browser, version, stream, subscribed>>
  /\ Publisher!Start \/ Publisher!BroadcastFails
       \/ Publisher!Shutdown \/ Publisher!ShutdownTimesOut \/ Publisher!Exit

\* AnyCable sends the event to the sockets subscribed at the time.
Broadcast ==
  /\ UNCHANGED <<browser, version, subscribed>>
  /\ Publisher!Broadcast
  /\ stream' = IF subscribed
               THEN [stream EXCEPT ![worker.key] = @ \cup {worker.sent}]
               ELSE stream

\* The page's operations:refresh event.  The server sent it after change n.
Deliver(t, n) ==
  /\ subscribed /\ n \in stream[t]
  /\ UNCHANGED <<publisher, version, subscribed>>
  /\ stream' = [stream EXCEPT ![t] = @ \ {n}]
  /\ IF n < noticed[t] THEN Changed(t, noticed[t]) ELSE Changed(t, n)

\* Mutant: the source is not observed, so a new subscription fetches nothing.
SubscribeUnobserved ==
  /\ ~stopped /\ ~subscribed
  /\ subscribed' = TRUE
  /\ UNCHANGED <<publisher, version, stream, browser>>

\* The subscription is confirmed, and the source gets its attribute.
Subscribe ==
  /\ ~stopped /\ ~subscribed
  /\ UNCHANGED <<publisher, version, stream>>
  /\ subscribed' = TRUE
  /\ ConnectionChanged

\* The socket drops with what was under way; the source loses its attribute.
Drop ==
  /\ ~stopped /\ subscribed
  /\ UNCHANGED <<publisher, version>>
  /\ subscribed' = FALSE
  /\ stream' = [t \in Topics |-> {}]
  /\ ConnectionChanged

\* The page, apart from what the stream does to it.
Browse ==
  /\ UNCHANGED <<publisher, version, stream, subscribed>>
  /\ Hide \/ Show
       \/ \E r \in Requests : Run(r) \/ Answer(r) \/ Settle(r)

\* Leaving closes the subscription, visiting starts without one.
ComeAndGo ==
  /\ UNCHANGED <<publisher, version>>
  /\ subscribed' = FALSE
  /\ stream' = [t \in Topics |-> {}]
  /\ Leave \/ Visit

WholeNext ==
  \/ \E c \in Callers : Publish(c) \/ \E t \in Topics : CommitAndTell(c, t)
  \/ Work \/ Broadcast
  \/ \E t \in Topics : \E n \in 0 .. MaxVersion : Deliver(t, n)
  \/ Subscribe \/ Drop \/ Browse \/ ComeAndGo

WholeSpec == WholeInit /\ [][WholeNext]_whole

Deliveries == \E t \in Topics : \E n \in 0 .. MaxVersion : Deliver(t, n)
Fetching == \E r \in Requests :
  UNCHANGED <<publisher, version, stream, subscribed>> /\ Run(r)
Settling == \E r \in Requests :
  UNCHANGED <<publisher, version, stream, subscribed>> /\ Settle(r)

\* The fairness of the two parts, and of a socket that is up.
FairWholeSpec ==
  /\ WholeSpec
  /\ \A c \in Callers : WF_whole(Publish(c))
  /\ WF_whole(Broadcast \/ Work)
  /\ WF_whole(Deliveries)
  /\ WF_whole(Fetching) /\ WF_whole(Settling)

-----------------------------------------------------------------------------
(* Properties                                                              *)

\* A change of topic t that no fetch has brought is on its way to the screen, or
\* was when its process ended.
OnItsWay(t) ==
  \/ Publisher!Unpublished(t) \/ Publisher!Owned(t) \/ Publisher!InFlight(t)
  \/ version[t] \in stream[t]
  \/ timer \/ (pending /\ request # None)
  \/ \E r \in Requests : Covers(r, t, version[t])

\* A visible, subscribed page shows what is committed, or the change is on its
\* way, or somebody was told that it is not: the operator by the badge, or the
\* operations team by an error report.
StaleScreensAreExplained ==
  \A t \in Topics :
    seen[t] < version[t] =>
      stopped \/ hidden \/ ~subscribed \/ failed \/ lost[t] > seen[t] \/ OnItsWay(t)

\* A committed change reaches the screen, or the page or a report says that it may
\* not; but the process that made it may end before it has published it.
ChangesAreSeen ==
  \A t \in Topics : \A n \in 1 .. MaxVersion :
    version[t] = n ~>
      (seen[t] >= n \/ lost[t] >= n \/ Publisher!CutOff(t)
         \/ failed \/ hidden \/ stopped \/ ~subscribed)

=============================================================================
