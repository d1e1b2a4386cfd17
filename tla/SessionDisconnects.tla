------------------------- MODULE SessionDisconnects -------------------------
(***************************************************************************)
(* The outbox of session disconnects: app/models/session_disconnect.rb,    *)
(* DisconnectSessionsJob and DispatchSessionDisconnectsJob as Solid Queue  *)
(* runs them.  The intents are rows of the primary database; the jobs live *)
(* in the queue's own database, so nothing commits both together.          *)
(*                                                                         *)
(* A fault is a rejected enqueue, a failed or unanswered HTTP call, a      *)
(* failed acknowledgement or a crash.  They are counted, and MaxFaults     *)
(* bounds them: liveness is claimed for the time after the last one.       *)
(***************************************************************************)
EXTENDS Naturals, FiniteSets

CONSTANTS
  Intents,    \* ids of the session_disconnects sequence, never drawn twice
  Sessions,   \* session ids
  Jobs,       \* bound: jobs in the queue at a time
  NoIntent,   \* outbox_id of a job enqueued before the outbox existed
  Legacy,     \* the session ids of that job; {} when there is none
  Attempts,   \* attempts of retry_on
  MaxFaults   \* bound: faults in a behaviour

ASSUME ConstantsAssumption ==
  /\ NoIntent \notin Intents
  /\ Legacy \subseteq Sessions
  /\ Attempts \in Nat \ {0}
  /\ MaxFaults \in Nat

VARIABLES
  outbox,     \* ids present in session_disconnects
  covers,     \* session_ids of every intent id drawn so far
  callbacks,  \* intents whose after-commit callback has yet to run
  batch,      \* intents loaded by find_each that the dispatcher has yet to enqueue
  jobs,       \* the queue
  published,  \* history: sessions whose disconnect AnyCable accepted
  faults

vars == <<outbox, covers, callbacks, batch, jobs, published, faults>>

\* A job, its outbox_id, how often it was performed, and the session ids it has
\* yet to publish.
NoJob   == [at |-> "none"]
Waiting == [at : {"ready", "scheduled"}, intent : Intents \cup {NoIntent},
            executions : 0 .. Attempts - 1, todo : SUBSET Sessions]
Running == [at : {"performing", "publishing"}, intent : Intents \cup {NoIntent},
            executions : 1 .. Attempts, todo : SUBSET Sessions]
Job     == {NoJob} \cup Waiting \cup Running

TypeOK ==
  /\ outbox \in SUBSET Intents
  /\ covers \in [Intents -> SUBSET Sessions]
  /\ callbacks \in SUBSET Intents
  /\ batch \in SUBSET Intents
  /\ jobs \in [Jobs -> Job]
  /\ published \in SUBSET Sessions
  /\ faults \in 0 .. MaxFaults

Enqueued(i) == [at |-> "ready", intent |-> i, executions |-> 0, todo |-> {}]

Init ==
  /\ outbox = {}
  /\ covers = [i \in Intents |-> {}]
  /\ callbacks = {}
  /\ batch = {}
  /\ \/ Legacy = {} /\ jobs = [j \in Jobs |-> NoJob]
     \/ \E j \in Jobs : /\ Legacy # {}
                        /\ jobs = [k \in Jobs |-> IF k = j THEN Enqueued(NoIntent) ELSE NoJob]
  /\ published = {}
  /\ faults = 0

-----------------------------------------------------------------------------
At(j, place) == jobs[j].at = place

Put(j, job) == jobs' = [jobs EXCEPT ![j] = job]

Stage(j, place, todo) ==
  [at |-> place, intent |-> jobs[j].intent, executions |-> jobs[j].executions,
   todo |-> todo]

Fault == faults < MaxFaults /\ faults' = faults + 1

\* A transaction of Authentication has committed a revocation with its intent.
Committed(i, ids) ==
  /\ covers[i] = {} /\ ids # {}
  /\ outbox' = outbox \cup {i}
  /\ covers' = [covers EXCEPT ![i] = ids]
  /\ callbacks' = callbacks \cup {i}
  /\ UNCHANGED <<batch, jobs, published, faults>>

\* SessionDisconnect#enqueue: perform_later stores a job and returns it.
Enqueue(i) ==
  /\ \E j \in Jobs : At(j, "none") /\ Put(j, Enqueued(i))
  /\ UNCHANGED faults

\* The queue database rejects the job: the error is reported and false returned.
EnqueueRejected == Fault /\ UNCHANGED jobs

\* The after-commit callback of the thread that committed.  Its result is not
\* looked at; the process may also have died before it.
AfterCommit(i) ==
  /\ i \in callbacks
  /\ Enqueue(i) \/ EnqueueRejected
  /\ callbacks' = callbacks \ {i}
  /\ UNCHANGED <<outbox, covers, batch, published>>

LoseCallback(i) ==
  /\ i \in callbacks
  /\ Fault
  /\ callbacks' = callbacks \ {i}
  /\ UNCHANGED <<outbox, covers, batch, jobs, published>>

-----------------------------------------------------------------------------
(* DispatchSessionDisconnectsJob, every minute                             *)

\* Mutant: the dispatcher passes over intents that were tried before, taking an
\* accepted command for a finished intent.
LoadUntried ==
  /\ batch = {}
  /\ batch' = {i \in outbox : covers[i] \cap published = {}}
  /\ UNCHANGED <<outbox, covers, callbacks, jobs, published, faults>>

\* find_each loads the intents there are now, whatever happens to them later.
LoadPending ==
  /\ batch = {}
  /\ batch' = outbox
  /\ UNCHANGED <<outbox, covers, callbacks, jobs, published, faults>>

DispatchPending(i) ==
  /\ i \in batch
  /\ \/ Enqueue(i) /\ batch' = batch \ {i}
     \/ EnqueueRejected /\ batch' = {}        \* break unless intent.enqueue
  /\ UNCHANGED <<outbox, covers, callbacks, published>>

-----------------------------------------------------------------------------
(* A worker                                                                *)

\* A worker claims a ready job and performs it: executions counts this attempt.
Claim(j) ==
  /\ At(j, "ready")
  /\ Put(j, [Stage(j, "performing", {}) EXCEPT !.executions = @ + 1])
  /\ UNCHANGED <<outbox, covers, callbacks, batch, published, faults>>

\* find_by: the ids are those of the intent's row, and an acknowledged intent
\* leaves nothing to do.  A job without an outbox_id brings its own ids.
FindIntent(j) ==
  /\ At(j, "performing")
  /\ LET i == jobs[j].intent
     IN  \/ i = NoIntent /\ Put(j, Stage(j, "publishing", Legacy))
         \/ i \in outbox /\ Put(j, Stage(j, "publishing", covers[i]))
         \/ i \in Intents \ outbox /\ Put(j, NoJob)
  /\ UNCHANGED <<outbox, covers, callbacks, batch, published, faults>>

\* AnyCable answers 201 to one disconnect command.
Publish(j, s) ==
  /\ At(j, "publishing") /\ s \in jobs[j].todo
  /\ Put(j, Stage(j, "publishing", jobs[j].todo \ {s}))
  /\ published' = published \cup {s}
  /\ UNCHANGED <<outbox, covers, callbacks, batch, faults>>

\* An error that retry_on names: the job is scheduled again in five seconds, up
\* to its last attempt.  After a ReadTimeout AnyCable may have the command.
PublishTimesOut(j, s, delivered) ==
  /\ At(j, "publishing") /\ s \in jobs[j].todo
  /\ Fault
  /\ published' = IF delivered THEN published \cup {s} ELSE published
  /\ Put(j, IF jobs[j].executions < Attempts
            THEN Stage(j, "scheduled", {})
            ELSE NoJob)
  /\ UNCHANGED <<outbox, covers, callbacks, batch>>

\* The dispatcher moves a scheduled job that is due.
Due(j) ==
  /\ At(j, "scheduled")
  /\ Put(j, Stage(j, "ready", {}))
  /\ UNCHANGED <<outbox, covers, callbacks, batch, published, faults>>

\* Any other error (a status that is not 201, a reset connection, the primary
\* database) fails the job, as Solid Queue also does for a worker that died.
Fail(j) ==
  /\ jobs[j].at \in {"performing", "publishing"}
  /\ Fault
  /\ Put(j, NoJob)
  /\ UNCHANGED <<outbox, covers, callbacks, batch, published>>

\* Mutant: the intent goes when the job starts, not when it has published.
AcknowledgeFirst(j) ==
  /\ At(j, "publishing")
  /\ outbox' = outbox \ {jobs[j].intent}
  /\ Put(j, NoJob)
  /\ UNCHANGED <<covers, callbacks, batch, published, faults>>

\* intent&.destroy! once every id was published; a second destroy does nothing.
Acknowledge(j) ==
  /\ At(j, "publishing") /\ jobs[j].todo = {}
  /\ outbox' = outbox \ {jobs[j].intent}
  /\ Put(j, NoJob)
  /\ UNCHANGED <<covers, callbacks, batch, published, faults>>

Perform(j) ==
  \/ Claim(j) \/ FindIntent(j) \/ Due(j) \/ Acknowledge(j)
  \/ \E s \in Sessions :
       Publish(j, s) \/ \E delivered \in BOOLEAN : PublishTimesOut(j, s, delivered)

\* Steps of the queue, which need no revocation to happen.
Disconnecting ==
  \/ \E i \in Intents : AfterCommit(i) \/ LoseCallback(i) \/ DispatchPending(i)
  \/ LoadPending
  \/ \E j \in Jobs : Perform(j) \/ Fail(j)

\* No id of a legacy job has a row, so no later transaction plucks it.
Revoke == \E i \in Intents, ids \in SUBSET (Sessions \ Legacy) : Committed(i, ids)

Next == Revoke \/ Disconnecting

Spec == Init /\ [][Next]_vars

\* The recurring task runs every minute, workers and dispatchers keep polling.
\* LoadPending leaves an empty outbox as it is: nothing to dispatch.
Fairness ==
  /\ WF_vars(LoadPending)
  /\ WF_vars(\E i \in Intents : AfterCommit(i))
  /\ WF_vars(\E i \in Intents : DispatchPending(i))
  /\ \A j \in Jobs : WF_vars(Perform(j))

FairSpec == Spec /\ Fairness

-----------------------------------------------------------------------------
(* docs/realtime.md: "Intent is deleted only after all its disconnect commands
   are published".  Whatever was rejected, retried, lost or
   run twice, an intent that has gone had every one of its sessions published:
   no revoked session is forgotten with its connections open.              *)
AcknowledgedIsPublished ==
  \A i \in Intents : i \notin outbox => covers[i] \subseteq published

\* The inductive invariant behind it: what a worker has not published of an intent
\* is still on its list, and an intent's ids do not change once it is committed.
ListsAreComplete ==
  /\ \A i \in outbox : covers[i] # {}
  /\ \A j \in Jobs : At(j, "publishing") /\ jobs[j].intent # NoIntent =>
       /\ covers[jobs[j].intent] # {}
       /\ covers[jobs[j].intent] \subseteq published \cup jobs[j].todo

Inductive == TypeOK /\ ListsAreComplete /\ AcknowledgedIsPublished

\* docs/realtime.md: DispatchSessionDisconnectsJob "recovers queue rejection": once
\* faults stop, every intent is published and acknowledged.
IntentsAcknowledged == \A i \in Intents : i \in outbox ~> i \notin outbox
=============================================================================
