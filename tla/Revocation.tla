----------------------------- MODULE Revocation -----------------------------
(***************************************************************************)
(* The way of a revocation through the whole system: a request commits it  *)
(* (Authentication), its intent reaches AnyCable (SessionDisconnects) and  *)
(* the browser's connections lose their streams (Cable).  The three share  *)
(* the sessions and session_disconnects tables; a thread's after-commit    *)
(* callback enqueues the job, and what a worker publishes AnyCable has to  *)
(* carry out.                                                              *)
(***************************************************************************)
EXTENDS Naturals, FiniteSets

CONSTANTS
  Users, Passwords, Invalid, FirstPassword, Sessions, Intents, Threads, Nobody, Free,
  MaxSalt, Jobs, NoIntent, Attempts, MaxFaults, Connections, MaxRestarts,
  Administrators  \* the sessions whose user is an administrator

VARIABLES
  digest, lock, rows, owner, born, outbox, covers, mailed, thread,
  batch, jobs, published, faults,
  admin, sockets, commands, restarts

Auth == INSTANCE Authentication

requests == <<digest, lock, rows, owner, born, mailed, thread>>
tables   == <<outbox, covers>>
queue    == <<batch, jobs, published, faults>>
cable    == <<admin, sockets, commands, restarts>>
vars     == <<requests, tables, queue, cable>>

\* The intents whose callback some thread is about to run.
Callbacks == {thread[t].intent : t \in {x \in Threads : Auth!At(x, "afterCommit")}}

\* The queue was empty when the outbox was introduced.
Outbox == INSTANCE SessionDisconnects WITH callbacks <- Callbacks, Legacy <- {}

Removed == {s \in Sessions : owner[s] # Nobody} \ rows
Owed    == UNION {covers[i] : i \in outbox}

WebSockets == INSTANCE Cable WITH removed <- Removed, owed <- Owed, accepted <- published

ASSUME PartsAssumption ==
  /\ Auth!ConstantsAssumption
  /\ Outbox!ConstantsAssumption
  /\ WebSockets!ConstantsAssumption
  /\ Administrators \subseteq Sessions

Init ==
  /\ Auth!Init
  /\ batch = {} /\ jobs = [j \in Jobs |-> Outbox!NoJob] /\ published = {} /\ faults = 0
  /\ admin = Administrators /\ sockets = [c \in Connections |-> WebSockets!Closed]
  /\ commands = {} /\ restarts = 0

-----------------------------------------------------------------------------
\* A thread or a mailbox moves, and nobody else: a commit leaves its intent to the
\* thread's callback.
Request ==
  /\ \/ \E t \in Threads : \/ Auth!Arrive(t)
                           \/ Auth!Continue(t) /\ ~Auth!At(t, "afterCommit")
     \/ \E u \in Users : Auth!MailToken(u)
     \/ \E tok \in Auth!Token : Auth!ExpireToken(tok)
  /\ UNCHANGED <<queue, cable>>

\* The callback enqueues the job of the intent its thread committed.
AfterCommit(t) ==
  /\ Auth!At(t, "afterCommit")
  /\ Outbox!Enqueue(thread[t].intent) \/ Outbox!EnqueueRejected
  /\ Auth!AfterCommit(t)
  /\ UNCHANGED <<batch, published, cable>>

\* A crash loses the callback of a thread that had one: a fault of the outbox.
Crash(t) ==
  /\ Auth!Crash(t)
  /\ \/ Auth!At(t, "afterCommit") /\ Outbox!Fault
     \/ ~Auth!At(t, "afterCommit") /\ UNCHANGED faults
  /\ UNCHANGED <<batch, jobs, published, cable>>

\* The dispatcher and the workers, which talk to nobody but the tables.
Dispatch ==
  /\ UNCHANGED <<requests, cable>>
  /\ \/ Outbox!LoadPending
     \/ \E i \in Intents : Outbox!DispatchPending(i)
     \/ \E j \in Jobs : \/ Outbox!Claim(j) \/ Outbox!FindIntent(j)
                        \/ Outbox!Due(j) \/ Outbox!Fail(j)

Acknowledge(j) ==
  /\ UNCHANGED <<requests, cable>>
  /\ Outbox!Acknowledge(j)

\* What AnyCable accepts, answered in time or not, it has to carry out.
Publish(j, s, delivered) ==
  /\ UNCHANGED <<requests, admin, sockets, restarts>>
  /\ \/ delivered /\ Outbox!Publish(j, s)
     \/ Outbox!PublishTimesOut(j, s, delivered)
  /\ commands' = IF delivered THEN commands \cup {s} ELSE commands

\* users.admin changes in no transaction of these; Cable alone lets it change.
Connection ==
  /\ UNCHANGED <<requests, tables, queue>>
  /\ \/ WebSockets!Server \/ WebSockets!Restart
     \/ \E c \in Connections :
          \/ \E s \in Sessions : WebSockets!Dial(c, s)
          \/ WebSockets!Connect(c) \/ WebSockets!HangUp(c)
          \/ \E name \in WebSockets!Names : WebSockets!Subscribe(c, name)

Next ==
  \/ Request
  \/ \E t \in Threads : AfterCommit(t) \/ Crash(t)
  \/ Dispatch
  \/ \E j \in Jobs : \/ Acknowledge(j)
                     \/ \E s \in Sessions, delivered \in BOOLEAN : Publish(j, s, delivered)
  \/ Connection

Spec == Init /\ [][Next]_vars

\* Threads, the recurring task, workers and AnyCable keep going; see the parts.
FairSpec ==
  /\ Spec
  /\ \A t \in Threads : WF_vars(Request /\ Auth!Continue(t)) /\ WF_vars(AfterCommit(t))
  /\ WF_vars(Dispatch /\ Outbox!LoadPending)
  /\ WF_vars(Dispatch /\ \E i \in Intents : Outbox!DispatchPending(i))
  /\ \A j \in Jobs : WF_vars(\/ Dispatch /\ Outbox!Perform(j)
                             \/ Acknowledge(j)
                             \/ \E s \in Sessions : Publish(j, s, TRUE))
  /\ \A s \in Sessions : WF_vars(Connection /\ WebSockets!Disconnect(s))

-----------------------------------------------------------------------------
\* The three parts keep the promises the others rely on: revocations commit with
\* their intent, workers publish only removed sessions, and the outbox drops only
\* what AnyCable accepted, which is all that Cable assumes of the application.
CableAssumptionsHold == WebSockets!Spec

\* From the form to the socket: a connection hears a stream of a revoked session
\* only while the outbox names the session or AnyCable has yet to disconnect it.
RevokedStreamsAreOwed == WebSockets!StreamsOfRevokedAreOwed

\* Every revoked session loses its streams for good, once faults stop.
RevokedSessionsFallSilent == WebSockets!RevokedFallSilent
=============================================================================
