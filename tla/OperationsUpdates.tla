------------------------- MODULE OperationsUpdates -------------------------
(***************************************************************************)
(* The publisher of lib/realtime/operations_updates.rb in one process.     *)
(* Threads that committed a change publish its topic; one worker thread    *)
(* broadcasts.  A topic already waiting is not posted again, so the thread *)
(* that finds it waiting relies on a task another thread posted, or is     *)
(* about to post: adding a topic and posting its task are two steps.       *)
(***************************************************************************)
EXTENDS Naturals, Sequences

CONSTANTS
  Callers,     \* threads that publish
  Keys,        \* (stream, topic) pairs
  MaxQueue,    \* max_queue, 64 in the code
  MaxChanges   \* bound: committed changes of one topic

ASSUME ConstantsAssumption ==
  /\ MaxQueue \in Nat
  /\ MaxChanges \in Nat

VARIABLES
  pending,   \* @pending
  queue,     \* tasks the executor has yet to start
  worker,    \* the executor's thread
  calls,     \* where each thread is in publish
  executor,  \* accepts tasks, shut down, killed, or ended with its process
  stale,     \* @pid is another process's: this one was forked
  version,   \* per topic, the changes committed so far
  told,      \* per topic, the newest change AnyCable accepted a broadcast after
  lost       \* per topic, the newest change reported as not broadcast

vars == <<pending, queue, worker, calls, executor, stale, version, told, lost>>

Idle == [at |-> "idle"]
Call == [at : {"committed", "added", "rejected"}, key : Keys]
Task == [at : {"taken", "sending"}, key : Keys, sent : 0 .. MaxChanges]

Queued == {queue[i] : i \in 1 .. Len(queue)}

TypeOK ==
  /\ pending \in SUBSET Keys
  /\ queue \in Seq(Keys) /\ Len(queue) <= MaxQueue
  /\ worker \in {Idle} \cup Task
  /\ calls \in [Callers -> {Idle} \cup Call]
  /\ executor \in {"running", "shutdown", "killed", "ended"}
  /\ stale \in BOOLEAN
  /\ version \in [Keys -> 0 .. MaxChanges]
  /\ told \in [Keys -> 0 .. MaxChanges]
  /\ lost \in [Keys -> 0 .. MaxChanges]

Init ==
  /\ pending = {}
  /\ queue = <<>>
  /\ worker = Idle
  /\ calls = [c \in Callers |-> Idle]
  /\ executor = "running"
  /\ stale = FALSE
  /\ version = [k \in Keys |-> 0]
  /\ told = [k \in Keys |-> 0]
  /\ lost = [k \in Keys |-> 0]

-----------------------------------------------------------------------------
(* publish                                                                 *)

At(c, place) == calls[c].at = place

Go(c, place) == calls' = [calls EXCEPT ![c] = [at |-> place, key |-> calls[c].key]]

Return(c) == calls' = [calls EXCEPT ![c] = Idle]

Later(m, n) == IF m < n THEN n ELSE m

Report(k, v) == lost' = [lost EXCEPT ![k] = Later(@, v)]

\* A transaction commits; its callback is about to publish the topic.
Commit(c, k) ==
  /\ executor \notin {"killed", "ended"}
  /\ At(c, "idle") /\ version[k] < MaxChanges
  /\ version' = [version EXCEPT ![k] = @ + 1]
  /\ calls' = [calls EXCEPT ![c] = [at |-> "committed", key |-> k]]
  /\ UNCHANGED <<pending, queue, worker, executor, stale, told, lost>>

\* Mutant: a forked process keeps the keys its parent was about to broadcast.
AddInheriting(c) ==
  /\ At(c, "committed") /\ executor # "ended"
  /\ stale' = FALSE
  /\ pending' = pending \cup {calls[c].key}
  /\ IF calls[c].key \in pending THEN Return(c) ELSE Go(c, "added")
  /\ UNCHANGED <<queue, worker, executor, version, told, lost>>

\* The first synchronized block: keys inherited through fork are forgotten.
Add(c) ==
  LET waiting == IF stale THEN {} ELSE pending
  IN /\ At(c, "committed") /\ executor # "ended"
     /\ stale' = FALSE
     /\ pending' = waiting \cup {calls[c].key}
     /\ IF calls[c].key \in waiting THEN Return(c) ELSE Go(c, "added")
     /\ UNCHANGED <<queue, worker, executor, version, told, lost>>

\* @executor.post: an idle worker takes the task, else it is queued.
Post(c) ==
  /\ At(c, "added") /\ executor = "running"
  /\ \/ /\ worker = Idle
        /\ worker' = [at |-> "taken", key |-> calls[c].key, sent |-> 0]
        /\ UNCHANGED queue
     \/ /\ worker # Idle /\ Len(queue) < MaxQueue
        /\ queue' = Append(queue, calls[c].key)
        /\ UNCHANGED worker
  /\ Return(c)
  /\ UNCHANGED <<pending, executor, stale, version, told, lost>>

\* Full or shut down: RejectedExecutionError.
Reject(c) ==
  /\ At(c, "added")
  /\ executor \in {"shutdown", "killed"} \/ (worker # Idle /\ Len(queue) >= MaxQueue)
  /\ Go(c, "rejected")
  /\ UNCHANGED <<pending, queue, worker, executor, stale, version, told, lost>>

\* The rescue: the key is withdrawn and the loss reported, for every thread
\* that had relied on it.
Withdraw(c) ==
  /\ At(c, "rejected") /\ executor # "ended"
  /\ pending' = pending \ {calls[c].key}
  /\ Report(calls[c].key, version[calls[c].key])
  /\ Return(c)
  /\ UNCHANGED <<queue, worker, executor, stale, version, told>>

-----------------------------------------------------------------------------
(* The task                                                                *)

\* The worker goes on to the next task, if there is one.
NextTask ==
  IF queue = <<>>
  THEN worker' = Idle /\ UNCHANGED queue
  ELSE /\ worker' = [at |-> "taken", key |-> Head(queue), sent |-> 0]
       /\ queue' = Tail(queue)

\* Mutant: the key is not withdrawn before the broadcast.
StartKeepingKey ==
  /\ worker.at = "taken"
  /\ worker' = [at |-> "sending", key |-> worker.key, sent |-> version[worker.key]]
  /\ UNCHANGED <<pending, queue, calls, executor, stale, version, told, lost>>

\* The key goes before the broadcast: a change committed from here on posts a
\* task of its own.
Start ==
  /\ worker.at = "taken"
  /\ pending' = pending \ {worker.key}
  /\ worker' = [at |-> "sending", key |-> worker.key, sent |-> version[worker.key]]
  /\ UNCHANGED <<queue, calls, executor, stale, version, told, lost>>

\* broadcast_action_to returned.
Broadcast ==
  /\ worker.at = "sending"
  /\ told' = [told EXCEPT ![worker.key] = Later(@, worker.sent)]
  /\ NextTask
  /\ UNCHANGED <<pending, calls, executor, stale, version, lost>>

\* It raised, and the error was reported; nothing is retried.
BroadcastFails ==
  /\ worker.at = "sending"
  /\ Report(worker.key, worker.sent)
  /\ NextTask
  /\ UNCHANGED <<pending, calls, executor, stale, version, told>>

-----------------------------------------------------------------------------
(* The process                                                             *)

\* The process becomes a copy of itself with one thread left, not the worker
\* (Solid Queue's supervisor forks); what the parent owed, the parent still owes.
Fork ==
  /\ executor = "running"
  /\ stale' = TRUE
  /\ queue' = <<>>
  /\ worker' = Idle
  /\ calls' = [c \in Callers |-> Idle]
  /\ told' = version
  /\ UNCHANGED <<pending, executor, version, lost>>

\* at_exit
Shutdown ==
  /\ executor = "running"
  /\ executor' = "shutdown"
  /\ UNCHANGED <<pending, queue, worker, calls, stale, version, told, lost>>

\* Five seconds passed: the loss is reported, the executor killed, the process ends.
ShutdownTimesOut ==
  /\ executor = "shutdown" /\ worker # Idle
  /\ executor' = "killed"
  /\ queue' = <<>>
  /\ worker' = Idle
  /\ calls' = [c \in Callers |-> Idle]
  /\ lost' = version
  /\ UNCHANGED <<pending, stale, version, told>>

\* The tasks were done in time, and the process ends with its other threads where
\* they are: what one of them was about to publish, nobody tells or reports.
Exit ==
  /\ executor = "shutdown" /\ worker = Idle
  /\ executor' = "ended"
  /\ UNCHANGED <<pending, queue, worker, calls, stale, version, told, lost>>

Publish(c) == Add(c) \/ Post(c) \/ Reject(c) \/ Withdraw(c)

Next ==
  \/ \E c \in Callers, k \in Keys : Commit(c, k)
  \/ \E c \in Callers : Publish(c)
  \/ Start \/ Broadcast \/ BroadcastFails
  \/ Fork \/ Shutdown \/ ShutdownTimesOut \/ Exit

Spec == Init /\ [][Next]_vars

\* Threads are scheduled; the broadcast ends by its own timeouts.
FairSpec ==
  /\ Spec
  /\ \A c \in Callers : WF_vars(Publish(c))
  /\ WF_vars(Start \/ Broadcast \/ BroadcastFails)

-----------------------------------------------------------------------------
(* Properties                                                              *)

\* A thread holding k has yet to post its task, or to withdraw it.
Posting(c, k) ==
  calls[c] \in {[at |-> "added", key |-> k], [at |-> "rejected", key |-> k]}

\* The worker holds k's task and has yet to withdraw the key.
Taken(k) == worker # Idle /\ worker.at = "taken" /\ worker.key = k

\* Somebody is to broadcast key k, and has not begun to.
Owned(k) == k \in Queued \/ Taken(k) \/ \E c \in Callers : Posting(c, k)

\* A change of k whose thread has yet to enter publish.
Unpublished(k) == \E c \in Callers : calls[c] = [at |-> "committed", key |-> k]

\* No change of k is newer than the broadcast of it under way.
InFlight(k) ==
  worker # Idle /\ worker.at = "sending" /\ worker.key = k /\ worker.sent = version[k]

\* The process ended with a thread still in publish for k.
CutOff(k) == executor = "ended" /\ \E c \in Callers : calls[c] # Idle /\ calls[c].key = k

\* Coalescing loses no change: whoever returned from publish with nothing
\* posted is covered by a broadcast that has not begun, by one that began
\* after the change, or by an error report.
NoChangeForgotten ==
  \A k \in Keys :
    Later(told[k], lost[k]) = version[k] \/ Unpublished(k) \/ Owned(k) \/ InFlight(k)

\* A burst costs one task: a key waits at most once, in the queue, in the
\* worker or on the way to the queue.
OneTaskPerKey ==
  /\ \A i, j \in 1 .. Len(queue) : queue[i] = queue[j] => i = j
  /\ \A k \in Queued : ~Taken(k)
  /\ \A k \in Keys, c \in Callers : Posting(c, k) =>
       /\ k \notin Queued /\ ~Taken(k)
       /\ \A d \in Callers : Posting(d, k) => d = c

\* Every committed change is broadcast or reported lost, unless the process ends
\* while a thread is still publishing its topic.
ChangesAreTold ==
  \A k \in Keys : \A n \in 1 .. MaxChanges :
    version[k] = n ~> (told[k] >= n \/ lost[k] >= n \/ CutOff(k))

(* The inductive invariant.                                                *)

\* The keys waiting are exactly those somebody owns, once a forked process has
\* forgotten its parent's.
PendingIsOwned ==
  executor # "killed" =>
    IF stale THEN \A k \in Keys : ~Owned(k) ELSE \A k \in Keys : k \in pending <=> Owned(k)

\* An idle worker leaves no task behind, and a killed process owes nothing.
QueueIsWorked ==
  /\ worker = Idle => queue = <<>>
  /\ executor = "killed" => worker = Idle /\ (\A c \in Callers : calls[c] = Idle)
  /\ \A k \in Keys : told[k] <= version[k] /\ lost[k] <= version[k]
  /\ worker # Idle => worker.sent <= version[worker.key]

Inductive == TypeOK /\ NoChangeForgotten /\ OneTaskPerKey /\ PendingIsOwned /\ QueueIsWorked

=============================================================================
