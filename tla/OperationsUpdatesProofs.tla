---------------------- MODULE OperationsUpdatesProofs ----------------------
(***************************************************************************)
(* Proofs about OperationsUpdates, for any threads, topics and queue size. *)
(* The invariant says that the waiting keys are exactly those some thread, *)
(* the queue or the worker owns, which is what makes returning early safe. *)
(***************************************************************************)
EXTENDS OperationsUpdates, SequenceTheorems, TLAPS

USE ConstantsAssumption

\* The keys of a queue, and of what Append and Tail make of it.
LEMMA QueuedAppend ==
  ASSUME queue \in Seq(Keys), NEW k \in Keys, queue' = Append(queue, k)
  PROVE  /\ queue' \in Seq(Keys)
         /\ Len(queue') = Len(queue) + 1
         /\ \A i \in 1 .. Len(queue) : queue'[i] = queue[i]
         /\ queue'[Len(queue) + 1] = k
         /\ Queued' = Queued \cup {k}
  <1>1. /\ queue' \in Seq(Keys)
        /\ Len(queue') = Len(queue) + 1
        /\ \A i \in 1 .. Len(queue) : queue'[i] = queue[i]
        /\ queue'[Len(queue) + 1] = k
    OBVIOUS
  <1>2. 1 .. Len(queue') = (1 .. Len(queue)) \cup {Len(queue) + 1}
    BY <1>1
  <1> QED
    BY <1>1, <1>2 DEF Queued

LEMMA QueuedTail ==
  ASSUME queue \in Seq(Keys), queue # <<>>, queue' = Tail(queue)
  PROVE  /\ queue' \in Seq(Keys)
         /\ Len(queue') = Len(queue) - 1
         /\ \A i \in 1 .. Len(queue') : i + 1 \in 1 .. Len(queue) /\ queue'[i] = queue[i + 1]
         /\ Head(queue) = queue[1] /\ 1 \in 1 .. Len(queue)
         /\ Queued = Queued' \cup {Head(queue)}
  <1>1. /\ queue' \in Seq(Keys)
        /\ Len(queue') = Len(queue) - 1
        /\ \A i \in 1 .. Len(queue') : i + 1 \in 1 .. Len(queue) /\ queue'[i] = queue[i + 1]
        /\ Head(queue) = queue[1] /\ 1 \in 1 .. Len(queue)
    OBVIOUS
  <1>2. Queued' \cup {Head(queue)} \subseteq Queued
    BY <1>1 DEF Queued
  <1>3. ASSUME NEW i \in 1 .. Len(queue) PROVE queue[i] \in Queued' \cup {Head(queue)}
    <2>1. CASE i = 1
      BY <2>1, <1>1
    <2>2. CASE i # 1
      <3>1. i - 1 \in 1 .. Len(queue') /\ (i - 1) + 1 = i
        BY <2>2, <1>1
      <3>2. queue'[i - 1] = queue[i]
        BY <3>1, <1>1
      <3> QED
        BY <3>1, <3>2 DEF Queued
    <2> QED
      BY <2>1, <2>2
  <1> QED
    BY <1>1, <1>2, <1>3 DEF Queued

-----------------------------------------------------------------------------
LEMMA NoTasks == <<>> \in Seq(Keys) /\ Len(<<>>) = 0
  OBVIOUS

LEMMA TypeInit == Init => TypeOK
  <1>1. ASSUME Init PROVE queue \in Seq(Keys) /\ Len(queue) <= MaxQueue
    <2>1. queue = <<>>
      BY <1>1 DEF Init
    <2> QED
      BY <2>1, NoTasks
  <1>2. 0 \in 0 .. MaxChanges
    BY DEF ConstantsAssumption
  <1> QED
    BY <1>1, <1>2 DEF Init, TypeOK

\* A thread's place changes and no other's.
LEMMA CallStep ==
  ASSUME TypeOK, NEW c \in Callers, calls[c] \in Call,
         Return(c) \/ Go(c, "added") \/ Go(c, "rejected")
  PROVE  calls' \in [Callers -> {Idle} \cup Call]
  BY DEF TypeOK, Return, Go, Call

LEMMA TypeStep == TypeOK /\ [Next]_vars => TypeOK'
  <1> SUFFICES ASSUME TypeOK, [Next]_vars PROVE TypeOK'
    OBVIOUS
  <1> USE DEF TypeOK, Idle, Call, Task, Later
  <1>1. ASSUME NEW c \in Callers, NEW k \in Keys, Commit(c, k) PROVE TypeOK'
    BY <1>1 DEF Commit, At
  <1>2. ASSUME NEW c \in Callers, Add(c) PROVE TypeOK'
    <2>1. calls[c] \in Call
      BY <1>2 DEF Add, At
    <2>2. calls' \in [Callers -> {Idle} \cup Call]
      BY <1>2, <2>1, CallStep DEF Add
    <2> QED
      BY <1>2, <2>1, <2>2 DEF Add
  <1>3. ASSUME NEW c \in Callers, Post(c) PROVE TypeOK'
    <2>1. calls[c] \in Call
      BY <1>3 DEF Post, At
    <2>2. calls' \in [Callers -> {Idle} \cup Call]
      BY <1>3, <2>1, CallStep DEF Post
    <2>3. queue' \in Seq(Keys) /\ Len(queue') <= MaxQueue
      BY <1>3, <2>1, QueuedAppend DEF Post
    <2>4. worker' \in {Idle} \cup Task
      BY <1>3, <2>1 DEF Post
    <2> QED
      BY <1>3, <2>2, <2>3, <2>4 DEF Post
  <1>4. ASSUME NEW c \in Callers, Reject(c) PROVE TypeOK'
    BY <1>4 DEF Reject, At, Go
  <1>5. ASSUME NEW c \in Callers, Withdraw(c) PROVE TypeOK'
    BY <1>5 DEF Withdraw, At, Return, Report
  <1>6. CASE Start
    BY <1>6 DEF Start
  <1>7. ASSUME NextTask PROVE (worker \in {Idle} \cup Task /\ queue \in Seq(Keys) /\ Len(queue) <= MaxQueue)'
    <2>1. CASE queue = <<>>
      BY <1>7, <2>1 DEF NextTask
    <2>2. CASE queue # <<>>
      <3>1. queue' \in Seq(Keys) /\ Len(queue') <= MaxQueue
        BY <1>7, <2>2, QueuedTail DEF NextTask
      <3>2. Head(queue) \in Keys
        BY <2>2
      <3> QED
        BY <1>7, <2>2, <3>1, <3>2 DEF NextTask
    <2> QED
      BY <2>1, <2>2
  <1>8. CASE Broadcast
    BY <1>7, <1>8 DEF Broadcast
  <1>9. CASE BroadcastFails
    BY <1>7, <1>9 DEF BroadcastFails, Report
  <1>10. CASE Fork
    BY <1>10 DEF Fork
  <1>11. CASE Shutdown \/ Exit
    BY <1>11 DEF Shutdown, Exit
  <1>12. CASE ShutdownTimesOut
    BY <1>12 DEF ShutdownTimesOut
  <1>13. CASE UNCHANGED vars
    BY <1>13 DEF vars
  <1> QED
    BY <1>1, <1>2, <1>3, <1>4, <1>5, <1>6, <1>8, <1>9, <1>10, <1>11, <1>12, <1>13 DEF Next, Publish

\* The variables of the publisher keep their types; the queue its bound.
THEOREM TypeCorrect == Spec => []TypeOK
  BY TypeInit, TypeStep, PTL DEF Spec

-----------------------------------------------------------------------------
(* Who owns a key, before and after a step.                                *)

\* A thread about to publish holds no key yet.
LEMMA CommitPosting ==
  ASSUME TypeOK, NEW c \in Callers, NEW key \in Keys, Commit(c, key)
  PROVE  \A d \in Callers, k \in Keys : Posting(d, k)' <=> Posting(d, k)
  <1> TAKE d \in Callers, k \in Keys
  <1>1. CASE d = c
    <2>1. calls'[c] = [at |-> "committed", key |-> key] /\ calls[c].at = "idle"
      BY DEF TypeOK, Commit, At
    <2> QED
      BY <1>1, <2>1 DEF Posting
  <1>2. CASE d # c
    <2>1. calls'[d] = calls[d]
      BY <1>2 DEF TypeOK, Commit
    <2> QED
      BY <2>1 DEF Posting
  <1> QED
    BY <1>1, <1>2

\* A thread takes up a key, or keeps it on its way to withdrawing it.
LEMMA GoPosting ==
  ASSUME TypeOK, NEW c \in Callers, calls[c] \in Call,
         Go(c, "added") \/ Go(c, "rejected")
  PROVE  /\ \A d \in Callers, k \in Keys :
              Posting(d, k)' <=> IF d = c THEN k = calls[c].key ELSE Posting(d, k)
         /\ \A k \in Keys : (Unpublished(k)' <=>
              \E d \in Callers \ {c} : calls[d] = [at |-> "committed", key |-> k])
  <1>1. \A d \in Callers \ {c} : calls'[d] = calls[d]
    BY DEF TypeOK, Go
  <1>2. calls'[c] \in {[at |-> "added", key |-> calls[c].key], [at |-> "rejected", key |-> calls[c].key]}
    BY DEF TypeOK, Go
  <1> QED
    BY <1>1, <1>2 DEF Posting, Unpublished

\* A thread returns and holds no key.
LEMMA ReturnPosting ==
  ASSUME TypeOK, NEW c \in Callers, calls[c] \in Call, Return(c)
  PROVE  /\ \A d \in Callers, k \in Keys : Posting(d, k)' <=> d # c /\ Posting(d, k)
         /\ \A k \in Keys : (Unpublished(k)' <=>
              \E d \in Callers \ {c} : calls[d] = [at |-> "committed", key |-> k])
  <1>1. \A d \in Callers \ {c} : calls'[d] = calls[d]
    BY DEF TypeOK, Return
  <1>2. calls'[c] = [at |-> "idle"]
    BY DEF TypeOK, Return, Idle
  <1> QED
    BY <1>1, <1>2 DEF Posting, Unpublished

\* The threads stay where they are.
LEMMA NobodyMoves ==
  ASSUME calls' = calls
  PROVE  /\ \A d \in Callers, k \in Keys : Posting(d, k)' <=> Posting(d, k)
         /\ \A k \in Keys : Unpublished(k)' <=> Unpublished(k)
  BY DEF Posting, Unpublished

\* Queue and worker stay as they are.
LEMMA SameTasks ==
  ASSUME queue' = queue, worker' = worker
  PROVE  /\ Queued' = Queued
         /\ \A k : Taken(k)' <=> Taken(k)
  BY DEF Queued, Taken

Core == NoChangeForgotten /\ OneTaskPerKey /\ PendingIsOwned /\ QueueIsWorked

LEMMA CoreInit == Init => Core
  <1> SUFFICES ASSUME Init PROVE Core
    OBVIOUS
  <1>1. queue = <<>> /\ Len(queue) = 0 /\ Queued = {}
    <2>1. queue = <<>>
      BY DEF Init
    <2> QED
      BY <2>1, NoTasks DEF Queued
  <1>2. \A k \in Keys : ~Owned(k)
    BY <1>1 DEF Init, Owned, Taken, Posting, Idle
  <1>3. NoChangeForgotten
    BY DEF Init, NoChangeForgotten, Later
  <1>4. OneTaskPerKey
    <2>1. 1 .. Len(queue) = {}
      BY <1>1
    <2>2. \A k \in Keys, c \in Callers : ~Posting(c, k)
      BY <1>2 DEF Owned
    <2> QED
      BY <1>1, <2>1, <2>2 DEF OneTaskPerKey
  <1>5. PendingIsOwned
    BY <1>2 DEF Init, PendingIsOwned
  <1>6. QueueIsWorked
    BY DEF Init, QueueIsWorked
  <1> QED
    BY <1>3, <1>4, <1>5, <1>6 DEF Core

LEMMA CommitStep ==
  ASSUME TypeOK, Core, NEW c \in Callers, NEW k \in Keys, Commit(c, k)
  PROVE  Core'
  <1>1. /\ calls[c].at = "idle"
        /\ calls' = [calls EXCEPT ![c] = [at |-> "committed", key |-> k]]
    BY DEF Commit, At
  <1>2. \A d \in Callers, j \in Keys : Posting(d, j)' <=> Posting(d, j)
    BY CommitPosting
  <1>3. Queued' = Queued /\ \A j : Taken(j)' <=> Taken(j)
    BY SameTasks DEF Commit
  <1>4. \A j \in Keys : Owned(j)' <=> Owned(j)
    BY <1>2, <1>3 DEF Owned
  <1>5. Unpublished(k)' /\ \A j \in Keys \ {k} : Unpublished(j)' <=> Unpublished(j)
    BY <1>1 DEF TypeOK, Unpublished
  <1>6. version'[k] = version[k] + 1 /\ \A j \in Keys \ {k} : version'[j] = version[j]
    BY DEF TypeOK, Commit
  <1>7. NoChangeForgotten'
    BY <1>4, <1>5, <1>6 DEF Commit, Core, NoChangeForgotten, InFlight
  <1>8. OneTaskPerKey'
    BY <1>2, <1>3 DEF Commit, Core, OneTaskPerKey
  <1>9. PendingIsOwned'
    BY <1>4 DEF Commit, Core, PendingIsOwned
  <1>10. QueueIsWorked'
    BY <1>6 DEF Commit, Core, QueueIsWorked, TypeOK, Task, Idle
  <1> QED
    BY <1>7, <1>8, <1>9, <1>10 DEF Core

LEMMA AddStep ==
  ASSUME TypeOK, Core, NEW c \in Callers, Add(c)
  PROVE  Core'
  <1> DEFINE K == calls[c].key
             waiting == IF stale THEN {} ELSE pending
  <1>1. calls[c] \in Call /\ calls[c] = [at |-> "committed", key |-> K] /\ K \in Keys
    BY DEF TypeOK, Add, At, Call, Idle
  <1>2. executor # "killed"
    BY <1>1 DEF Core, QueueIsWorked, Idle
  <1>3. \A k \in Keys : k \in waiting <=> Owned(k)
    BY <1>2 DEF Core, PendingIsOwned
  <1>4. Queued' = Queued /\ \A k : Taken(k)' <=> Taken(k)
    BY SameTasks DEF Add
  <1>5. \A k \in Keys : InFlight(k)' <=> InFlight(k)
    BY DEF Add, InFlight
  <1>6. ~Posting(c, K) /\ \A k \in Keys : ~Posting(c, k)
    BY <1>1 DEF Posting
  <1>7. QueueIsWorked'
    BY <1>2 DEF Add, Core, QueueIsWorked
  <1>8. CASE K \in waiting
    <2>1. Return(c)
      BY <1>8 DEF Add
    <2>2. \A d \in Callers, k \in Keys : Posting(d, k)' <=> Posting(d, k)
      BY <1>1, <1>6, <2>1, ReturnPosting
    <2>3. \A k \in Keys : Owned(k)' <=> Owned(k)
      BY <1>4, <2>2 DEF Owned
    <2>4. \A k \in Keys \ {K} : Unpublished(k) => Unpublished(k)'
      BY <1>1, <2>1, ReturnPosting DEF Unpublished
    <2>5. NoChangeForgotten'
      BY <1>3, <1>5, <1>8, <2>3, <2>4 DEF Add, Core, NoChangeForgotten
    <2>6. OneTaskPerKey'
      BY <1>4, <2>2 DEF Add, Core, OneTaskPerKey
    <2>7. PendingIsOwned'
      BY <1>3, <1>8, <2>3 DEF Add, PendingIsOwned
    <2> QED
      BY <1>7, <2>5, <2>6, <2>7 DEF Core
  <1>9. CASE K \notin waiting
    <2>1. Go(c, "added")
      BY <1>9 DEF Add
    <2>2. \A d \in Callers, k \in Keys :
            Posting(d, k)' <=> IF d = c THEN k = K ELSE Posting(d, k)
      BY <1>1, <2>1, GoPosting
    <2>3. \A k \in Keys : Owned(k)' <=> (Owned(k) \/ k = K)
      BY <1>4, <1>6, <2>2 DEF Owned
    <2>4. \A k \in Keys \ {K} : Unpublished(k) => Unpublished(k)'
      BY <1>1, <2>1, GoPosting DEF Unpublished
    <2>5. NoChangeForgotten'
      BY <1>5, <2>3, <2>4 DEF Add, Core, NoChangeForgotten
    <2>6. ~Owned(K)
      BY <1>1, <1>3, <1>9
    <2>7. OneTaskPerKey'
      BY <1>4, <1>6, <2>2, <2>6 DEF Add, Core, OneTaskPerKey, Owned
    <2>8. PendingIsOwned'
      BY <1>3, <2>3 DEF Add, PendingIsOwned
    <2> QED
      BY <1>7, <2>5, <2>7, <2>8 DEF Core
  <1> QED
    BY <1>8, <1>9

\* What is known of a thread that holds a key.
LEMMA Holder ==
  ASSUME TypeOK, Core, NEW c \in Callers, calls[c].at \in {"added", "rejected"}
  PROVE  /\ calls[c] \in Call /\ calls[c].key \in Keys
         /\ executor # "killed" /\ ~stale
         /\ \A k \in Keys : Posting(c, k) <=> k = calls[c].key
         /\ \A k \in Keys : calls[c] # [at |-> "committed", key |-> k]
         /\ Owned(calls[c].key)
         /\ calls[c].key \notin Queued /\ ~Taken(calls[c].key)
         /\ \A d \in Callers : Posting(d, calls[c].key) => d = c
  <1>1. calls[c] \in Call /\ calls[c].key \in Keys
    BY DEF TypeOK, Call, Idle
  <1>2. \A k \in Keys : Posting(c, k) <=> k = calls[c].key
    BY <1>1 DEF Posting, Call
  <1>3. Owned(calls[c].key)
    BY <1>1, <1>2 DEF Owned
  <1>4. executor # "killed"
    BY <1>1 DEF Core, QueueIsWorked, Call, Idle
  <1>5. ~stale
    BY <1>1, <1>3, <1>4 DEF Core, PendingIsOwned
  <1>6. /\ calls[c].key \notin Queued /\ ~Taken(calls[c].key)
        /\ \A d \in Callers : Posting(d, calls[c].key) => d = c
    BY <1>1, <1>2 DEF Core, OneTaskPerKey
  <1> QED
    BY <1>1, <1>2, <1>3, <1>4, <1>5, <1>6

LEMMA PostStep ==
  ASSUME TypeOK, Core, NEW c \in Callers, Post(c)
  PROVE  Core'
  <1> DEFINE K == calls[c].key
  <1>1. calls[c].at = "added"
    BY DEF Post, At
  <1>2. /\ calls[c] \in Call /\ K \in Keys
        /\ executor # "killed" /\ ~stale
        /\ \A k \in Keys : Posting(c, k) <=> k = K
        /\ \A k \in Keys : calls[c] # [at |-> "committed", key |-> k]
        /\ Owned(K) /\ K \notin Queued /\ ~Taken(K)
        /\ \A d \in Callers : Posting(d, K) => d = c
    BY <1>1, Holder
  <1>3. \A d \in Callers, k \in Keys : Posting(d, k)' <=> d # c /\ Posting(d, k)
    BY <1>2, ReturnPosting DEF Post
  <1>4. \A k \in Keys : Unpublished(k) => Unpublished(k)'
    BY <1>2, ReturnPosting DEF Post, Unpublished
  <1>5. CASE worker = Idle
    <2>1. queue' = queue /\ worker' = [at |-> "taken", key |-> K, sent |-> 0]
      BY <1>5 DEF Post
    <2>2. queue = <<>> /\ Queued = {} /\ Queued' = {}
      <3>1. queue = <<>>
        BY <1>5 DEF Core, QueueIsWorked
      <3> QED
        BY <2>1, <3>1, NoTasks DEF Queued
    <2>3. \A k : Taken(k)' <=> k = K
      BY <2>1 DEF Taken, Idle
    <2>4. \A k : ~Taken(k) /\ ~InFlight(k)
      BY <1>5 DEF Taken, InFlight
    <2>5. \A k \in Keys : Owned(k)' <=> Owned(k)
      BY <1>2, <1>3, <2>2, <2>3, <2>4 DEF Owned
    <2>6. NoChangeForgotten'
      BY <1>4, <2>4, <2>5 DEF Post, Core, NoChangeForgotten
    <2>7. OneTaskPerKey'
      <3>1. \A i, j \in 1 .. Len(queue') : queue'[i] = queue'[j] => i = j
        BY <2>1 DEF Core, OneTaskPerKey
      <3> QED
        BY <1>2, <1>3, <2>2, <2>3, <3>1 DEF Core, OneTaskPerKey
    <2>8. PendingIsOwned'
      BY <2>5 DEF Post, Core, PendingIsOwned
    <2>9. QueueIsWorked'
      <3>1. worker' # Idle /\ worker'.sent = 0 /\ worker'.key = K
        BY <2>1 DEF Idle
      <3>2. version' = version /\ told' = told /\ lost' = lost /\ executor' = executor /\ version[K] \in Nat
        BY <1>2 DEF Post, TypeOK
      <3> QED
        BY <1>2, <3>1, <3>2 DEF Core, QueueIsWorked
    <2> QED
      BY <2>6, <2>7, <2>8, <2>9 DEF Core
  <1>6. CASE worker # Idle
    <2>1. worker' = worker /\ queue' = Append(queue, K)
      BY <1>6 DEF Post
    <2>2. /\ Len(queue') = Len(queue) + 1 /\ Len(queue) \in Nat
          /\ \A i \in 1 .. Len(queue) : queue'[i] = queue[i]
          /\ queue'[Len(queue) + 1] = K
          /\ Queued' = Queued \cup {K}
      BY <1>2, <2>1, QueuedAppend DEF TypeOK
    <2>3. \A k : Taken(k)' <=> Taken(k)
      BY <2>1 DEF Taken
    <2>4. \A k : InFlight(k)' <=> InFlight(k)
      BY <2>1 DEF Post, InFlight
    <2>5. \A k \in Keys : Owned(k)' <=> Owned(k)
      BY <1>2, <1>3, <2>2, <2>3 DEF Owned
    <2>6. NoChangeForgotten'
      BY <1>4, <2>4, <2>5 DEF Post, Core, NoChangeForgotten
    <2>7. OneTaskPerKey'
      <3>1. ASSUME NEW i \in 1 .. Len(queue'), NEW j \in 1 .. Len(queue'), queue'[i] = queue'[j]
            PROVE  i = j
        <4>1. \A m \in 1 .. Len(queue) : queue[m] # K
          BY <1>2 DEF Queued
        <4> QED
          BY <2>2, <3>1, <4>1 DEF Core, OneTaskPerKey
      <3> QED
        BY <1>2, <1>3, <2>2, <2>3, <3>1 DEF Core, OneTaskPerKey
    <2>8. PendingIsOwned'
      BY <2>5 DEF Post, Core, PendingIsOwned
    <2>9. QueueIsWorked'
      BY <1>2, <1>6, <2>1 DEF Post, Core, QueueIsWorked
    <2> QED
      BY <2>6, <2>7, <2>8, <2>9 DEF Core
  <1> QED
    BY <1>5, <1>6

LEMMA RejectStep ==
  ASSUME TypeOK, Core, NEW c \in Callers, Reject(c)
  PROVE  Core'
  <1> DEFINE K == calls[c].key
  <1>1. calls[c].at = "added"
    BY DEF Reject, At
  <1>2. /\ calls[c] \in Call
        /\ executor # "killed"
        /\ \A k \in Keys : Posting(c, k) <=> k = K
        /\ \A k \in Keys : calls[c] # [at |-> "committed", key |-> k]
    BY <1>1, Holder
  <1>3. \A d \in Callers, k \in Keys : Posting(d, k)' <=> Posting(d, k)
    BY <1>2, GoPosting DEF Reject
  <1>4. \A k \in Keys : Unpublished(k) => Unpublished(k)'
    BY <1>2, GoPosting DEF Reject, Unpublished
  <1>5. Queued' = Queued /\ \A k : Taken(k)' <=> Taken(k)
    BY SameTasks DEF Reject
  <1>6. \A k \in Keys : Owned(k)' <=> Owned(k)
    BY <1>3, <1>5 DEF Owned
  <1>7. NoChangeForgotten'
    BY <1>4, <1>6 DEF Reject, Core, NoChangeForgotten, InFlight
  <1>8. OneTaskPerKey'
    BY <1>3, <1>5 DEF Reject, Core, OneTaskPerKey
  <1>9. PendingIsOwned'
    BY <1>6 DEF Reject, Core, PendingIsOwned
  <1>10. QueueIsWorked'
    BY <1>2 DEF Reject, Core, QueueIsWorked
  <1> QED
    BY <1>7, <1>8, <1>9, <1>10 DEF Core

LEMMA WithdrawStep ==
  ASSUME TypeOK, Core, NEW c \in Callers, Withdraw(c)
  PROVE  Core'
  <1> DEFINE K == calls[c].key
  <1>1. calls[c].at = "rejected"
    BY DEF Withdraw, At
  <1>2. /\ calls[c] \in Call /\ K \in Keys
        /\ executor # "killed" /\ ~stale
        /\ \A k \in Keys : Posting(c, k) <=> k = K
        /\ \A k \in Keys : calls[c] # [at |-> "committed", key |-> k]
        /\ K \notin Queued /\ ~Taken(K)
        /\ \A d \in Callers : Posting(d, K) => d = c
    BY <1>1, Holder
  <1>3. \A d \in Callers, k \in Keys : Posting(d, k)' <=> d # c /\ Posting(d, k)
    BY <1>2, ReturnPosting DEF Withdraw
  <1>4. \A k \in Keys : Unpublished(k) => Unpublished(k)'
    BY <1>2, ReturnPosting DEF Withdraw, Unpublished
  <1>5. Queued' = Queued /\ \A k : Taken(k)' <=> Taken(k)
    BY SameTasks DEF Withdraw
  <1>6. \A k \in Keys : Owned(k)' <=> Owned(k) /\ k # K
    BY <1>2, <1>3, <1>5 DEF Owned
  <1>7. /\ lost'[K] = version[K] /\ \A k \in Keys \ {K} : lost'[k] = lost[k]
    BY <1>2 DEF Withdraw, Report, Later, Core, QueueIsWorked, TypeOK
  <1>8. NoChangeForgotten'
    <2>1. ASSUME NEW k \in Keys \ {K}
          PROVE  Later(told[k], lost[k]) = version[k] \/ Unpublished(k)' \/ Owned(k)' \/ InFlight(k)'
      BY <1>4, <1>6 DEF Withdraw, Core, NoChangeForgotten, InFlight
    <2>2. Later(told[K], version[K]) = version[K]
      BY <1>2 DEF Core, QueueIsWorked, Later, TypeOK
    <2> QED
      BY <1>7, <2>1, <2>2 DEF Withdraw, NoChangeForgotten, Later
  <1>9. OneTaskPerKey'
    BY <1>3, <1>5 DEF Withdraw, Core, OneTaskPerKey
  <1>10. PendingIsOwned'
    BY <1>2, <1>6 DEF Withdraw, Core, PendingIsOwned
  <1>11. QueueIsWorked'
    <2>1. \A k \in Keys : version[k] \in Nat /\ lost[k] \in Nat
      BY DEF TypeOK
    <2>2. \A k \in Keys : lost'[k] <= version[k]
      BY <1>2, <1>7, <2>1 DEF Core, QueueIsWorked
    <2> QED
      BY <1>2, <2>2 DEF Withdraw, Core, QueueIsWorked
  <1> QED
    BY <1>8, <1>9, <1>10, <1>11 DEF Core

LEMMA StartStep ==
  ASSUME TypeOK, Core, Start
  PROVE  Core'
  <1> DEFINE K == worker.key
  <1>1. worker # Idle /\ worker \in Task /\ K \in Keys /\ Taken(K)
    BY DEF Start, Taken, TypeOK, Task, Idle
  <1>2. worker' = [at |-> "sending", key |-> K, sent |-> version[K]]
    BY DEF Start
  <1>3. \A k : ~Taken(k)'
    BY <1>2 DEF Taken
  <1>4. Queued' = Queued /\ queue' = queue
    BY DEF Start, Queued
  <1>5. \A d \in Callers, k \in Keys : Posting(d, k)' <=> Posting(d, k)
    BY NobodyMoves DEF Start
  <1>6. \A k \in Keys : Unpublished(k)' <=> Unpublished(k)
    BY NobodyMoves DEF Start
  <1>7. K \notin Queued /\ \A d \in Callers : ~Posting(d, K)
    BY <1>1 DEF Core, OneTaskPerKey
  <1>8. \A k \in Keys : Taken(k) <=> k = K
    BY <1>1 DEF Taken
  <1>9. \A k \in Keys : Owned(k)' <=> Owned(k) /\ k # K
    BY <1>3, <1>4, <1>5, <1>7, <1>8 DEF Owned
  <1>10. executor # "killed" /\ ~stale
    BY <1>1 DEF Core, QueueIsWorked, PendingIsOwned, Owned
  <1>11. NoChangeForgotten'
    <2>1. InFlight(K)'
      BY <1>2 DEF Start, InFlight, Idle
    <2>2. \A k \in Keys : ~InFlight(k)
      BY <1>1 DEF InFlight, Taken
    <2> QED
      BY <1>6, <1>9, <2>1, <2>2 DEF Start, Core, NoChangeForgotten
  <1>12. OneTaskPerKey'
    BY <1>3, <1>4, <1>5 DEF Core, OneTaskPerKey
  <1>13. PendingIsOwned'
    BY <1>1, <1>9, <1>10 DEF Start, Core, PendingIsOwned
  <1>14. QueueIsWorked'
    <2>1. worker'.sent = version[K] /\ worker'.key = K /\ worker' # Idle /\ version[K] \in Nat
      BY <1>1, <1>2 DEF Idle, TypeOK
    <2> QED
      BY <1>10, <2>1 DEF Start, Core, QueueIsWorked
  <1> QED
    BY <1>11, <1>12, <1>13, <1>14 DEF Core

\* The end of a broadcast, whichever way it ended: what was in flight is told
\* or reported, and the worker takes the next task.
LEMMA FinishStep ==
  ASSUME TypeOK, Core, worker.at = "sending", NextTask,
         UNCHANGED <<pending, calls, executor, stale, version>>,
         \/ /\ told' = [told EXCEPT ![worker.key] = Later(@, worker.sent)]
            /\ lost' = lost
         \/ /\ lost' = [lost EXCEPT ![worker.key] = Later(@, worker.sent)]
            /\ told' = told
  PROVE  Core'
  <1> DEFINE K == worker.key
  <1>1. worker # Idle /\ worker \in Task /\ K \in Keys
    BY DEF TypeOK, Task, Idle
  <1>2. \A k : ~Taken(k)
    BY DEF Taken
  <1>3. \A d \in Callers, k \in Keys : Posting(d, k)' <=> Posting(d, k)
    BY NobodyMoves
  <1>4. \A k \in Keys : Unpublished(k)' <=> Unpublished(k)
    BY NobodyMoves
  <1>5. executor # "killed"
    BY <1>1 DEF Core, QueueIsWorked
  <1>6. \A k : ~InFlight(k)'
    BY DEF NextTask, InFlight, Idle
  <1>7. \A k \in Keys : /\ version[k] \in Nat /\ told[k] \in Nat /\ lost[k] \in Nat
                       /\ told[k] <= version[k] /\ lost[k] <= version[k]
    BY DEF TypeOK, Core, QueueIsWorked
  <1>8. worker.sent \in Nat /\ worker.sent <= version[K]
    BY <1>1 DEF Task, Core, QueueIsWorked
  <1>9. \A k \in Keys : told'[k] <= version[k] /\ lost'[k] <= version[k]
    BY <1>1, <1>7, <1>8 DEF TypeOK, Later
  <1>10. ASSUME NEW k \in Keys, Later(told[k], lost[k]) = version[k] \/ InFlight(k)
         PROVE  Later(told'[k], lost'[k]) = version[k]
    <2>1. CASE k = K
      BY <1>1, <1>7, <1>8, <1>10, <2>1 DEF TypeOK, Later, InFlight
    <2>2. CASE k # K
      <3>1. told'[k] = told[k] /\ lost'[k] = lost[k]
        BY <2>2 DEF TypeOK
      <3> QED
        BY <1>10, <2>2, <3>1 DEF InFlight
    <2> QED
      BY <2>1, <2>2
  <1>11. ASSUME \A k \in Keys : Owned(k)' <=> Owned(k)
         PROVE  NoChangeForgotten' /\ PendingIsOwned'
    BY <1>4, <1>10, <1>11 DEF Core, NoChangeForgotten, PendingIsOwned
  <1>12. CASE queue = <<>>
    <2>1. worker' = Idle /\ queue' = queue
      BY <1>12 DEF NextTask
    <2>2. Queued' = Queued /\ \A k : ~Taken(k)'
      BY <2>1 DEF Queued, Taken
    <2>3. \A k \in Keys : Owned(k)' <=> Owned(k)
      BY <1>2, <1>3, <2>2 DEF Owned
    <2>4. OneTaskPerKey'
      BY <1>3, <2>1, <2>2 DEF Core, OneTaskPerKey
    <2>5. QueueIsWorked'
      BY <1>5, <1>9, <1>12, <2>1 DEF QueueIsWorked
    <2> QED
      BY <1>11, <2>3, <2>4, <2>5 DEF Core
  <1>13. CASE queue # <<>>
    <2>1. queue' = Tail(queue) /\ worker' = [at |-> "taken", key |-> Head(queue), sent |-> 0]
      BY <1>13 DEF NextTask
    <2>2. /\ Len(queue) \in Nat
          /\ Len(queue') = Len(queue) - 1
          /\ \A i \in 1 .. Len(queue') : i + 1 \in 1 .. Len(queue) /\ queue'[i] = queue[i + 1]
          /\ Head(queue) = queue[1] /\ 1 \in 1 .. Len(queue)
          /\ Queued = Queued' \cup {Head(queue)}
      BY <1>13, <2>1, QueuedTail DEF TypeOK
    <2>3. \A k : Taken(k)' <=> k = Head(queue)
      BY <2>1 DEF Taken, Idle
    <2>4. \A k \in Keys : Owned(k)' <=> Owned(k)
      BY <1>2, <1>3, <2>2, <2>3 DEF Owned
    <2>5. Head(queue) \notin Queued'
      BY <2>2 DEF Queued, Core, OneTaskPerKey
    <2>6. OneTaskPerKey'
      <3>1. ASSUME NEW i \in 1 .. Len(queue'), NEW j \in 1 .. Len(queue'), queue'[i] = queue'[j]
            PROVE  i = j
        <4>1. i + 1 = j + 1
          BY <2>2, <3>1 DEF Core, OneTaskPerKey
        <4> QED
          BY <4>1
      <3> QED
        BY <1>3, <2>2, <2>3, <2>5, <3>1 DEF Core, OneTaskPerKey
    <2>7. QueueIsWorked'
      <3>1. worker' # Idle /\ worker'.sent = 0 /\ worker'.key \in Keys
        BY <1>13, <2>1 DEF Idle, TypeOK
      <3> QED
        BY <1>5, <1>7, <1>9, <3>1 DEF QueueIsWorked
    <2> QED
      BY <1>11, <2>4, <2>6, <2>7 DEF Core
  <1> QED
    BY <1>12, <1>13

\* Fork and the end of the process leave no task and no caller.
LEMMA EndStep ==
  ASSUME TypeOK, Core, Fork \/ ShutdownTimesOut
  PROVE  Core'
  <1>1. queue' = <<>> /\ worker' = Idle /\ \A c \in Callers : calls'[c] = Idle
    BY DEF Fork, ShutdownTimesOut
  <1>2. Queued' = {} /\ Len(queue') = 0
    BY <1>1, NoTasks DEF Queued
  <1>3. \A k \in Keys : ~Owned(k)'
    BY <1>1, <1>2 DEF Owned, Taken, Posting, Idle
  <1>4. \A k \in Keys : version[k] \in Nat /\ told[k] \in Nat /\ lost[k] \in Nat
                       /\ told[k] <= version[k] /\ lost[k] <= version[k]
    BY DEF TypeOK, Core, QueueIsWorked
  <1>5. NoChangeForgotten'
    BY <1>4 DEF Fork, ShutdownTimesOut, NoChangeForgotten, Later
  <1>6. OneTaskPerKey'
    <2>1. 1 .. Len(queue') = {}
      BY <1>2
    <2>2. \A k \in Keys, c \in Callers : ~Posting(c, k)'
      BY <1>3 DEF Owned
    <2> QED
      BY <1>2, <2>1, <2>2 DEF OneTaskPerKey
  <1>7. PendingIsOwned'
    BY <1>3 DEF Fork, ShutdownTimesOut, PendingIsOwned
  <1>8. QueueIsWorked'
    BY <1>1, <1>4 DEF Fork, ShutdownTimesOut, QueueIsWorked
  <1> QED
    BY <1>5, <1>6, <1>7, <1>8 DEF Core

LEMMA CoreStep == TypeOK /\ Core /\ [Next]_vars => Core'
  <1> SUFFICES ASSUME TypeOK, Core, [Next]_vars PROVE Core'
    OBVIOUS
  <1>1. CASE Broadcast
    BY <1>1, FinishStep DEF Broadcast
  <1>2. CASE BroadcastFails
    BY <1>2, FinishStep DEF BroadcastFails, Report
  <1>3. CASE Shutdown \/ Exit \/ UNCHANGED vars
    <2>1. UNCHANGED <<pending, queue, worker, calls, stale, version, told, lost>>
      BY <1>3 DEF Shutdown, Exit, vars
    <2>2. executor' = executor \/ (executor # "killed" /\ executor' # "killed")
      BY <1>3 DEF Shutdown, Exit, vars
    <2>3. Queued' = Queued /\ (\A k : Taken(k)' <=> Taken(k))
          /\ \A d \in Callers, k \in Keys : Posting(d, k)' <=> Posting(d, k)
      BY <2>1, SameTasks, NobodyMoves
    <2>4. \A k \in Keys : (Owned(k)' <=> Owned(k)) /\ (Unpublished(k)' <=> Unpublished(k))
                          /\ (InFlight(k)' <=> InFlight(k))
      BY <2>1, <2>3, NobodyMoves DEF Owned, InFlight
    <2>5. NoChangeForgotten' /\ PendingIsOwned'
      BY <2>1, <2>2, <2>4 DEF Core, NoChangeForgotten, PendingIsOwned
    <2>6. OneTaskPerKey'
      BY <2>1, <2>3 DEF Core, OneTaskPerKey
    <2>7. QueueIsWorked'
      BY <2>1, <2>2 DEF Core, QueueIsWorked
    <2> QED
      BY <2>5, <2>6, <2>7 DEF Core
  <1> QED
    BY <1>1, <1>2, <1>3, CommitStep, AddStep, PostStep, RejectStep, WithdrawStep, StartStep,
      EndStep DEF Next, Publish

\* Coalescing loses no change, for any number of threads and topics and any
\* length of the queue, through forks, overflow, failed broadcasts and shutdown.
THEOREM NoChangeIsForgotten == Spec => []NoChangeForgotten
  <1>1. TypeOK /\ Core => NoChangeForgotten
    BY DEF Core
  <1> QED
    BY <1>1, TypeInit, TypeStep, CoreInit, CoreStep, PTL DEF Spec

\* A topic waits at most once.
THEOREM EachKeyHasOneTask == Spec => []OneTaskPerKey
  <1>1. TypeOK /\ Core => OneTaskPerKey
    BY DEF Core
  <1> QED
    BY <1>1, TypeInit, TypeStep, CoreInit, CoreStep, PTL DEF Spec

=============================================================================
