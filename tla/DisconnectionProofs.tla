------------------------ MODULE DisconnectionProofs ------------------------
(* Proofs about the two parts of a disconnection, each on its own: the outbox *)
(* of SessionDisconnects, for any intents, sessions, jobs, number of attempts  *)
(* and number of faults, and the WebSockets of Cable, for any sessions,        *)
(* connections and number of restarts.  RevocationProofs puts them together.   *)
EXTENDS SessionDisconnects, TLAPS

CONSTANTS Connections, MaxRestarts

VARIABLES rows, removed, owed, accepted, admin, sockets, commands, restarts

\* The server as Cable describes it.
Hub == INSTANCE Cable

USE ConstantsAssumption

LEMMA TypeInit == Init => TypeOK
BY DEF Init, TypeOK, Job, NoJob, Waiting, Enqueued

LEMMA PutTyped ==
  ASSUME TypeOK, NEW j \in Jobs, NEW job \in Job, Put(j, job)
  PROVE  jobs' \in [Jobs -> Job]
BY DEF TypeOK, Put

\* The place of a job tells how often it can have been performed.
LEMMA JobKinds ==
  ASSUME TypeOK, NEW j \in Jobs
  PROVE  /\ jobs[j].at \in {"ready", "scheduled"} => jobs[j] \in Waiting
         /\ jobs[j].at \in {"performing", "publishing"} => jobs[j] \in Running
BY DEF TypeOK, NoJob, Job, Waiting, Running

LEMMA EnqueueTyped ==
  ASSUME TypeOK, NEW i \in Intents, Enqueue(i) \/ EnqueueRejected
  PROVE  jobs' \in [Jobs -> Job] /\ faults' \in 0 .. MaxFaults
<1>1. Enqueued(i) \in Job
  BY DEF Enqueued, Job, Waiting
<1> QED
  BY <1>1, PutTyped DEF Enqueue, EnqueueRejected, Fault, TypeOK

LEMMA TypeStep == TypeOK /\ [Next]_vars => TypeOK'
<1> SUFFICES ASSUME TypeOK, [Next]_vars PROVE TypeOK'
  OBVIOUS
<1>1. NoJob \in Job
  BY DEF Job
<1>2. ASSUME NEW i \in Intents, NEW ids \in SUBSET Sessions, Committed(i, ids)
      PROVE  TypeOK'
  BY <1>2 DEF Committed, TypeOK
<1>3. ASSUME NEW i \in Intents, AfterCommit(i) \/ DispatchPending(i)
      PROVE  TypeOK'
  BY <1>3, EnqueueTyped DEF AfterCommit, DispatchPending, TypeOK
<1>4. ASSUME NEW i \in Intents, LoseCallback(i)
      PROVE  TypeOK'
  BY <1>4 DEF LoseCallback, Fault, TypeOK
<1>5. CASE LoadPending
  BY <1>5 DEF LoadPending, TypeOK
<1>6. ASSUME NEW j \in Jobs, Claim(j)
      PROVE  TypeOK'
  <2>1. jobs[j] \in Waiting
    BY <1>6, JobKinds DEF Claim, At
  <2>2. [Stage(j, "performing", {}) EXCEPT !.executions = @ + 1] \in Job
    BY <2>1 DEF Stage, Waiting, Running, Job
  <2> QED
    BY <1>6, <2>2, PutTyped DEF Claim, TypeOK
<1>7. ASSUME NEW j \in Jobs, FindIntent(j)
      PROVE  TypeOK'
  <2>1. jobs[j] \in Running
    BY <1>7, JobKinds DEF FindIntent, At
  <2>2. \A todo \in SUBSET Sessions : Stage(j, "publishing", todo) \in Job
    BY <2>1 DEF Stage, Running, Job
  <2> QED
    BY <1>1, <1>7, <2>2, PutTyped DEF FindIntent, TypeOK
<1>8. ASSUME NEW j \in Jobs, NEW s \in Sessions, Publish(j, s)
      PROVE  TypeOK'
  <2>1. jobs[j] \in Running
    BY <1>8, JobKinds DEF Publish, At
  <2>2. Stage(j, "publishing", jobs[j].todo \ {s}) \in Job
    BY <2>1 DEF Stage, Running, Job
  <2> QED
    BY <1>8, <2>2, PutTyped DEF Publish, TypeOK
<1>9. ASSUME NEW j \in Jobs, NEW s \in Sessions, NEW delivered \in BOOLEAN,
             PublishTimesOut(j, s, delivered)
      PROVE  TypeOK'
  <2>1. jobs[j] \in Running
    BY <1>9, JobKinds DEF PublishTimesOut, At
  <2>2. jobs[j].executions < Attempts => Stage(j, "scheduled", {}) \in Job
    BY <2>1 DEF Stage, Running, Waiting, Job
  <2>3. jobs' \in [Jobs -> Job]
    BY <1>1, <1>9, <2>2, PutTyped DEF PublishTimesOut
  <2> QED
    BY <1>9, <2>3 DEF PublishTimesOut, Fault, TypeOK
<1>10. ASSUME NEW j \in Jobs, Due(j)
       PROVE  TypeOK'
  <2>1. jobs[j] \in Waiting
    BY <1>10, JobKinds DEF Due, At
  <2>2. Stage(j, "ready", {}) \in Job
    BY <2>1 DEF Stage, Waiting, Job
  <2> QED
    BY <1>10, <2>2, PutTyped DEF Due, TypeOK
<1>11. ASSUME NEW j \in Jobs, Fail(j)
       PROVE  TypeOK'
  BY <1>1, <1>11, PutTyped DEF Fail, Fault, TypeOK
<1>12. ASSUME NEW j \in Jobs, Acknowledge(j)
       PROVE  TypeOK'
  BY <1>1, <1>12, PutTyped DEF Acknowledge, TypeOK
<1>13. CASE UNCHANGED vars
  BY <1>13 DEF vars, TypeOK
<1> QED
  BY <1>2, <1>3, <1>4, <1>5, <1>6, <1>7, <1>8, <1>9, <1>10, <1>11, <1>12, <1>13
     DEF Next, Revoke, Disconnecting, Perform

-----------------------------------------------------------------------------
(* Intents and the workers' lists                                          *)

LEMMA ListsStep ==
  Inductive /\ [Next]_vars => ListsAreComplete' /\ AcknowledgedIsPublished'
<1> SUFFICES ASSUME TypeOK, ListsAreComplete, AcknowledgedIsPublished, [Next]_vars
             PROVE  ListsAreComplete' /\ AcknowledgedIsPublished'
  BY DEF Inductive
<1> USE DEF ListsAreComplete, AcknowledgedIsPublished, At
<1>1. ASSUME NEW i \in Intents, NEW ids \in SUBSET Sessions, Committed(i, ids)
      PROVE  ListsAreComplete' /\ AcknowledgedIsPublished'
  <2>1. /\ covers[i] = {} /\ ids # {} /\ i \notin outbox
        /\ outbox' = outbox \cup {i}
        /\ covers' = [covers EXCEPT ![i] = ids]
        /\ jobs' = jobs /\ published' = published
    BY <1>1 DEF Committed
  <2>2. \A j \in Jobs : At(j, "publishing") => jobs[j].intent \in Intents \cup {NoIntent}
    BY JobKinds DEF Running
  <2> QED
    BY <2>1, <2>2 DEF TypeOK
<1>2. ASSUME NEW i \in Intents, AfterCommit(i) \/ DispatchPending(i) \/ LoseCallback(i)
      PROVE  ListsAreComplete' /\ AcknowledgedIsPublished'
  BY <1>2 DEF AfterCommit, DispatchPending, LoseCallback, Enqueue, EnqueueRejected,
       Enqueued, Put, TypeOK
<1>3. ASSUME NEW j \in Jobs, Claim(j) \/ Due(j) \/ Fail(j)
      PROVE  ListsAreComplete' /\ AcknowledgedIsPublished'
  BY <1>3 DEF Claim, Due, Fail, Put, Stage, NoJob, TypeOK
<1>4. ASSUME NEW j \in Jobs, FindIntent(j)
      PROVE  ListsAreComplete' /\ AcknowledgedIsPublished'
  BY <1>4 DEF FindIntent, Put, Stage, NoJob, TypeOK
<1>5. ASSUME NEW j \in Jobs, NEW s \in Sessions, NEW delivered \in BOOLEAN,
             Publish(j, s) \/ PublishTimesOut(j, s, delivered)
      PROVE  ListsAreComplete' /\ AcknowledgedIsPublished'
  BY <1>5 DEF Publish, PublishTimesOut, Put, Stage, NoJob, TypeOK
<1>6. ASSUME NEW j \in Jobs, Acknowledge(j)
      PROVE  ListsAreComplete' /\ AcknowledgedIsPublished'
  BY <1>6 DEF Acknowledge, Put, NoJob, TypeOK
<1>7. ASSUME UNCHANGED <<outbox, covers, jobs, published>>
      PROVE  ListsAreComplete' /\ AcknowledgedIsPublished'
  BY <1>7
<1> QED
  BY <1>1, <1>2, <1>3, <1>4, <1>5, <1>6, <1>7
     DEF Next, Revoke, Disconnecting, Perform, LoadPending, vars

LEMMA InductiveAlways == Spec => []Inductive
<1>1. Init => Inductive
  BY TypeInit DEF Init, Inductive, ListsAreComplete, AcknowledgedIsPublished, At, NoJob,
    Enqueued
<1>2. Inductive /\ [Next]_vars => Inductive'
  BY TypeStep, ListsStep DEF Inductive
<1> QED
  BY <1>1, <1>2, PTL DEF Spec

\* Every job is performed at most Attempts times, however its calls end.
THEOREM TypeCorrect == Spec => []TypeOK
<1>1. Inductive => TypeOK
  BY DEF Inductive
<1> QED
  BY InductiveAlways, <1>1, PTL

\* An intent goes only after AnyCable accepted the disconnect of every session it
\* names, with any number of jobs, duplicates, retries, crashes and lost callbacks.
THEOREM AcknowledgedIsAlwaysPublished == Spec => []AcknowledgedIsPublished
<1>1. Inductive => AcknowledgedIsPublished
  BY DEF Inductive
<1> QED
  BY InductiveAlways, <1>1, PTL

-----------------------------------------------------------------------------
(* WebSockets                                                              *)


LEMMA SocketsInit ==
  ASSUME Hub!ConstantsAssumption
  PROVE  Hub!Init => Hub!TypeOK
BY DEF Hub!ConstantsAssumption, Hub!Init, Hub!TypeOK

LEMMA SocketsTyped ==
  ASSUME Hub!TypeOK, NEW c \in Connections, NEW socket \in {Hub!Closed} \cup Hub!Socket,
         Hub!Put(c, socket)
  PROVE  sockets' \in [Connections -> {Hub!Closed} \cup Hub!Socket]
BY DEF Hub!TypeOK, Hub!Put

LEMMA OpenSocket ==
  ASSUME Hub!TypeOK, NEW c \in Connections, ~Hub!At(c, "closed")
  PROVE  sockets[c] \in Hub!Socket
BY DEF Hub!TypeOK, Hub!At, Hub!Closed

LEMMA SocketsStep ==
  ASSUME Hub!ConstantsAssumption
  PROVE  Hub!TypeOK /\ [Hub!Next]_(Hub!vars) => Hub!TypeOK'
<1> USE DEF Hub!ConstantsAssumption
<1> SUFFICES ASSUME Hub!TypeOK, [Hub!Next]_(Hub!vars) PROVE Hub!TypeOK'
  OBVIOUS
<1> USE DEF Hub!rails
<1>1. ASSUME NEW s \in Sessions, Hub!SignedIn(s) \/ Hub!Accepted(s)
      PROVE  Hub!TypeOK'
  BY <1>1 DEF Hub!SignedIn, Hub!Accepted, Hub!TypeOK
<1>2. ASSUME NEW ids \in SUBSET Sessions,
             Hub!Revoked(ids) \/ Hub!Settled(ids) \/ Hub!AdminChanged(ids)
      PROVE  Hub!TypeOK'
  BY <1>2 DEF Hub!Revoked, Hub!Settled, Hub!AdminChanged, Hub!TypeOK
<1>3. ASSUME NEW c \in Connections, NEW s \in Sessions, Hub!Dial(c, s)
      PROVE  Hub!TypeOK'
  <2>1. [at |-> "connecting", session |-> s, granted |-> {}, streams |-> {}]
          \in Hub!Socket
    BY DEF Hub!Socket
  <2> QED
    BY <1>3, <2>1, SocketsTyped DEF Hub!Dial, Hub!TypeOK
<1>4. ASSUME NEW c \in Connections, Hub!Connect(c) \/ Hub!Register(c) \/ Hub!HangUp(c)
      PROVE  Hub!TypeOK'
  <2>1. sockets[c] \in Hub!Socket
    BY <1>4, OpenSocket DEF Hub!Connect, Hub!Register, Hub!HangUp, Hub!At
  <2>2. \A place \in {"accepted", "open"} : Hub!Opening(c, place) \in Hub!Socket
    BY <2>1 DEF Hub!Opening, Hub!Socket
  <2> QED
    BY <1>4, <2>2, SocketsTyped DEF Hub!Connect, Hub!Register, Hub!HangUp, Hub!TypeOK
<1>5. ASSUME NEW c \in Connections, NEW name \in Hub!Names, Hub!Subscribe(c, name)
      PROVE  Hub!TypeOK'
  <2>1. sockets[c] \in Hub!Socket
    BY <1>5, OpenSocket DEF Hub!Subscribe, Hub!At
  <2>2. \A more \in SUBSET Hub!Streams :
          [sockets[c] EXCEPT !.granted = @ \cup more] \in Hub!Socket
    BY <2>1 DEF Hub!Socket
  <2> QED
    BY <1>5, <2>2, SocketsTyped DEF Hub!Subscribe, Hub!Streams, Hub!TypeOK
<1>6. ASSUME NEW c \in Connections, Hub!Stream(c)
      PROVE  Hub!TypeOK'
  <2>1. sockets[c] \in Hub!Socket
    BY <1>6, OpenSocket DEF Hub!Stream, Hub!At
  <2>2. [at |-> "open", session |-> sockets[c].session, granted |-> {},
         streams |-> sockets[c].streams \cup sockets[c].granted] \in Hub!Socket
    BY <2>1 DEF Hub!Socket
  <2> QED
    BY <1>6, <2>2, SocketsTyped DEF Hub!Stream, Hub!TypeOK
<1>7. ASSUME NEW s \in Sessions, Hub!Disconnect(s)
      PROVE  Hub!TypeOK'
  BY <1>7 DEF Hub!Disconnect, Hub!TypeOK
<1>8. CASE Hub!Restart
  BY <1>8 DEF Hub!Restart, Hub!TypeOK
<1>9. CASE UNCHANGED Hub!vars
  BY <1>9 DEF Hub!vars, Hub!TypeOK
<1> QED
  BY <1>1, <1>2, <1>3, <1>4, <1>5, <1>6, <1>7, <1>8, <1>9
     DEF Hub!Next, Hub!Application, Hub!Server

LEMMA ListenersStep ==
  Hub!TypeOK /\ Hub!ListenersAreOwed /\ [Hub!Next]_(Hub!vars) => Hub!ListenersAreOwed'
<1> SUFFICES ASSUME Hub!TypeOK, Hub!ListenersAreOwed, [Hub!Next]_(Hub!vars)
             PROVE  Hub!ListenersAreOwed'
  OBVIOUS
<1> USE DEF Hub!ListenersAreOwed, Hub!Listening, Hub!At, Hub!rails
<1>1. ASSUME NEW s \in Sessions, Hub!SignedIn(s) \/ Hub!Accepted(s)
      PROVE  Hub!ListenersAreOwed'
  BY <1>1 DEF Hub!SignedIn, Hub!Accepted
<1>2. ASSUME NEW ids \in SUBSET Sessions,
             Hub!Revoked(ids) \/ Hub!Settled(ids) \/ Hub!AdminChanged(ids)
      PROVE  Hub!ListenersAreOwed'
  BY <1>2 DEF Hub!Revoked, Hub!Settled, Hub!AdminChanged, Hub!TypeOK
<1>3. ASSUME NEW c \in Connections,
             \/ \E s \in Sessions : Hub!Dial(c, s)
             \/ Hub!Connect(c) \/ Hub!Register(c) \/ Hub!HangUp(c)
      PROVE  Hub!ListenersAreOwed'
  BY <1>3 DEF Hub!Dial, Hub!Connect, Hub!Register, Hub!HangUp, Hub!Put, Hub!Opening,
    Hub!Closed, Hub!TypeOK
<1>4. ASSUME NEW c \in Connections, NEW name \in Hub!Names, Hub!Subscribe(c, name)
      PROVE  Hub!ListenersAreOwed'
  <2>1. sockets[c] \in Hub!Socket
    BY <1>4, OpenSocket DEF Hub!Subscribe
  <2>2. /\ sockets'[c].session \in rows
        /\ \A d \in Connections : d # c => sockets'[d] = sockets[d]
    BY <1>4, <2>1 DEF Hub!Subscribe, Hub!Put, Hub!TypeOK, Hub!Socket
  <2> QED
    BY <1>4, <2>2 DEF Hub!Subscribe
<1>5. ASSUME NEW c \in Connections, Hub!Stream(c)
      PROVE  Hub!ListenersAreOwed'
  <2>1. sockets[c] \in Hub!Socket
    BY <1>5, OpenSocket DEF Hub!Stream
  <2>2. /\ sockets'[c].session = sockets[c].session
        /\ \A d \in Connections : d # c => sockets'[d] = sockets[d]
    BY <1>5, <2>1 DEF Hub!Stream, Hub!Put, Hub!TypeOK
  <2>3. sockets[c].granted \cup sockets[c].streams # {}
    BY <1>5 DEF Hub!Stream
  <2> QED
    BY <1>5, <2>2, <2>3 DEF Hub!Stream
<1>6. ASSUME NEW s \in Sessions, Hub!Disconnect(s)
      PROVE  Hub!ListenersAreOwed'
  BY <1>6 DEF Hub!Disconnect, Hub!Closed, Hub!TypeOK
<1>7. CASE Hub!Restart
  BY <1>7 DEF Hub!Restart, Hub!Closed
<1>8. CASE UNCHANGED Hub!vars
  BY <1>8 DEF Hub!vars
<1> QED
  BY <1>1, <1>2, <1>3, <1>4, <1>5, <1>6, <1>7, <1>8
     DEF Hub!Next, Hub!Application, Hub!Server

LEMMA ListenersAlways ==
  ASSUME Hub!ConstantsAssumption
  PROVE  Hub!Spec => [](Hub!TypeOK /\ Hub!ListenersAreOwed)
<1>1. Hub!Init => Hub!TypeOK /\ Hub!ListenersAreOwed
  BY SocketsInit DEF Hub!Init, Hub!ListenersAreOwed, Hub!Listening, Hub!At, Hub!Closed
<1>2. Hub!TypeOK /\ Hub!ListenersAreOwed /\ [Hub!Next]_(Hub!vars)
        => (Hub!TypeOK /\ Hub!ListenersAreOwed)'
  BY SocketsStep, ListenersStep
<1> QED
  BY <1>1, <1>2, PTL DEF Hub!Spec

\* Every variable keeps its type; in particular no session with a row is owed, or
\* was ever accepted for disconnection.
THEOREM SocketsTypeCorrect ==
  ASSUME Hub!ConstantsAssumption
  PROVE  Hub!Spec => []Hub!TypeOK
BY ListenersAlways, PTL

\* For any number of browsers, sessions and restarts of AnyCable: a stream of a
\* revoked session stays open only while somebody still has to close it.
THEOREM StreamsOfRevokedAreAlwaysOwed ==
  ASSUME Hub!ConstantsAssumption
  PROVE  Hub!Spec => []Hub!StreamsOfRevokedAreOwed
<1>1. Hub!ListenersAreOwed => Hub!StreamsOfRevokedAreOwed
  BY DEF Hub!ListenersAreOwed, Hub!StreamsOfRevokedAreOwed
<1> QED
  BY ListenersAlways, <1>1, PTL
=============================================================================
