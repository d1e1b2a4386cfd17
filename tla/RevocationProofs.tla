-------------------------- MODULE RevocationProofs --------------------------
(* Proofs about Revocation: the three parts keep the promises the others rely *)
(* on, for any values of the constants.                                     *)
EXTENDS Revocation, TLAPS

\* What is proved of the parts.
Signing == INSTANCE AuthenticationProofs
Parts == INSTANCE DisconnectionProofs WITH
  callbacks <- Callbacks, Legacy <- {}, removed <- Removed, owed <- Owed,
  accepted <- published

LEMMA Assumptions ==
  /\ Signing!ConstantsAssumption
  /\ Parts!ConstantsAssumption
  /\ Parts!Hub!ConstantsAssumption
BY PartsAssumption DEF Auth!ConstantsAssumption, Outbox!ConstantsAssumption,
   WebSockets!ConstantsAssumption, Signing!ConstantsAssumption, Parts!ConstantsAssumption,
   Parts!Hub!ConstantsAssumption

LEMMA SigningIsAuth ==
  [Auth!Next]_(Auth!vars) /\ Signing!Inductive => Signing!Inductive'
<1>1. /\ Auth!SessionsLeft <=> Signing!SessionsLeft
      /\ Auth!IntentsLeft <=> Signing!IntentsLeft
  BY Zenon DEF Auth!SessionsLeft, Signing!SessionsLeft, Auth!IntentsLeft, Signing!IntentsLeft,
    Auth!Cardinality, Signing!Cardinality
<1> USE DEF Auth!At, Auth!Goto, Auth!Release, Auth!Acquire, Auth!table, Auth!Idle, Auth!Token,
  Auth!Valid, Signing!At, Signing!Goto, Signing!Release, Signing!Acquire, Signing!table,
  Signing!Idle, Signing!Token, Signing!Valid
<1>2. \A t \in Threads : Auth!Arrive(t) => Signing!Arrive(t)
  BY <1>1 DEF Auth!Arrive, Auth!SignInLookup, Auth!ResetLookup, Auth!SignOutLookup,
    Signing!Arrive, Signing!SignInLookup, Signing!ResetLookup, Signing!SignOutLookup
<1>3. \A t \in Threads : Auth!Continue(t) => Signing!Continue(t)
  BY DEF Auth!Continue, Auth!SignInLock, Auth!SignInCommit, Auth!ResetLock, Auth!ResetUpdate,
    Auth!ResetPluck, Auth!ResetCommit, Auth!SignOutPluck, Auth!SignOutCommit,
    Auth!AfterCommit, Auth!SessionsOf, Auth!RevokeAll,
    Signing!Continue, Signing!SignInLock, Signing!SignInCommit, Signing!ResetLock,
    Signing!ResetUpdate, Signing!ResetPluck, Signing!ResetCommit, Signing!SignOutPluck,
    Signing!SignOutCommit, Signing!AfterCommit, Signing!SessionsOf, Signing!RevokeAll
<1>4. \A t \in Threads : Auth!Crash(t) => Signing!Crash(t)
  BY DEF Auth!Crash, Signing!Crash
<1>5. Auth!Next => Signing!Next
  BY <1>2, <1>3, <1>4 DEF Auth!Next, Auth!MailToken, Auth!ExpireToken, Auth!Acknowledged,
    Signing!Next, Signing!MailToken, Signing!ExpireToken, Signing!Acknowledged
<1>6. UNCHANGED Auth!vars => UNCHANGED Signing!vars
  BY DEF Auth!vars, Signing!vars
<1> QED
  BY <1>5, <1>6, Assumptions, Signing!InductiveStep

LEMMA PartsIsOutbox ==
  [Outbox!Next]_(Outbox!vars) /\ Parts!Inductive => Parts!Inductive'
<1> USE DEF Outbox!At, Outbox!Put, Outbox!Stage, Outbox!Fault, Outbox!Enqueued, Outbox!NoJob,
  Outbox!Enqueue, Outbox!EnqueueRejected, Parts!At, Parts!Put, Parts!Stage, Parts!Fault,
  Parts!Enqueued, Parts!NoJob, Parts!Enqueue, Parts!EnqueueRejected
<1>1. Outbox!Revoke => Parts!Revoke
  BY DEF Outbox!Revoke, Outbox!Committed, Parts!Revoke, Parts!Committed
<1>2. Outbox!Disconnecting => Parts!Disconnecting
  BY DEF Outbox!Disconnecting, Outbox!AfterCommit, Outbox!LoseCallback, Outbox!DispatchPending,
    Outbox!LoadPending, Outbox!Perform, Outbox!Fail, Outbox!Claim, Outbox!FindIntent,
    Outbox!Due, Outbox!Acknowledge, Outbox!Publish, Outbox!PublishTimesOut,
    Parts!Disconnecting, Parts!AfterCommit, Parts!LoseCallback, Parts!DispatchPending,
    Parts!LoadPending, Parts!Perform, Parts!Fail, Parts!Claim, Parts!FindIntent,
    Parts!Due, Parts!Acknowledge, Parts!Publish, Parts!PublishTimesOut
<1>3. [Outbox!Next]_(Outbox!vars) => [Parts!Next]_(Parts!vars)
  BY <1>1, <1>2 DEF Outbox!Next, Outbox!vars, Parts!Next, Parts!vars
<1> QED
  BY <1>3, Assumptions, Parts!TypeStep, Parts!ListsStep DEF Parts!Inductive

-----------------------------------------------------------------------------
(* The tables between the parts                                            *)

\* What the outbox names is revoked, and a callback is of an intent that was
\* drawn for its thread alone.
Linked ==
  /\ \A i \in Intents : covers[i] \subseteq Removed
  /\ \A j \in Jobs : Outbox!At(j, "publishing") => jobs[j].todo \subseteq Removed
  /\ \A t \in Threads : Auth!At(t, "afterCommit") =>
       /\ covers[thread[t].intent] # {}
       /\ \A u \in Threads :
            Auth!At(u, "afterCommit") /\ thread[u].intent = thread[t].intent => u = t

IInv == Signing!Inductive /\ Parts!Inductive /\ Linked

\* What a thread's step can do to what the other parts read.
SameCallbacks ==
  \A t \in Threads :
    thread'[t] = thread[t] \/ (~Auth!At(t, "afterCommit") /\ thread'[t].at # "afterCommit")

Quiet == UNCHANGED <<rows, owner, outbox, covers>> /\ SameCallbacks

Opens(s) ==
  /\ owner[s] = Nobody /\ rows' = rows \cup {s}
  /\ \E u \in Users : owner' = [owner EXCEPT ![s] = u]
  /\ UNCHANGED <<outbox, covers>> /\ SameCallbacks

Revokes(t, ids, i) ==
  /\ ids # {} /\ covers[i] = {} /\ \A s \in ids : owner[s] # Nobody
  /\ rows' = rows \ ids /\ outbox' = outbox \cup {i} /\ covers' = [covers EXCEPT ![i] = ids]
  /\ UNCHANGED owner
  /\ ~Auth!At(t, "afterCommit")
  /\ thread' = [thread EXCEPT ![t] = [at |-> "afterCommit", intent |-> i]]

LEMMA SameCallbacksMeans == SameCallbacks => Callbacks' = Callbacks
BY DEF SameCallbacks, Callbacks, Auth!At

LEMMA RevokeAllEffects ==
  ASSUME IInv, NEW t \in Threads, thread[t].at \in {"change", "destroy"},
         Auth!RevokeAll(t), UNCHANGED owner
  PROVE  Quiet \/ \E ids \in SUBSET Sessions, i \in Intents : Revokes(t, ids, i)
<1>1. /\ thread \in [Threads -> Signing!Request]
      /\ thread[t].plucked \in SUBSET Sessions
      /\ \A s \in thread[t].plucked : owner[s] # Nobody
  BY DEF IInv, Signing!Inductive, Signing!TypeOK, Signing!OnlyDrawnIds, Signing!Request,
    Signing!Reset, Signing!SignOut, Signing!SignIn, Signing!Idle, Signing!Callback
<1>2. CASE thread[t].plucked = {}
  BY <1>1, <1>2 DEF Auth!RevokeAll, Auth!Goto, Auth!Idle, Auth!At, Quiet, SameCallbacks
<1>3. CASE thread[t].plucked # {}
  <2>1. PICK i \in Intents : 
          /\ covers[i] = {} /\ outbox' = outbox \cup {i}
          /\ covers' = [covers EXCEPT ![i] = thread[t].plucked]
          /\ Auth!Goto(t, [at |-> "afterCommit", intent |-> i])
          /\ rows' = rows \ thread[t].plucked
    BY <1>3 DEF Auth!RevokeAll
  <2>2. Revokes(t, thread[t].plucked, i)
    BY <1>1, <1>3, <2>1 DEF Revokes, Auth!Goto, Auth!At
  <2> QED
    BY <1>1, <2>2
<1> QED
  BY <1>2, <1>3

LEMMA ThreadEffects ==
  ASSUME IInv, NEW t \in Threads, Auth!Arrive(t) \/ Auth!Continue(t), ~Auth!At(t, "afterCommit")
  PROVE  \/ Quiet
         \/ \E s \in Sessions : Opens(s)
         \/ \E ids \in SUBSET Sessions, i \in Intents : Revokes(t, ids, i)
<1>1. thread \in [Threads -> Signing!Request]
  BY DEF IInv, Signing!Inductive, Signing!TypeOK
<1> USE <1>1 DEF Auth!At, Auth!Goto, Auth!Idle, Auth!table
<1>2. CASE Auth!Arrive(t)
  BY <1>2 DEF Auth!Arrive, Auth!SignInLookup, Auth!ResetLookup, Auth!SignOutLookup, Quiet,
    SameCallbacks
<1>3. CASE Auth!SignInLock(t)
  BY <1>3 DEF Auth!SignInLock, Quiet, SameCallbacks
<1>4. ASSUME NEW r \in Signing!Request, Auth!Goto(t, r), r.at # "afterCommit"
      PROVE  SameCallbacks
  BY <1>4 DEF SameCallbacks
<1>5. CASE Auth!ResetLock(t) \/ Auth!ResetPluck(t) \/ Auth!ResetUpdate(t)
  <2>1. thread[t] \in Signing!Reset
    BY <1>5 DEF Auth!ResetLock, Auth!ResetPluck, Auth!ResetUpdate, Signing!Request,
      Signing!SignIn, Signing!Idle, Signing!Reset, Signing!SignOut, Signing!Callback
  <2>2. \A place \in {"update", "pluck"} :
          /\ [thread[t] EXCEPT !.at = place] \in Signing!Request
          /\ [thread[t] EXCEPT !.at = place].at # "afterCommit"
    BY <2>1 DEF Signing!Reset, Signing!Request
  <2>3. \A ids \in SUBSET Sessions :
          /\ [thread[t] EXCEPT !.at = "change", !.plucked = ids] \in Signing!Request
          /\ [thread[t] EXCEPT !.at = "change", !.plucked = ids].at # "afterCommit"
    BY <2>1 DEF Signing!Reset, Signing!Request
  <2>4. Auth!SessionsOf(thread[t].token.user) \in SUBSET Sessions
    BY DEF Auth!SessionsOf, IInv, Signing!Inductive, Signing!TypeOK
  <2>5. Auth!Idle \in Signing!Request /\ Auth!Idle.at # "afterCommit"
    BY DEF Signing!Request, Signing!Idle
  <2>6. SameCallbacks
    BY <1>4, <1>5, <2>2, <2>3, <2>4, <2>5
      DEF Auth!ResetLock, Auth!ResetPluck, Auth!ResetUpdate
  <2> QED
    BY <1>5, <2>6 DEF Auth!ResetLock, Auth!ResetPluck, Auth!ResetUpdate, Quiet
<1>9. CASE Auth!SignOutPluck(t)
  BY <1>9 DEF Auth!SignOutPluck, Quiet, SameCallbacks
<1>6. CASE Auth!SignInCommit(t)
  <2>1. thread[t].user \in Users
    BY <1>6 DEF Auth!SignInCommit, Signing!Request, Signing!SignIn, Signing!Idle,
      Signing!Reset, Signing!SignOut, Signing!Callback
  <2>2. SameCallbacks
    BY <1>6 DEF Auth!SignInCommit, SameCallbacks
  <2> QED
    BY <1>6, <2>1, <2>2 DEF Auth!SignInCommit, Opens
<1>7. CASE Auth!ResetCommit(t) \/ Auth!SignOutCommit(t)
  BY <1>7, RevokeAllEffects DEF Auth!ResetCommit, Auth!SignOutCommit
<1>8. CASE Auth!AfterCommit(t)
  BY <1>8 DEF Auth!AfterCommit
<1> QED
  BY <1>2, <1>3, <1>4, <1>5, <1>6, <1>7, <1>8, <1>9 DEF Auth!Continue

\* A request moves no queue and no socket.
LEMMA RequestEffects ==
  ASSUME IInv, Request
  PROVE  /\ UNCHANGED <<queue, cable>>
         /\ \/ Quiet
            \/ \E s \in Sessions : Opens(s)
            \/ \E t \in Threads, ids \in SUBSET Sessions, i \in Intents : Revokes(t, ids, i)
<1>1. ASSUME NEW t \in Threads, Auth!Arrive(t) \/ Auth!Continue(t), ~Auth!At(t, "afterCommit")
      PROVE  \/ Quiet
             \/ \E s \in Sessions : Opens(s)
             \/ \E u \in Threads, ids \in SUBSET Sessions, i \in Intents : Revokes(u, ids, i)
  BY <1>1, ThreadEffects
<1>2. ASSUME NEW t \in Threads, Auth!Arrive(t) PROVE ~Auth!At(t, "afterCommit")
  BY <1>2 DEF Auth!Arrive, Auth!SignInLookup, Auth!ResetLookup, Auth!SignOutLookup, Auth!At
<1>3. ASSUME \/ \E u \in Users : Auth!MailToken(u)
             \/ \E tok \in Auth!Token : Auth!ExpireToken(tok)
      PROVE  Quiet
  BY <1>3 DEF Auth!MailToken, Auth!ExpireToken, Auth!table, Quiet, SameCallbacks
<1> QED
  BY <1>1, <1>2, <1>3 DEF Request

\* Each step of the whole is a step of Authentication, or none.
LEMMA AuthStep == IInv /\ [Next]_vars => [Auth!Next]_(Auth!vars)
<1> SUFFICES ASSUME IInv, [Next]_vars PROVE [Auth!Next]_(Auth!vars)
  OBVIOUS
<1> USE DEF requests, tables, Auth!vars, Auth!table
<1>1. CASE Request
  BY <1>1 DEF Request, Auth!Next
<1>2. ASSUME NEW t \in Threads, AfterCommit(t) \/ Crash(t)
      PROVE  Auth!Next
  BY <1>2 DEF AfterCommit, Crash, Auth!Next, Auth!Continue
<1>3. CASE Dispatch
  BY <1>3 DEF Dispatch, Outbox!LoadPending, Outbox!DispatchPending, Outbox!Claim,
    Outbox!FindIntent, Outbox!Due, Outbox!Fail
<1>4. ASSUME NEW j \in Jobs, Acknowledge(j)
      PROVE  [Auth!Next]_(Auth!vars)
  <2>1. outbox \subseteq Intents
    BY DEF IInv, Signing!Inductive, Signing!TypeOK
  <2>2. CASE jobs[j].intent \in outbox
    BY <1>4, <2>1, <2>2 DEF Acknowledge, Outbox!Acknowledge, Auth!Next, Auth!Acknowledged
  <2>3. CASE jobs[j].intent \notin outbox
    BY <1>4, <2>3 DEF Acknowledge, Outbox!Acknowledge
  <2> QED
    BY <2>2, <2>3
<1>5. ASSUME NEW j \in Jobs, NEW s \in Sessions, NEW delivered \in BOOLEAN,
             Publish(j, s, delivered)
      PROVE  UNCHANGED Auth!vars
  BY <1>5 DEF Publish, Outbox!Publish, Outbox!PublishTimesOut
<1>6. CASE Connection \/ UNCHANGED vars
  BY <1>6 DEF Connection, vars
<1> QED
  BY <1>1, <1>2, <1>3, <1>4, <1>5, <1>6 DEF Next

\* Each step of the whole is a step of SessionDisconnects, or none: a commit is
\* Committed, and a crash is a lost callback when there was one.
LEMMA OutboxStep == IInv /\ [Next]_vars => [Outbox!Next]_(Outbox!vars)
<1> SUFFICES ASSUME IInv, [Next]_vars PROVE [Outbox!Next]_(Outbox!vars)
  OBVIOUS
<1>0. thread \in [Threads -> Signing!Request]
  BY DEF IInv, Signing!Inductive, Signing!TypeOK
<1> USE DEF Outbox!vars, queue
<1>1. CASE Request
  <2>1. CASE Quiet \/ \E s \in Sessions : Opens(s)
    BY <1>1, <2>1, RequestEffects, SameCallbacksMeans DEF Quiet, Opens
  <2>2. ASSUME NEW t \in Threads, NEW ids \in SUBSET Sessions, NEW i \in Intents,
               Revokes(t, ids, i)
        PROVE  Outbox!Next
    <3>1. Callbacks' = Callbacks \cup {i}
      BY <1>0, <2>2 DEF Revokes, Callbacks, Auth!At
    <3>2. Outbox!Committed(i, ids)
      BY <1>1, <2>2, <3>1, RequestEffects DEF Revokes, Outbox!Committed
    <3> QED
      BY <3>2 DEF Outbox!Next, Outbox!Revoke
  <2> QED
    BY <1>1, <2>1, <2>2, RequestEffects
<1>2. ASSUME NEW t \in Threads, AfterCommit(t) \/ Crash(t)
      PROVE  [Outbox!Next]_(Outbox!vars)
  <2>1. thread' = [thread EXCEPT ![t] = Auth!Idle] /\ UNCHANGED <<outbox, covers>>
    BY <1>2 DEF AfterCommit, Crash, Auth!AfterCommit, Auth!Crash, Auth!Goto, Auth!table
  <2>2. CASE ~Auth!At(t, "afterCommit")
    <3>1. SameCallbacks
      BY <1>0, <2>1, <2>2 DEF SameCallbacks, Auth!Idle, Auth!At
    <3>2. Callbacks' = Callbacks
      BY <3>1, SameCallbacksMeans
    <3> QED
      BY <1>2, <2>1, <2>2, <3>2 DEF AfterCommit, Crash
  <2>3. CASE Auth!At(t, "afterCommit")
    <3>1. thread[t].intent \in Intents
      BY <1>0, <2>3 DEF Auth!At, Signing!Request, Signing!SignIn, Signing!Idle, Signing!Reset,
        Signing!SignOut, Signing!Callback
    <3>2. Callbacks' = Callbacks \ {thread[t].intent} /\ thread[t].intent \in Callbacks
      BY <1>0, <2>1, <2>3 DEF Callbacks, Auth!At, Auth!Idle, IInv, Linked
    <3>3. Outbox!AfterCommit(thread[t].intent) \/ Outbox!LoseCallback(thread[t].intent)
      BY <1>2, <2>1, <2>3, <3>2 DEF AfterCommit, Crash, Outbox!AfterCommit,
        Outbox!LoseCallback, Outbox!EnqueueRejected
    <3> QED
      BY <3>1, <3>3 DEF Outbox!Next, Outbox!Disconnecting
  <2> QED
    BY <2>2, <2>3
<1>3. ASSUME thread' = thread PROVE Callbacks' = Callbacks
  BY <1>3 DEF Callbacks, Auth!At
<1>4. CASE Dispatch
  BY <1>3, <1>4 DEF Dispatch, requests, Outbox!Next, Outbox!Disconnecting, Outbox!Perform
<1>5. ASSUME NEW j \in Jobs, Acknowledge(j)
      PROVE  Outbox!Next
  BY <1>5 DEF Acknowledge, Outbox!Next, Outbox!Disconnecting, Outbox!Perform
<1>6. ASSUME NEW j \in Jobs, NEW s \in Sessions, NEW delivered \in BOOLEAN,
             Publish(j, s, delivered)
      PROVE  Outbox!Next
  BY <1>6 DEF Publish, Outbox!Next, Outbox!Disconnecting, Outbox!Perform
<1>7. CASE Connection \/ UNCHANGED vars
  BY <1>3, <1>7 DEF Connection, vars, requests, tables
<1> QED
  BY <1>1, <1>2, <1>4, <1>5, <1>6, <1>7 DEF Next

\* What a worker of the outbox does to the sessions it owes.
LEMMA AcknowledgeSettles ==
  ASSUME IInv, NEW j \in Jobs, Acknowledge(j)
  PROVE  /\ UNCHANGED <<rows, owner, published>>
         /\ Owed' \subseteq Owed
         /\ Owed \ Owed' \subseteq published
<1>1. /\ UNCHANGED <<rows, owner, published, covers>>
      /\ outbox' = outbox \ {jobs[j].intent}
      /\ jobs[j].at = "publishing" /\ jobs[j].todo = {}
  BY DEF Acknowledge, Outbox!Acknowledge, Outbox!At, requests
<1>2. NoIntent \notin outbox
  BY PartsAssumption DEF Outbox!ConstantsAssumption, IInv, Signing!Inductive, Signing!TypeOK
<1>3. jobs[j].intent \in outbox => covers[jobs[j].intent] \subseteq published
  BY <1>1, <1>2 DEF IInv, Parts!Inductive, Parts!ListsAreComplete, Parts!At
<1> QED
  BY <1>1, <1>3 DEF Owed

\* Each step of the whole is a step of Cable, or none.
LEMMA CableStep == IInv /\ [Next]_vars => [WebSockets!Next]_(WebSockets!vars)
<1> SUFFICES ASSUME IInv, [Next]_vars PROVE [WebSockets!Next]_(WebSockets!vars)
  OBVIOUS
<1>0. /\ rows \in SUBSET Sessions /\ owner \in [Sessions -> Users \cup {Nobody}]
      /\ covers \in [Intents -> SUBSET Sessions] /\ outbox \in SUBSET Intents
      /\ Nobody \notin Users
      /\ \A s \in Sessions : owner[s] = Nobody => s \notin rows
  BY PartsAssumption DEF IInv, Signing!Inductive, Signing!TypeOK, Signing!OnlyDrawnIds,
    Auth!ConstantsAssumption
<1> USE DEF WebSockets!vars, cable
<1>1. ASSUME UNCHANGED <<rows, owner>> PROVE Removed' = Removed
  BY <1>1 DEF Removed
<1>2. ASSUME UNCHANGED <<outbox, covers>> PROVE Owed' = Owed
  BY <1>2 DEF Owed
<1>3. CASE Request
  <2>1. UNCHANGED <<admin, sockets, commands, restarts, published>>
    BY <1>3, RequestEffects DEF queue
  <2>2. CASE Quiet
    BY <1>1, <1>2, <2>1, <2>2 DEF Quiet
  <2>3. ASSUME NEW s \in Sessions, Opens(s)
        PROVE  WebSockets!Next
    <3>1. Removed' = Removed /\ s \notin rows \cup Removed
      BY <1>0, <2>3 DEF Opens, Removed
    <3>2. WebSockets!SignedIn(s)
      BY <1>2, <2>1, <2>3, <3>1 DEF Opens, WebSockets!SignedIn
    <3> QED
      BY <3>2 DEF WebSockets!Next, WebSockets!Application
  <2>4. ASSUME NEW t \in Threads, NEW ids \in SUBSET Sessions, NEW i \in Intents,
               Revokes(t, ids, i)
        PROVE  WebSockets!Next
    <3>1. Removed' = Removed \cup ids /\ ids \subseteq rows \cup Removed
      BY <1>0, <2>4 DEF Revokes, Removed
    <3>2. Owed' = Owed \cup ids
      BY <1>0, <2>4 DEF Revokes, Owed
    <3>3. WebSockets!Revoked(ids)
      BY <2>1, <2>4, <3>1, <3>2 DEF Revokes, WebSockets!Revoked
    <3> QED
      BY <3>3 DEF WebSockets!Next, WebSockets!Application
  <2> QED
    BY <1>3, <2>2, <2>3, <2>4, RequestEffects
<1>4. ASSUME NEW t \in Threads, AfterCommit(t) \/ Crash(t)
      PROVE  UNCHANGED WebSockets!vars
  BY <1>1, <1>2, <1>4 DEF AfterCommit, Crash, Auth!AfterCommit, Auth!Crash, Auth!table
<1>5. CASE Dispatch
  <2>1. UNCHANGED <<outbox, covers, published>>
    BY <1>5 DEF Dispatch, Outbox!LoadPending, Outbox!DispatchPending, Outbox!Claim,
      Outbox!FindIntent, Outbox!Due, Outbox!Fail
  <2> QED
    BY <1>1, <1>2, <1>5, <2>1 DEF Dispatch, requests
<1>6. ASSUME NEW j \in Jobs, Acknowledge(j)
      PROVE  WebSockets!Next
  <2>1. Owed \ Owed' \subseteq Owed \cap published /\ Owed' = Owed \ (Owed \ Owed')
    BY <1>6, AcknowledgeSettles
  <2>2. Owed \ Owed' \in SUBSET Sessions
    BY <1>0 DEF Owed
  <2>3. WebSockets!Settled(Owed \ Owed')
    BY <1>1, <1>6, <2>1, AcknowledgeSettles DEF Acknowledge, WebSockets!Settled
  <2> QED
    BY <2>2, <2>3 DEF WebSockets!Next, WebSockets!Application
<1>7. ASSUME NEW j \in Jobs, NEW s \in Sessions, NEW delivered \in BOOLEAN,
             Publish(j, s, delivered)
      PROVE  [WebSockets!Next]_(WebSockets!vars)
  <2>1. /\ UNCHANGED <<rows, owner, outbox, covers, admin, sockets, restarts>>
        /\ published' = IF delivered THEN published \cup {s} ELSE published
        /\ commands' = IF delivered THEN commands \cup {s} ELSE commands
        /\ jobs[j].at = "publishing" /\ s \in jobs[j].todo
    BY <1>7 DEF Publish, requests, Outbox!Publish, Outbox!PublishTimesOut, Outbox!At
  <2>2. s \in Removed
    BY <2>1 DEF IInv, Linked, Outbox!At
  <2>3. CASE delivered
    BY <1>1, <1>2, <2>1, <2>2, <2>3 DEF WebSockets!Accepted, WebSockets!Next,
      WebSockets!Application
  <2>4. CASE ~delivered
    BY <1>1, <1>2, <2>1, <2>4
  <2> QED
    BY <2>3, <2>4
<1>8. CASE Connection
  BY <1>8 DEF Connection, WebSockets!Next
<1>9. CASE UNCHANGED vars
  BY <1>1, <1>2, <1>9 DEF vars, requests, tables, queue
<1> QED
  BY <1>3, <1>4, <1>5, <1>6, <1>7, <1>8, <1>9 DEF Next

LEMMA LinkedStep == IInv /\ [Next]_vars => Linked'
<1> SUFFICES ASSUME IInv, [Next]_vars PROVE Linked'
  OBVIOUS
<1>0. /\ rows \in SUBSET Sessions /\ owner \in [Sessions -> Users \cup {Nobody}]
      /\ covers \in [Intents -> SUBSET Sessions] /\ outbox \in SUBSET Intents
      /\ Nobody \notin Users
      /\ \A s \in Sessions : owner[s] = Nobody => s \notin rows
      /\ thread \in [Threads -> Signing!Request]
  BY PartsAssumption DEF IInv, Signing!Inductive, Signing!TypeOK, Signing!OnlyDrawnIds,
    Auth!ConstantsAssumption
<1>1. ASSUME Removed \subseteq Removed', UNCHANGED <<covers, thread>>,
             \A j \in Jobs : jobs'[j].at = "publishing" =>
               jobs'[j].todo \subseteq Removed
      PROVE  Linked'
  BY <1>1 DEF IInv, Linked, Auth!At, Outbox!At
<1>2. CASE Request
  <2>1. CASE Quiet
    BY <1>2, <2>1, RequestEffects DEF Quiet, SameCallbacks, IInv, Linked, Auth!At, Outbox!At,
      Removed, queue
  <2>2. ASSUME NEW s \in Sessions, Opens(s)
        PROVE  Linked'
    <3>1. Removed' = Removed
      BY <1>0, <2>2 DEF Opens, Removed
    <3> QED
      BY <1>2, <2>2, <3>1, RequestEffects DEF Opens, SameCallbacks, IInv, Linked, Auth!At,
        Outbox!At, queue
  <2>3. ASSUME NEW t \in Threads, NEW ids \in SUBSET Sessions, NEW i \in Intents,
               Revokes(t, ids, i)
        PROVE  Linked'
    <3>1. Removed' = Removed \cup ids
      BY <1>0, <2>3 DEF Revokes, Removed
    <3>2. jobs' = jobs
      BY <1>2, RequestEffects DEF queue
    <3>3. \A u \in Threads : thread'[u] = IF u = t THEN [at |-> "afterCommit", intent |-> i]
                                          ELSE thread[u]
      BY <1>0, <2>3 DEF Revokes
    <3>4. \A k \in Intents : covers'[k] = IF k = i THEN ids ELSE covers[k]
      BY <1>0, <2>3 DEF Revokes
    <3>5. \A u \in Threads : Auth!At(u, "afterCommit") => 
            thread[u].intent \in Intents /\ thread[u].intent # i
      BY <1>0, <2>3 DEF Revokes, IInv, Linked, Auth!At, Signing!Request, Signing!SignIn,
        Signing!Idle, Signing!Reset, Signing!SignOut, Signing!Callback
    <3> QED
      BY <2>3, <3>1, <3>2, <3>3, <3>4, <3>5 DEF Revokes, IInv, Linked, Auth!At, Outbox!At
  <2> QED
    BY <1>2, <2>1, <2>2, <2>3, RequestEffects
<1>3. ASSUME NEW t \in Threads, AfterCommit(t) \/ Crash(t)
      PROVE  Linked'
  <2>1. /\ thread' = [thread EXCEPT ![t] = Auth!Idle]
        /\ UNCHANGED <<rows, owner, outbox, covers>>
        /\ \A j \in Jobs : jobs'[j].at = "publishing" => jobs'[j] = jobs[j]
    BY <1>3 DEF AfterCommit, Crash, Auth!AfterCommit, Auth!Crash, Auth!Goto, Auth!table,
      Outbox!Enqueue, Outbox!EnqueueRejected, Outbox!Put, Outbox!Enqueued, IInv,
      Parts!Inductive, Parts!TypeOK
  <2> QED
    BY <1>0, <2>1 DEF IInv, Linked, Auth!At, Auth!Idle, Outbox!At, Removed
<1>4. CASE Dispatch
  <2>1. UNCHANGED <<thread, rows, owner, outbox, covers>>
    BY <1>4 DEF Dispatch, requests, Outbox!LoadPending, Outbox!DispatchPending, Outbox!Claim,
      Outbox!FindIntent, Outbox!Due, Outbox!Fail
  <2>2. ASSUME NEW j \in Jobs, jobs'[j].at = "publishing", jobs'[j] # jobs[j]
        PROVE  jobs'[j].todo \subseteq Removed
    <3>1. jobs \in [Jobs -> Parts!Job]
      BY DEF IInv, Parts!Inductive, Parts!TypeOK
    <3>2. ASSUME NEW k \in Jobs, Outbox!Claim(k) PROVE FALSE
      <4>1. [Outbox!Stage(k, "performing", {}) EXCEPT !.executions = @ + 1].at = "performing"
        BY DEF Outbox!Stage
      <4> QED
        BY <2>2, <3>1, <3>2, <4>1 DEF Outbox!Claim, Outbox!Put
    <3>3. ASSUME NEW k \in Jobs, Outbox!Due(k) \/ Outbox!Fail(k) PROVE FALSE
      BY <2>2, <3>1, <3>3 DEF Outbox!Due, Outbox!Fail, Outbox!Put, Outbox!Stage, Outbox!NoJob
    <3>4. ASSUME Outbox!LoadPending \/ \E i \in Intents : Outbox!DispatchPending(i)
          PROVE  FALSE
      BY <2>2, <3>1, <3>4 DEF Outbox!LoadPending, Outbox!DispatchPending, Outbox!Enqueue,
        Outbox!EnqueueRejected, Outbox!Put, Outbox!Enqueued
    <3>5. ASSUME NEW k \in Jobs, Outbox!FindIntent(k) PROVE k = j
      BY <2>2, <3>1, <3>5 DEF Outbox!FindIntent, Outbox!Put
    <3>6. Outbox!FindIntent(j)
      BY <1>4, <3>2, <3>3, <3>4, <3>5 DEF Dispatch
    <3>7. jobs'[j].todo = {} \/ \E i \in Intents : jobs'[j].todo = covers[i]
      BY <1>0, <2>2, <3>6 DEF Outbox!FindIntent, Outbox!Put, Outbox!Stage, Outbox!NoJob, IInv,
        Parts!Inductive, Parts!TypeOK
    <3> QED
      BY <3>7 DEF IInv, Linked
  <2> QED
    BY <1>1, <2>1, <2>2 DEF IInv, Linked, Outbox!At, Removed
<1>5. ASSUME NEW j \in Jobs, Acknowledge(j)
      PROVE  Linked'
  <2>1. /\ UNCHANGED <<thread, rows, owner, covers>>
        /\ \A k \in Jobs : jobs'[k].at = "publishing" => jobs'[k] = jobs[k]
    BY <1>5 DEF Acknowledge, requests, Outbox!Acknowledge, Outbox!Put, Outbox!NoJob, IInv,
      Parts!Inductive, Parts!TypeOK
  <2> QED
    BY <1>1, <2>1 DEF IInv, Linked, Outbox!At, Removed
<1>6. ASSUME NEW j \in Jobs, NEW s \in Sessions, NEW delivered \in BOOLEAN,
             Publish(j, s, delivered)
      PROVE  Linked'
  <2>1. /\ UNCHANGED <<thread, rows, owner, covers>>
        /\ \A k \in Jobs : jobs'[k].at = "publishing" =>
             jobs[k].at = "publishing" /\ jobs'[k].todo \subseteq jobs[k].todo
    BY <1>6 DEF Publish, requests, Outbox!Publish, Outbox!PublishTimesOut, Outbox!Put,
      Outbox!Stage, Outbox!NoJob, Outbox!At, IInv, Parts!Inductive, Parts!TypeOK
  <2> QED
    BY <1>1, <2>1 DEF IInv, Linked, Outbox!At, Removed
<1>7. CASE Connection \/ UNCHANGED vars
  <2>1. UNCHANGED <<thread, rows, owner, covers, jobs>>
    BY <1>7 DEF Connection, vars, requests, tables, queue
  <2> QED
    BY <1>1, <2>1 DEF IInv, Linked, Outbox!At, Removed
<1> QED
  BY <1>2, <1>3, <1>4, <1>5, <1>6, <1>7 DEF Next

-----------------------------------------------------------------------------
(* The theorems                                                            *)

LEMMA InitIInv == Init => IInv /\ Outbox!Init /\ WebSockets!Init
<1> SUFFICES ASSUME Init PROVE IInv /\ Outbox!Init /\ WebSockets!Init
  OBVIOUS
<1>1. Signing!Inductive
  <2>1. Signing!Init
    BY DEF Init, Auth!Init, Auth!Idle, Signing!Init, Signing!Idle
  <2> QED
    BY <2>1, Assumptions, Signing!InductiveInit
<1>2. Callbacks = {} /\ Removed = {} /\ Owed = {}
  BY DEF Init, Auth!Init, Auth!Idle, Auth!At, Callbacks, Removed, Owed
<1>3. Outbox!Init /\ WebSockets!Init
  BY <1>2, PartsAssumption DEF Init, Auth!Init, Outbox!Init, WebSockets!Init
<1>4. Parts!Inductive
  <2>1. Parts!Init
    BY <1>3 DEF Outbox!Init, Outbox!NoJob, Outbox!Enqueued, Parts!Init, Parts!NoJob, Parts!Enqueued
  <2>2. Parts!TypeOK
    BY <2>1, Assumptions, Parts!TypeInit
  <2> QED
    BY <2>1, <2>2 DEF Init, Outbox!NoJob, Parts!Init, Parts!Inductive, Parts!ListsAreComplete,
      Parts!AcknowledgedIsPublished, Parts!At
<1>5. Linked
  BY DEF Init, Auth!Init, Auth!Idle, Auth!At, Outbox!At, Outbox!NoJob, Linked
<1> QED
  BY <1>1, <1>3, <1>4, <1>5 DEF IInv

LEMMA IInvAlways == Spec => []IInv
<1>1. IInv /\ [Next]_vars => IInv'
  BY AuthStep, SigningIsAuth, OutboxStep, PartsIsOutbox, LinkedStep DEF IInv
<1> QED
  BY InitIInv, <1>1, PTL DEF Spec

\* Composed with the threads that revoke and the workers that publish, Cable's
\* assumptions about the rest of the application hold: an id is revoked once it
\* was drawn, published once it was revoked, and no longer owed only when AnyCable
\* accepted it.
THEOREM CableAssumptionsAlwaysHold == Spec => CableAssumptionsHold
<1>1. Init => WebSockets!Init
  BY InitIInv
<1> QED
  BY <1>1, IInvAlways, CableStep, PTL DEF Spec, CableAssumptionsHold, WebSockets!Spec

LEMMA HubIsWebSockets ==
  /\ WebSockets!Init => Parts!Hub!Init
  /\ [WebSockets!Next]_(WebSockets!vars) => [Parts!Hub!Next]_(Parts!Hub!vars)
<1> USE DEF WebSockets!At, WebSockets!Put, WebSockets!Opening, WebSockets!Closed,
  WebSockets!rails, Parts!Hub!At, Parts!Hub!Put, Parts!Hub!Opening, Parts!Hub!Closed,
  Parts!Hub!rails
<1>1. WebSockets!Init => Parts!Hub!Init
  BY DEF WebSockets!Init, Parts!Hub!Init
<1>2. WebSockets!Application => Parts!Hub!Application
  BY DEF WebSockets!Application, WebSockets!SignedIn, WebSockets!Accepted, WebSockets!Revoked,
    WebSockets!Settled, WebSockets!AdminChanged, Parts!Hub!Application, Parts!Hub!SignedIn,
    Parts!Hub!Accepted, Parts!Hub!Revoked, Parts!Hub!Settled, Parts!Hub!AdminChanged
<1>3. WebSockets!Next => Parts!Hub!Next
  BY <1>2 DEF WebSockets!Next, WebSockets!Server, WebSockets!Register, WebSockets!Stream,
    WebSockets!Disconnect, WebSockets!Dial, WebSockets!Connect, WebSockets!HangUp,
    WebSockets!Subscribe, WebSockets!Restart, WebSockets!Names,
    Parts!Hub!Next, Parts!Hub!Server, Parts!Hub!Register, Parts!Hub!Stream,
    Parts!Hub!Disconnect, Parts!Hub!Dial, Parts!Hub!Connect, Parts!Hub!HangUp,
    Parts!Hub!Subscribe, Parts!Hub!Restart, Parts!Hub!Names
<1> QED
  BY <1>1, <1>3 DEF WebSockets!vars, Parts!Hub!vars

\* From the form to the socket: whatever threads, workers, the dispatcher and AnyCable
\* do, and wherever one of them stops, a stream of a revoked session is open only while
\* the outbox names the session or AnyCable still has the command.
THEOREM RevokedStreamsAreAlwaysOwed == Spec => []RevokedStreamsAreOwed
<1> DEFINE Owing == Parts!Hub!TypeOK /\ Parts!Hub!ListenersAreOwed
<1>1. Init => Owing
  BY InitIInv, HubIsWebSockets, Assumptions, Parts!SocketsInit
    DEF Parts!Hub!Init, Parts!Hub!ListenersAreOwed, Parts!Hub!Listening, Parts!Hub!At,
      Parts!Hub!Closed
<1>2. IInv /\ [Next]_vars /\ Owing => Owing'
  BY CableStep, HubIsWebSockets, Assumptions, Parts!SocketsStep, Parts!ListenersStep
<1>3. Owing => RevokedStreamsAreOwed
  BY DEF RevokedStreamsAreOwed, Parts!Hub!ListenersAreOwed, Parts!Hub!Listening, Parts!Hub!At,
    WebSockets!StreamsOfRevokedAreOwed, WebSockets!Listening, WebSockets!At
<1> QED
  BY <1>1, <1>2, <1>3, IInvAlways, PTL DEF Spec
=============================================================================
