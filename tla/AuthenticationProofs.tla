------------------------ MODULE AuthenticationProofs ------------------------
(* Proofs about Authentication, for any users, sessions, intents, threads and *)
(* passwords and any bound on password changes.                            *)
EXTENDS Authentication, TLAPS

USE ConstantsAssumption

-----------------------------------------------------------------------------
(* Types                                                                   *)

LEMMA TypeInit == Init => TypeOK
BY DEF Init, TypeOK, Digest, Token, Idle, Request

\* The place of a thread tells which request it carries.
LEMMA RequestKinds ==
  ASSUME TypeOK, NEW t \in Threads
  PROVE  /\ thread[t].at \in {"signIn", "create"} => thread[t] \in SignIn
         /\ thread[t].at \in {"reset", "update", "pluck", "change"} => thread[t] \in Reset
         /\ thread[t].at \in {"signOut", "destroy"} => thread[t] \in SignOut
         /\ At(t, "afterCommit") => thread[t] \in Callback
BY DEF TypeOK, Idle, SignIn, Reset, SignOut, Callback, At, Request

LEMMA GotoTyped ==
  ASSUME TypeOK, NEW t \in Threads, NEW r \in Request, Goto(t, r)
  PROVE  thread' \in [Threads -> Request]
BY DEF TypeOK, Goto

LEMMA IdleTyped == Idle \in Request
BY DEF Request

LEMMA ReleaseTyped ==
  ASSUME TypeOK, NEW t \in Threads, Release(t)
  PROVE  lock' \in [Users -> Threads \cup {Free}]
BY DEF TypeOK, Release

\* What a revocation leaves of the tables and of its thread.
LEMMA RevokeAllTyped ==
  ASSUME TypeOK, NEW t \in Threads, RevokeAll(t), thread[t].plucked \in SUBSET Sessions
  PROVE  /\ rows' \in SUBSET Sessions
         /\ outbox' \in SUBSET Intents
         /\ covers' \in [Intents -> SUBSET Sessions]
         /\ thread' \in [Threads -> Request]
<1>1. \A i \in Intents : [at |-> "afterCommit", intent |-> i] \in Request
  BY DEF Request, Callback
<1> QED
  BY <1>1, GotoTyped, IdleTyped DEF RevokeAll, TypeOK

LEMMA TypeStep == TypeOK /\ CheckedDigestIsCurrent /\ [Next]_vars => TypeOK'
<1> SUFFICES ASSUME TypeOK, CheckedDigestIsCurrent, [Next]_vars PROVE TypeOK'
  OBVIOUS
<1> USE DEF table
<1>1. ASSUME NEW t \in Threads, NEW u \in Users, NEW p \in Passwords,
             SignInLookup(t, u, p)
      PROVE  TypeOK'
  <2>1. [at |-> "signIn", user |-> u, typed |-> p, loaded |-> digest[u]] \in Request
    BY DEF TypeOK, Request, SignIn
  <2> QED
    BY <1>1, <2>1, GotoTyped, IdleTyped DEF SignInLookup, TypeOK
<1>2. ASSUME NEW t \in Threads, SignInLock(t)
      PROVE  TypeOK'
  <2>1. thread[t] \in SignIn
    BY <1>2, RequestKinds DEF SignInLock, At
  <2>2. [at |-> "create", user |-> thread[t].user, typed |-> thread[t].typed,
         loaded |-> digest[thread[t].user]] \in Request
    BY <2>1 DEF TypeOK, SignIn, Request
  <2>3. thread' \in [Threads -> Request]
    BY <1>2, <2>2, GotoTyped, IdleTyped DEF SignInLock
  <2>4. lock' \in [Users -> Threads \cup {Free}]
    BY <1>2, <2>1 DEF SignInLock, Acquire, TypeOK, SignIn
  <2> QED
    BY <1>2, <2>3, <2>4 DEF SignInLock, TypeOK
<1>3. ASSUME NEW t \in Threads, SignInCommit(t)
      PROVE  TypeOK'
  <2>1. thread[t] \in SignIn
    BY <1>3, RequestKinds DEF SignInCommit, At
  <2> QED
    BY <1>3, <2>1, GotoTyped, IdleTyped, ReleaseTyped
       DEF SignInCommit, TypeOK, SignIn, Digest
<1>4. ASSUME NEW u \in Users, MailToken(u)
      PROVE  TypeOK'
  BY <1>4 DEF MailToken, TypeOK, Token, Digest
<1>5. ASSUME NEW tok \in Token, ExpireToken(tok)
      PROVE  TypeOK'
  BY <1>5 DEF ExpireToken, TypeOK
<1>6. ASSUME NEW t \in Threads, NEW tok \in Token, NEW p \in Passwords \cup {Invalid},
             ResetLookup(t, tok, p)
      PROVE  TypeOK'
  <2>1. [at |-> "reset", token |-> tok, typed |-> p, plucked |-> {}] \in Request
    BY DEF Request, Reset
  <2> QED
    BY <1>6, <2>1, GotoTyped, IdleTyped DEF ResetLookup, TypeOK
<1>7. ASSUME NEW t \in Threads, ResetLock(t)
      PROVE  TypeOK'
  <2>1. thread[t] \in Reset
    BY <1>7, RequestKinds DEF ResetLock, At
  <2>2. [thread[t] EXCEPT !.at = "update"] \in Request
    BY <2>1 DEF Reset, Request
  <2>3. lock' \in [Users -> Threads \cup {Free}]
    BY <1>7, <2>1 DEF ResetLock, Acquire, TypeOK, Reset, Token
  <2> QED
    BY <1>7, <2>2, <2>3, GotoTyped, IdleTyped DEF ResetLock, TypeOK
<1>8. ASSUME NEW t \in Threads, ResetUpdate(t)
      PROVE  TypeOK'
  <2>1. thread[t] \in Reset
    BY <1>8, RequestKinds DEF ResetUpdate, At
  <2>2. [thread[t] EXCEPT !.at = "pluck"] \in Request
    BY <2>1 DEF Reset, Request
  <2> QED
    BY <1>8, <2>2, GotoTyped, IdleTyped, ReleaseTyped DEF ResetUpdate, TypeOK
<1>9. ASSUME NEW t \in Threads, ResetPluck(t)
      PROVE  TypeOK'
  <2>1. thread[t] \in Reset
    BY <1>9, RequestKinds DEF ResetPluck, At
  <2>2. [thread[t] EXCEPT !.at = "change", !.plucked = SessionsOf(thread[t].token.user)]
          \in Request
    BY <2>1 DEF TypeOK, Reset, SessionsOf, Request
  <2> QED
    BY <1>9, <2>2, GotoTyped DEF ResetPluck, TypeOK
<1>10. ASSUME NEW t \in Threads, ResetCommit(t)
       PROVE  TypeOK'
  <2>1. thread[t] \in Reset
    BY <1>10, RequestKinds DEF ResetCommit, At
  <2>2. digest' \in [Users -> Digest]
    BY <2>1, <1>10 DEF ResetCommit, CheckedDigestIsCurrent, At, TypeOK, Digest, Token, Reset
  <2>3. thread[t].plucked \in SUBSET Sessions
    BY <2>1 DEF Reset
  <2> QED
    BY <1>10, <2>2, <2>3, RevokeAllTyped, ReleaseTyped DEF ResetCommit, TypeOK
<1>11. ASSUME NEW t \in Threads, NEW s \in Sessions, SignOutLookup(t, s)
       PROVE  TypeOK'
  <2>1. [at |-> "signOut", plucked |-> {s}] \in Request
    BY DEF Request, SignOut
  <2> QED
    BY <1>11, <2>1, GotoTyped, IdleTyped DEF SignOutLookup, TypeOK
<1>12. ASSUME NEW t \in Threads, SignOutPluck(t)
       PROVE  TypeOK'
  <2>1. thread[t] \in SignOut
    BY <1>12, RequestKinds DEF SignOutPluck, At
  <2>2. [at |-> "destroy", plucked |-> thread[t].plucked \cap rows] \in Request
    BY <2>1 DEF SignOut, Request
  <2> QED
    BY <1>12, <2>2, GotoTyped DEF SignOutPluck, TypeOK
<1>13. ASSUME NEW t \in Threads, SignOutCommit(t)
       PROVE  TypeOK'
  <2>1. thread[t] \in SignOut
    BY <1>13, RequestKinds DEF SignOutCommit, At
  <2>2. thread[t].plucked \in SUBSET Sessions
    BY <2>1 DEF SignOut
  <2> QED
    BY <1>13, <2>2, RevokeAllTyped DEF SignOutCommit, TypeOK
<1>14. ASSUME NEW t \in Threads, AfterCommit(t)
       PROVE  TypeOK'
  BY <1>14, GotoTyped, IdleTyped DEF AfterCommit, TypeOK
<1>15. ASSUME NEW t \in Threads, Crash(t)
       PROVE  TypeOK'
  BY <1>15, GotoTyped, IdleTyped, ReleaseTyped DEF Crash, TypeOK
<1>16. ASSUME NEW i \in Intents, Acknowledged(i)
       PROVE  TypeOK'
  BY <1>16 DEF Acknowledged, TypeOK
<1>17. CASE UNCHANGED vars
  BY <1>17 DEF vars, TypeOK
<1> QED
  BY <1>1, <1>2, <1>3, <1>4, <1>5, <1>6, <1>7, <1>8, <1>9, <1>10, <1>11, <1>12,
     <1>13, <1>14, <1>15, <1>16, <1>17 DEF Next, Arrive, Continue

-----------------------------------------------------------------------------
(* The row lock                                                            *)

\* A thread that starts or goes on with a request changes no other request.
LEMMA GotoSame ==
  ASSUME TypeOK, NEW t \in Threads, NEW r, Goto(t, r)
  PROVE  /\ thread'[t] = r
         /\ \A t2 \in Threads : t2 # t => thread'[t2] = thread[t2]
BY DEF TypeOK, Goto

LEMMA LockStep == TypeOK /\ LockHeld /\ [Next]_vars => LockHeld'
<1> SUFFICES ASSUME TypeOK, LockHeld, [Next]_vars PROVE LockHeld'
  OBVIOUS
<1> USE DEF LockHeld, Locks, At, Idle
<1>1. ASSUME NEW t \in Threads, Arrive(t)
      PROVE  LockHeld'
  BY <1>1 DEF Arrive, SignInLookup, ResetLookup, SignOutLookup, Goto, TypeOK
<1>2. ASSUME NEW t \in Threads, SignInLock(t)
      PROVE  LockHeld'
  <2>1. thread[t] \in SignIn
    BY <1>2, RequestKinds DEF SignInLock
  <2> DEFINE u == thread[t].user
  <2>2. CASE /\ Acquire(t, u)
             /\ Goto(t, [at |-> "create", user |-> u, typed |-> thread[t].typed,
                         loaded |-> digest[u]])
    BY <2>1, <2>2 DEF Goto, Acquire, TypeOK, SignIn
  <2>3. CASE Goto(t, Idle) /\ UNCHANGED lock
    BY <2>3 DEF Goto, TypeOK
  <2> QED
    BY <1>2, <2>2, <2>3 DEF SignInLock
<1>3. ASSUME NEW t \in Threads, SignInCommit(t)
      PROVE  LockHeld'
  BY <1>3 DEF SignInCommit, Release, Goto, TypeOK
<1>4. ASSUME NEW t \in Threads, ResetLock(t)
      PROVE  LockHeld'
  BY <1>4, RequestKinds DEF ResetLock, Acquire, Goto, TypeOK, Reset, Token
<1>5. ASSUME NEW t \in Threads, ResetUpdate(t)
      PROVE  LockHeld'
  BY <1>5, RequestKinds DEF ResetUpdate, Release, Goto, TypeOK, Reset
<1>6. ASSUME NEW t \in Threads, ResetPluck(t)
      PROVE  LockHeld'
  BY <1>6, RequestKinds DEF ResetPluck, Goto, TypeOK, Reset
<1>7. ASSUME NEW t \in Threads, ResetCommit(t) \/ SignOutCommit(t)
      PROVE  LockHeld'
  BY <1>7 DEF ResetCommit, SignOutCommit, RevokeAll, Release, Goto, TypeOK
<1>8. ASSUME NEW t \in Threads, SignOutPluck(t) \/ AfterCommit(t)
      PROVE  LockHeld'
  BY <1>8 DEF SignOutPluck, AfterCommit, Goto, TypeOK
<1>9. ASSUME NEW t \in Threads, Crash(t)
      PROVE  LockHeld'
  BY <1>9 DEF Crash, Release, Goto, TypeOK
<1>10. ASSUME UNCHANGED <<thread, lock>>
       PROVE  LockHeld'
  BY <1>10
<1> QED
  BY <1>1, <1>2, <1>3, <1>4, <1>5, <1>6, <1>7, <1>8, <1>9, <1>10
     DEF Next, Continue, MailToken, ExpireToken, Acknowledged, vars

-----------------------------------------------------------------------------
(* What a thread checked or plucked under the lock                         *)

\* Only a committed reset changes a digest, and only that of the row it locks.
LEMMA DigestChanges ==
  ASSUME TypeOK, CheckedDigestIsCurrent, LockHeld, [Next]_vars, digest' # digest
  PROVE  \E t \in Threads :
           /\ ResetCommit(t)
           /\ thread[t] \in Reset
           /\ lock[thread[t].token.user] = t
           /\ \A u \in Users : u # thread[t].token.user => digest'[u] = digest[u]
           /\ digest'[thread[t].token.user].salt = thread[t].token.salt + 1
<1>1. PICK t \in Threads : ResetCommit(t)
  BY DEF Next, Arrive, Continue, vars, table, SignInLookup, SignInLock, SignInCommit,
         MailToken, ExpireToken, ResetLookup, ResetLock, ResetUpdate, ResetPluck,
         SignOutLookup, SignOutPluck, SignOutCommit, AfterCommit, Crash, Acknowledged
<1>2. thread[t] \in Reset
  BY <1>1, RequestKinds DEF ResetCommit, At
<1>3. lock[thread[t].token.user] = t
  BY <1>1, <1>2 DEF ResetCommit, At, LockHeld, Locks, Reset, Token
<1>4. /\ \A u \in Users : u # thread[t].token.user => digest'[u] = digest[u]
      /\ digest'[thread[t].token.user].salt = thread[t].token.salt + 1
  BY <1>1, <1>2 DEF ResetCommit, TypeOK, CheckedDigestIsCurrent, At, Reset, Token
<1> QED
  BY <1>1, <1>2, <1>3, <1>4

LEMMA CheckedStep ==
  TypeOK /\ CheckedDigestIsCurrent /\ LockHeld /\ [Next]_vars => CheckedDigestIsCurrent'
<1> SUFFICES ASSUME TypeOK, CheckedDigestIsCurrent, LockHeld, [Next]_vars
             PROVE  CheckedDigestIsCurrent'
  OBVIOUS
<1> USE DEF CheckedDigestIsCurrent, At, Idle, table
<1>1. ASSUME NEW t \in Threads, Arrive(t)
      PROVE  CheckedDigestIsCurrent'
  BY <1>1 DEF Arrive, SignInLookup, ResetLookup, SignOutLookup, Goto, TypeOK
<1>2. ASSUME NEW t \in Threads, SignInLock(t) \/ SignInCommit(t)
      PROVE  CheckedDigestIsCurrent'
  BY <1>2 DEF SignInLock, SignInCommit, Goto, TypeOK
<1>3. ASSUME NEW t \in Threads, ResetLock(t)
      PROVE  CheckedDigestIsCurrent'
  <2>1. thread[t] \in Reset
    BY <1>3, RequestKinds DEF ResetLock
  <2> QED
    BY <1>3, <2>1 DEF ResetLock, Goto, TypeOK, Reset, Valid
<1>4. ASSUME NEW t \in Threads, ResetUpdate(t)
      PROVE  CheckedDigestIsCurrent'
  <2>1. thread[t] \in Reset
    BY <1>4, RequestKinds DEF ResetUpdate
  <2> QED
    BY <1>4, <2>1 DEF ResetUpdate, Goto, TypeOK, Reset
<1>5. ASSUME NEW t \in Threads, ResetPluck(t)
      PROVE  CheckedDigestIsCurrent'
  <2>1. thread[t] \in Reset
    BY <1>5, RequestKinds DEF ResetPluck
  <2> QED
    BY <1>5, <2>1 DEF ResetPluck, Goto, TypeOK, Reset
<1>6. ASSUME NEW t \in Threads, ResetCommit(t)
      PROVE  CheckedDigestIsCurrent'
  <2>1. thread[t] \in Reset
    BY <1>6, RequestKinds DEF ResetCommit
  <2>2. lock[thread[t].token.user] = t
    BY <1>6, <2>1 DEF ResetCommit, LockHeld, Locks, Reset, Token
  <2>3. \A u \in Users : u # thread[t].token.user => digest'[u] = digest[u]
    BY <1>6 DEF ResetCommit, TypeOK
  <2>4. /\ thread'[t].at \in {"idle", "afterCommit"}
        /\ \A t2 \in Threads : t2 # t => thread'[t2] = thread[t2]
    BY <1>6 DEF ResetCommit, RevokeAll, Goto, TypeOK
  <2>5. ASSUME NEW t2 \in Threads, At(t2, "create"), t2 # t
        PROVE  digest'[thread[t2].user] = digest[thread[t2].user]
    BY <2>2, <2>3, <2>5, RequestKinds DEF LockHeld, Locks, SignIn
  <2>6. ASSUME NEW t2 \in Threads, thread[t2].at \in {"update", "pluck", "change"}, t2 # t
        PROVE  digest'[thread[t2].token.user] = digest[thread[t2].token.user]
    BY <2>2, <2>3, <2>6, RequestKinds DEF LockHeld, Locks, Reset, Token
  <2> QED
    BY <2>4, <2>5, <2>6
<1>7. ASSUME NEW t \in Threads,
             SignOutPluck(t) \/ SignOutCommit(t) \/ AfterCommit(t) \/ Crash(t)
      PROVE  CheckedDigestIsCurrent'
  BY <1>7 DEF SignOutPluck, SignOutCommit, AfterCommit, Crash, RevokeAll, Goto, TypeOK
<1>8. ASSUME UNCHANGED <<thread, digest>>
      PROVE  CheckedDigestIsCurrent'
  BY <1>8
<1> QED
  BY <1>1, <1>2, <1>3, <1>4, <1>5, <1>6, <1>7, <1>8
     DEF Next, Continue, MailToken, ExpireToken, Acknowledged, vars

LEMMA PluckStep ==
  TypeOK /\ PluckIsComplete /\ LockHeld /\ [Next]_vars => PluckIsComplete'
<1> SUFFICES ASSUME TypeOK, PluckIsComplete, LockHeld, [Next]_vars
             PROVE  PluckIsComplete'
  OBVIOUS
<1> USE DEF PluckIsComplete, SessionsOf, At, Idle, table
<1>1. ASSUME NEW t \in Threads, Arrive(t)
      PROVE  PluckIsComplete'
  BY <1>1 DEF Arrive, SignInLookup, ResetLookup, SignOutLookup, Goto, TypeOK
<1>2. ASSUME NEW t \in Threads, SignInCommit(t)
      PROVE  PluckIsComplete'
  <2>1. thread[t] \in SignIn /\ lock[thread[t].user] = t
    BY <1>2, RequestKinds DEF SignInCommit, LockHeld, Locks, SignIn
  <2>2. PICK s \in Sessions : /\ owner[s] = Nobody
                              /\ rows' = rows \cup {s}
                              /\ owner' = [owner EXCEPT ![s] = thread[t].user]
    BY <1>2 DEF SignInCommit
  <2>3. /\ thread'[t].at = "idle"
        /\ \A t2 \in Threads : t2 # t => thread'[t2] = thread[t2]
    BY <1>2 DEF SignInCommit, Goto, TypeOK
  <2>4. ASSUME NEW t2 \in Threads, At(t2, "change"), t2 # t
        PROVE  thread[t2].token.user # thread[t].user
    BY <2>1, <2>4, RequestKinds DEF LockHeld, Locks, Reset, Token
  <2>5. ASSUME NEW t2 \in Threads, At(t2, "change"), t2 # t
        PROVE  /\ SessionsOf(thread[t2].token.user)' \subseteq thread[t2].plucked
               /\ \A s2 \in thread[t2].plucked : owner'[s2] = thread[t2].token.user
    <3>1. thread[t2] \in Reset /\ thread[t2].token.user \in Users
      BY <2>5, RequestKinds DEF Reset, Token
    <3>2. thread'[t2] = thread[t2] /\ thread[t2].token.user # thread[t].user
      BY <2>3, <2>4, <2>5
    <3>3. s \notin thread[t2].plucked
      BY <2>2, <2>5, <3>1
    <3> QED
      BY <2>2, <2>5, <3>1, <3>2, <3>3 DEF TypeOK, Reset
  <2> QED
    BY <2>3, <2>5
<1>3. ASSUME NEW t \in Threads, ResetPluck(t)
      PROVE  PluckIsComplete'
  <2>1. thread[t] \in Reset
    BY <1>3, RequestKinds DEF ResetPluck
  <2> QED
    BY <1>3, <2>1 DEF ResetPluck, Goto, TypeOK, Reset
<1>4. ASSUME NEW t \in Threads, ResetCommit(t) \/ SignOutCommit(t)
      PROVE  PluckIsComplete'
  BY <1>4 DEF ResetCommit, SignOutCommit, RevokeAll, Goto, TypeOK
<1>5. ASSUME NEW t \in Threads, SignInLock(t) \/ ResetLock(t) \/ ResetUpdate(t)
      PROVE  PluckIsComplete'
  BY <1>5, RequestKinds DEF SignInLock, ResetLock, ResetUpdate, Goto, TypeOK, Reset
<1>6. ASSUME NEW t \in Threads, SignOutPluck(t) \/ AfterCommit(t) \/ Crash(t)
      PROVE  PluckIsComplete'
  BY <1>6 DEF SignOutPluck, AfterCommit, Crash, Goto, TypeOK
<1>7. ASSUME UNCHANGED <<thread, rows, owner>>
      PROVE  PluckIsComplete'
  BY <1>7
<1> QED
  BY <1>1, <1>2, <1>3, <1>4, <1>5, <1>6, <1>7
     DEF Next, Continue, MailToken, ExpireToken, Acknowledged, vars

\* Every id a thread has plucked, and every row, was drawn by a sign-in.
LEMMA DrawnStep == TypeOK /\ OnlyDrawnIds /\ [Next]_vars => OnlyDrawnIds'
<1> SUFFICES ASSUME TypeOK, OnlyDrawnIds, [Next]_vars PROVE OnlyDrawnIds'
  OBVIOUS
<1> USE DEF OnlyDrawnIds, SessionsOf, At, Idle, table
<1>1. ASSUME NEW t \in Threads, Arrive(t)
      PROVE  OnlyDrawnIds'
  BY <1>1 DEF Arrive, SignInLookup, ResetLookup, SignOutLookup, Goto, TypeOK
<1>2. ASSUME NEW t \in Threads, SignInCommit(t)
      PROVE  OnlyDrawnIds'
  <2>1. thread[t].user \in Users
    BY <1>2, RequestKinds DEF SignInCommit, SignIn
  <2> QED
    BY <1>2, <2>1 DEF SignInCommit, Goto, TypeOK
<1>3. ASSUME NEW t \in Threads, ResetPluck(t)
      PROVE  OnlyDrawnIds'
  <2>1. thread[t] \in Reset
    BY <1>3, RequestKinds DEF ResetPluck
  <2> QED
    BY <1>3, <2>1 DEF ResetPluck, Goto, TypeOK, Reset, Token
<1>4. ASSUME NEW t \in Threads, ResetCommit(t) \/ SignOutCommit(t)
      PROVE  OnlyDrawnIds'
  BY <1>4 DEF ResetCommit, SignOutCommit, RevokeAll, Goto, TypeOK
<1>5. ASSUME NEW t \in Threads, SignInLock(t) \/ ResetLock(t) \/ ResetUpdate(t)
      PROVE  OnlyDrawnIds'
  BY <1>5, RequestKinds DEF SignInLock, ResetLock, ResetUpdate, Goto, TypeOK, Reset
<1>6. ASSUME NEW t \in Threads, SignOutPluck(t) \/ AfterCommit(t) \/ Crash(t)
      PROVE  OnlyDrawnIds'
  BY <1>6 DEF SignOutPluck, AfterCommit, Crash, Goto, TypeOK
<1>7. ASSUME UNCHANGED <<thread, rows, owner>>
      PROVE  OnlyDrawnIds'
  BY <1>7
<1> QED
  BY <1>1, <1>2, <1>3, <1>4, <1>5, <1>6, <1>7
     DEF Next, Continue, MailToken, ExpireToken, Acknowledged, vars

-----------------------------------------------------------------------------
(* The safety invariants                                                   *)

\* A sign-in adds a row for the digest it checked, which its lock keeps current;
\* a reset removes every row of the digest it replaces.
LEMMA LiveStep ==
  TypeOK /\ LiveSessionsMatchDigest /\ CheckedDigestIsCurrent /\ LockHeld
    /\ PluckIsComplete /\ OnlyDrawnIds /\ [Next]_vars => LiveSessionsMatchDigest'
<1> SUFFICES ASSUME TypeOK, LiveSessionsMatchDigest, CheckedDigestIsCurrent, LockHeld,
                    PluckIsComplete, OnlyDrawnIds, [Next]_vars
             PROVE  LiveSessionsMatchDigest'
  OBVIOUS
<1> USE DEF LiveSessionsMatchDigest, At, table
<1>1. ASSUME NEW t \in Threads, SignInCommit(t)
      PROVE  LiveSessionsMatchDigest'
  <2>1. thread[t] \in SignIn /\ thread[t].loaded = digest[thread[t].user]
    BY <1>1, RequestKinds DEF SignInCommit, CheckedDigestIsCurrent
  <2> QED
    BY <1>1, <2>1 DEF SignInCommit, TypeOK, SignIn, OnlyDrawnIds
<1>2. ASSUME NEW t \in Threads, ResetCommit(t)
      PROVE  LiveSessionsMatchDigest'
  <2>1. thread[t] \in Reset
    BY <1>2, RequestKinds DEF ResetCommit
  <2>2. \A u \in Users : u # thread[t].token.user => digest'[u] = digest[u]
    BY <1>2 DEF ResetCommit, TypeOK
  <2>3. \A s \in rows' : /\ s \in rows
                         /\ owner[s] \in Users
                         /\ owner[s] # thread[t].token.user
    BY <1>2 DEF ResetCommit, RevokeAll, PluckIsComplete, SessionsOf, TypeOK, OnlyDrawnIds
  <2> QED
    BY <1>2, <2>2, <2>3 DEF ResetCommit
<1>3. ASSUME NEW t \in Threads, SignOutCommit(t)
      PROVE  LiveSessionsMatchDigest'
  BY <1>3 DEF SignOutCommit, RevokeAll
<1>4. ASSUME UNCHANGED <<rows, owner, born, digest>>
      PROVE  LiveSessionsMatchDigest'
  BY <1>4
<1> QED
  BY <1>1, <1>2, <1>3, <1>4
     DEF Next, Arrive, Continue, MailToken, ExpireToken, Acknowledged, vars,
         SignInLookup, SignInLock, ResetLookup, ResetLock, ResetUpdate, ResetPluck,
         SignOutLookup, SignOutPluck, AfterCommit, Crash

LEMMA RemovedStep ==
  TypeOK /\ RemovedSessionsHaveIntent /\ [Next]_vars => RemovedSessionsHaveIntent'
<1> SUFFICES ASSUME TypeOK, RemovedSessionsHaveIntent, [Next]_vars
             PROVE  RemovedSessionsHaveIntent'
  OBVIOUS
<1> USE DEF RemovedSessionsHaveIntent, table
<1>1. ASSUME NEW t \in Threads, SignInCommit(t)
      PROVE  RemovedSessionsHaveIntent'
  BY <1>1 DEF SignInCommit, TypeOK
<1>2. ASSUME NEW t \in Threads, RevokeAll(t), UNCHANGED owner
      PROVE  RemovedSessionsHaveIntent'
  BY <1>2 DEF RevokeAll, TypeOK
<1>3. ASSUME UNCHANGED <<rows, owner, covers>>
      PROVE  RemovedSessionsHaveIntent'
  BY <1>3
<1> QED
  BY <1>1, <1>2, <1>3
     DEF Next, Arrive, Continue, MailToken, ExpireToken, Acknowledged, vars,
         SignInLookup, SignInLock, ResetLookup, ResetLock, ResetUpdate, ResetPluck,
         ResetCommit, SignOutLookup, SignOutPluck, SignOutCommit, AfterCommit, Crash

-----------------------------------------------------------------------------
(* The theorems                                                            *)

LEMMA InductiveInit == Init => Inductive
<1> SUFFICES ASSUME Init PROVE Inductive
  OBVIOUS
<1> QED
  BY TypeInit DEF Init, Inductive, LockHeld, Locks, CheckedDigestIsCurrent,
       PluckIsComplete, OnlyDrawnIds, LiveSessionsMatchDigest,
       RemovedSessionsHaveIntent, At, Idle

LEMMA InductiveStep == Inductive /\ [Next]_vars => Inductive'
BY TypeStep, LockStep, CheckedStep, PluckStep, DrawnStep, LiveStep, RemovedStep
   DEF Inductive

LEMMA InductiveAlways == Spec => []Inductive
BY InductiveInit, InductiveStep, PTL DEF Spec

\* Every variable keeps its type: in particular a reset that changes a password
\* never starts from the last salt, because its lock keeps its token current.
THEOREM TypeCorrect == Spec => []TypeOK
<1>1. Inductive => TypeOK
  BY DEF Inductive
<1> QED
  BY InductiveAlways, <1>1, PTL

\* A stale password leaves no session behind and creates none: every row of the
\* sessions table was authenticated with its owner's current digest.
THEOREM LiveSessionsAlwaysMatchDigest == Spec => []LiveSessionsMatchDigest
<1>1. Inductive => LiveSessionsMatchDigest
  BY DEF Inductive
<1> QED
  BY InductiveAlways, <1>1, PTL

\* The outbox is complete: no session row goes without a committed intent.
THEOREM RemovedSessionsAlwaysHaveIntent == Spec => []RemovedSessionsHaveIntent
<1>1. Inductive => RemovedSessionsHaveIntent
  BY DEF Inductive
<1> QED
  BY InductiveAlways, <1>1, PTL

\* A reset token changes a password at most once.
THEOREM PasswordChangesConsumeTokens == Spec => PasswordChangeConsumesToken
<1> DEFINE change == \A u \in Users : digest'[u] # digest[u] =>
              /\ digest'[u].salt = digest[u].salt + 1
              /\ \E t \in Threads :
                   /\ thread[t].at = "change"
                   /\ thread[t].token = [user |-> u, salt |-> digest[u].salt]
<1>1. Inductive /\ [Next]_vars => [change]_vars
  <2> SUFFICES ASSUME Inductive, [Next]_vars, NEW u \in Users, digest'[u] # digest[u]
               PROVE  /\ digest'[u].salt = digest[u].salt + 1
                      /\ \E t \in Threads :
                           /\ thread[t].at = "change"
                           /\ thread[t].token = [user |-> u, salt |-> digest[u].salt]
    OBVIOUS
  <2>1. TypeOK /\ CheckedDigestIsCurrent /\ LockHeld
    BY DEF Inductive
  <2>2. PICK t \in Threads :
          /\ ResetCommit(t)
          /\ thread[t] \in Reset
          /\ \A v \in Users : v # thread[t].token.user => digest'[v] = digest[v]
          /\ digest'[thread[t].token.user].salt = thread[t].token.salt + 1
    BY <2>1, DigestChanges
  <2>3. thread[t].token = [user |-> u, salt |-> digest[u].salt]
    BY <2>1, <2>2 DEF ResetCommit, At, CheckedDigestIsCurrent, Reset, Token
  <2> QED
    BY <2>2, <2>3 DEF ResetCommit, At
<1> QED
  BY InductiveAlways, <1>1, PTL DEF Spec, PasswordChangeConsumesToken

-----------------------------------------------------------------------------
(* Authentication implements SessionPolicy                                 *)

LEMMA PolicyInit == Init => Policy!Init
BY DEF Init, Policy!Init

LEMMA SignInOpens ==
  ASSUME Inductive, NEW t \in Threads, SignInCommit(t)
  PROVE  Policy!Next
<1> USE DEF Inductive
<1>1. thread[t] \in SignIn /\ thread[t].loaded = digest[thread[t].user]
  BY RequestKinds DEF SignInCommit, CheckedDigestIsCurrent, At
<1>2. PICK s \in Sessions : /\ owner[s] = Nobody
                            /\ rows' = rows \cup {s}
                            /\ owner' = [owner EXCEPT ![s] = thread[t].user]
                            /\ born' = [born EXCEPT ![s] = thread[t].loaded.salt]
  BY DEF SignInCommit
<1>3. thread[t].user \in Users /\ s \notin rows /\ digest' = digest
  BY <1>1, <1>2 DEF SignIn, OnlyDrawnIds, SignInCommit
<1>4. Policy!Open(s, thread[t].user)
  BY <1>1, <1>2, <1>3 DEF Policy!Open, TypeOK
<1> QED
  BY <1>3, <1>4 DEF Policy!Next, Policy!Open

LEMMA ResetRotates ==
  ASSUME Inductive, NEW t \in Threads, ResetCommit(t)
  PROVE  Policy!Next
<1> USE DEF Inductive
<1> DEFINE u == thread[t].token.user
<1>1. thread[t] \in Reset /\ u \in Users /\ thread[t].plucked \subseteq Sessions
  BY RequestKinds DEF ResetCommit, At, Reset, Token
<1>2. rows' = {s \in rows : owner[s] # u}
  BY <1>1 DEF ResetCommit, RevokeAll, PluckIsComplete, SessionsOf, At, TypeOK
<1>3. digest' = [digest EXCEPT ![u] = [password |-> thread[t].typed, salt |-> @.salt + 1]]
  BY DEF ResetCommit
<1>4. [v \in Users |-> digest'[v].salt]
        = [[v \in Users |-> digest[v].salt] EXCEPT ![u] = @ + 1]
  BY <1>1, <1>3 DEF TypeOK, Digest
<1>5. owner' = owner /\ born' = born
  BY DEF ResetCommit
<1>6. Policy!Rotate(u)
  BY <1>1, <1>2, <1>4, <1>5 DEF Policy!Rotate, OnlyDrawnIds, TypeOK
<1> QED
  BY <1>1, <1>6 DEF Policy!Next, Policy!Rotate

LEMMA SignOutCloses ==
  ASSUME Inductive, NEW t \in Threads, SignOutCommit(t)
  PROVE  [Policy!Next]_Policy!vars
<1> USE DEF Inductive
<1>1. thread[t] \in SignOut
  BY RequestKinds DEF SignOutCommit, At
<1>2. PICK s \in Sessions : thread[t].plucked \subseteq {s}
  BY DEF SignOutCommit, At, PluckIsComplete
<1>3. UNCHANGED <<digest, owner, born>>
  BY DEF SignOutCommit
<1>4. CASE s \in thread[t].plucked /\ s \in rows
  <2>1. rows' = rows \ {s}
    BY <1>2, <1>4 DEF SignOutCommit, RevokeAll
  <2>2. owner[s] # Nobody
    BY <1>4, <1>2 DEF OnlyDrawnIds
  <2>3. Policy!Close(s)
    BY <1>3, <1>4, <2>1, <2>2 DEF Policy!Close
  <2> QED
    BY <2>3 DEF Policy!Next
<1>5. CASE ~(s \in thread[t].plucked /\ s \in rows)
  <2>1. rows' = rows
    BY <1>2, <1>5 DEF SignOutCommit, RevokeAll, TypeOK
  <2> QED
    BY <2>1, <1>3 DEF Policy!vars
<1> QED
  BY <1>4, <1>5

LEMMA PolicyStep == Inductive /\ [Next]_vars => [Policy!Next]_Policy!vars
<1> SUFFICES ASSUME Inductive, [Next]_vars PROVE [Policy!Next]_Policy!vars
  OBVIOUS
<1>1. ASSUME UNCHANGED <<digest, rows, owner, born>>
      PROVE  UNCHANGED Policy!vars
  BY <1>1 DEF Policy!vars
<1> QED
  BY <1>1, SignInOpens, ResetRotates, SignOutCloses
     DEF Next, Arrive, Continue, MailToken, ExpireToken, Acknowledged, vars, table,
         SignInLookup, SignInLock, ResetLookup, ResetLock, ResetUpdate, ResetPluck,
         SignOutLookup, SignOutPluck, AfterCommit, Crash

\* Read through its committed rows, every behaviour of the requests is one of
\* SessionPolicy: passwords open sessions, resets close all of them, at once.
THEOREM SessionsAlwaysFollowPolicy == Spec => SessionsFollowPolicy
BY InductiveAlways, PolicyInit, PolicyStep, PTL DEF Spec, Policy!Spec, SessionsFollowPolicy
=============================================================================
