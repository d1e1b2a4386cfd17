--------------------------- MODULE Authentication ---------------------------
(***************************************************************************)
(* Sign-in, password reset and sign-out as the Puma threads run them       *)
(* against PostgreSQL: app/models/user.rb, app/models/session.rb and the   *)
(* controllers that call them.                                             *)
(*                                                                         *)
(* A thread takes one statement of its transaction at a time.  PostgreSQL  *)
(* runs at READ COMMITTED, so a statement sees what other transactions     *)
(* have committed, and what a thread writes becomes visible in the action  *)
(* that commits it.  with_lock is SELECT ... FOR UPDATE on the user's row: *)
(* it waits for the row's lock and returns the committed row.              *)
(***************************************************************************)
EXTENDS Naturals, FiniteSets

CONSTANTS
  Users,         \* rows of the users table
  Passwords,     \* passwords that pass validation
  Invalid,       \* a new password that fails validation
  FirstPassword, \* the password every user starts with
  Sessions,      \* ids of the sessions sequence, never drawn twice
  Intents,       \* ids of the session_disconnects sequence, never drawn twice
  Threads,       \* server threads
  Nobody,        \* no user
  Free,          \* no thread
  MaxSalt        \* bound: password changes per user

ASSUME ConstantsAssumption ==
  /\ FirstPassword \in Passwords
  /\ Invalid \notin Passwords
  /\ Nobody \notin Users
  /\ Free \notin Threads
  /\ MaxSalt \in Nat

VARIABLES
  digest,  \* users.password_digest: the password and its salt, a counter
  lock,    \* holder of each user's row lock
  rows,    \* ids present in the sessions table
  owner,   \* sessions.user_id of every id drawn so far
  born,    \* history: salt of the digest each session's sign-in was checked with
  outbox,  \* ids present in session_disconnects
  covers,  \* session_disconnects.session_ids of every id drawn so far
  mailed,  \* reset tokens that were mailed and have not expired
  thread   \* what each server thread is doing

table == <<digest, rows, owner, born, outbox, covers>>
vars  == <<table, lock, mailed, thread>>

Digest == [password : Passwords, salt : 0 .. MaxSalt]
Token  == [user : Users, salt : 0 .. MaxSalt]

\* A thread's request: "at" names the statement it is about to run.
Idle     == [at |-> "idle"]
SignIn   == [at : {"signIn", "create"},
             user : Users, typed : Passwords, loaded : Digest]
Reset    == [at : {"reset", "update", "pluck", "change"},
             token : Token, typed : Passwords \cup {Invalid},
             plucked : SUBSET Sessions]
SignOut  == [at : {"signOut", "destroy"}, plucked : SUBSET Sessions]
Callback == [at : {"afterCommit"}, intent : Intents]
Request  == {Idle} \cup SignIn \cup Reset \cup SignOut \cup Callback

TypeOK ==
  /\ digest \in [Users -> Digest]
  /\ lock \in [Users -> Threads \cup {Free}]
  /\ rows \in SUBSET Sessions
  /\ owner \in [Sessions -> Users \cup {Nobody}]
  /\ born \in [Sessions -> 0 .. MaxSalt]
  /\ outbox \in SUBSET Intents
  /\ covers \in [Intents -> SUBSET Sessions]
  /\ mailed \in SUBSET Token
  /\ thread \in [Threads -> Request]

Init ==
  /\ digest = [u \in Users |-> [password |-> FirstPassword, salt |-> 0]]
  /\ lock = [u \in Users |-> Free]
  /\ rows = {}
  /\ owner = [s \in Sessions |-> Nobody]
  /\ born = [s \in Sessions |-> 0]
  /\ outbox = {}
  /\ covers = [i \in Intents |-> {}]
  /\ mailed = {}
  /\ thread = [t \in Threads |-> Idle]

-----------------------------------------------------------------------------
At(t, place) == thread[t].at = place

Goto(t, request) == thread' = [thread EXCEPT ![t] = request]

\* SELECT ... FOR UPDATE returns once nobody else holds the row's lock.
Acquire(t, u) == lock[u] = Free /\ lock' = [lock EXCEPT ![u] = t]

\* The row locks a transaction holds go when it ends.
Release(t) == lock' = [u \in Users |-> IF lock[u] = t THEN Free ELSE lock[u]]

\* The rows of one user's sessions association.
SessionsOf(u) == {s \in rows : owner[s] = u}

\* The signed token names a user and the salt of the digest it was made for.
Valid(tok) == tok \in mailed /\ digest[tok.user].salt = tok.salt

\* Bounds: a request starts only while it and every running one can draw an id.
SessionsLeft ==
  Cardinality({s \in Sessions : owner[s] = Nobody})
    > Cardinality({t \in Threads : thread[t].at \in {"signIn", "create"}})
IntentsLeft ==
  Cardinality({i \in Intents : covers[i] = {}})
    > Cardinality({t \in Threads :
                     thread[t].at \notin {"idle", "signIn", "create", "afterCommit"}})

\* Mutant: the disconnects are not recorded with the removal.
RevokeAllWithoutOutbox(t) ==
  /\ rows' = rows \ thread[t].plucked
  /\ Goto(t, Idle)
  /\ UNCHANGED <<outbox, covers>>

\* Session.revoke_all at COMMIT: the rows go and, in the same transaction, an
\* intent naming every plucked id appears, unless nothing was plucked.  The
\* thread then runs the intent's after-commit callback.
RevokeAll(t) ==
  LET ids == thread[t].plucked
  IN  /\ rows' = rows \ ids
      /\ \/ ids = {} /\ Goto(t, Idle) /\ UNCHANGED <<outbox, covers>>
         \/ /\ ids # {}
            /\ \E i \in Intents :
                 /\ covers[i] = {}
                 /\ outbox' = outbox \cup {i}
                 /\ covers' = [covers EXCEPT ![i] = ids]
                 /\ Goto(t, [at |-> "afterCommit", intent |-> i])

-----------------------------------------------------------------------------
(* POST /session                                                           *)

\* authenticate_by reads the row and compares the password with its digest.
SignInLookup(t, u, p) ==
  /\ At(t, "idle") /\ SessionsLeft
  /\ Goto(t, IF digest[u].password = p
             THEN [at |-> "signIn", user |-> u, typed |-> p, loaded |-> digest[u]]
             ELSE Idle)
  /\ UNCHANGED <<table, lock, mailed>>

\* Mutant: the password is not compared again under the lock.
SignInLockWithoutRecheck(t) ==
  /\ At(t, "signIn")
  /\ Acquire(t, thread[t].user)
  /\ Goto(t, [thread[t] EXCEPT !.at = "create"])
  /\ UNCHANGED <<table, mailed>>

\* Mutant: the password is compared again, outside any lock.
SignInWithoutLock(t) ==
  /\ At(t, "signIn")
  /\ LET u == thread[t].user
     IN  Goto(t, IF digest[u].password = thread[t].typed
                 THEN [thread[t] EXCEPT !.at = "create", !.loaded = digest[u]]
                 ELSE Idle)
  /\ UNCHANGED <<table, lock, mailed>>

\* with_lock reloads the row under its lock and the password is compared again;
\* when it no longer matches, the block returns and the transaction ends.
SignInLock(t) ==
  /\ At(t, "signIn")
  /\ LET u == thread[t].user
     IN  \/ /\ digest[u].password = thread[t].typed
            /\ Acquire(t, u)
            /\ Goto(t, [at |-> "create", user |-> u, typed |-> thread[t].typed,
                        loaded |-> digest[u]])
         \/ /\ digest[u].password # thread[t].typed
            /\ lock[u] = Free /\ UNCHANGED lock
            /\ Goto(t, Idle)
  /\ UNCHANGED <<table, mailed>>

\* sessions.create! draws an id and the transaction commits.
SignInCommit(t) ==
  /\ At(t, "create")
  /\ \E s \in Sessions :
       /\ owner[s] = Nobody
       /\ rows' = rows \cup {s}
       /\ owner' = [owner EXCEPT ![s] = thread[t].user]
       /\ born' = [born EXCEPT ![s] = thread[t].loaded.salt]
  /\ Release(t)
  /\ Goto(t, Idle)
  /\ UNCHANGED <<digest, outbox, covers, mailed>>

-----------------------------------------------------------------------------
(* POST and PATCH /passwords                                               *)

\* The delivery job renders the mail with the user's password_reset_token.
MailToken(u) ==
  /\ mailed' = mailed \cup {[user |-> u, salt |-> digest[u].salt]}
  /\ UNCHANGED <<table, lock, thread>>

\* Fifteen minutes after it was made a token stops verifying.
ExpireToken(tok) ==
  /\ tok \in mailed
  /\ mailed' = mailed \ {tok}
  /\ UNCHANGED <<table, lock, thread>>

\* find_by_password_reset_token! raises, and the controller redirects, unless
\* the token verifies.
ResetLookup(t, tok, p) ==
  /\ At(t, "idle") /\ IntentsLeft
  /\ tok \in mailed /\ tok.salt < MaxSalt
  /\ Goto(t, IF Valid(tok)
             THEN [at |-> "reset", token |-> tok, typed |-> p, plucked |-> {}]
             ELSE Idle)
  /\ UNCHANGED <<table, lock, mailed>>

\* Mutant: the token is trusted since its first lookup.
ResetLockWithoutRecheck(t) ==
  /\ At(t, "reset")
  /\ Acquire(t, thread[t].token.user)
  /\ Goto(t, [thread[t] EXCEPT !.at = "update"])
  /\ UNCHANGED <<table, mailed>>

\* Under the lock the token is looked up again; raising rolls back.
ResetLock(t) ==
  /\ At(t, "reset")
  /\ LET u == thread[t].token.user
     IN  \/ /\ Valid(thread[t].token)
            /\ Acquire(t, u)
            /\ Goto(t, [thread[t] EXCEPT !.at = "update"])
         \/ /\ ~Valid(thread[t].token)
            /\ lock[u] = Free /\ UNCHANGED lock
            /\ Goto(t, Idle)
  /\ UNCHANGED <<table, mailed>>

\* Mutant: a password that fails validation leaves the transaction open.
ResetUpdateWithoutEnd(t) ==
  /\ At(t, "update")
  /\ Goto(t, IF thread[t].typed = Invalid THEN Idle
             ELSE [thread[t] EXCEPT !.at = "pluck"])
  /\ UNCHANGED <<table, lock, mailed>>

\* user.update writes the new digest, which others see only at COMMIT, or
\* returns false, and the transaction commits having changed nothing.
ResetUpdate(t) ==
  /\ At(t, "update")
  /\ \/ /\ thread[t].typed # Invalid
        /\ Goto(t, [thread[t] EXCEPT !.at = "pluck"])
        /\ UNCHANGED lock
     \/ thread[t].typed = Invalid /\ Goto(t, Idle) /\ Release(t)
  /\ UNCHANGED <<table, mailed>>

\* user.sessions.revoke_all reads the ids it is about to destroy.
ResetPluck(t) ==
  /\ At(t, "pluck")
  /\ Goto(t, [thread[t] EXCEPT !.at = "change",
                               !.plucked = SessionsOf(thread[t].token.user)])
  /\ UNCHANGED <<table, lock, mailed>>

\* COMMIT: the new digest, the removed rows and the intent appear together.
ResetCommit(t) ==
  /\ At(t, "change")
  /\ digest' = [digest EXCEPT ![thread[t].token.user] =
                  [password |-> thread[t].typed, salt |-> @.salt + 1]]
  /\ RevokeAll(t)
  /\ Release(t)
  /\ UNCHANGED <<owner, born, mailed>>

-----------------------------------------------------------------------------
(* DELETE /session.  Session#revoke takes no lock on the user.             *)

\* require_authentication finds the row the cookie names, or redirects.
SignOutLookup(t, s) ==
  /\ At(t, "idle") /\ IntentsLeft
  /\ owner[s] # Nobody
  /\ Goto(t, IF s \in rows THEN [at |-> "signOut", plucked |-> {s}] ELSE Idle)
  /\ UNCHANGED <<table, lock, mailed>>

\* where(id: id).revoke_all plucks: the row may have gone meanwhile.
SignOutPluck(t) ==
  /\ At(t, "signOut")
  /\ Goto(t, [at |-> "destroy", plucked |-> thread[t].plucked \cap rows])
  /\ UNCHANGED <<table, lock, mailed>>

SignOutCommit(t) ==
  /\ At(t, "destroy")
  /\ RevokeAll(t)
  /\ UNCHANGED <<digest, lock, owner, born, mailed>>

-----------------------------------------------------------------------------
(* After COMMIT, and failure                                               *)

\* The after_commit callback calls intent.enqueue, which SessionDisconnects
\* models; whatever it returns, the request goes on.
AfterCommit(t) ==
  /\ At(t, "afterCommit")
  /\ Goto(t, Idle)
  /\ UNCHANGED <<table, lock, mailed>>

\* The process dies or a statement raises: PostgreSQL rolls back, and a callback
\* that has not run never runs.
Crash(t) ==
  /\ ~At(t, "idle")
  /\ Goto(t, Idle)
  /\ Release(t)
  /\ UNCHANGED <<table, mailed>>

\* A worker disconnected the sessions of an intent: DisconnectSessionsJob, which
\* SessionDisconnects models, destroys the intent's row.
Acknowledged(i) ==
  /\ i \in outbox
  /\ outbox' = outbox \ {i}
  /\ UNCHANGED <<digest, rows, owner, born, covers, lock, mailed, thread>>

Arrive(t) ==
  \/ \E u \in Users, p \in Passwords : SignInLookup(t, u, p)
  \/ \E tok \in Token, p \in Passwords \cup {Invalid} : ResetLookup(t, tok, p)
  \/ \E s \in Sessions : SignOutLookup(t, s)

\* What a thread does with the request it has started.
Continue(t) ==
  \/ SignInLock(t) \/ SignInCommit(t)
  \/ ResetLock(t) \/ ResetUpdate(t) \/ ResetPluck(t) \/ ResetCommit(t)
  \/ SignOutPluck(t) \/ SignOutCommit(t)
  \/ AfterCommit(t)

Next ==
  \/ \E t \in Threads : Arrive(t) \/ Continue(t) \/ Crash(t)
  \/ \E u \in Users : MailToken(u)
  \/ \E tok \in Token : ExpireToken(tok)
  \/ \E i \in Intents : Acknowledged(i)

Spec == Init /\ [][Next]_vars

-----------------------------------------------------------------------------
(* The inductive invariant behind the safety properties                    *)

\* The user whose row a thread has locked for its transaction.
Locks(t, u) ==
  \/ At(t, "create") /\ thread[t].user = u
  \/ thread[t].at \in {"update", "pluck", "change"} /\ thread[t].token.user = u

LockHeld == \A t \in Threads, u \in Users : Locks(t, u) => lock[u] = t

\* Under the lock, the digest that was checked is still the committed one.
CheckedDigestIsCurrent ==
  \A t \in Threads :
    /\ At(t, "create") => thread[t].loaded = digest[thread[t].user]
    /\ At(t, "reset") => thread[t].token.salt < MaxSalt
    /\ thread[t].at \in {"update", "pluck", "change"} =>
         /\ thread[t].token.salt < MaxSalt
         /\ digest[thread[t].token.user].salt = thread[t].token.salt
    /\ thread[t].at \in {"pluck", "change"} => thread[t].typed # Invalid

\* Under the lock, the plucked ids are the sessions there are to revoke, with some
\* of the same user that a sign-out has meanwhile removed; a sign-out plucks one.
PluckIsComplete ==
  \A t \in Threads :
    /\ At(t, "change") =>
         /\ SessionsOf(thread[t].token.user) \subseteq thread[t].plucked
         /\ \A s \in thread[t].plucked : owner[s] = thread[t].token.user
    /\ thread[t].at \in {"signOut", "destroy"} =>
         \E s \in Sessions : thread[t].plucked \subseteq {s}

OnlyDrawnIds ==
  \A s \in Sessions : owner[s] = Nobody =>
    /\ s \notin rows
    /\ \A t \in Threads :
         thread[t].at \in {"change", "signOut", "destroy"} => s \notin thread[t].plucked

-----------------------------------------------------------------------------
(* Safety                                                                  *)

\* docs/architecture.md: "a stale password cannot create a session after reset".
\* Every row of the sessions table was authenticated with the digest its owner
\* has now: a committed reset leaves no session of the old password behind, and
\* a sign-in that was checked against the old digest adds none afterwards.
LiveSessionsMatchDigest ==
  \A s \in rows : born[s] = digest[owner[s]].salt

\* The outbox: a session id that was drawn and has no row any more is named by
\* an intent committed with its removal, whatever then happened to the thread.
RemovedSessionsHaveIntent ==
  \A s \in Sessions :
    owner[s] # Nobody /\ s \notin rows => \E i \in Intents : s \in covers[i]

\* docs/architecture.md: "A reset token cannot be reused by concurrent
\* requests".  A password changes only by a reset whose unexpired token was made
\* for the digest being replaced, and the salt moves on: no token changes a
\* password twice, however many requests carry it.
PasswordChangeConsumesToken ==
  [][\A u \in Users : digest'[u] # digest[u] =>
       /\ digest'[u].salt = digest[u].salt + 1
       /\ \E t \in Threads : /\ thread[t].at = "change"
                             /\ thread[t].token = [user |-> u, salt |-> digest[u].salt]
    ]_vars

\* To everybody who sees only committed rows, this is SessionPolicy: a session
\* opens with the current password or not at all, a reset revokes every session
\* of its user in the step that changes the password, and nothing revoked comes
\* back.
Policy == INSTANCE SessionPolicy WITH
  generation <- [u \in Users |-> digest[u].salt],
  status <- [s \in Sessions |-> IF s \in rows THEN "live"
                                ELSE IF owner[s] = Nobody THEN "new" ELSE "revoked"],
  holder <- owner,
  stamp <- born

SessionsFollowPolicy == Policy!Spec

Inductive ==
  /\ TypeOK
  /\ LockHeld
  /\ CheckedDigestIsCurrent
  /\ PluckIsComplete
  /\ OnlyDrawnIds
  /\ LiveSessionsMatchDigest
  /\ RemovedSessionsHaveIntent

-----------------------------------------------------------------------------
(* Liveness                                                                *)

\* PostgreSQL runs a statement that can run and grants a row lock in the order
\* of the waiters, so a waiter that is able to take it again and again does.
FairSpec ==
  /\ Spec
  /\ \A t \in Threads : WF_vars(Continue(t)) /\ SF_vars(SignInLock(t) \/ ResetLock(t))

\* No request waits for a row lock for ever: whichever way the two-phase
\* requests interleave, each transaction ends and its lock is given back.
RequestsEnd == \A t \in Threads : ~At(t, "idle") ~> At(t, "idle")
=============================================================================
