---------------------------- MODULE SessionPolicy ----------------------------
(***************************************************************************)
(* What sign-in, password reset and sign-out promise about sessions, with  *)
(* no transactions, locks or tokens.  docs/architecture.md: "Signed-cookie *)
(* sessions live in PostgreSQL.  Sign-out removes the current session;     *)
(* password reset removes every session."                                  *)
(***************************************************************************)
EXTENDS Naturals

CONSTANTS Users, Sessions, Nobody

VARIABLES
  generation,  \* how often each user's password has changed
  status,      \* of each session: "new", "live" or "revoked"
  holder,      \* the user each session was opened for
  stamp        \* the generation whose password opened it

vars == <<generation, status, holder, stamp>>

Init ==
  /\ generation = [u \in Users |-> 0]
  /\ status = [s \in Sessions |-> "new"]
  /\ holder = [s \in Sessions |-> Nobody]
  /\ stamp = [s \in Sessions |-> 0]

\* Only the password of the current generation opens a session.
Open(s, u) ==
  /\ status[s] = "new"
  /\ status' = [status EXCEPT ![s] = "live"]
  /\ holder' = [holder EXCEPT ![s] = u]
  /\ stamp' = [stamp EXCEPT ![s] = generation[u]]
  /\ UNCHANGED generation

Close(s) ==
  /\ status[s] = "live"
  /\ status' = [status EXCEPT ![s] = "revoked"]
  /\ UNCHANGED <<generation, holder, stamp>>

\* A new password revokes every live session of its user in the same step.
Rotate(u) ==
  /\ generation' = [generation EXCEPT ![u] = @ + 1]
  /\ status' = [s \in Sessions |->
                  IF status[s] = "live" /\ holder[s] = u THEN "revoked" ELSE status[s]]
  /\ UNCHANGED <<holder, stamp>>

Next ==
  \/ \E s \in Sessions : Close(s) \/ \E u \in Users : Open(s, u)
  \/ \E u \in Users : Rotate(u)

Spec == Init /\ [][Next]_vars
=============================================================================
