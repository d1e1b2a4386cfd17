------------------------------- MODULE Cable -------------------------------
(***************************************************************************)
(* Browser connections: app/channels as AnyCable calls it over RPC, and    *)
(* the AnyCable server itself as compose.yml configures it (memory broker, *)
(* no session cache).  Rails decides who may connect and subscribe at the  *)
(* time of the call; the server acts on the answer later, and acts on      *)
(* disconnect commands at a time of its own.                               *)
(***************************************************************************)
EXTENDS Naturals

CONSTANTS
  Sessions,     \* session ids
  Connections,  \* bound: WebSockets at a time
  MaxRestarts   \* bound: restarts of the AnyCable server

ConstantsAssumption == MaxRestarts \in Nat

VARIABLES
  rows,      \* ids present in the sessions table
  removed,   \* ids whose row has been removed
  owed,      \* removed ids with an intent in the outbox
  accepted,  \* history: removed ids whose disconnect command was accepted
  admin,     \* sessions whose user is an administrator now
  sockets,   \* the WebSockets
  commands,  \* disconnect commands accepted and not yet carried out
  restarts

vars == <<rows, removed, owed, accepted, admin, sockets, commands, restarts>>

\* The stream names a browser may present, as Turbo verified them: of its own
\* user, of another user, of the operations pages.
Names   == {"own", "foreign", "operations"}
Streams == {"own", "operations", "access"}

Closed == [at |-> "closed"]
Socket == [at : {"connecting", "accepted", "open"}, session : Sessions,
           granted : SUBSET Streams, streams : SUBSET Streams]

TypeOK ==
  /\ rows \in SUBSET Sessions
  /\ removed \in SUBSET (Sessions \ rows)
  /\ owed \in SUBSET removed
  /\ accepted \in SUBSET removed
  /\ admin \in SUBSET Sessions
  /\ sockets \in [Connections -> {Closed} \cup Socket]
  /\ commands \in SUBSET accepted
  /\ restarts \in 0 .. MaxRestarts

Init ==
  /\ rows = {}
  /\ removed = {}
  /\ owed = {}
  /\ accepted = {}
  /\ admin \in SUBSET Sessions
  /\ sockets = [c \in Connections |-> Closed]
  /\ commands = {}
  /\ restarts = 0

-----------------------------------------------------------------------------
At(c, place) == sockets[c].at = place

Put(c, socket) == sockets' = [sockets EXCEPT ![c] = socket]

Opening(c, place) == [at |-> place, session |-> sockets[c].session,
                      granted |-> {}, streams |-> {}]

\* Both streams and those the server has yet to add.
Listening(c) ==
  IF At(c, "open") THEN sockets[c].granted \cup sockets[c].streams ELSE {}

rails == <<rows, removed, owed, accepted, admin>>

(* The rest of the application, which other modules describe.              *)

SignedIn(s) ==
  /\ s \notin rows \cup removed
  /\ rows' = rows \cup {s}
  /\ UNCHANGED <<removed, owed, accepted, admin, sockets, commands, restarts>>

Revoked(ids) ==
  /\ ids \subseteq rows \cup removed
  /\ rows' = rows \ ids
  /\ removed' = removed \cup ids
  /\ owed' = owed \cup ids
  /\ UNCHANGED <<accepted, admin, sockets, commands, restarts>>

\* A worker published the disconnect of a removed session, perhaps not for the
\* first time; AnyCable queues the command.
Accepted(s) ==
  /\ s \in removed
  /\ accepted' = accepted \cup {s}
  /\ commands' = commands \cup {s}
  /\ UNCHANGED <<rows, removed, owed, admin, sockets, restarts>>

\* The outbox drops an intent all of whose commands were accepted.
Settled(ids) ==
  /\ ids \subseteq owed \cap accepted
  /\ owed' = owed \ ids
  /\ UNCHANGED <<rows, removed, accepted, admin, sockets, commands, restarts>>

\* An operator changes users.admin of the user of some sessions.
AdminChanged(ids) ==
  /\ admin' = ids
  /\ UNCHANGED <<rows, removed, owed, accepted, sockets, commands, restarts>>

-----------------------------------------------------------------------------
(* A WebSocket                                                             *)

\* A browser opens a connection with the cookie of a session that exists or did.
Dial(c, s) ==
  /\ At(c, "closed") /\ s \in rows \cup removed
  /\ Put(c, [at |-> "connecting", session |-> s, granted |-> {}, streams |-> {}])
  /\ UNCHANGED <<rails, commands, restarts>>

\* Connection#connect: the cookie's session has a row, or the call is rejected.
Connect(c) ==
  /\ At(c, "connecting")
  /\ Put(c, IF sockets[c].session \in rows THEN Opening(c, "accepted") ELSE Closed)
  /\ UNCHANGED <<rails, commands, restarts>>

\* AnyCable adds the accepted connection to its hub.
Register(c) ==
  /\ At(c, "accepted")
  /\ Put(c, Opening(c, "open"))
  /\ UNCHANGED <<rails, commands, restarts>>

\* Mutant: current_user is remembered from the connection, not found again.
SubscribeRemembered(c, name) ==
  /\ At(c, "open") /\ name = "own"
  /\ Put(c, [sockets[c] EXCEPT !.granted = @ \cup {"own"}])
  /\ UNCHANGED <<rails, commands, restarts>>

\* Channel#subscribed.  current_user finds the session's row again and raises
\* when it has gone; otherwise the channel compares the verified name, and the
\* operations channel the administrator flag, and grants streams or rejects.
Subscribe(c, name) ==
  /\ At(c, "open")
  /\ sockets[c].session \in rows
  /\ \/ /\ name = "own"
        /\ Put(c, [sockets[c] EXCEPT !.granted = @ \cup {"own"}])
     \/ /\ name = "operations" /\ sockets[c].session \in admin
        /\ Put(c, [sockets[c] EXCEPT !.granted = @ \cup {"operations", "access"}])
  /\ UNCHANGED <<rails, commands, restarts>>

\* AnyCable adds the streams of the answer to the connection.
Stream(c) ==
  /\ At(c, "open") /\ sockets[c].granted # {}
  /\ Put(c, [at |-> "open", session |-> sockets[c].session, granted |-> {},
             streams |-> sockets[c].streams \cup sockets[c].granted])
  /\ UNCHANGED <<rails, commands, restarts>>

HangUp(c) ==
  /\ ~At(c, "closed")
  /\ Put(c, Closed)
  /\ UNCHANGED <<rails, commands, restarts>>

\* AnyCable carries out remote_connections.where(session_id:).disconnect on the
\* connections its hub has then.
Disconnect(s) ==
  /\ s \in commands
  /\ commands' = commands \ {s}
  /\ sockets' = [c \in Connections |->
       IF At(c, "open") /\ sockets[c].session = s THEN Closed ELSE sockets[c]]
  /\ UNCHANGED <<rails, restarts>>

\* Its broker is in memory: a restart loses every connection and every command.
Restart ==
  /\ restarts < MaxRestarts
  /\ restarts' = restarts + 1
  /\ sockets' = [c \in Connections |-> Closed]
  /\ commands' = {}
  /\ UNCHANGED rails

Application ==
  \/ \E s \in Sessions : SignedIn(s) \/ Accepted(s)
  \/ \E ids \in SUBSET Sessions : Revoked(ids) \/ Settled(ids) \/ AdminChanged(ids)

Server ==
  \/ \E c \in Connections : Register(c) \/ Stream(c)
  \/ \E s \in Sessions : Disconnect(s)

Next ==
  \/ Application
  \/ Server
  \/ \E c \in Connections :
       \/ \E s \in Sessions : Dial(c, s)
       \/ Connect(c) \/ HangUp(c)
       \/ \E name \in Names : Subscribe(c, name)
  \/ Restart

Spec == Init /\ [][Next]_vars

-----------------------------------------------------------------------------
(* docs/realtime.md: "The connection identifies a Rails session; every
   reconnect validates the cookie again."  A connection that hears, or is about
   to hear, a stream belongs to a session that has its row, or somebody still
   has to disconnect it: its intent is in the outbox or AnyCable holds the
   command.  Otherwise nobody would ever close it.                         *)
StreamsOfRevokedAreOwed ==
  \A c \in Connections : Listening(c) # {} =>
    sockets[c].session \in rows \cup owed \cup commands

\* The inductive invariant behind it: once AnyCable has accepted the disconnect of
\* a removed session, only a command it still holds keeps a stream of it open.
ListenersAreOwed ==
  \A c \in Connections : Listening(c) # {} =>
    sockets[c].session \in rows \cup (owed \ accepted) \cup commands

-----------------------------------------------------------------------------
(* The workers go on until each owed session is accepted (SessionDisconnects
   says why), and AnyCable carries out what it accepts.                    *)
FairSpec ==
  /\ Spec
  /\ \A s \in Sessions : WF_vars(s \in owed \ accepted /\ Accepted(s))
                         /\ WF_vars(Disconnect(s))

\* A revoked session falls silent: from some time on none of its connections
\* hears anything, whatever it was doing when it was revoked and however often
\* it reconnects.
RevokedFallSilent ==
  \A c \in Connections, s \in Sessions :
    s \in removed ~> []~(Listening(c) # {} /\ sockets[c].session = s)
=============================================================================
