----------------------------- MODULE TcpServer ------------------------------
(***************************************************************************)
(* A TCP server and its sessions (TcpServer.h, TcpSession.cpp, the         *)
(* accepting half of Socket.cpp).  The server is cloned for every poller;  *)
(* the clones accept from one listening descriptor and each keeps the      *)
(* sessions it accepted, which live on its poller.  The owner's thread may *)
(* destroy them all, one session after the other, and their pollers go on. *)
(* The keys of the maps are addresses: _session_map has the address of the *)
(* helper, SessionMap that of the session, and an address is used again    *)
(* once it is free.                                                        *)
(***************************************************************************)
EXTENDS TcpNet, FiniteSets

CONSTANTS
  Servers,   \* the server and its clones, each with its poller
  Addresses  \* where a session and its helper can be

ASSUME ServersAssumption == Servers # {} /\ Addresses # {}

VARIABLES
  up,         \* servers that weak references still find
  dying,      \* the session whose helper the owner's thread destroys, 0 for none
  session,    \* session[v][a]: the session of server v at address a, 0 for none
  tasks,      \* tasks of each poller: kind, address, session
  mapped,     \* SessionMap: address to session, 0 for none
  shutting,   \* sessions whose Socket is closed
  told,       \* history: how often onError was called for a session
  heard,      \* history: sessions that were given data after onError
  attached    \* sessions whose descriptor the poller watches

serverVars == <<up, dying, session, tasks, mapped, shutting, told, heard, attached>>

Free == {a \in Addresses : \A v \in Servers : session[v][a] = 0}

Sessions(v) == {session[v][a] : a \in Addresses} \ {0}

Listening == up # {}

ServerInit ==
  /\ up = Servers /\ dying = 0
  /\ session = [v \in Servers |-> [a \in Addresses |-> 0]]
  /\ tasks = [v \in Servers |-> {}]
  /\ mapped = [a \in Addresses |-> 0]
  /\ shutting = {} /\ heard = {} /\ attached = {}
  /\ told = [c \in Conns |-> 0]
-----------------------------------------------------------------------------
\* onAcceptConnection: the session is made, listed and given its callbacks.  The
\* allocator prefers an address that was used before.
OnAcceptConnection(v, c) ==
  /\ Free # {}
  /\ LET a == CHOOSE b \in Free : TRUE IN
       /\ session' = [session EXCEPT ![v][a] = c]
       /\ mapped' = IF mapped[a] = 0 THEN [mapped EXCEPT ![a] = c] ELSE mapped

\* Faulty form: the descriptor could not be watched, and nobody is told.
OnAcceptUnwatched(v, c) ==
  /\ v \in up /\ far[c] = "backlog"
  /\ OnAcceptConnection(v, c)
  /\ far' = [far EXCEPT ![c] = "open"]
  /\ UNCHANGED <<up, dying, tasks, shutting, told, heard, attached, near, lost>>

\* Socket::onAccept: its descriptor is watched only then.
OnAccept(v, c) ==
  /\ v \in up /\ far[c] = "backlog"
  /\ OnAcceptConnection(v, c)
  /\ far' = [far EXCEPT ![c] = "open"]
  /\ attached' = attached \cup {c}
  /\ UNCHANGED <<up, dying, tasks, shutting, told, heard, near, lost>>

\* Faulty form: the descriptor is closed and still watched.
CloseSessionWatched(cs) ==
  /\ shutting' = shutting \cup cs
  /\ UNCHANGED attached
  /\ far' = [c \in Conns |-> IF c \in cs THEN "closed" ELSE far[c]]
  /\ UNCHANGED <<near, lost>>

\* emitErr on the poller's thread: once for each socket.
CloseSession(cs) ==
  /\ shutting' = shutting \cup cs
  /\ attached' = attached \ cs
  /\ far' = [c \in Conns |-> IF c \in cs THEN "closed" ELSE far[c]]
  /\ UNCHANGED <<near, lost>>

\* Faulty form: the entry of SessionMap stays.
ReleaseListed(v, as) ==
  /\ session' = [session EXCEPT ![v] = [a \in Addresses |-> IF a \in as THEN 0 ELSE @[a]]]
  /\ UNCHANGED mapped

\* ~TcpSessionHelper of what is at these addresses of v: the entry of SessionMap
\* goes with it.
Release(v, as) ==
  /\ session' = [session EXCEPT ![v] = [a \in Addresses |-> IF a \in as THEN 0 ELSE @[a]]]
  /\ mapped' = [a \in Addresses |-> IF a \in as THEN 0 ELSE mapped[a]]

At(v, cs) == {a \in Addresses : session[v][a] \in cs}

\* The on_err of a session outside onManager: onError, and the session goes, unless
\* its server is gone and the owner's thread has yet to come to it.
OnErr(v, c) ==
  /\ CloseSession({c})
  /\ told' = [told EXCEPT ![c] = @ + 1]
  /\ IF v \in up THEN Release(v, At(v, {c})) ELSE UNCHANGED <<session, mapped>>

\* What is read is handled: the session may find that it has to be closed.
OnRecv(v, c) ==
  /\ c \in Sessions(v) /\ c \in attached /\ near[c] = "open" /\ c \notin lost
  /\ heard' = IF told[c] > 0 THEN heard \cup {c} ELSE heard
  /\ \/ OnErr(v, c)
     \/ UNCHANGED <<session, mapped, shutting, told, attached, net>>
  /\ UNCHANGED <<up, dying, tasks>>

\* The end of the stream.
OnEof(v, c) ==
  /\ c \in Sessions(v) /\ c \in attached /\ NearClosed(c)
  /\ OnErr(v, c)
  /\ UNCHANGED <<up, dying, tasks, heard>>

\* Faulty form: the sessions are not told.
OnManagerQuiet(v) ==
  /\ v \in up
  /\ \E cs \in SUBSET (Sessions(v) \ shutting) :
       /\ cs # {}
       /\ CloseSession(cs)
       /\ UNCHANGED told
       /\ tasks' = [tasks EXCEPT ![v] = @ \cup {<<"erase", a, session[v][a]>> : a \in At(v, cs)}]
  /\ UNCHANGED <<up, dying, session, mapped, heard>>

\* Faulty form: the map is changed at once, and the erasure posted as well.
OnManagerErase(v) ==
  /\ v \in up
  /\ \E cs \in SUBSET (Sessions(v) \ shutting) :
       /\ cs # {}
       /\ CloseSession(cs)
       /\ told' = [c \in Conns |-> told[c] + IF c \in cs THEN 1 ELSE 0]
       /\ tasks' = [tasks EXCEPT ![v] = @ \cup {<<"erase", a, session[v][a]>> : a \in At(v, cs)}]
       /\ Release(v, At(v, cs))
  /\ UNCHANGED <<up, dying, heard>>

\* onManagerSession: sessions that time out are told, and their erasure posted, as
\* the map is being walked.
OnManager(v) ==
  /\ v \in up
  /\ \E cs \in SUBSET (Sessions(v) \ shutting) :
       /\ cs # {}
       /\ CloseSession(cs)
       /\ told' = [c \in Conns |-> told[c] + IF c \in cs THEN 1 ELSE 0]
       /\ tasks' = [tasks EXCEPT ![v] = @ \cup {<<"erase", a, session[v][a]>> : a \in At(v, cs)}]
  /\ UNCHANGED <<up, dying, session, mapped, heard>>

\* The posted erasure: by address.
Erase(v) ==
  \E k \in tasks[v] :
    /\ k[1] = "erase"
    /\ tasks' = [tasks EXCEPT ![v] = @ \ {k}]
    /\ IF v \in up THEN Release(v, {k[2]}) ELSE UNCHANGED <<session, mapped>>
    /\ UNCHANGED <<up, dying, shutting, told, heard, attached, net>>

\* safeShutdown of any thread, for a session that MediaSource::close kicks, once or
\* again: what is pending twice is kept once, as the second finds nothing to do.
SafeShutdown(v, c) ==
  /\ c \in Sessions(v)
  /\ tasks' = [tasks EXCEPT ![v] = @ \cup {<<"shutdown", 0, c>>}]
  /\ UNCHANGED <<up, dying, session, mapped, shutting, told, heard, attached, net>>

\* Faulty form: it is not looked whether the socket is closed.
ShutdownTaskAlways(v) ==
  \E k \in tasks[v] :
    /\ k[1] = "shutdown"
    /\ tasks' = [tasks EXCEPT ![v] = @ \ {k}]
    /\ IF k[3] \in Sessions(v) THEN OnErr(v, k[3])
       ELSE UNCHANGED <<session, mapped, shutting, told, attached, net>>
    /\ UNCHANGED <<up, dying, heard>>

\* The session is held weakly, and its socket may be closed already.
ShutdownTask(v) ==
  \E k \in tasks[v] :
    /\ k[1] = "shutdown"
    /\ tasks' = [tasks EXCEPT ![v] = @ \ {k}]
    /\ IF k[3] \in Sessions(v) \ shutting THEN OnErr(v, k[3])
       ELSE UNCHANGED <<session, mapped, shutting, told, attached, net>>
    /\ UNCHANGED <<up, dying, heard>>

\* ~TcpServer, the server before its clones: weak references find it no more.
Destroy(v) ==
  /\ v \in up /\ dying = 0
  /\ v = (CHOOSE w \in Servers : TRUE) \/ (CHOOSE w \in Servers : TRUE) \notin up
  /\ \A w \in Servers \ up : Sessions(w) = {}
  /\ up' = up \ {v}
  /\ UNCHANGED <<dying, session, tasks, mapped, shutting, told, heard, attached, net>>

\* Then its sessions, one by one: ~TcpSessionHelper calls onError, even of a session
\* that was told before, while the session's poller goes on,
DropSession(v, c) ==
  /\ v \notin up /\ dying = 0 /\ c \in Sessions(v)
  /\ told' = [told EXCEPT ![c] = @ + 1]
  /\ dying' = c
  /\ UNCHANGED <<up, session, tasks, mapped, shutting, heard, attached, net>>

\* and the session goes, with its socket.
Dropped ==
  /\ dying # 0
  /\ \E v \in Servers : dying \in Sessions(v) /\ Release(v, At(v, {dying}))
  /\ CloseSession({dying})
  /\ dying' = 0
  /\ UNCHANGED <<up, tasks, told, heard>>

\* The listening descriptor goes with the last of them.
Unaccepted ==
  /\ up = {}
  /\ \E c \in Conns : far[c] = "backlog" /\ far' = [far EXCEPT ![c] = "dropped"]
  /\ UNCHANGED <<serverVars, near, lost>>
-----------------------------------------------------------------------------
\* What the poller of v is given by epoll, and by its list of tasks.
ServerEvent(v) == \E c \in Conns : OnAccept(v, c) \/ OnEof(v, c)

ServerTask(v) == Erase(v) \/ ShutdownTask(v)

ServerNext ==
  \/ \E v \in Servers :
       \/ ServerEvent(v) \/ ServerTask(v) \/ OnManager(v) \/ Destroy(v)
       \/ \E c \in Conns : OnRecv(v, c) \/ SafeShutdown(v, c) \/ DropSession(v, c)
  \/ Dropped \/ Unaccepted
-----------------------------------------------------------------------------
ServerTypeOK ==
  /\ up \subseteq Servers /\ dying \in 0 .. Tries
  /\ session \in [Servers -> [Addresses -> 0 .. Tries]]
  /\ tasks \in [Servers -> SUBSET ({"erase", "shutdown"} \X (Addresses \cup {0}) \X Conns)]
  /\ mapped \in [Addresses -> 0 .. Tries]
  /\ shutting \subseteq Conns /\ heard \subseteq Conns /\ attached \subseteq Conns
  /\ told \in [Conns -> Nat]

\* A session of a server that exists is told of its end once, and none twice while all
\* servers exist.  When its server is destroyed, the owner's thread tells it, and so may
\* its poller, or may have done before the erasure that onManagerSession posted has run.
ToldOnce ==
  /\ \A v \in up : \A c \in Sessions(v) : told[c] <= 1
  /\ \A c \in Conns : told[c] <= (IF up = Servers THEN 1 ELSE 2)

\* No session is destroyed, and no descriptor closed, before onError was called for it.
EndIsTold ==
  \A c \in Conns : far[c] \in {"open", "closed"} => told[c] >= 1 \/ \E v \in Servers : c \in Sessions(v) \ shutting

\* Nothing is received after onError, but by a session whose server is being destroyed:
\* it is told on the owner's thread while its poller still watches the descriptor.
SilentAfterError ==
  /\ up = Servers => heard = {}
  /\ \A v \in up : Sessions(v) \cap heard = {}

\* SessionMap lists the sessions of the servers, each under its own address.
RegistryExact ==
  \A a \in Addresses :
    {mapped[a]} \ {0} = {session[v][a] : v \in Servers} \ {0}

\* Only the session that was meant is erased.
EraseRight ==
  \A v \in up : \A k \in tasks[v] : k[1] = "erase" => session[v][k[2]] = k[3]
=============================================================================
