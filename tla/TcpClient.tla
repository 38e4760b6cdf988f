----------------------------- MODULE TcpClient ------------------------------
(***************************************************************************)
(* A TCP client (TcpClient.cpp) and the connecting half of its socket      *)
(* (Socket::connect): the name is resolved by a worker thread, its result, *)
(* the answer of the peer and the time-out arrive on the poller's thread   *)
(* in any order.  Each attempt has a Socket of its own; the one it         *)
(* replaces is destroyed.  startConnect and shutdown may be called on the  *)
(* poller's thread or on another.                                          *)
(***************************************************************************)
EXTENDS TcpNet, Sequences, FiniteSets

CONSTANTS Loop, User  \* the poller's thread, and that of the owner

ASSUME ThreadsAssumption == Loop # User

VARIABLES
  cur,      \* SocketHelper::_sock: the attempt it belongs to, 0 for null
  fd,       \* _sock_fd of the socket of each attempt is not null
  live,     \* attempts whose Socket exists
  timer,    \* attempts whose _con_timer is armed
  task,     \* attempts whose _async_con_cb is held by the Socket
  dns,      \* the worker's part of an attempt
  watch,    \* what the poller watches the descriptor for
  inside,   \* where the owner's thread is: in Socket::connect, or in shutdown
  handlers, \* sockets on which onSockConnect has set the callbacks
  keep,     \* _timer, which calls onManager, is armed
  owed,     \* attempts for which an error is posted to the poller
  by,       \* history: the thread that made the attempt
  results,  \* history: what onConnect was told of it
  errs,     \* history: how often onErr was called for it
  shut      \* history: attempts that shutdown cut off

sockets == <<fd, timer, task, watch>>
clientHistory == <<by, results, errs, shut>>
clientVars == <<cur, sockets, live, dns, inside, handlers, keep, owed, clientHistory>>

Made == Cardinality({c \in Conns : dns[c] # "none"})

ClientInit ==
  /\ cur = 0
  /\ fd = [c \in Conns |-> FALSE] /\ live = {} /\ timer = {} /\ task = {}
  /\ dns = [c \in Conns |-> "none"] /\ watch = [c \in Conns |-> "none"]
  /\ inside = "no" /\ handlers = {} /\ keep = FALSE /\ owed = {}
  /\ by = [c \in Conns |-> Loop] /\ results = [c \in Conns |-> <<>>]
  /\ errs = [c \in Conns |-> 0] /\ shut = {}
-----------------------------------------------------------------------------
\* The descriptor goes with the last reference, the poller forgets it and the
\* peer sees the end.
CloseFd(c) ==
  /\ fd' = [fd EXCEPT ![c] = FALSE]
  /\ watch' = [watch EXCEPT ![c] = "none"]
  /\ near' = IF fd[c] THEN [near EXCEPT ![c] = "closed"] ELSE near
  /\ UNCHANGED <<far, lost>>

\* startConnect and the first half of connect: a new Socket replaces the old
\* one, and the worker is given the name.  _sock has no lock: another thread than the
\* poller's makes the first attempt only, and while it is in a call, the poller's makes
\* none.
StartConnect(t) ==
  /\ inside = "no" /\ Made < Tries
  /\ t = User => cur = 0
  /\ LET c == Made + 1 IN
       /\ cur' = c
       /\ live' = {c}
       /\ dns' = [dns EXCEPT ![c] = "resolving"]
       /\ by' = [by EXCEPT ![c] = t]
       /\ IF t = Loop THEN /\ timer' = {c} /\ task' = {c}
                           /\ UNCHANGED inside
          ELSE timer' = {} /\ task' = {} /\ inside' = "posted"
  /\ IF cur # 0 THEN CloseFd(cur) ELSE UNCHANGED <<fd, watch, net>>
  /\ keep' = FALSE /\ handlers' = {}
  /\ UNCHANGED <<owed, results, errs, shut>>

\* The rest of connect: the timer, and only then the reference to the task.
ArmConTimer ==
  /\ inside = "posted" /\ inside' = "timed"
  /\ timer' = timer \cup {cur}
  /\ UNCHANGED <<cur, fd, task, watch, live, dns, handlers, keep, owed, clientHistory, net>>

HoldTask ==
  /\ inside = "timed" /\ inside' = "no"
  /\ task' = task \cup {cur}
  /\ UNCHANGED <<cur, fd, timer, watch, live, dns, handlers, keep, owed, clientHistory, net>>

\* The worker resolves the name and dials.
Resolve(c) ==
  /\ dns[c] = "resolving"
  /\ \/ dns' = [dns EXCEPT ![c] = "failed"] /\ UNCHANGED net
     \/ dns' = [dns EXCEPT ![c] = "dialed"] /\ Dial(c)
  /\ UNCHANGED <<cur, sockets, live, inside, handlers, keep, owed, clientHistory>>
-----------------------------------------------------------------------------
\* Faulty form: the attempt is not settled, its timer stays.
ConCbOpen(c, r) ==
  /\ task' = task \ {c} /\ UNCHANGED timer
  /\ results' = [results EXCEPT ![c] = Append(@, r)]
  /\ keep' = (r = "ok")
  /\ handlers' = IF r = "ok" THEN handlers \cup {cur} ELSE handlers

\* Faulty form: the callbacks of the socket are left as they were.
ConCbBare(c, r) ==
  /\ task' = task \ {c} /\ timer' = timer \ {c}
  /\ results' = [results EXCEPT ![c] = Append(@, r)]
  /\ keep' = (r = "ok")
  /\ UNCHANGED handlers

\* con_cb and onSockConnect: the attempt is settled, the callbacks are set on
\* the current socket, the keep-alive starts, onConnect is called.
ConCb(c, r) ==
  /\ task' = task \ {c} /\ timer' = timer \ {c}
  /\ results' = [results EXCEPT ![c] = Append(@, r)]
  /\ keep' = (r = "ok")
  /\ handlers' = IF r = "ok" THEN handlers \cup {cur} ELSE handlers

\* The owner's thread has not returned from Socket::connect.
Connecting == inside \in {"posted", "timed"}

\* Faulty form: the task is kept alive by the poller.
HeldStrong(c) == TRUE

\* weak_task: the Socket holds the task, or connect still does.
Held(c) == c \in task \/ (c = cur /\ Connecting)

\* The worker's result on the poller's thread.
TaskRun(c) ==
  /\ dns[c] \in {"failed", "dialed"}
  /\ dns' = [dns EXCEPT ![c] = "done"]
  /\ \/ /\ Held(c) /\ dns[c] = "failed"
        /\ ConCb(c, "failed")
        /\ CloseFd(c)
     \/ /\ Held(c) /\ dns[c] = "dialed"
        /\ fd' = [fd EXCEPT ![c] = TRUE] /\ watch' = [watch EXCEPT ![c] = "connect"]
        /\ UNCHANGED <<timer, task, handlers, keep, results, net>>
     \/ /\ ~Held(c)
        /\ near' = IF dns[c] = "dialed" THEN [near EXCEPT ![c] = "closed"] ELSE near
        /\ UNCHANGED <<sockets, handlers, keep, results, far, lost>>
  /\ UNCHANGED <<cur, live, inside, owed, by, errs, shut>>

\* The descriptor is writable: connected or refused.
OnConnected(c) ==
  /\ watch[c] = "connect" /\ near[c] \in {"open", "refused"}
  /\ IF near[c] = "open"
     THEN /\ ConCb(c, "ok")
          /\ watch' = [watch EXCEPT ![c] = "stream"]
          /\ UNCHANGED <<fd, net>>
     ELSE ConCb(c, "failed") /\ CloseFd(c)
  /\ UNCHANGED <<cur, live, dns, inside, owed, by, errs, shut>>

\* Faulty form: a peer that does not answer is waited for.
ConTimeOutFd(c) ==
  /\ c \in timer /\ ~Connecting /\ watch[c] # "none" /\ near[c] = "refused"
  /\ ConCb(c, "timeout") /\ CloseFd(c)
  /\ UNCHANGED <<cur, live, dns, inside, owed, by, errs, shut>>

\* The time-out, seconds later: connect has returned.
ConTimeOut(c) ==
  /\ c \in timer /\ ~Connecting
  /\ ConCb(c, "timeout") /\ CloseFd(c)
  /\ UNCHANGED <<cur, live, dns, inside, owed, by, errs, shut>>
-----------------------------------------------------------------------------
\* The socket's onErr: it counts for the current socket only.
Tell(c) ==
  IF c \in handlers /\ c = cur THEN errs' = [errs EXCEPT ![c] = @ + 1] /\ keep' = FALSE
  ELSE UNCHANGED <<errs, keep>>

\* shutdown on the poller's thread: the keep-alive is stopped, and if there is a
\* descriptor, the socket is closed and the owner told.
Shutdown ==
  /\ cur # 0
  /\ keep' = FALSE
  /\ IF fd[cur]
     THEN /\ CloseFd(cur)
          /\ timer' = timer \ {cur} /\ task' = task \ {cur}
          /\ shut' = shut \cup {cur}
          /\ errs' = [errs EXCEPT ![cur] = @ + (IF cur \in handlers THEN 1 ELSE 0)]
     ELSE UNCHANGED <<sockets, shut, errs, net>>
  /\ UNCHANGED <<cur, live, dns, inside, handlers, owed, by, results>>

\* On the owner's thread the poller's may come between its steps: the keep-alive is
\* stopped,
StopTimer ==
  /\ inside = "no" /\ cur # 0
  /\ keep' = FALSE /\ inside' = "check"
  /\ UNCHANGED <<cur, sockets, live, dns, handlers, owed, clientHistory, net>>

\* Faulty form: an error is posted for a socket that is closed already.
CheckFdNot ==
  /\ inside = "check" /\ inside' = "close"
  /\ UNCHANGED <<cur, sockets, live, dns, handlers, keep, owed, clientHistory, net>>

\* emitErr looks at the descriptor under its lock,
CheckFd ==
  /\ inside = "check" /\ inside' = IF fd[cur] THEN "close" ELSE "no"
  /\ UNCHANGED <<cur, sockets, live, dns, handlers, keep, owed, clientHistory, net>>

\* closes the socket, whether or not it still is open, and has the poller's thread tell
\* the owner.
CloseSock ==
  /\ inside = "close" /\ inside' = "no"
  /\ CloseFd(cur)
  /\ timer' = timer \ {cur} /\ task' = task \ {cur}
  /\ shut' = shut \cup {cur}
  /\ owed' = owed \cup {cur}
  /\ UNCHANGED <<cur, live, dns, handlers, keep, by, results, errs>>

\* The posted error: the Socket is held weakly.
OnErrTask(c) ==
  /\ c \in owed
  /\ owed' = owed \ {c}
  /\ IF c \in live THEN Tell(c) ELSE UNCHANGED <<errs, keep>>
  /\ UNCHANGED <<cur, sockets, live, dns, inside, handlers, by, results, shut, net>>

\* The server closed the connection.
OnClosed(c) ==
  /\ watch[c] = "stream" /\ FarClosed(c)
  /\ CloseFd(c)
  /\ timer' = timer \ {c} /\ task' = task \ {c}
  /\ Tell(c)
  /\ UNCHANGED <<cur, live, dns, inside, handlers, owed, by, results, shut>>
-----------------------------------------------------------------------------
ClientLoop == \E c \in Conns : TaskRun(c) \/ OnConnected(c) \/ OnErrTask(c) \/ OnClosed(c)

ClientTimer == \E c \in Conns : ConTimeOut(c)

Worker == \E c \in Conns : Resolve(c)

\* The owner's thread inside a call.
Calling == ArmConTimer \/ HoldTask \/ CheckFd \/ CloseSock

ClientNext ==
  \/ ClientLoop \/ ClientTimer \/ Worker \/ Calling
  \/ Shutdown \/ StopTimer
  \/ \E t \in {Loop, User} : StartConnect(t)
-----------------------------------------------------------------------------
ClientTypeOK ==
  /\ cur \in 0 .. Tries
  /\ fd \in [Conns -> BOOLEAN]
  /\ live \subseteq Conns /\ timer \subseteq Conns /\ task \subseteq Conns
  /\ dns \in [Conns -> {"none", "resolving", "failed", "dialed", "done"}]
  /\ watch \in [Conns -> {"none", "connect", "stream"}]
  /\ inside \in {"no", "posted", "timed", "check", "close"}
  /\ handlers \subseteq Conns /\ keep \in BOOLEAN /\ owed \subseteq Conns
  /\ by \in [Conns -> {Loop, User}] /\ errs \in [Conns -> 0 .. 2] /\ shut \subseteq Conns
  /\ results \in [Conns -> Seq({"ok", "failed", "timeout"})]

\* An attempt made on the poller's thread is reported once.  One made by another
\* thread may already be settled when connect arms the timer: it then times out
\* as well, and nothing else can be reported twice.
OneResult ==
  \A c \in Conns :
    \/ Len(results[c]) <= 1
    \/ by[c] = User /\ Len(results[c]) = 2 /\ results[c][2] = "timeout"

\* onConnect and onErr speak of the current attempt, never of one that was
\* replaced, and onErr only of one that was connected.
NothingStale ==
  [][\A c \in Conns :
       /\ results'[c] # results[c] => cur' = c
       /\ errs'[c] # errs[c] => cur' = c /\ results[c] # <<>> /\ results[c][1] = "ok"]_<<results, errs>>

\* A connected socket tells its owner of what happens to it, and the keep-alive
\* runs only for a connection that is open, or whose end is about to be told.
ConnectedIsOwned ==
  /\ \A c \in Conns : watch[c] = "stream" => c \in handlers
  /\ keep => (fd[cur] /\ watch[cur] = "stream") \/ cur \in owed

\* onErr is called once for an attempt, and a second time only if the owner's thread
\* shut it down as well: both threads may find it open.
ErrOnce == \A c \in Conns : errs[c] <= (IF c \in shut THEN 2 ELSE 1)

\* An attempt ends: it is reported, replaced, or was cut off by shutdown.
AttemptEnds == []<>(cur = 0 \/ results[cur] # <<>> \/ cur \in shut)
=============================================================================
