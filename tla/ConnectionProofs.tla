------------------------- MODULE ConnectionProofs -------------------------
(***************************************************************************)
(* Theorems about connections, and about a session on one.                 *)
(*                                                                         *)
(* TcpLink, for any number of attempts, servers and addresses.  The client *)
(* and the server share the network only, and the invariant of each needs  *)
(* nothing of the other: what the client knows is in its own state, and of *)
(* far only the steps of a descriptor from the backlog to the session      *)
(* matter to the server.                                                   *)
(*                                                                         *)
(* HttpSession, for any requests, streams and tracks.  What was sent is    *)
(* either plain (Waiting), or plain up to the head of one stream and after *)
(* it in the order and the frames of that stream (Watching), whatever was  *)
(* asked before and whenever the stream is found.                          *)
(***************************************************************************)
EXTENDS TcpLink, HttpSession, FiniteSetTheorems, SequenceFacts

Reports == {"ok", "failed", "timeout"}

\* The attempts are numbered as they are made, and all but the last have nothing
\* left by which they could report.
Current ==
  /\ \A c \in Conns : dns[c] # "none" <=> c <= cur
  /\ live = {cur} \ {0}
  /\ timer \subseteq {cur} /\ task \subseteq {cur} /\ handlers \subseteq {cur}
  /\ \A c \in Conns : watch[c] # "none" => c = cur
  /\ inside # "no" => cur # 0
  /\ Connecting => by[cur] = User

\* A descriptor comes with the worker's result, which comes once.
Descriptors ==
  \A c \in Conns :
    /\ fd[c] <=> watch[c] # "none"
    /\ fd[c] => dns[c] = "done"

\* onErr is for a descriptor that is gone: of two in an attempt, one was posted by a
\* shutdown that had found it open.
Errors ==
  \A c \in Conns :
    /\ c \in owed => dns[c] = "done" /\ ~fd[c] /\ c \in shut /\ errs[c] <= 1
    /\ errs[c] # 0 => dns[c] = "done" /\ ~fd[c]
    /\ errs[c] = 2 => c \in shut
    /\ c = cur /\ inside = "close" => dns[c] = "done" /\ c \notin owed /\ errs[c] <= 1

\* What may still report an attempt that was reported.
Settled ==
  \A c \in Conns :
    /\ results[c] # <<>> =>
         /\ c <= cur /\ watch[c] # "connect"
         /\ ~Held(c) \/ dns[c] = "done"
         /\ c \in timer => by[c] = User
    /\ Len(results[c]) <= 2
    /\ Len(results[c]) = 2 =>
         /\ by[c] = User /\ results[c][2] = "timeout"
         /\ c \notin timer /\ (c = cur => ~Connecting)
    /\ c \in handlers => results[c] # <<>> /\ results[c][1] = "ok"

Owned ==
  /\ \A c \in Conns : watch[c] = "stream" => c \in handlers
  /\ keep => cur # 0 /\ cur \in handlers /\ (watch[cur] = "stream" \/ cur \in owed)

ClientInv == ClientTypeOK /\ Current /\ Descriptors /\ Errors /\ Settled /\ Owned

\* Of the current attempt, and of an error only when it was connected.
Fresh ==
  \A c \in Conns :
    /\ results'[c] # results[c] => cur' = c
    /\ errs'[c] # errs[c] => cur' = c /\ results[c] # <<>> /\ results[c][1] = "ok"

Kept == ClientInv' /\ Fresh

\* A session is at one address of one server.
OnePlace ==
  \A v, w \in Servers : \A a, b \in Addresses :
    session[v][a] # 0 /\ session[v][a] = session[w][b] => v = w /\ a = b

\* An address is listed for the session that is there.
Listed ==
  \A a \in Addresses :
    /\ \A v \in Servers : session[v][a] # 0 => mapped[a] = session[v][a]
    /\ mapped[a] # 0 => \E v \in Servers : session[v][a] = mapped[a]

Placed(c) == \E v \in Servers : \E a \in Addresses : session[v][a] = c

\* It belongs to a server that is not being destroyed.
InUse(c) == \E v \in up : \E a \in Addresses : session[v][a] = c

\* How often a session was told: by the end of its socket, and by the owner's thread that
\* destroys it with its server.
Telling(c) ==
  /\ told[c] <= (IF up = Servers THEN 1 ELSE 2)
  /\ Placed(c) => told[c] <= (IF c \in shutting THEN 1 ELSE 0) + (IF c = dying THEN 1 ELSE 0)
  /\ InUse(c) => told[c] = (IF c \in shutting THEN 1 ELSE 0) /\ c # dying /\ c \notin heard
  /\ far[c] \notin {"open", "closed"} => told[c] = 0 /\ c \notin shutting /\ ~Placed(c) /\ c \notin heard
  /\ far[c] \in {"open", "closed"} => told[c] >= 1 \/ (Placed(c) /\ c \notin shutting)
  /\ c \in attached => c \notin shutting
  /\ c = dying => told[c] >= 1 /\ Placed(c)

\* What is to be erased was told, so that nothing else takes it away before.
Erasing ==
  \A v \in up : \A k \in tasks[v] : k[1] = "erase" => k[2] \in Addresses /\ session[v][k[2]] = k[3] /\ k[3] \in shutting

ServerInv ==
  /\ ServerTypeOK /\ far \in [Conns -> {"none", "backlog", "open", "closed", "dropped"}]
  /\ OnePlace /\ Listed /\ Erasing /\ (up = Servers => heard = {})
  /\ \A c \in Conns : Telling(c)
-----------------------------------------------------------------------------
USE TcpNetAssumption, ThreadsAssumption, ServersAssumption

LEMMA ConnsAre == ASSUME NEW c \in Conns PROVE c \in Nat /\ c # 0 /\ 1 <= c /\ c <= Tries
  BY DEF Conns

LEMMA MadeIsCur == ASSUME ClientInv PROVE cur \in Nat /\ Made = cur
<1>1. cur \in Nat /\ cur <= Tries
  BY DEF ClientInv, ClientTypeOK
<1>2. {c \in Conns : dns[c] # "none"} = 1 .. cur
  BY <1>1 DEF ClientInv, Current, Conns
<1>3. Cardinality(1 .. cur) = cur
  BY <1>1, FS_Interval
<1> QED
  BY <1>1, <1>2, <1>3 DEF Made

\* One more report.
LEMMA OneMore ==
  ASSUME NEW s \in Seq(Reports), NEW r \in Reports
  PROVE  /\ Append(s, r) \in Seq(Reports) /\ Append(s, r) # <<>>
         /\ Len(Append(s, r)) = Len(s) + 1 /\ Len(s) \in Nat
         /\ s = <<>> => Append(s, r)[1] = r /\ Len(s) = 0
         /\ Len(s) = 1 => Append(s, r)[2] = r
         /\ s # <<>> => Append(s, r)[1] = s[1] /\ Len(s) >= 1
<1>1. Append(s, r) \in Seq(Reports) /\ Append(s, r) # <<>> /\ Len(Append(s, r)) = Len(s) + 1 /\ Len(s) \in Nat
  BY AppendProperties, LenProperties
<1>2. s = <<>> => Len(s) = 0
  BY EmptySeq
<1>3. \A i \in 1 .. Len(s) : Append(s, r)[i] = s[i]
  BY AppendProperties
<1>4. Append(s, r)[Len(s) + 1] = r
  BY AppendProperties
<1>5. s # <<>> => Len(s) >= 1
  BY <1>1, EmptySeq
<1>6. s # <<>> => Append(s, r)[1] = s[1]
  BY <1>1, <1>3, <1>5
<1>7. s = <<>> => Append(s, r)[1] = r
  <2>1. Len(s) = 0 => Len(s) + 1 = 1
    OBVIOUS
  <2> QED
    BY <1>2, <1>4, <2>1
<1>8. Len(s) = 1 => Append(s, r)[2] = r
  <2>1. Len(s) = 1 => Len(s) + 1 = 2
    OBVIOUS
  <2> QED
    BY <1>4, <2>1
<1> QED
  BY <1>1, <1>2, <1>5, <1>6, <1>7, <1>8

LEMMA ClientInit0 == Init => ClientInv
<1> SUFFICES ASSUME ClientInit PROVE ClientInv
  BY DEF Init
<1>1. <<>> \in Seq(Reports) /\ Len(<<>>) = 0
  OBVIOUS
<1>2. ClientTypeOK
  <2>1. results \in [Conns -> Seq(Reports)]
    BY <1>1 DEF ClientInit
  <2>2. cur \in 0 .. Tries /\ 0 \in 0 .. 2
    BY DEF ClientInit
  <2> QED
    BY <2>1, <2>2 DEF ClientInit, ClientTypeOK, Reports
<1>3. Current /\ Descriptors /\ Errors /\ Settled /\ Owned
  BY <1>1, ConnsAre DEF ClientInit, Current, Descriptors, Errors, Settled, Owned, Connecting
<1> QED
  BY <1>2, <1>3 DEF ClientInv
-----------------------------------------------------------------------------
LEMMA ClosedFd ==
  ASSUME ClientInv, NEW c \in Conns, CloseFd(c)
  PROVE  /\ fd' \in [Conns -> BOOLEAN] /\ watch' \in [Conns -> {"none", "connect", "stream"}]
         /\ ~fd'[c] /\ watch'[c] = "none"
         /\ \A d \in Conns \ {c} : fd'[d] = fd[d] /\ watch'[d] = watch[d]
  BY DEF CloseFd, ClientInv, ClientTypeOK

LEMMA StartConnectKept ==
  ASSUME ClientInv, NEW t \in {Loop, User}, StartConnect(t)
  PROVE  Kept
<1> DEFINE c == cur + 1
<1>1. /\ cur \in Nat /\ c \in Conns /\ cur' = c /\ live' = {c} /\ dns' = [dns EXCEPT ![c] = "resolving"]
      /\ by' = [by EXCEPT ![c] = t] /\ inside = "no"
      /\ keep' = FALSE /\ handlers' = {} /\ UNCHANGED <<owed, results, errs>> /\ UNCHANGED shut
  BY MadeIsCur DEF StartConnect, Conns
<1>2. \/ t = Loop /\ timer' = {c} /\ task' = {c} /\ inside' = "no"
      \/ t = User /\ timer' = {} /\ task' = {} /\ inside' = "posted"
  BY MadeIsCur DEF StartConnect
<1>3. /\ fd' \in [Conns -> BOOLEAN] /\ watch' \in [Conns -> {"none", "connect", "stream"}]
      /\ \A d \in Conns : ~fd'[d] /\ watch'[d] = "none"
  <2>1. CASE cur = 0
    BY <2>1, ConnsAre DEF StartConnect, ClientInv, ClientTypeOK, Current, Descriptors
  <2>2. CASE cur # 0
    <3>1. cur \in Conns /\ CloseFd(cur)
      BY <2>2 DEF StartConnect, ClientInv, ClientTypeOK, Conns
    <3> QED
      BY <3>1, ClosedFd DEF ClientInv, Current, Descriptors
  <2> QED
    BY <2>1, <2>2
<1>4. dns[c] = "none" /\ results[c] = <<>>
  BY <1>1, ConnsAre DEF ClientInv, Current, Settled
<1> HIDE DEF c
<1>5. ClientTypeOK'
  <2>1. c \in 0 .. Tries /\ c \in Nat
    BY <1>1, ConnsAre DEF Conns
  <2>2. timer' \subseteq Conns /\ task' \subseteq Conns /\ inside' \in {"no", "posted", "timed", "check", "close"}
    BY <1>1, <1>2
  <2>3. dns' \in [Conns -> {"none", "resolving", "failed", "dialed", "done"}] /\ by' \in [Conns -> {Loop, User}]
    BY <1>1 DEF ClientTypeOK, ClientInv
  <2> QED
    BY <1>1, <1>3, <2>1, <2>2, <2>3 DEF ClientTypeOK, ClientInv
<1>6. Current'
  <2>1. \A d \in Conns : dns'[d] # "none" <=> d <= c
    BY <1>1 DEF c, Conns, ClientInv, ClientTypeOK, Current
  <2>2. inside' # "no" => cur' # 0 /\ by'[cur'] = User
    BY <1>1, <1>2, ConnsAre DEF ClientInv, ClientTypeOK
  <2>3. Connecting' => by'[cur'] = User
    BY <2>2 DEF Connecting
  <2> QED
    BY <1>1, <1>2, <1>3, <2>1, <2>2, <2>3, ConnsAre DEF Current
<1>7. Descriptors' /\ Owned'
  BY <1>1, <1>3 DEF Descriptors, Owned
<1>8. Errors'
  <2>1. inside' # "close"
    BY <1>1, <1>2
  <2>2. \A d \in Conns : dns[d] = "done" => dns'[d] = "done"
    BY <1>1, <1>4 DEF ClientInv, ClientTypeOK
  <2>3. errs' = errs /\ owed' = owed /\ shut' = shut /\ \A d \in Conns : ~fd'[d]
    BY <1>1, <1>3
  <2> QED
    BY <2>1, <2>2, <2>3 DEF Errors, ClientInv
<1>9. Settled'
  <2> SUFFICES ASSUME NEW d \in Conns
               PROVE  /\ results[d] # <<>> =>
                           /\ d <= c /\ watch'[d] # "connect"
                           /\ ~Held(d)' \/ dns'[d] = "done"
                           /\ d \in timer' => by'[d] = User
                      /\ Len(results[d]) <= 2
                      /\ Len(results[d]) = 2 =>
                           /\ by'[d] = User /\ results[d][2] = "timeout"
                           /\ d \notin timer' /\ (d = c => ~Connecting')
                      /\ d \in handlers' => results[d] # <<>> /\ results[d][1] = "ok"
    BY <1>1 DEF Settled
  <2>1. CASE d = c
    BY <2>1, <1>1, <1>4
  <2>2. CASE d # c
    <3>1. d \notin timer' /\ ~Held(d)' /\ by'[d] = by[d]
      BY <2>2, <1>1, <1>2 DEF Held, Connecting, ClientInv, ClientTypeOK
    <3>2. results[d] # <<>> => d <= c
      BY <1>1, ConnsAre DEF ClientInv, Settled, c
    <3> QED
      BY <2>2, <3>1, <3>2, <1>1, <1>3 DEF ClientInv, Settled
  <2> QED
    BY <2>1, <2>2
<1>10. Fresh
  BY <1>1 DEF Fresh
<1> QED
  BY <1>5, <1>6, <1>7, <1>8, <1>9, <1>10 DEF Kept, ClientInv

LEMMA ArmConTimerKept ==
  ASSUME ClientInv, ArmConTimer PROVE Kept
<1>1. /\ inside = "posted" /\ inside' = "timed" /\ timer' = timer \cup {cur}
      /\ UNCHANGED <<cur, fd, task, watch, live, dns, handlers, keep, owed, by, results, errs, shut>>
  BY DEF ArmConTimer, clientHistory
<1>2. cur \in Conns /\ by[cur] = User /\ Connecting /\ Connecting'
  BY <1>1 DEF ClientInv, ClientTypeOK, Current, Conns, Connecting
<1>3. ClientTypeOK'
  BY <1>1, <1>2 DEF ClientInv, ClientTypeOK
<1>4. Current' /\ Descriptors' /\ Errors' /\ Owned' /\ Fresh
  BY <1>1, <1>2 DEF ClientInv, Current, Descriptors, Errors, Owned, Fresh
<1>5. Settled'
  <2>1. \A c \in Conns : Held(c)' <=> Held(c)
    BY <1>1 DEF Held, Connecting
  <2> QED
    BY <1>1, <1>2, <2>1 DEF ClientInv, Settled
<1> QED
  BY <1>3, <1>4, <1>5 DEF Kept, ClientInv

LEMMA HoldTaskKept ==
  ASSUME ClientInv, HoldTask PROVE Kept
<1>1. /\ inside = "timed" /\ inside' = "no" /\ task' = task \cup {cur}
      /\ UNCHANGED <<cur, fd, timer, watch, live, dns, handlers, keep, owed, by, results, errs, shut>>
  BY DEF HoldTask, clientHistory
<1>2. cur \in Conns /\ Connecting /\ ~Connecting'
  BY <1>1 DEF ClientInv, ClientTypeOK, Current, Conns, Connecting
<1>3. ClientTypeOK'
  BY <1>1, <1>2 DEF ClientInv, ClientTypeOK
<1>4. Current' /\ Descriptors' /\ Errors' /\ Owned' /\ Fresh
  BY <1>1, <1>2 DEF ClientInv, Current, Descriptors, Errors, Owned, Fresh
<1>5. Settled'
  <2>1. \A c \in Conns : Held(c)' <=> Held(c)
    BY <1>1, <1>2 DEF Held, ClientInv, Current
  <2> QED
    BY <1>1, <1>2, <2>1 DEF ClientInv, Settled
<1> QED
  BY <1>3, <1>4, <1>5 DEF Kept, ClientInv

LEMMA ResolveKept ==
  ASSUME ClientInv, NEW c \in Conns, Resolve(c) PROVE Kept
<1>1. PICK r \in {"failed", "dialed"} :
        /\ dns[c] = "resolving" /\ dns' = [dns EXCEPT ![c] = r]
        /\ UNCHANGED <<cur, fd, timer, task, watch, live, inside, handlers, keep, owed, by, results, errs, shut>>
  BY DEF Resolve, sockets, clientHistory
<1>2. ClientTypeOK'
  BY <1>1 DEF ClientInv, ClientTypeOK
<1>3. \A d \in Conns : /\ dns[d] = "done" <=> dns'[d] = "done"
                       /\ dns[d] = "none" <=> dns'[d] = "none"
                       /\ Held(d)' <=> Held(d)
                       /\ Connecting' <=> Connecting
  BY <1>1 DEF ClientInv, ClientTypeOK, Held, Connecting
<1>4. Current' /\ Owned' /\ Fresh
  BY <1>1, <1>3 DEF ClientInv, Current, Owned, Fresh, Connecting
<1>5. Descriptors' /\ Errors'
  BY <1>1, <1>3 DEF ClientInv, Descriptors, Errors
<1>6. Settled'
  BY <1>1, <1>3 DEF ClientInv, Settled, Connecting
<1> QED
  BY <1>2, <1>4, <1>5, <1>6 DEF Kept, ClientInv

\* The report r of the current attempt, which is allowed if there was none before,
\* or if it is the time-out that another thread than the loop armed late.
LEMMA ReportKept ==
  ASSUME ClientInv, NEW c \in Conns, c = cur, NEW r \in Reports, ConCb(c, r),
         results[c] = <<>> \/ (Len(results[c]) = 1 /\ by[c] = User /\ r = "timeout" /\ ~Connecting),
         UNCHANGED <<cur, live, inside, owed, by, errs, shut>>,
         dns' \in [Conns -> {"none", "resolving", "failed", "dialed", "done"}],
         \A d \in Conns : (dns'[d] = "none" <=> dns[d] = "none") /\ (dns[d] = "done" => dns'[d] = "done"),
         ~Connecting \/ dns'[c] = "done",
         fd' \in [Conns -> BOOLEAN], watch' \in [Conns -> {"none", "connect", "stream"}],
         \A d \in Conns \ {c} : fd'[d] = fd[d] /\ watch'[d] = watch[d],
         \/ r # "ok" /\ ~fd'[c] /\ watch'[c] = "none"
         \/ r = "ok" /\ fd'[c] /\ fd[c] /\ watch'[c] = "stream"
  PROVE  Kept
<1>1. /\ task' = task \ {c} /\ timer' = timer \ {c} /\ results' = [results EXCEPT ![c] = Append(@, r)]
      /\ keep' = (r = "ok") /\ handlers' = IF r = "ok" THEN handlers \cup {c} ELSE handlers
  BY DEF ConCb
<1>2. results \in [Conns -> Seq(Reports)] /\ results[c] \in Seq(Reports)
  BY DEF ClientInv, ClientTypeOK, Reports
<1>3. /\ results' \in [Conns -> Seq(Reports)] /\ results'[c] = Append(results[c], r)
      /\ \A d \in Conns \ {c} : results'[d] = results[d]
  BY <1>1, <1>2, OneMore
<1>4. ClientTypeOK'
  BY <1>1, <1>3 DEF ClientInv, ClientTypeOK, Reports
<1>0. Connecting' <=> Connecting
  BY DEF Connecting
<1>5. Current'
  BY <1>0, <1>1 DEF ClientInv, Current
<1>6. Descriptors' /\ Errors'
  BY DEF ClientInv, Descriptors, Errors
<1>7. Owned'
  <2>1. \A d \in Conns : watch'[d] = "stream" => d \in handlers'
    BY <1>1 DEF ClientInv, Owned, Current
  <2>2. keep' => cur' # 0 /\ cur' \in handlers' /\ watch'[cur'] = "stream"
    BY <1>1, ConnsAre
  <2> QED
    BY <2>1, <2>2 DEF Owned
<1>8. Fresh
  BY <1>3 DEF Fresh
<1>9. Settled'
  <2> SUFFICES ASSUME NEW d \in Conns
               PROVE  /\ results'[d] # <<>> =>
                           /\ d <= cur /\ watch'[d] # "connect"
                           /\ ~Held(d)' \/ dns'[d] = "done"
                           /\ d \in timer' => by[d] = User
                      /\ Len(results'[d]) <= 2
                      /\ Len(results'[d]) = 2 =>
                           /\ by[d] = User /\ results'[d][2] = "timeout"
                           /\ d \notin timer' /\ (d = cur => ~Connecting)
                      /\ d \in handlers' => results'[d] # <<>> /\ results'[d][1] = "ok"
    BY <1>0 DEF Settled
  <2>1. CASE d = c
    <3>1. c <= cur /\ watch'[c] # "connect" /\ c \notin timer' /\ (~Held(c)' \/ dns'[c] = "done")
      BY <1>0, <1>1, ConnsAre DEF Held
    <3>2. Len(results'[c]) <= 2 /\ (Len(results'[c]) = 2 => by[c] = User /\ results'[c][2] = "timeout" /\ ~Connecting)
      BY <1>2, <1>3, OneMore
    <3>3. c \in handlers' => results'[c] # <<>> /\ results'[c][1] = "ok"
      <4>1. CASE r = "ok"
        <5>1. results[c] = <<>>
          BY <4>1
        <5>2. Append(results[c], r) # <<>> /\ Append(results[c], r)[1] = r
          BY <5>1, <1>2, OneMore
        <5> QED
          BY <4>1, <5>2, <1>3
      <4>2. CASE r # "ok"
        <5>1. c \in handlers' => results[c] # <<>> /\ results[c][1] = "ok"
          BY <4>2, <1>1 DEF ClientInv, Settled
        <5>2. results[c] # <<>> => results'[c] # <<>> /\ results'[c][1] = results[c][1]
          BY <1>2, <1>3, OneMore
        <5> QED
          BY <5>1, <5>2
      <4> QED
        BY <4>1, <4>2
    <3> QED
      BY <2>1, <3>1, <3>2, <3>3
  <2>2. CASE d # c
    BY <2>2, <1>0, <1>1, <1>3 DEF ClientInv, Settled, Held
  <2> QED
    BY <2>1, <2>2
<1> QED
  BY <1>4, <1>5, <1>6, <1>7, <1>8, <1>9 DEF Kept, ClientInv

LEMMA TaskRunKept ==
  ASSUME ClientInv, NEW c \in Conns, TaskRun(c) PROVE Kept
<1>1. /\ dns[c] \in {"failed", "dialed"} /\ dns' = [dns EXCEPT ![c] = "done"]
      /\ UNCHANGED <<cur, live, inside, owed, by, errs, shut>>
  BY DEF TaskRun
<1>2. /\ dns' \in [Conns -> {"none", "resolving", "failed", "dialed", "done"}] /\ dns'[c] = "done"
      /\ \A d \in Conns : /\ dns'[d] = "none" <=> dns[d] = "none"
                          /\ dns[d] = "done" => dns'[d] = "done"
                          /\ d # c => dns'[d] = dns[d]
  BY <1>1 DEF ClientInv, ClientTypeOK
<1>3. ~fd[c] /\ watch[c] = "none" /\ c \notin owed /\ errs[c] = 0
  BY <1>1 DEF ClientInv, Descriptors, Errors, ClientTypeOK
<1>4. Held(c) => c = cur /\ results[c] = <<>>
  BY <1>1 DEF Held, ClientInv, Current, Settled
<1>0. Connecting' <=> Connecting
  BY <1>1 DEF Connecting
<1>5. CASE Held(c) /\ dns[c] = "failed" /\ ConCb(c, "failed") /\ CloseFd(c)
  <2>1. /\ fd' \in [Conns -> BOOLEAN] /\ watch' \in [Conns -> {"none", "connect", "stream"}]
        /\ ~fd'[c] /\ watch'[c] = "none"
        /\ \A d \in Conns \ {c} : fd'[d] = fd[d] /\ watch'[d] = watch[d]
    BY <1>5, ClosedFd
  <2> QED
    BY <1>1, <1>2, <1>4, <1>5, <2>1, ReportKept DEF Reports
<1>6. CASE /\ Held(c) /\ dns[c] = "dialed"
           /\ fd' = [fd EXCEPT ![c] = TRUE] /\ watch' = [watch EXCEPT ![c] = "connect"]
           /\ UNCHANGED <<timer, task, handlers, keep, results>>
  <2>1. /\ fd' \in [Conns -> BOOLEAN] /\ watch' \in [Conns -> {"none", "connect", "stream"}]
        /\ fd'[c] /\ watch'[c] = "connect"
        /\ \A d \in Conns \ {c} : fd'[d] = fd[d] /\ watch'[d] = watch[d]
    BY <1>6 DEF ClientInv, ClientTypeOK
  <2>2. ClientTypeOK'
    BY <1>1, <1>2, <1>6, <2>1 DEF ClientInv, ClientTypeOK
  <2>3. Current' /\ Fresh
    BY <1>0, <1>1, <1>2, <1>4, <1>6, <2>1 DEF ClientInv, Current, Fresh
  <2>4. Descriptors' /\ Errors'
    BY <1>1, <1>2, <1>3, <2>1 DEF ClientInv, Descriptors, Errors
  <2>5. Owned'
    BY <1>1, <1>3, <1>4, <1>6, <2>1 DEF ClientInv, Owned, Settled
  <2>6. Settled'
    BY <1>0, <1>1, <1>2, <1>4, <1>6, <2>1 DEF ClientInv, Settled, Held
  <2> QED
    BY <2>2, <2>3, <2>4, <2>5, <2>6 DEF Kept, ClientInv
<1>7. CASE UNCHANGED sockets /\ UNCHANGED <<handlers, keep, results>>
  <2>1. UNCHANGED <<fd, timer, task, watch, handlers, keep, results>>
    BY <1>7 DEF sockets
  <2>2. ClientTypeOK'
    BY <1>1, <1>2, <2>1 DEF ClientInv, ClientTypeOK
  <2>3. Current' /\ Fresh /\ Owned'
    BY <1>0, <1>1, <1>2, <2>1 DEF ClientInv, Current, Fresh, Owned
  <2>4. Descriptors' /\ Errors'
    BY <1>1, <1>2, <2>1 DEF ClientInv, Descriptors, Errors
  <2>5. Settled'
    BY <1>0, <1>1, <1>2, <2>1 DEF ClientInv, Settled, Held
  <2> QED
    BY <2>2, <2>3, <2>4, <2>5 DEF Kept, ClientInv
<1> QED
  BY <1>5, <1>6, <1>7 DEF TaskRun

LEMMA OnConnectedKept ==
  ASSUME ClientInv, NEW c \in Conns, OnConnected(c) PROVE Kept
<1>1. /\ watch[c] = "connect" /\ UNCHANGED <<cur, live, dns, inside, owed, by, errs, shut>>
  BY DEF OnConnected
<1>2. c = cur /\ results[c] = <<>> /\ fd[c] /\ dns[c] = "done"
  BY <1>1 DEF ClientInv, Current, Settled, Descriptors
<1>3. dns' \in [Conns -> {"none", "resolving", "failed", "dialed", "done"}] /\ dns'[c] = "done"
  BY <1>1, <1>2 DEF ClientInv, ClientTypeOK
<1>4. CASE ConCb(c, "ok") /\ watch' = [watch EXCEPT ![c] = "stream"] /\ UNCHANGED fd
  <2>1. /\ fd' \in [Conns -> BOOLEAN] /\ watch' \in [Conns -> {"none", "connect", "stream"}]
        /\ fd'[c] /\ watch'[c] = "stream"
        /\ \A d \in Conns \ {c} : fd'[d] = fd[d] /\ watch'[d] = watch[d]
    BY <1>2, <1>4 DEF ClientInv, ClientTypeOK
  <2> QED
    BY <1>1, <1>2, <1>3, <1>4, <2>1, ReportKept DEF Reports
<1>5. CASE ConCb(c, "failed") /\ CloseFd(c)
  <2>1. /\ fd' \in [Conns -> BOOLEAN] /\ watch' \in [Conns -> {"none", "connect", "stream"}]
        /\ ~fd'[c] /\ watch'[c] = "none"
        /\ \A d \in Conns \ {c} : fd'[d] = fd[d] /\ watch'[d] = watch[d]
    BY <1>5, ClosedFd
  <2> QED
    BY <1>1, <1>2, <1>3, <1>5, <2>1, ReportKept DEF Reports
<1> QED
  BY <1>4, <1>5 DEF OnConnected

LEMMA ConTimeOutKept ==
  ASSUME ClientInv, NEW c \in Conns, ConTimeOut(c) PROVE Kept
<1>1. /\ c \in timer /\ ~Connecting /\ ConCb(c, "timeout") /\ CloseFd(c)
      /\ UNCHANGED <<cur, live, dns, inside, owed, by, errs, shut>>
  BY DEF ConTimeOut
<1>2. c = cur
  BY <1>1 DEF ClientInv, Current
<1>3. results[c] = <<>> \/ (Len(results[c]) = 1 /\ by[c] = User)
  <2>1. results[c] \in Seq(Reports)
    BY DEF ClientInv, ClientTypeOK, Reports
  <2>2. Len(results[c]) \in Nat /\ (results[c] # <<>> => Len(results[c]) # 0)
    BY <2>1, EmptySeq, LenProperties
  <2>3. Len(results[c]) <= 2 /\ Len(results[c]) # 2 /\ (results[c] # <<>> => by[c] = User)
    BY <1>1 DEF ClientInv, Settled
  <2>4. ASSUME NEW n \in Nat, n <= 2, n # 2, n # 0 PROVE n = 1
    BY <2>4
  <2> QED
    BY <2>2, <2>3, <2>4
<1>4. dns' \in [Conns -> {"none", "resolving", "failed", "dialed", "done"}]
  BY <1>1 DEF ClientInv, ClientTypeOK
<1>5. /\ fd' \in [Conns -> BOOLEAN] /\ watch' \in [Conns -> {"none", "connect", "stream"}]
      /\ ~fd'[c] /\ watch'[c] = "none"
      /\ \A d \in Conns \ {c} : fd'[d] = fd[d] /\ watch'[d] = watch[d]
  BY <1>1, ClosedFd
<1> QED
  BY <1>1, <1>2, <1>3, <1>4, <1>5, ReportKept DEF Reports

\* A socket that is closed on the poller's thread, and what is told of it.
LEMMA ClosedKept ==
  ASSUME ClientInv, NEW c \in Conns, fd[c], CloseFd(c),
         timer' = timer \ {c}, task' = task \ {c},
         UNCHANGED <<cur, live, dns, inside, handlers, owed, by, results>>,
         shut' \subseteq Conns, shut \subseteq shut', keep' = FALSE,
         errs' = [errs EXCEPT ![c] = @ + (IF c \in handlers THEN 1 ELSE 0)]
  PROVE  Kept
<1>1. /\ fd' \in [Conns -> BOOLEAN] /\ watch' \in [Conns -> {"none", "connect", "stream"}]
      /\ ~fd'[c] /\ watch'[c] = "none"
      /\ \A d \in Conns \ {c} : fd'[d] = fd[d] /\ watch'[d] = watch[d]
  BY ClosedFd
<1>2. c = cur /\ dns[c] = "done" /\ c \notin owed /\ errs[c] = 0
  BY DEF ClientInv, Current, Descriptors, Errors, ClientTypeOK
<1>3. /\ errs' \in [Conns -> 0 .. 2] /\ errs'[c] \in 0 .. 1
      /\ \A d \in Conns \ {c} : errs'[d] = errs[d]
      /\ errs'[c] # 0 => c \in handlers
  <2> DEFINE e == IF c \in handlers THEN 1 ELSE 0
  <2>1. errs \in [Conns -> 0 .. 2]
    BY DEF ClientInv, ClientTypeOK
  <2>2. errs' = [errs EXCEPT ![c] = e] /\ e \in 0 .. 1 /\ e \in 0 .. 2 /\ (e # 0 => c \in handlers)
    BY <1>2
  <2> HIDE DEF e
  <2> QED
    BY <2>1, <2>2
<1>4. ClientTypeOK'
  BY <1>1, <1>3 DEF ClientInv, ClientTypeOK
<1>5. Connecting' <=> Connecting
  BY DEF Connecting
<1>6. Current' /\ Owned'
  BY <1>1, <1>2, <1>5 DEF ClientInv, Current, Owned
<1>7. Descriptors'
  BY <1>1, <1>2 DEF ClientInv, Descriptors
<1>8. Errors'
  <2> SUFFICES ASSUME NEW d \in Conns
               PROVE  /\ d \in owed => dns[d] = "done" /\ ~fd'[d] /\ d \in shut' /\ errs'[d] <= 1
                      /\ errs'[d] # 0 => dns[d] = "done" /\ ~fd'[d]
                      /\ errs'[d] = 2 => d \in shut'
                      /\ d = cur /\ inside = "close" => dns[d] = "done" /\ d \notin owed /\ errs'[d] <= 1
    BY DEF Errors
  <2>1. CASE d = c
    BY <1>1, <1>2, <1>3, <2>1
  <2>2. CASE d # c
    BY <1>1, <1>3, <2>2 DEF ClientInv, Errors
  <2> QED
    BY <2>1, <2>2
<1>9. Settled'
  BY <1>1, <1>5 DEF ClientInv, Settled, Held
<1>10. Fresh
  BY <1>2, <1>3 DEF ClientInv, Settled, Fresh
<1> QED
  BY <1>4, <1>6, <1>7, <1>8, <1>9, <1>10 DEF Kept, ClientInv

LEMMA ShutdownKept ==
  ASSUME ClientInv, Shutdown PROVE Kept
<1>1. cur \in Conns /\ keep' = FALSE /\ UNCHANGED <<cur, live, dns, inside, handlers, owed, by, results>>
  BY DEF Shutdown, ClientInv, ClientTypeOK, Conns
<1>2. CASE fd[cur]
  <2>1. shut' \subseteq Conns /\ shut \subseteq shut'
    <3>1. shut' = shut \cup {cur}
      BY <1>2 DEF Shutdown
    <3>2. shut \subseteq Conns
      BY DEF ClientInv, ClientTypeOK
    <3> QED
      BY <1>1, <3>1, <3>2
  <2> QED
    BY <1>1, <1>2, <2>1, ClosedKept DEF Shutdown
<1>3. CASE ~fd[cur]
  <2>1. UNCHANGED <<fd, timer, task, watch, shut, owed, errs>>
    BY <1>1, <1>3 DEF Shutdown, sockets
  <2>2. ClientTypeOK'
    BY <1>1, <2>1 DEF ClientInv, ClientTypeOK
  <2>3. Current' /\ Owned' /\ Fresh
    BY <1>1, <2>1 DEF ClientInv, Current, Owned, Fresh, Connecting
  <2>4. Descriptors' /\ Errors' /\ Settled'
    BY <1>1, <2>1 DEF ClientInv, Descriptors, Errors, Settled, Held, Connecting
  <2> QED
    BY <2>2, <2>3, <2>4 DEF Kept, ClientInv
<1> QED
  BY <1>2, <1>3

LEMMA StopTimerKept ==
  ASSUME ClientInv, StopTimer PROVE Kept
<1>1. /\ inside = "no" /\ inside' = "check" /\ cur # 0 /\ keep' = FALSE
      /\ UNCHANGED <<cur, fd, timer, task, watch, live, dns, handlers, owed, by, results, errs, shut>>
  BY DEF StopTimer, sockets, clientHistory
<1>2. ~Connecting /\ ~Connecting'
  BY <1>1 DEF Connecting
<1>3. ClientTypeOK'
  BY <1>1 DEF ClientInv, ClientTypeOK
<1>4. Current' /\ Owned' /\ Fresh
  BY <1>1, <1>2 DEF ClientInv, Current, Owned, Fresh
<1>5. Descriptors' /\ Errors' /\ Settled'
  BY <1>1, <1>2 DEF ClientInv, Descriptors, Errors, Settled, Held
<1> QED
  BY <1>3, <1>4, <1>5 DEF Kept, ClientInv

LEMMA CheckFdKept ==
  ASSUME ClientInv, CheckFd PROVE Kept
<1>1. /\ inside = "check" /\ inside' \in {"close", "no"} /\ (inside' = "close" => fd[cur])
      /\ UNCHANGED <<cur, fd, timer, task, watch, live, dns, handlers, keep, owed, by, results, errs, shut>>
  BY DEF CheckFd, sockets, clientHistory
<1>2. ~Connecting /\ ~Connecting'
  BY <1>1 DEF Connecting
<1>3. ClientTypeOK'
  BY <1>1 DEF ClientInv, ClientTypeOK
<1>4. Current' /\ Owned' /\ Fresh
  BY <1>1, <1>2 DEF ClientInv, Current, Owned, Fresh
<1>5. Descriptors' /\ Settled'
  BY <1>1, <1>2 DEF ClientInv, Descriptors, Settled, Held
<1>6. Errors'
  <2>1. \A c \in Conns : c = cur /\ inside' = "close" => dns[c] = "done" /\ c \notin owed /\ errs[c] = 0
    BY <1>1 DEF ClientInv, Descriptors, Errors
  <2> QED
    BY <1>1, <2>1 DEF ClientInv, Errors
<1> QED
  BY <1>3, <1>4, <1>5, <1>6 DEF Kept, ClientInv

LEMMA CloseSockKept ==
  ASSUME ClientInv, CloseSock PROVE Kept
<1>1. /\ inside = "close" /\ inside' = "no" /\ CloseFd(cur)
      /\ timer' = timer \ {cur} /\ task' = task \ {cur} /\ shut' = shut \cup {cur} /\ owed' = owed \cup {cur}
      /\ UNCHANGED <<cur, live, dns, handlers, keep, by, results, errs>>
  BY DEF CloseSock
<1>2. cur \in Conns /\ ~Connecting /\ ~Connecting'
  BY <1>1 DEF ClientInv, ClientTypeOK, Current, Conns, Connecting
<1>3. /\ fd' \in [Conns -> BOOLEAN] /\ watch' \in [Conns -> {"none", "connect", "stream"}]
      /\ ~fd'[cur] /\ watch'[cur] = "none"
      /\ \A d \in Conns \ {cur} : fd'[d] = fd[d] /\ watch'[d] = watch[d]
  BY <1>1, <1>2, ClosedFd
<1>4. ClientTypeOK'
  BY <1>1, <1>2, <1>3 DEF ClientInv, ClientTypeOK
<1>5. Current' /\ Fresh
  BY <1>1, <1>2, <1>3 DEF ClientInv, Current, Fresh
<1>6. Owned'
  BY <1>1, <1>2, <1>3 DEF ClientInv, Current, Owned
<1>7. Descriptors'
  BY <1>1, <1>3 DEF ClientInv, Descriptors
<1>8. Errors'
  <2>1. dns[cur] = "done" /\ errs[cur] <= 1 /\ errs[cur] # 2
    BY <1>1, <1>2 DEF ClientInv, Errors
  <2> QED
    BY <1>1, <1>3, <2>1 DEF ClientInv, Errors
<1>9. Settled'
  BY <1>1, <1>2, <1>3 DEF ClientInv, Settled, Held
<1> QED
  BY <1>4, <1>5, <1>6, <1>7, <1>8, <1>9 DEF Kept, ClientInv

LEMMA OnClosedKept ==
  ASSUME ClientInv, NEW c \in Conns, OnClosed(c) PROVE Kept
<1>1. /\ watch[c] = "stream" /\ CloseFd(c) /\ timer' = timer \ {c} /\ task' = task \ {c}
      /\ UNCHANGED <<cur, live, dns, inside, handlers, owed, by, results, shut>>
  BY DEF OnClosed
<1>2. c \in handlers /\ c = cur /\ fd[c]
  BY <1>1 DEF ClientInv, Current, Owned, Descriptors
<1>3. errs' = [errs EXCEPT ![c] = @ + 1] /\ keep' = FALSE
  BY <1>2 DEF OnClosed, Tell
<1>4. shut' \subseteq Conns /\ shut \subseteq shut'
  BY <1>1 DEF ClientInv, ClientTypeOK
<1> QED
  BY <1>1, <1>2, <1>3, <1>4, ClosedKept

LEMMA OnErrTaskKept ==
  ASSUME ClientInv, NEW c \in Conns, OnErrTask(c) PROVE Kept
<1>1. /\ c \in owed /\ owed' = owed \ {c}
      /\ UNCHANGED <<cur, fd, timer, task, watch, live, dns, inside, handlers, by, results, shut>>
  BY DEF OnErrTask, sockets
<1>2. \/ c \in handlers /\ c = cur /\ errs' = [errs EXCEPT ![c] = @ + 1] /\ keep' = FALSE
      \/ UNCHANGED <<errs, keep>>
  BY DEF OnErrTask, Tell
<1>3. /\ dns[c] = "done" /\ ~fd[c] /\ c \in shut /\ errs[c] \in {0, 1}
      /\ ~(c = cur /\ inside = "close") /\ keep \in BOOLEAN /\ errs \in [Conns -> 0 .. 2]
  BY <1>1 DEF ClientInv, Errors, ClientTypeOK
<1>4. /\ errs' \in [Conns -> 0 .. 2]
      /\ \A d \in Conns \ {c} : errs'[d] = errs[d]
      /\ errs'[c] # errs[c] => c \in handlers /\ c = cur
  <2>1. CASE c \in handlers /\ c = cur /\ errs' = [errs EXCEPT ![c] = errs[c] + 1]
    <3>1. errs[c] + 1 \in 0 .. 2
      BY <1>3
    <3> QED
      BY <1>3, <2>1, <3>1
  <2>2. CASE errs' = errs
    BY <1>3, <2>2
  <2> QED
    BY <1>2, <2>1, <2>2
<1>5. keep' \in BOOLEAN /\ (keep' => keep)
  <2>1. CASE keep' = FALSE
    BY <2>1
  <2>2. CASE keep' = keep
    BY <1>3, <2>2
  <2> QED
    BY <1>2, <2>1, <2>2
<1>6. keep' => c # cur \/ c \notin handlers
  <2>1. CASE c = cur /\ c \in handlers
    <3>1. c \in live /\ Tell(c)
      BY <1>1, <2>1, ConnsAre DEF OnErrTask, ClientInv, Current
    <3> QED
      BY <2>1, <3>1 DEF Tell
  <2> QED
    BY <2>1
<1>7. ClientTypeOK'
  BY <1>1, <1>4, <1>5 DEF ClientInv, ClientTypeOK
<1>8. Current' /\ Descriptors'
  BY <1>1 DEF ClientInv, Current, Descriptors, Connecting
<1>9. Owned'
  BY <1>1, <1>5, <1>6 DEF ClientInv, Owned
<1>10. Errors'
  BY <1>1, <1>3, <1>4 DEF ClientInv, Errors
<1>11. Settled'
  BY <1>1 DEF ClientInv, Settled, Held, Connecting
<1>12. Fresh
  BY <1>1, <1>4 DEF ClientInv, Settled, Fresh
<1> QED
  BY <1>7, <1>8, <1>9, <1>10, <1>11, <1>12 DEF Kept, ClientInv

LEMMA ClientSame == ASSUME ClientInv, UNCHANGED clientVars PROVE Kept
<1>1. UNCHANGED <<cur, fd, timer, task, watch, live, dns, inside, handlers, keep, owed, by, results, errs, shut>>
  BY DEF clientVars, sockets, clientHistory
<1>2. ClientTypeOK'
  BY <1>1 DEF ClientInv, ClientTypeOK
<1>3. Current' /\ Owned' /\ Descriptors' /\ Errors' /\ Fresh
  BY <1>1 DEF ClientInv, Current, Owned, Descriptors, Errors, Fresh, Connecting
<1>4. Settled'
  BY <1>1 DEF ClientInv, Settled, Held, Connecting
<1> QED
  BY <1>2, <1>3, <1>4 DEF Kept, ClientInv

LEMMA ClientStep == ASSUME ClientInv, [Next]_vars PROVE Kept
<1>1. CASE ClientNext
  <2>1. CASE ClientLoop
    BY <2>1, TaskRunKept, OnConnectedKept, OnErrTaskKept, OnClosedKept DEF ClientLoop
  <2>2. CASE ClientTimer
    BY <2>2, ConTimeOutKept DEF ClientTimer
  <2>3. CASE Worker
    BY <2>3, ResolveKept DEF Worker
  <2>4. CASE Calling
    BY <2>4, ArmConTimerKept, HoldTaskKept, CheckFdKept, CloseSockKept DEF Calling
  <2>5. CASE Shutdown \/ StopTimer \/ \E t \in {Loop, User} : StartConnect(t)
    BY <2>5, StartConnectKept, ShutdownKept, StopTimerKept
  <2> QED
    BY <1>1, <2>1, <2>2, <2>3, <2>4, <2>5 DEF ClientNext
<1>2. CASE UNCHANGED clientVars
  BY <1>2, ClientSame
<1> QED
  BY <1>1, <1>2 DEF Next, vars

\* The inductive invariant of the client: only the current attempt can report, and
\* what it may still report.
THEOREM ClientInductive == Spec => []ClientInv
<1>1. ClientInv /\ [Next]_vars => ClientInv'
  BY ClientStep DEF Kept
<1> QED
  BY <1>1, ClientInit0, PTL DEF Spec

\* The owner is never told of an attempt that it replaced, whenever the worker's
\* result, the peer's answer and the time-out arrive.
THEOREM NeverStale == Spec => NothingStale
<1>1. ClientInv /\ [Next]_vars => Fresh
  BY ClientStep DEF Kept
<1> QED
  BY <1>1, ClientInductive, PTL DEF Spec, NothingStale, Fresh
-----------------------------------------------------------------------------
LEMMA SessionIs ==
  ASSUME ServerInv, NEW v \in Servers
  PROVE  /\ \A a \in Addresses : session[v][a] \in Conns \cup {0}
         /\ Sessions(v) \subseteq Conns
         /\ \A c : c \in Sessions(v) <=> c # 0 /\ \E a \in Addresses : session[v][a] = c
  BY DEF ServerInv, ServerTypeOK, Sessions, Conns

LEMMA ServerInit0 == Init => ServerInv
<1> SUFFICES ASSUME NetInit, ServerInit PROVE ServerInv
  BY DEF Init
<1>1. far = [c \in Conns |-> "none"] /\ far \in [Conns -> {"none", "backlog", "open", "closed", "dropped"}]
  BY DEF NetInit
<1>2. ServerTypeOK
  BY DEF ServerInit, ServerTypeOK
<1>3. OnePlace /\ Listed /\ Erasing
  BY DEF ServerInit, OnePlace, Listed, Erasing
<1>4. ASSUME NEW c \in Conns PROVE Telling(c)
  <2>1. /\ told[c] = 0 /\ ~Placed(c) /\ ~InUse(c) /\ far[c] = "none" /\ c # dying
        /\ c \notin attached /\ c \notin shutting /\ c \notin heard
    BY <1>1, ConnsAre DEF ServerInit, Placed, InUse
  <2> QED
    BY <2>1 DEF Telling
<1> QED
  BY <1>1, <1>2, <1>3, <1>4 DEF ServerInv, ServerInit

LEMMA UsedIsPlaced == ASSUME ServerInv, NEW c PROVE InUse(c) => Placed(c)
  BY DEF ServerInv, ServerTypeOK, InUse, Placed

\* A session of a server that is gone is of no other.
LEMMA GoneIsNotUsed ==
  ASSUME ServerInv, NEW v \in Servers \ up, NEW c \in Sessions(v) PROVE Placed(c) /\ ~InUse(c)
<1>1. PICK a \in Addresses : c # 0 /\ session[v][a] = c
  BY SessionIs
<1>2. Placed(c)
  BY <1>1 DEF Placed
<1>3. ASSUME NEW w \in up, NEW b \in Addresses, session[w][b] = c PROVE FALSE
  <2>1. w \in Servers /\ w # v
    BY DEF ServerInv, ServerTypeOK
  <2>2. session[w][b] # 0 /\ session[w][b] = session[v][a]
    BY <1>1, <1>3
  <2> QED
    BY <2>1, <2>2 DEF ServerInv, OnePlace
<1> QED
  BY <1>2, <1>3 DEF InUse

\* What a step leaves alone of a session.
LEMMA TellingStays ==
  ASSUME ServerInv, NEW c \in Conns, told'[c] = told[c], c \in shutting' <=> c \in shutting,
         Placed(c)' <=> Placed(c), InUse(c)' => InUse(c), c = dying' <=> c = dying, c \in heard' <=> c \in heard,
         far'[c] \in {"open", "closed"} <=> far[c] \in {"open", "closed"},
         c \in attached' => c \in attached, up' = Servers => up = Servers
  PROVE  Telling(c)'
<1>1. Telling(c) /\ told[c] \in Nat
  BY DEF ServerInv, ServerTypeOK
<1>2. told'[c] <= (IF up' = Servers THEN 1 ELSE 2)
  BY <1>1 DEF Telling
<1> QED
  BY <1>1, <1>2 DEF Telling

LEMMA Released ==
  ASSUME ServerInv, NEW v \in Servers, NEW as \in SUBSET Addresses, Release(v, as),
         \A a \in as : session[v][a] # 0
  PROVE  /\ session' \in [Servers -> [Addresses -> 0 .. Tries]] /\ mapped' \in [Addresses -> 0 .. Tries]
         /\ \A w \in Servers : \A b \in Addresses :
              session'[w][b] = IF w = v /\ b \in as THEN 0 ELSE session[w][b]
         /\ OnePlace' /\ Listed'
<1>1. session \in [Servers -> [Addresses -> 0 .. Tries]] /\ mapped \in [Addresses -> 0 .. Tries] /\ 0 \in 0 .. Tries
  BY DEF ServerInv, ServerTypeOK
<1>2. /\ session' = [session EXCEPT ![v] = [a \in Addresses |-> IF a \in as THEN 0 ELSE session[v][a]]]
      /\ mapped' = [a \in Addresses |-> IF a \in as THEN 0 ELSE mapped[a]]
  BY DEF Release
<1>3. session' \in [Servers -> [Addresses -> 0 .. Tries]] /\ mapped' \in [Addresses -> 0 .. Tries]
  BY <1>1, <1>2
<1>4. \A w \in Servers : \A b \in Addresses :
        session'[w][b] = IF w = v /\ b \in as THEN 0 ELSE session[w][b]
  BY <1>1, <1>2
<1>5. \A a \in Addresses : mapped'[a] = IF a \in as THEN 0 ELSE mapped[a]
  BY <1>2
<1>6. OnePlace /\ Listed
  BY DEF ServerInv
<1>7. ASSUME NEW w \in Servers, NEW a \in as, session[w][a] # 0 PROVE w = v
  <2>1. a \in Addresses /\ session[w][a] = session[v][a]
    BY <1>6, <1>7 DEF Listed
  <2> QED
    BY <2>1, <1>6, <1>7 DEF OnePlace
<1>8. Listed'
  <2> SUFFICES ASSUME NEW a \in Addresses
               PROVE  /\ \A w \in Servers : session'[w][a] # 0 => mapped'[a] = session'[w][a]
                      /\ mapped'[a] # 0 => \E w \in Servers : session'[w][a] = mapped'[a]
    BY DEF Listed
  <2>1. CASE a \in as
    BY <2>1, <1>4, <1>5, <1>7
  <2>2. CASE a \notin as
    <3>1. \A w \in Servers : session'[w][a] = session[w][a]
      BY <2>2, <1>4
    <3>2. mapped'[a] = mapped[a]
      BY <2>2, <1>5
    <3> QED
      BY <3>1, <3>2, <1>6 DEF Listed
  <2> QED
    BY <2>1, <2>2
<1>9. OnePlace'
  <2> SUFFICES ASSUME NEW w \in Servers, NEW x \in Servers, NEW a \in Addresses, NEW b \in Addresses,
                      session'[w][a] # 0, session'[w][a] = session'[x][b]
               PROVE  w = x /\ a = b
    BY DEF OnePlace
  <2>1. session'[w][a] = session[w][a] /\ session'[x][b] = session[x][b]
    BY <1>4
  <2>2. session[w][a] # 0 /\ session[w][a] = session[x][b]
    BY <2>1
  <2> QED
    BY <2>2, <1>6 DEF OnePlace
<1> QED
  BY <1>3, <1>4, <1>8, <1>9

LEMMA PlacedAfter ==
  ASSUME ServerInv, NEW v \in Servers, NEW as \in SUBSET Addresses, Release(v, as),
         \A a \in as : session[v][a] # 0
  PROVE  \A d \in Conns : Placed(d)' <=> Placed(d) /\ \A a \in as : session[v][a] # d
<1>1. \A w \in Servers : \A b \in Addresses :
        session'[w][b] = IF w = v /\ b \in as THEN 0 ELSE session[w][b]
  <2>1. session \in [Servers -> [Addresses -> 0 .. Tries]]
    BY DEF ServerInv, ServerTypeOK
  <2> QED
    BY <2>1 DEF Release
<1>2. OnePlace
  BY DEF ServerInv
<1> SUFFICES ASSUME NEW d \in Conns PROVE Placed(d)' <=> Placed(d) /\ \A a \in as : session[v][a] # d
  OBVIOUS
<1>3. d # 0
  BY ConnsAre
<1>4. ASSUME Placed(d)' PROVE Placed(d) /\ \A a \in as : session[v][a] # d
  <2>1. PICK w \in Servers, b \in Addresses : session'[w][b] = d
    BY <1>4 DEF Placed
  <2>2. session[w][b] = d /\ ~(w = v /\ b \in as)
    BY <1>1, <1>3, <2>1
  <2>3. ASSUME NEW a \in as, session[v][a] = d PROVE FALSE
    <3>1. a \in Addresses /\ session[v][a] # 0 /\ session[v][a] = session[w][b]
      BY <1>3, <2>2, <2>3
    <3>2. v = w /\ a = b
      BY <1>2, <3>1 DEF OnePlace
    <3> QED
      BY <2>2, <3>2
  <2> QED
    BY <2>2, <2>3 DEF Placed
<1>5. ASSUME Placed(d), \A a \in as : session[v][a] # d PROVE Placed(d)'
  <2>1. PICK w \in Servers, b \in Addresses : session[w][b] = d
    BY <1>5 DEF Placed
  <2>2. session'[w][b] = d
    BY <1>1, <1>5, <2>1
  <2> QED
    BY <2>2 DEF Placed
<1> QED
  BY <1>4, <1>5

\* The same for the servers that are up.
LEMMA UsedAfter ==
  ASSUME ServerInv, NEW v \in Servers, NEW as \in SUBSET Addresses, Release(v, as), up' = up
  PROVE  \A d \in Conns : InUse(d)' => InUse(d)
<1>1. \A w \in Servers : \A b \in Addresses :
        session'[w][b] = IF w = v /\ b \in as THEN 0 ELSE session[w][b]
  <2>1. session \in [Servers -> [Addresses -> 0 .. Tries]]
    BY DEF ServerInv, ServerTypeOK
  <2> QED
    BY <2>1 DEF Release
<1>2. up \subseteq Servers /\ \A d \in Conns : d # 0
  BY ConnsAre DEF ServerInv, ServerTypeOK
<1> QED
  BY <1>1, <1>2 DEF InUse

LEMMA OnErrKept ==
  ASSUME ServerInv, NEW v \in Servers, NEW c \in Sessions(v), c \notin shutting, OnErr(v, c),
         UNCHANGED <<up, dying>>, heard' = heard \/ (heard' = heard \cup {c} /\ told[c] > 0),
         tasks' \in [Servers -> SUBSET ({"erase", "shutdown"} \X (Addresses \cup {0}) \X Conns)],
         \A w \in Servers : tasks'[w] \subseteq tasks[w]
  PROVE  ServerInv'
<1> DEFINE as == At(v, {c})
<1>1. c \in Conns /\ c # 0 /\ Placed(c)
  BY SessionIs DEF Placed
<1>2. /\ shutting' = shutting \cup {c} /\ attached' = attached \ {c}
      /\ far' = [d \in Conns |-> IF d = c THEN "closed" ELSE far[d]]
      /\ told' = [told EXCEPT ![c] = @ + 1]
      /\ IF v \in up THEN Release(v, as) ELSE UNCHANGED <<session, mapped>>
  BY DEF OnErr, CloseSession
<1>3. /\ as \in SUBSET Addresses /\ \A a \in Addresses : a \in as <=> session[v][a] = c
      /\ \E a \in as : session[v][a] = c
  <2>1. \E a \in Addresses : session[v][a] = c
    BY SessionIs
  <2> QED
    BY <2>1 DEF At
<1> HIDE DEF as
<1>4. /\ session' \in [Servers -> [Addresses -> 0 .. Tries]] /\ mapped' \in [Addresses -> 0 .. Tries]
      /\ \A w \in Servers : \A b \in Addresses :
           session'[w][b] = IF v \in up /\ w = v /\ b \in as THEN 0 ELSE session[w][b]
      /\ OnePlace' /\ Listed'
  <2>1. CASE v \in up
    <3>1. Release(v, as) /\ \A a \in as : session[v][a] # 0
      BY <2>1, <1>1, <1>2, <1>3
    <3>2. /\ session' \in [Servers -> [Addresses -> 0 .. Tries]] /\ mapped' \in [Addresses -> 0 .. Tries]
          /\ \A w \in Servers : \A b \in Addresses :
               session'[w][b] = IF w = v /\ b \in as THEN 0 ELSE session[w][b]
          /\ OnePlace' /\ Listed'
      BY <1>3, <3>1, Released
    <3> QED
      BY <2>1, <3>2
  <2>2. CASE v \notin up
    BY <2>2, <1>2 DEF ServerInv, ServerTypeOK, OnePlace, Listed
  <2> QED
    BY <2>1, <2>2
<1>5. /\ \A d \in Conns \ {c} : Placed(d)' <=> Placed(d)
      /\ \A d \in Conns : InUse(d)' => InUse(d)
      /\ v \in up => ~Placed(c)' /\ ~InUse(c)' /\ InUse(c)
      /\ v \notin up => Placed(c)' /\ ~InUse(c)'
  <2>1. CASE v \in up
    <3>1. \A d \in Conns : Placed(d)' <=> Placed(d) /\ \A a \in as : session[v][a] # d
      BY <2>1, <1>1, <1>2, <1>3, PlacedAfter
    <3>2. \A d \in Conns : InUse(d)' => InUse(d)
      BY <2>1, <1>2, <1>3, UsedAfter
    <3>3. ~Placed(c)' /\ \A d \in Conns \ {c} : Placed(d)' <=> Placed(d)
      BY <1>1, <1>3, <3>1
    <3>4. InUse(c)
      BY <2>1, <1>3 DEF InUse
    <3>5. ~InUse(c)'
      <4>1. up' \subseteq Servers
        BY DEF ServerInv, ServerTypeOK
      <4> QED
        BY <3>3, <4>1 DEF InUse, Placed
    <3> QED
      BY <2>1, <3>2, <3>3, <3>4, <3>5
  <2>2. CASE v \notin up
    <3>1. UNCHANGED <<session, up>>
      BY <2>2, <1>2
    <3>2. \A d \in Conns : (Placed(d)' <=> Placed(d)) /\ (InUse(d)' <=> InUse(d))
      BY <3>1 DEF Placed, InUse
    <3>3. Placed(c) /\ ~InUse(c)
      BY <2>2, GoneIsNotUsed
    <3> QED
      BY <2>2, <3>2, <3>3, <1>1
  <2> QED
    BY <2>1, <2>2
<1>6. Telling(c) /\ told \in [Conns -> Nat] /\ up \subseteq Servers
  BY <1>1 DEF ServerInv, ServerTypeOK
<1>7. told' \in [Conns -> Nat] /\ told'[c] = told[c] + 1 /\ \A d \in Conns \ {c} : told'[d] = told[d]
  BY <1>1, <1>2, <1>6
<1>8. heard' \subseteq Conns /\ (\A d \in Conns \ {c} : d \in heard' <=> d \in heard)
  BY <1>1 DEF ServerInv, ServerTypeOK
<1>9. ServerTypeOK' /\ far' \in [Conns -> {"none", "backlog", "open", "closed", "dropped"}]
  BY <1>1, <1>2, <1>4, <1>7, <1>8 DEF ServerInv, ServerTypeOK
<1>10. v \in up => told[c] = 0 /\ c # dying
  BY <1>5, <1>6 DEF Telling
<1>11. told[c] <= (IF c = dying THEN 1 ELSE 0)
  <2>1. told[c] <= 0 + (IF c = dying THEN 1 ELSE 0)
    BY <1>1, <1>6 DEF Telling
  <2> QED
    BY <2>1
<1>12. Telling(c)'
  <2>1. far'[c] = "closed" /\ c \notin attached' /\ c \in shutting' /\ told'[c] >= 1
    BY <1>1, <1>2, <1>6, <1>7
  <2>2. CASE v \in up
    <3>1. told'[c] = 1 /\ c # dying' /\ ~Placed(c)' /\ ~InUse(c)'
      BY <2>2, <1>5, <1>7, <1>10
    <3> QED
      BY <2>1, <3>1 DEF Telling
  <2>3. CASE v \notin up
    <3>1. up' # Servers /\ Placed(c)' /\ ~InUse(c)'
      BY <2>3, <1>5
    <3>2. told'[c] <= 1 + (IF c = dying' THEN 1 ELSE 0) /\ told'[c] <= 2
      BY <1>1, <1>6, <1>7, <1>11
    <3> QED
      BY <2>1, <3>1, <3>2 DEF Telling
  <2> QED
    BY <2>2, <2>3
<1>13. ASSUME NEW d \in Conns PROVE Telling(d)'
  <2>1. CASE d # c
    <3>1. /\ told'[d] = told[d] /\ (d \in shutting' <=> d \in shutting) /\ (Placed(d)' <=> Placed(d)) /\ (InUse(d)' => InUse(d))
          /\ far'[d] = far[d] /\ (d \in attached' => d \in attached) /\ (d \in heard' <=> d \in heard)
      BY <2>1, <1>2, <1>5, <1>7, <1>8
    <3> QED
      BY <3>1, TellingStays
  <2> QED
    BY <2>1, <1>12
<1>14. up' = Servers => heard' = {}
  BY <1>6, <1>10 DEF ServerInv
<1>15. Erasing'
  <2> SUFFICES ASSUME NEW w \in up, NEW k \in tasks'[w], k[1] = "erase"
               PROVE  k[2] \in Addresses /\ session'[w][k[2]] = k[3] /\ k[3] \in shutting'
    BY DEF Erasing
  <2>1. w \in Servers /\ k \in tasks[w]
    BY <1>6
  <2>2. k[2] \in Addresses /\ session[w][k[2]] = k[3] /\ k[3] \in shutting
    BY <2>1 DEF ServerInv, Erasing
  <2>3. ~(w = v /\ k[2] \in as)
    BY <2>2, <1>3
  <2> QED
    BY <2>1, <2>2, <2>3, <1>2, <1>4
<1> QED
  BY <1>4, <1>9, <1>13, <1>14, <1>15 DEF ServerInv

LEMMA OnAcceptKept ==
  ASSUME ServerInv, NEW v \in Servers, NEW c \in Conns, OnAccept(v, c) PROVE ServerInv'
<1> DEFINE a == CHOOSE b \in Free : TRUE
<1>1. /\ v \in up /\ far[c] = "backlog" /\ far' = [far EXCEPT ![c] = "open"] /\ attached' = attached \cup {c}
      /\ UNCHANGED <<up, dying, tasks, shutting, told, heard>>
      /\ session' = [session EXCEPT ![v][a] = c]
      /\ mapped' = IF mapped[a] = 0 THEN [mapped EXCEPT ![a] = c] ELSE mapped
  BY DEF OnAccept, OnAcceptConnection
<1>2. a \in Addresses /\ \A w \in Servers : session[w][a] = 0
  BY DEF OnAccept, OnAcceptConnection, Free
<1> HIDE DEF a
<1>3. mapped[a] = 0
  BY <1>2 DEF ServerInv, Listed
<1>4. c # 0 /\ told[c] = 0 /\ c \notin shutting /\ ~Placed(c) /\ c # dying /\ c \notin heard
  BY <1>1, ConnsAre DEF ServerInv, Telling
<1>5. session \in [Servers -> [Addresses -> 0 .. Tries]] /\ mapped \in [Addresses -> 0 .. Tries] /\ c \in 0 .. Tries
  BY ConnsAre DEF ServerInv, ServerTypeOK
<1>6. /\ session' \in [Servers -> [Addresses -> 0 .. Tries]]
      /\ \A w \in Servers : \A b \in Addresses : session'[w][b] = IF w = v /\ b = a THEN c ELSE session[w][b]
  BY <1>1, <1>2, <1>5
<1>7. /\ mapped' \in [Addresses -> 0 .. Tries]
      /\ \A b \in Addresses : mapped'[b] = IF b = a THEN c ELSE mapped[b]
  BY <1>1, <1>2, <1>3, <1>5
<1>8. ServerTypeOK' /\ far' \in [Conns -> {"none", "backlog", "open", "closed", "dropped"}]
  BY <1>1, <1>6, <1>7 DEF ServerInv, ServerTypeOK
<1>9. OnePlace'
  <2> SUFFICES ASSUME NEW w \in Servers, NEW x \in Servers, NEW b \in Addresses, NEW e \in Addresses,
                      session'[w][b] # 0, session'[w][b] = session'[x][e]
               PROVE  w = x /\ b = e
    BY DEF OnePlace
  <2>1. session[w][b] # c /\ session[x][e] # c
    BY <1>4 DEF Placed
  <2>2. CASE w = v /\ b = a
    BY <2>1, <2>2, <1>6
  <2>3. CASE x = v /\ e = a
    BY <2>1, <2>3, <1>6
  <2>4. CASE ~(w = v /\ b = a) /\ ~(x = v /\ e = a)
    <3>1. session[w][b] # 0 /\ session[w][b] = session[x][e]
      BY <2>4, <1>6
    <3> QED
      BY <3>1 DEF ServerInv, OnePlace
  <2> QED
    BY <2>2, <2>3, <2>4
<1>10. Listed'
  <2> SUFFICES ASSUME NEW b \in Addresses
               PROVE  /\ \A w \in Servers : session'[w][b] # 0 => mapped'[b] = session'[w][b]
                      /\ mapped'[b] # 0 => \E w \in Servers : session'[w][b] = mapped'[b]
    BY DEF Listed
  <2>1. CASE b = a
    BY <2>1, <1>2, <1>6, <1>7
  <2>2. CASE b # a
    <3>1. (\A w \in Servers : session'[w][b] = session[w][b]) /\ mapped'[b] = mapped[b]
      BY <2>2, <1>6, <1>7
    <3> QED
      BY <3>1 DEF ServerInv, Listed
  <2> QED
    BY <2>1, <2>2
<1>12. Placed(c)' /\ \A d \in Conns \ {c} : (Placed(d)' <=> Placed(d)) /\ (InUse(d)' <=> InUse(d))
  <2>1. session'[v][a] = c
    BY <1>2, <1>6
  <2>2. \A d \in Conns \ {c} : \A w \in Servers : \A b \in Addresses : session'[w][b] = d <=> session[w][b] = d
    <3>1. \A d \in Conns : d # 0
      BY ConnsAre
    <3> QED
      BY <1>2, <1>6, <3>1
  <2>3. up \subseteq Servers
    BY DEF ServerInv, ServerTypeOK
  <2> QED
    BY <1>1, <1>2, <2>1, <2>2, <2>3 DEF Placed, InUse
<1>13. ASSUME NEW d \in Conns PROVE Telling(d)'
  <2>1. CASE d = c
    <3>1. /\ far'[c] = "open" /\ told'[c] = 0 /\ c \notin shutting' /\ c # dying' /\ c \notin heard' /\ Placed(c)'
      BY <1>1, <1>4, <1>12 DEF ServerInv
    <3> QED
      BY <2>1, <3>1 DEF Telling
  <2>2. CASE d # c
    <3>1. /\ told'[d] = told[d] /\ (d \in shutting' <=> d \in shutting) /\ (Placed(d)' <=> Placed(d)) /\ (InUse(d)' => InUse(d))
          /\ far'[d] = far[d] /\ (d \in attached' => d \in attached) /\ (d \in heard' <=> d \in heard)
          /\ (d = dying' <=> d = dying) /\ (up' = Servers => up = Servers)
      BY <2>2, <1>1, <1>12 DEF ServerInv
    <3> QED
      BY <3>1, TellingStays
  <2> QED
    BY <2>1, <2>2
<1>14. Erasing'
  <2> SUFFICES ASSUME NEW w \in up, NEW k \in tasks[w], k[1] = "erase"
               PROVE  k[2] \in Addresses /\ session'[w][k[2]] = k[3] /\ k[3] \in shutting
    BY <1>1 DEF Erasing
  <2>1. w \in Servers /\ k[3] \in Conns
    BY DEF ServerInv, ServerTypeOK
  <2>2. k[2] \in Addresses /\ session[w][k[2]] = k[3] /\ k[3] \in shutting
    BY DEF ServerInv, Erasing
  <2>3. k[2] # a
    BY <1>2, <2>1, <2>2, ConnsAre
  <2> QED
    BY <2>1, <2>2, <2>3, <1>6
<1> QED
  BY <1>1, <1>8, <1>9, <1>10, <1>13, <1>14 DEF ServerInv

LEMMA OnRecvKept ==
  ASSUME ServerInv, NEW v \in Servers, NEW c \in Conns, OnRecv(v, c) \/ OnEof(v, c) PROVE ServerInv'
<1>1. c \in Sessions(v) /\ c \in attached /\ UNCHANGED <<up, dying, tasks>>
  BY DEF OnRecv, OnEof
<1>2. c \notin shutting /\ Telling(c) /\ told[c] \in Nat
  BY <1>1 DEF ServerInv, ServerTypeOK, Telling
<1>3. heard' = heard \/ (heard' = heard \cup {c} /\ told[c] > 0)
  BY DEF OnRecv, OnEof
<1>4. CASE OnErr(v, c)
  <2>1. /\ tasks' \in [Servers -> SUBSET ({"erase", "shutdown"} \X (Addresses \cup {0}) \X Conns)]
        /\ \A w \in Servers : tasks'[w] \subseteq tasks[w]
    BY <1>1 DEF ServerInv, ServerTypeOK
  <2> QED
    BY <1>1, <1>2, <1>3, <1>4, <2>1, OnErrKept
<1>5. CASE UNCHANGED <<session, mapped, shutting, told, attached, net>>
  <2>1. /\ UNCHANGED <<up, dying, tasks, session, mapped, shutting, told, attached, far>>
    BY <1>1, <1>5 DEF net
  <2>2. told[c] > 0 => ~InUse(c) /\ up # Servers /\ far[c] \in {"open", "closed"}
    <3>1. told[c] > 0 => ~InUse(c) /\ far[c] \in {"open", "closed"}
      BY <1>2 DEF Telling
    <3>2. v \in up => InUse(c)
      BY <1>1, SessionIs DEF InUse
    <3> QED
      BY <3>1, <3>2
  <2>3. ServerTypeOK' /\ heard' \subseteq Conns
    BY <1>3, <2>1 DEF ServerInv, ServerTypeOK
  <2>4. OnePlace' /\ Listed' /\ Erasing'
    BY <2>1 DEF ServerInv, OnePlace, Listed, Erasing
  <2>5. up' = Servers => heard' = {}
    BY <1>3, <2>1, <2>2 DEF ServerInv
  <2>6. \A d \in Conns : (Placed(d)' <=> Placed(d)) /\ (InUse(d)' <=> InUse(d))
    BY <2>1 DEF Placed, InUse
  <2>7. ASSUME NEW d \in Conns PROVE Telling(d)'
    <3>1. CASE d = c /\ told[c] > 0
      <4>1. Telling(d)
        BY DEF ServerInv
      <4>2. ~InUse(d)' /\ far'[d] \in {"open", "closed"}
        BY <3>1, <2>1, <2>2, <2>6
      <4> QED
        BY <2>1, <2>6, <4>1, <4>2 DEF Telling
    <3>2. CASE ~(d = c /\ told[c] > 0)
      <4>1. d \in heard' <=> d \in heard
        BY <1>3, <3>2
      <4> QED
        BY <2>1, <2>6, <4>1, TellingStays
    <3> QED
      BY <3>1, <3>2
  <2> QED
    BY <2>1, <2>3, <2>4, <2>5, <2>7 DEF ServerInv
<1> QED
  BY <1>4, <1>5 DEF OnRecv, OnEof

LEMMA OnManagerKept ==
  ASSUME ServerInv, NEW v \in Servers, OnManager(v) PROVE ServerInv'
<1>1. PICK cs \in SUBSET (Sessions(v) \ shutting) :
        /\ CloseSession(cs)
        /\ told' = [c \in Conns |-> told[c] + IF c \in cs THEN 1 ELSE 0]
        /\ tasks' = [tasks EXCEPT ![v] = @ \cup {<<"erase", a, session[v][a]>> : a \in At(v, cs)}]
  BY DEF OnManager
<1>2. v \in up /\ UNCHANGED <<up, dying, session, mapped, heard>>
  BY DEF OnManager
<1>3. /\ cs \subseteq Conns /\ shutting' = shutting \cup cs /\ attached' = attached \ cs
      /\ far' = [c \in Conns |-> IF c \in cs THEN "closed" ELSE far[c]]
  BY <1>1, SessionIs DEF CloseSession
<1>4. \A c \in cs : c \in Conns /\ Placed(c) /\ InUse(c) /\ c \notin shutting /\ told[c] = 0
  <2>1. \A c \in cs : c \in Conns /\ Placed(c) /\ InUse(c) /\ c \notin shutting
    BY <1>2, SessionIs DEF Placed, InUse
  <2> QED
    BY <2>1 DEF ServerInv, Telling
<1>5. /\ told' \in [Conns -> Nat]
      /\ \A c \in Conns : told'[c] = IF c \in cs THEN 1 ELSE told[c]
  <2>1. told \in [Conns -> Nat]
    BY DEF ServerInv, ServerTypeOK
  <2>2. \A c \in Conns : told'[c] = told[c] + IF c \in cs THEN 1 ELSE 0
    BY <1>1
  <2>3. \A c \in Conns : told'[c] = IF c \in cs THEN 1 ELSE told[c]
    BY <1>4, <2>1, <2>2
  <2>4. DOMAIN told' = Conns /\ told' = [c \in Conns |-> told'[c]]
    BY <1>1
  <2> QED
    BY <2>1, <2>3, <2>4
<1>6. /\ tasks' \in [Servers -> SUBSET ({"erase", "shutdown"} \X (Addresses \cup {0}) \X Conns)]
      /\ \A w \in Servers : \A k \in tasks'[w] :
           k \in tasks[w] \/ \E a \in Addresses : w = v /\ k = <<"erase", a, session[v][a]>> /\ session[v][a] \in cs
  <2> DEFINE ks == {<<"erase", a, session[v][a]>> : a \in At(v, cs)}
  <2>1. ks \subseteq {"erase", "shutdown"} \X (Addresses \cup {0}) \X Conns
    BY <1>3 DEF At
  <2>2. \A k \in ks : \E a \in Addresses : k = <<"erase", a, session[v][a]>> /\ session[v][a] \in cs
    BY DEF At
  <2>3. tasks' = [tasks EXCEPT ![v] = tasks[v] \cup ks]
    BY <1>1
  <2>4. tasks \in [Servers -> SUBSET ({"erase", "shutdown"} \X (Addresses \cup {0}) \X Conns)]
    BY DEF ServerInv, ServerTypeOK
  <2> HIDE DEF ks
  <2> QED
    BY <2>1, <2>2, <2>3, <2>4
<1>7. ServerTypeOK' /\ far' \in [Conns -> {"none", "backlog", "open", "closed", "dropped"}]
  BY <1>2, <1>3, <1>5, <1>6 DEF ServerInv, ServerTypeOK
<1>8. OnePlace' /\ Listed' /\ (up' = Servers => heard' = {})
  BY <1>2 DEF ServerInv, OnePlace, Listed
<1>9. \A c \in Conns : (Placed(c)' <=> Placed(c)) /\ (InUse(c)' <=> InUse(c))
  BY <1>2 DEF Placed, InUse
<1>10. ASSUME NEW d \in Conns PROVE Telling(d)'
  <2>1. CASE d \in cs
    <3>1. /\ told'[d] = 1 /\ d \in shutting' /\ far'[d] = "closed" /\ d \notin attached'
      BY <2>1, <1>3, <1>5
    <3>2. d # dying' /\ d \notin heard'
      BY <2>1, <1>2, <1>4 DEF ServerInv, Telling
    <3> QED
      BY <3>1, <3>2 DEF Telling
  <2>2. CASE d \notin cs
    <3>1. /\ told'[d] = told[d] /\ (d \in shutting' <=> d \in shutting)
          /\ far'[d] = far[d] /\ (d \in attached' => d \in attached)
      BY <2>2, <1>3, <1>5
    <3> QED
      BY <3>1, <1>2, <1>9, TellingStays
  <2> QED
    BY <2>1, <2>2
<1>11. Erasing'
  <2> SUFFICES ASSUME NEW w \in up, NEW k \in tasks'[w], k[1] = "erase"
               PROVE  k[2] \in Addresses /\ session[w][k[2]] = k[3] /\ k[3] \in shutting'
    BY <1>2 DEF Erasing
  <2>1. w \in Servers
    BY DEF ServerInv, ServerTypeOK
  <2>2. CASE k \in tasks[w]
    BY <2>2, <1>3 DEF ServerInv, Erasing
  <2>3. CASE k \notin tasks[w]
    BY <2>1, <2>3, <1>3, <1>6
  <2> QED
    BY <2>2, <2>3
<1> QED
  BY <1>2, <1>7, <1>8, <1>10, <1>11 DEF ServerInv

\* A step of the tasks alone that posts no erasure.
LEMMA TasksKept ==
  ASSUME ServerInv, UNCHANGED <<up, dying, session, mapped, shutting, told, heard, attached, far>>,
         tasks' \in [Servers -> SUBSET ({"erase", "shutdown"} \X (Addresses \cup {0}) \X Conns)],
         \A w \in up : \A k \in tasks'[w] : k \in tasks[w] \/ k[1] # "erase"
  PROVE  ServerInv'
<1>1. ServerTypeOK'
  BY DEF ServerInv, ServerTypeOK
<1>2. OnePlace' /\ Listed' /\ (up' = Servers => heard' = {})
  BY DEF ServerInv, OnePlace, Listed
<1>3. Erasing'
  BY DEF ServerInv, Erasing
<1>4. ASSUME NEW c \in Conns PROVE Telling(c)'
  BY TellingStays DEF Placed, InUse
<1> QED
  BY <1>1, <1>2, <1>3, <1>4 DEF ServerInv

LEMMA EraseKept ==
  ASSUME ServerInv, NEW v \in Servers, Erase(v) PROVE ServerInv'
<1>1. PICK k \in tasks[v] :
        /\ k[1] = "erase" /\ tasks' = [tasks EXCEPT ![v] = @ \ {k}]
        /\ IF v \in up THEN Release(v, {k[2]}) ELSE UNCHANGED <<session, mapped>>
  BY DEF Erase
<1>2. UNCHANGED <<up, dying, shutting, told, heard, attached, far>>
  BY DEF Erase, net
<1>3. tasks \in [Servers -> SUBSET ({"erase", "shutdown"} \X (Addresses \cup {0}) \X Conns)]
  BY DEF ServerInv, ServerTypeOK
<1>4. /\ tasks' \in [Servers -> SUBSET ({"erase", "shutdown"} \X (Addresses \cup {0}) \X Conns)]
      /\ \A w \in Servers : \A l \in tasks'[w] : l \in tasks[w] /\ (w = v => l # k)
  BY <1>1, <1>3
<1>5. CASE v \notin up
  <2>1. \A w \in up : w \in Servers
    BY DEF ServerInv, ServerTypeOK
  <2> QED
    BY <1>1, <1>2, <1>4, <1>5, <2>1, TasksKept
<1>6. CASE v \in up
  <2> DEFINE a == k[2]
             c == k[3]
             as == {a}
  <2>1. a \in Addresses /\ session[v][a] = c /\ c \in shutting /\ c \in Conns /\ c # 0
    <3>1. k \in {"erase", "shutdown"} \X (Addresses \cup {0}) \X Conns
      BY <1>3
    <3>2. k[3] \in Conns
      BY <3>1
    <3>3. k[2] \in Addresses /\ session[v][k[2]] = k[3] /\ k[3] \in shutting
      BY <1>1, <1>6 DEF ServerInv, Erasing
    <3> QED
      BY <3>2, <3>3, ConnsAre
  <2>2. Release(v, as)
    BY <1>1, <1>6
  <2>3. as \in SUBSET Addresses /\ \A b \in as : session[v][b] # 0
    BY <2>1
  <2>4. \A d \in Conns : Placed(d)' <=> Placed(d) /\ \A b \in as : session[v][b] # d
    BY <2>2, <2>3, PlacedAfter
  <2>5. /\ session' \in [Servers -> [Addresses -> 0 .. Tries]] /\ mapped' \in [Addresses -> 0 .. Tries]
        /\ \A w \in Servers : \A b \in Addresses :
             session'[w][b] = IF w = v /\ b \in as THEN 0 ELSE session[w][b]
        /\ OnePlace' /\ Listed'
    BY <2>2, <2>3, Released
  <2>6. ServerTypeOK'
    BY <1>2, <1>4, <2>5 DEF ServerInv, ServerTypeOK
  <2>7. \A d \in Conns : InUse(d)' => InUse(d)
    BY <1>2, <2>2, <2>3, UsedAfter
  <2>8. told[c] = 1 /\ InUse(c) /\ ~InUse(c)' /\ ~Placed(c)' /\ c # dying /\ c \notin heard
    <3>1. InUse(c)
      BY <1>6, <2>1 DEF InUse
    <3>2. ~Placed(c)'
      BY <2>1, <2>4
    <3>3. up' \subseteq Servers
      BY <1>2 DEF ServerInv, ServerTypeOK
    <3>4. ~InUse(c)'
      BY <3>2, <3>3 DEF InUse, Placed
    <3>5. Telling(c)
      BY <2>1 DEF ServerInv
    <3> HIDE DEF c
    <3> QED
      BY <2>1, <3>1, <3>2, <3>4, <3>5 DEF Telling
  <2>9. ASSUME NEW d \in Conns PROVE Telling(d)'
    <3>1. CASE d = c
      <4>1. Telling(c)
        BY <2>1 DEF ServerInv
      <4> HIDE DEF c
      <4> QED
        BY <3>1, <4>1, <2>1, <2>8, <1>2 DEF Telling
    <3>2. CASE d # c
      <4>1. Placed(d)' <=> Placed(d)
        BY <2>1, <2>4, <3>2
      <4> QED
        BY <1>2, <2>7, <4>1, TellingStays
    <3> QED
      BY <3>1, <3>2
  <2>10. Erasing'
    <3> SUFFICES ASSUME NEW w \in up, NEW l \in tasks'[w], l[1] = "erase"
                 PROVE  l[2] \in Addresses /\ session'[w][l[2]] = l[3] /\ l[3] \in shutting
      BY <1>2 DEF Erasing
    <3>1. w \in Servers /\ l \in tasks[w] /\ (w = v => l # k)
      BY <1>4 DEF ServerInv, ServerTypeOK
    <3>2. l[2] \in Addresses /\ session[w][l[2]] = l[3] /\ l[3] \in shutting
      BY <3>1 DEF ServerInv, Erasing
    <3>3. ASSUME w = v, l[2] = a PROVE FALSE
      <4>1. k \in {"erase", "shutdown"} \X (Addresses \cup {0}) \X Conns /\ l \in {"erase", "shutdown"} \X (Addresses \cup {0}) \X Conns
        BY <1>3, <3>1, <3>3
      <4>2. l[1] = k[1] /\ l[2] = k[2] /\ l[3] = k[3]
        BY <1>1, <2>1, <3>2, <3>3
      <4>3. l = k
        BY <4>1, <4>2
      <4> QED
        BY <3>1, <3>3, <4>3
    <3>4. ~(w = v /\ l[2] \in as)
      BY <3>3
    <3> QED
      BY <3>1, <3>2, <3>4, <2>5
  <2> QED
    BY <1>2, <2>5, <2>6, <2>9, <2>10 DEF ServerInv
<1> QED
  BY <1>5, <1>6

LEMMA SafeShutdownKept ==
  ASSUME ServerInv, NEW v \in Servers, NEW c \in Conns, SafeShutdown(v, c) PROVE ServerInv'
<1>1. /\ tasks' = [tasks EXCEPT ![v] = @ \cup {<<"shutdown", 0, c>>}]
      /\ UNCHANGED <<up, dying, session, mapped, shutting, told, heard, attached, far>>
  BY DEF SafeShutdown, net
<1>2. tasks \in [Servers -> SUBSET ({"erase", "shutdown"} \X (Addresses \cup {0}) \X Conns)] /\ up \subseteq Servers
  BY DEF ServerInv, ServerTypeOK
<1>3. tasks' \in [Servers -> SUBSET ({"erase", "shutdown"} \X (Addresses \cup {0}) \X Conns)]
  BY <1>1, <1>2
<1>4. \A w \in up : \A k \in tasks'[w] : k \in tasks[w] \/ k[1] # "erase"
  BY <1>1, <1>2
<1> QED
  BY <1>1, <1>3, <1>4, TasksKept

LEMMA ShutdownTaskKept ==
  ASSUME ServerInv, NEW v \in Servers, ShutdownTask(v) PROVE ServerInv'
<1>1. PICK k \in tasks[v] :
        /\ k[1] = "shutdown" /\ tasks' = [tasks EXCEPT ![v] = @ \ {k}]
        /\ IF k[3] \in Sessions(v) \ shutting THEN OnErr(v, k[3])
           ELSE UNCHANGED <<session, mapped, shutting, told, attached, net>>
  BY DEF ShutdownTask
<1>2. UNCHANGED <<up, dying, heard>>
  BY DEF ShutdownTask
<1>3. tasks \in [Servers -> SUBSET ({"erase", "shutdown"} \X (Addresses \cup {0}) \X Conns)] /\ up \subseteq Servers
  BY DEF ServerInv, ServerTypeOK
<1>4. /\ tasks' \in [Servers -> SUBSET ({"erase", "shutdown"} \X (Addresses \cup {0}) \X Conns)]
      /\ \A w \in Servers : tasks'[w] \subseteq tasks[w]
  BY <1>1, <1>3
<1>5. CASE k[3] \in Sessions(v) \ shutting
  BY <1>1, <1>2, <1>4, <1>5, OnErrKept
<1>6. CASE k[3] \notin Sessions(v) \ shutting
  <2>1. UNCHANGED <<up, dying, session, mapped, shutting, told, heard, attached, far>>
    BY <1>1, <1>2, <1>6 DEF net
  <2> QED
    BY <2>1, <1>3, <1>4, TasksKept
<1> QED
  BY <1>5, <1>6

LEMMA DestroyKept ==
  ASSUME ServerInv, NEW v \in Servers, Destroy(v) PROVE ServerInv'
<1>1. v \in up /\ up' = up \ {v} /\ UNCHANGED <<dying, session, tasks, mapped, shutting, told, heard, attached, far>>
  BY DEF Destroy, net
<1>2. ServerTypeOK' /\ OnePlace' /\ Listed' /\ Erasing' /\ (up' = Servers => heard' = {})
  BY <1>1 DEF ServerInv, ServerTypeOK, OnePlace, Listed, Erasing
<1>3. ASSUME NEW c \in Conns PROVE Telling(c)'
  <2>1. (Placed(c)' <=> Placed(c)) /\ (InUse(c)' => InUse(c))
    BY <1>1 DEF Placed, InUse
  <2> QED
    BY <1>1, <2>1, TellingStays
<1> QED
  BY <1>1, <1>2, <1>3 DEF ServerInv

LEMMA DropSessionKept ==
  ASSUME ServerInv, NEW v \in Servers, NEW c \in Conns, DropSession(v, c) PROVE ServerInv'
<1>1. /\ v \in Servers \ up /\ dying = 0 /\ c \in Sessions(v) /\ told' = [told EXCEPT ![c] = @ + 1] /\ dying' = c
      /\ UNCHANGED <<up, session, tasks, mapped, shutting, heard, attached, far>>
  BY DEF DropSession, net
<1>2. told \in [Conns -> Nat] /\ Telling(c) /\ c # 0 /\ c \in 0 .. Tries
  BY ConnsAre DEF ServerInv, ServerTypeOK
<1>3. told' \in [Conns -> Nat] /\ told'[c] = told[c] + 1 /\ \A d \in Conns \ {c} : told'[d] = told[d]
  BY <1>1, <1>2
<1>4. ServerTypeOK' /\ OnePlace' /\ Listed' /\ Erasing' /\ (up' = Servers => heard' = {})
  BY <1>1, <1>2, <1>3 DEF ServerInv, ServerTypeOK, OnePlace, Listed, Erasing
<1>5. \A d \in Conns : (Placed(d)' <=> Placed(d)) /\ (InUse(d)' <=> InUse(d))
  BY <1>1 DEF Placed, InUse
<1>6. Placed(c) /\ ~InUse(c)
  BY <1>1, GoneIsNotUsed
<1>7. Telling(c)'
  <2>1. told[c] <= (IF c \in shutting THEN 1 ELSE 0)
    <3>1. told[c] <= (IF c \in shutting THEN 1 ELSE 0) + 0
      BY <1>1, <1>2, <1>6 DEF Telling
    <3> QED
      BY <3>1
  <2>2. told'[c] <= (IF c \in shutting THEN 1 ELSE 0) + 1 /\ told'[c] <= 2 /\ told'[c] >= 1
    BY <1>2, <1>3, <2>1
  <2>3. up' # Servers
    BY <1>1
  <2>4. far[c] \in {"open", "closed"}
    BY <1>2, <1>6 DEF Telling
  <2> QED
    BY <1>1, <1>2, <1>5, <1>6, <2>2, <2>3, <2>4 DEF Telling
<1>8. ASSUME NEW d \in Conns PROVE Telling(d)'
  <2>1. CASE d # c
    <3>1. told'[d] = told[d] /\ (d = dying' <=> d = dying)
      BY <2>1, <1>1, <1>3, ConnsAre
    <3> QED
      BY <1>1, <1>5, <3>1, TellingStays
  <2> QED
    BY <2>1, <1>7
<1> QED
  BY <1>1, <1>4, <1>8 DEF ServerInv

LEMMA DroppedKept ==
  ASSUME ServerInv, Dropped PROVE ServerInv'
<1>1. PICK v \in Servers : dying \in Sessions(v) /\ Release(v, At(v, {dying}))
  BY DEF Dropped
<1>2. PICK c : c = dying
  OBVIOUS
<1>3. /\ c \in Conns /\ c # 0 /\ c \in Sessions(v)
      /\ shutting' = shutting \cup {c} /\ attached' = attached \ {c}
      /\ far' = [d \in Conns |-> IF d = c THEN "closed" ELSE far[d]]
      /\ dying' = 0 /\ UNCHANGED <<up, tasks, told, heard>>
  BY <1>1, <1>2, SessionIs DEF Dropped, CloseSession
<1> DEFINE as == At(v, {c})
<1>4. /\ as \in SUBSET Addresses /\ \A a \in Addresses : a \in as <=> session[v][a] = c
      /\ \E a \in as : session[v][a] = c
  <2>1. \E a \in Addresses : session[v][a] = c
    BY <1>3, SessionIs
  <2> QED
    BY <2>1 DEF At
<1>5. Release(v, as)
  BY <1>1, <1>2
<1> HIDE DEF as
<1>6. \A a \in as : session[v][a] # 0
  BY <1>3, <1>4
<1>7. /\ session' \in [Servers -> [Addresses -> 0 .. Tries]] /\ mapped' \in [Addresses -> 0 .. Tries]
      /\ \A w \in Servers : \A b \in Addresses :
           session'[w][b] = IF w = v /\ b \in as THEN 0 ELSE session[w][b]
      /\ OnePlace' /\ Listed'
  BY <1>4, <1>5, <1>6, Released
<1>8. \A d \in Conns : (Placed(d)' <=> Placed(d) /\ d # c) /\ (InUse(d)' => InUse(d))
  <2>1. \A d \in Conns : Placed(d)' <=> Placed(d) /\ \A a \in as : session[v][a] # d
    BY <1>4, <1>5, <1>6, PlacedAfter
  <2>2. \A d \in Conns : InUse(d)' => InUse(d)
    BY <1>3, <1>4, <1>5, UsedAfter
  <2> QED
    BY <1>4, <2>1, <2>2
<1>9. Telling(c) /\ told[c] >= 1 /\ ~InUse(c)
  <2>1. Telling(c)
    BY <1>3 DEF ServerInv
  <2> QED
    BY <2>1, <1>2 DEF Telling
<1>10. v \notin up
  BY <1>3, <1>9, SessionIs DEF InUse
<1>11. ServerTypeOK' /\ far' \in [Conns -> {"none", "backlog", "open", "closed", "dropped"}]
  BY <1>3, <1>7 DEF ServerInv, ServerTypeOK
<1>12. Telling(c)'
  <2>1. told'[c] = told[c] /\ told[c] <= (IF up = Servers THEN 1 ELSE 2)
    BY <1>3, <1>9 DEF Telling
  <2>2. far'[c] = "closed" /\ c # dying' /\ ~Placed(c)' /\ ~InUse(c)' /\ c \notin attached'
    BY <1>3, <1>8, <1>9
  <2> QED
    BY <1>3, <1>9, <2>1, <2>2 DEF Telling
<1>13. ASSUME NEW d \in Conns PROVE Telling(d)'
  <2>1. CASE d # c
    <3>1. /\ told'[d] = told[d] /\ (d \in shutting' <=> d \in shutting) /\ (Placed(d)' <=> Placed(d)) /\ (InUse(d)' => InUse(d))
          /\ far'[d] = far[d] /\ (d \in attached' => d \in attached) /\ (d \in heard' <=> d \in heard)
          /\ (d = dying' <=> d = dying) /\ (up' = Servers => up = Servers)
      BY <2>1, <1>2, <1>3, <1>8, ConnsAre
    <3> QED
      BY <3>1, TellingStays
  <2> QED
    BY <2>1, <1>12
<1>14. Erasing'
  <2> SUFFICES ASSUME NEW w \in up, NEW k \in tasks[w], k[1] = "erase"
               PROVE  k[2] \in Addresses /\ session'[w][k[2]] = k[3] /\ k[3] \in shutting'
    BY <1>3 DEF Erasing
  <2>1. w \in Servers /\ w # v
    BY <1>10 DEF ServerInv, ServerTypeOK
  <2>2. k[2] \in Addresses /\ session[w][k[2]] = k[3] /\ k[3] \in shutting
    BY DEF ServerInv, Erasing
  <2> QED
    BY <2>1, <2>2, <1>3, <1>7
<1> QED
  BY <1>3, <1>7, <1>11, <1>13, <1>14 DEF ServerInv

\* A step of the network that opens or closes no session.
LEMMA FarKept ==
  ASSUME ServerInv, UNCHANGED serverVars,
         far' \in [Conns -> {"none", "backlog", "open", "closed", "dropped"}],
         \A c \in Conns : far'[c] = far[c] \/ {far[c], far'[c]} \cap {"open", "closed"} = {}
  PROVE  ServerInv'
<1>1. UNCHANGED <<up, dying, session, tasks, mapped, shutting, told, heard, attached>>
  BY DEF serverVars
<1>2. ServerTypeOK'
  BY <1>1 DEF ServerInv, ServerTypeOK
<1>3. OnePlace' /\ Listed' /\ Erasing' /\ (up' = Servers => heard' = {})
  BY <1>1 DEF ServerInv, OnePlace, Listed, Erasing
<1>4. ASSUME NEW c \in Conns PROVE Telling(c)'
  <2>1. (Placed(c)' <=> Placed(c)) /\ (InUse(c)' <=> InUse(c))
    BY <1>1 DEF Placed, InUse
  <2> QED
    BY <1>1, <2>1, TellingStays
<1> QED
  BY <1>1, <1>2, <1>3, <1>4 DEF ServerInv

LEMMA ClientLeavesFar == ASSUME ClientNext PROVE UNCHANGED far
<1>1. ASSUME ClientLoop PROVE UNCHANGED far
  BY <1>1 DEF ClientLoop, TaskRun, OnConnected, OnErrTask, OnClosed, CloseFd, net
<1>2. ASSUME ClientTimer PROVE UNCHANGED far
  BY <1>2 DEF ClientTimer, ConTimeOut, CloseFd
<1>3. ASSUME Worker \/ Calling PROVE UNCHANGED far
  BY <1>3 DEF Worker, Calling, Resolve, Dial, ArmConTimer, HoldTask, CheckFd, CloseSock, CloseFd, net
<1>4. ASSUME NEW t \in {Loop, User}, StartConnect(t) PROVE UNCHANGED far
  BY <1>4 DEF StartConnect, CloseFd, net
<1>5. ASSUME Shutdown \/ StopTimer PROVE UNCHANGED far
  BY <1>5 DEF Shutdown, StopTimer, CloseFd, net
<1> QED
  BY <1>1, <1>2, <1>3, <1>4, <1>5 DEF ClientNext

LEMMA ServerStep == ASSUME ServerInv, [Next]_vars PROVE ServerInv'
<1>1. far \in [Conns -> {"none", "backlog", "open", "closed", "dropped"}]
  BY DEF ServerInv
<1>2. CASE ClientNext /\ UNCHANGED serverVars
  BY <1>1, <1>2, ClientLeavesFar, FarKept
<1>3. CASE ServerNext
  <2>1. ASSUME NEW v \in Servers, NEW c \in Conns, OnAccept(v, c) \/ OnEof(v, c) \/ OnRecv(v, c) \/ SafeShutdown(v, c) \/ DropSession(v, c)
        PROVE  ServerInv'
    BY <2>1, OnAcceptKept, OnRecvKept, SafeShutdownKept, DropSessionKept
  <2>2. ASSUME NEW v \in Servers, Erase(v) \/ ShutdownTask(v) \/ OnManager(v) \/ Destroy(v) PROVE ServerInv'
    BY <2>2, EraseKept, ShutdownTaskKept, OnManagerKept, DestroyKept
  <2>3. CASE Unaccepted
    BY <1>1, <2>3, FarKept DEF Unaccepted
  <2>4. CASE Dropped
    BY <2>4, DroppedKept
  <2> QED
    BY <1>3, <2>1, <2>2, <2>3, <2>4 DEF ServerNext, ServerEvent, ServerTask
<1>4. CASE Network /\ UNCHANGED serverVars
  <2>1. PICK c \in Conns : Arrive(c) \/ Refuse(c)
    BY <1>4 DEF Network
  <2>2. far' = far \/ (far[c] = "none" /\ far' = [far EXCEPT ![c] = "backlog"])
    BY <2>1 DEF Arrive, Refuse
  <2> QED
    BY <1>1, <1>4, <2>2, FarKept
<1>5. CASE (\E c \in Conns : Lose(c)) /\ UNCHANGED serverVars
  BY <1>1, <1>5, FarKept DEF Lose
<1>6. CASE UNCHANGED vars
  BY <1>1, <1>6, FarKept DEF vars, net
<1> QED
  BY <1>2, <1>3, <1>4, <1>5, <1>6 DEF Next

\* The inductive invariant of the server: where sessions are and which were told.
THEOREM ServerInductive == Spec => []ServerInv
<1>1. ServerInv /\ [Next]_vars => ServerInv'
  BY ServerStep
<1> QED
  BY <1>1, ServerInit0, PTL DEF Spec

\* A session is told of its end, once unless its server is destroyed, and hears nothing
\* after while the server is there; SessionMap is exact and an erasure hits the session that
\* was meant, although addresses are used again.
THEOREM SessionsAreTold == Spec => []SessionTold
<1>1. ServerInv => SessionTold
  <2> SUFFICES ASSUME ServerInv PROVE SessionTold
    OBVIOUS
  <2>1. ASSUME NEW v \in up, NEW c \in Sessions(v) PROVE c \in Conns /\ InUse(c)
    <3>1. v \in Servers
      BY DEF ServerInv, ServerTypeOK
    <3> QED
      BY <3>1, SessionIs DEF InUse
  <2>2. ToldOnce /\ SilentAfterError
    <3>1. \A c \in Conns : told[c] <= (IF up = Servers THEN 1 ELSE 2)
      BY DEF ServerInv, Telling
    <3>2. \A v \in up : \A c \in Sessions(v) : told[c] <= 1 /\ c \notin heard
      BY <2>1 DEF ServerInv, Telling
    <3> QED
      BY <3>1, <3>2 DEF ServerInv, ToldOnce, SilentAfterError
  <2>5. EndIsTold
    <3> SUFFICES ASSUME NEW c \in Conns, far[c] \in {"open", "closed"}, ~(told[c] >= 1)
                 PROVE  \E v \in Servers : c \in Sessions(v) \ shutting
      BY DEF EndIsTold
    <3>0. Placed(c) /\ c \notin shutting
      BY DEF ServerInv, Telling
    <3>1. PICK v \in Servers, a \in Addresses : session[v][a] = c
      BY <3>0 DEF Placed
    <3>3. c \in Sessions(v)
      BY <3>1, SessionIs, ConnsAre
    <3> QED
      BY <3>0, <3>3
  <2>3. RegistryExact
    <3> SUFFICES ASSUME NEW a \in Addresses PROVE {mapped[a]} \ {0} = {session[v][a] : v \in Servers} \ {0}
      BY DEF RegistryExact
    <3> QED
      BY DEF ServerInv, Listed
  <2>4. EraseRight
    BY DEF ServerInv, Erasing, EraseRight
  <2> QED
    BY <2>2, <2>3, <2>4, <2>5 DEF SessionTold
<1> QED
  BY <1>1, ServerInductive, PTL

\* The owner of a client is told of an attempt once, or a second time of the time-out
\* that its thread armed late, and hears of what becomes of a connection: by onErr once,
\* and a second time if its thread shut it down as the poller's found the end.
THEOREM OwnerIsTold == Spec => []ClientTold
<1>1. ClientInv => ClientTypeOK /\ OneResult /\ ConnectedIsOwned /\ ErrOnce
  <2> SUFFICES ASSUME ClientInv PROVE OneResult /\ ConnectedIsOwned /\ ErrOnce
    BY DEF ClientInv
  <2>1. ASSUME NEW c \in Conns
        PROVE  Len(results[c]) <= 1 \/ (by[c] = User /\ Len(results[c]) = 2 /\ results[c][2] = "timeout")
    <3>1. Len(results[c]) \in Nat
      BY LenProperties DEF ClientInv, ClientTypeOK
    <3>2. Len(results[c]) <= 2 /\ (Len(results[c]) = 2 => by[c] = User /\ results[c][2] = "timeout")
      BY DEF ClientInv, Settled
    <3>3. ASSUME NEW n \in Nat, n <= 2 PROVE n <= 1 \/ n = 2
      BY <3>3
    <3> QED
      BY <3>1, <3>2, <3>3
  <2>2. keep => (fd[cur] /\ watch[cur] = "stream") \/ cur \in owed
    BY DEF ClientInv, ClientTypeOK, Owned, Descriptors, Conns
  <2>3. ASSUME NEW c \in Conns PROVE errs[c] <= (IF c \in shut THEN 2 ELSE 1)
    <3>1. errs[c] \in 0 .. 2 /\ (errs[c] = 2 => c \in shut)
      BY DEF ClientInv, ClientTypeOK, Errors
    <3> QED
      BY <3>1
  <2> QED
    BY <2>1, <2>2, <2>3 DEF OneResult, ConnectedIsOwned, ErrOnce, ClientInv, Owned
<1>2. ServerInv => ServerTypeOK
  BY DEF ServerInv
<1> QED
  BY <1>1, <1>2, ClientInductive, ServerInductive, PTL DEF ClientTold, TypeOK

-----------------------------------------------------------------------------
(* What a viewer over HTTP is sent.                                        *)

\* One item more.
LEMMA GrowsByOne ==
  ASSUME NEW s, NEW x, IsSequence(s)
  PROVE  /\ IsSequence(Append(s, x)) /\ Len(s) \in Nat /\ DOMAIN s = 1 .. Len(s) /\ Len(Append(s, x)) = Len(s) + 1
         /\ DOMAIN Append(s, x) = 1 .. Len(s) + 1 /\ Append(s, x)[Len(s) + 1] = x
         /\ \A i \in 1 .. Len(s) : Append(s, x)[i] = s[i]
<1>1. PICK S : s \in Seq(S)
  BY DEF IsSequence
<1> DEFINE U == S \cup {x}
<1>2. s \in Seq(U) /\ x \in U
  BY <1>1
<1> HIDE DEF U
<1>3. /\ Append(s, x) \in Seq(U) /\ Len(Append(s, x)) = Len(s) + 1 /\ Append(s, x)[Len(s) + 1] = x
      /\ \A i \in 1 .. Len(s) : Append(s, x)[i] = s[i]
  BY <1>2, AppendProperties
<1> QED
  BY <1>2, <1>3, LenProperties DEF IsSequence

\* What is added last is added last to the whole.
LEMMA OneMoreOfAll ==
  ASSUME NEW s, NEW t, NEW x, IsSequence(s), IsSequence(t)
  PROVE  s \o Append(t, x) = Append(s \o t, x)
<1>1. PICK S, T : s \in Seq(S) /\ t \in Seq(T)
  BY DEF IsSequence
<1> DEFINE U == (S \cup T) \cup {x}
<1>2. s \in Seq(U) /\ t \in Seq(U) /\ x \in U /\ <<x>> \in Seq(U)
  BY <1>1
<1> HIDE DEF U
<1>3. s \o t \in Seq(U)
  BY <1>2, ConcatProperties
<1>4. Append(t, x) = t \o <<x>> /\ Append(s \o t, x) = (s \o t) \o <<x>>
  BY <1>2, <1>3, AppendIsConcat
<1> QED
  BY <1>2, <1>4, ConcatAssociative

LEMMA NoneMore == ASSUME NEW s, IsSequence(s) PROVE s \o <<>> = s /\ IsSequence(<<>>)
<1>1. PICK S : s \in Seq(S)
  BY DEF IsSequence
<1>2. <<>> \in Seq(S)
  BY EmptySeq
<1> QED
  BY <1>1, <1>2, ConcatEmptySeq DEF IsSequence

\* The elements of a set in some order.
LEMMA InSomeOrder ==
  ASSUME NEW S, IsFiniteSet(S)
  PROVE  SetToSeq(S) \in Seq(S)
<1> DEFINE n == Cardinality(S)
           f == SetToSeq(S)
<1>1. n \in Nat /\ ExistsBijection(1 .. n, S)
  BY FS_CardinalityType
<1>2. PICK g : g \in Bijection(1 .. n, S)
  BY <1>1 DEF ExistsBijection
<1>3. g \in [1 .. n -> S] /\ IsInjective(g)
  BY <1>2 DEF Bijection, Injection, IsInjective
<1>4. f \in [1 .. n -> S] /\ IsInjective(f)
  BY <1>3 DEF SetToSeq
<1> QED
  BY <1>1, <1>4

\* What is sent outside of a stream: heads that begin none, and bodies.
Plain(x) == x.what \in {"head", "body"} /\ x.frame = "none" /\ (x.what = "head" => x.code # "101")

\* What is sent after the head of a stream, over a WebSocket or not.
Leads == {"header", "mime", "meta", "init", "config"}
Streamed(x, ws) ==
  /\ x.what \in Leads \cup {"media", "body", "close"}
  /\ x.what = "close" => ws
  /\ (x.frame # "none") = (ws /\ x.what # "body")
  /\ (x.frame = "text") = (x.what = "mime")

\* What describes a stream comes in an order, each once but for the tracks' configuration, and before the media.
Rank == [header |-> 1, mime |-> 1, meta |-> 2, init |-> 2, config |-> 3, media |-> 4]
Ordered(a, b) == a \in DOMAIN Rank /\ b \in DOMAIN Rank => Rank[a] <= Rank[b] /\ (Rank[a] = Rank[b] => Rank[a] \in {3, 4})
Describes(x) == x.what \in {"header", "init"}

\* The head of a stream is at k, with what is sent before and after it.
Watched(w, ws, k) ==
  /\ k \in DOMAIN w
  /\ w[k].what = "head" /\ w[k].frame = "none" /\ w[k].code = IF ws THEN "101" ELSE "200"
  /\ \A i \in DOMAIN w : i < k => Plain(w[i])
  /\ \A i \in DOMAIN w : i > k => Streamed(w[i], ws)
  /\ \A i \in DOMAIN w : i > k /\ w[i].what = "media" => \E j \in DOMAIN w : k < j /\ j < i /\ Describes(w[j])
  /\ \A i, j \in DOMAIN w : k < i /\ i < j => Ordered(w[i].what, w[j].what)

Unwatched(w) == \A i \in DOMAIN w : Plain(w[i])

LEMMA UnwatchedMore ==
  ASSUME NEW w, IsSequence(w), Unwatched(w), NEW x, Plain(x)
  PROVE  Unwatched(Append(w, x))
<1> DEFINE v == Append(w, x)
<1>1. /\ Len(w) \in Nat /\ DOMAIN w = 1 .. Len(w) /\ DOMAIN v = 1 .. Len(w) + 1 /\ v[Len(w) + 1] = x
      /\ \A i \in 1 .. Len(w) : v[i] = w[i]
  BY GrowsByOne
<1> HIDE DEF v
<1>2. \A i \in DOMAIN v : Plain(v[i])
  BY <1>1 DEF Unwatched
<1> QED
  BY <1>2 DEF Unwatched, v

\* The head of a stream is sent.
LEMMA WatchBegins ==
  ASSUME NEW w, IsSequence(w), Unwatched(w), NEW ws, NEW x,
         x.what = "head", x.frame = "none", x.code = IF ws THEN "101" ELSE "200"
  PROVE  Watched(Append(w, x), ws, Len(w) + 1)
<1> DEFINE v == Append(w, x)
           k == Len(w) + 1
<1>1. /\ Len(w) \in Nat /\ DOMAIN w = 1 .. Len(w) /\ DOMAIN v = 1 .. k /\ v[k] = x
      /\ \A i \in 1 .. Len(w) : v[i] = w[i]
  BY GrowsByOne
<1>2. k \in 1 .. k /\ \A i \in 1 .. k : ~(i > k) /\ (i < k => i \in 1 .. Len(w))
  BY <1>1
<1> HIDE DEF v, k
<1>3. \A i \in DOMAIN v : i < k => Plain(v[i])
  BY <1>1, <1>2 DEF Unwatched
<1>4. \A i \in DOMAIN v : ~(i > k) /\ ~(k < i)
  BY <1>1, <1>2
<1>5. k \in DOMAIN v
  BY <1>1, <1>2
<1>6. Watched(v, ws, k)
  BY <1>1, <1>3, <1>4, <1>5 DEF Watched
<1> QED
  BY <1>6 DEF v, k

\* Something more of it is sent.
LEMMA WatchGoesOn ==
  ASSUME NEW w, IsSequence(w), NEW ws, NEW k, Watched(w, ws, k), NEW x, Streamed(x, ws),
         \A i \in DOMAIN w : i > k => Ordered(w[i].what, x.what),
         x.what = "media" => \E j \in DOMAIN w : k < j /\ Describes(w[j])
  PROVE  Watched(Append(w, x), ws, k)
<1> DEFINE v == Append(w, x)
           n == Len(w)
<1>1. /\ n \in Nat /\ DOMAIN w = 1 .. n /\ DOMAIN v = 1 .. n + 1 /\ v[n + 1] = x
      /\ \A i \in 1 .. n : v[i] = w[i]
  BY GrowsByOne
<1>2. k \in 1 .. n /\ \A i \in 1 .. n + 1 : i \in 1 .. n \/ i = n + 1
  BY <1>1 DEF Watched
<1> HIDE DEF v, n
<1>3. k \in DOMAIN v /\ v[k] = w[k]
  BY <1>1, <1>2
<1>4. \A i \in DOMAIN v : i < k => Plain(v[i])
  BY <1>1, <1>2 DEF Watched
<1>5. \A i \in DOMAIN v : i > k => Streamed(v[i], ws)
  BY <1>1, <1>2 DEF Watched
<1>6. ASSUME NEW i \in DOMAIN v, i > k, v[i].what = "media"
      PROVE  \E j \in DOMAIN v : k < j /\ j < i /\ Describes(v[j])
  <2>1. PICK j \in DOMAIN w : k < j /\ j < i /\ Describes(w[j])
    BY <1>1, <1>2, <1>6 DEF Watched
  <2> QED
    BY <1>1, <2>1
<1>7. ASSUME NEW i \in DOMAIN v, NEW j \in DOMAIN v, k < i, i < j PROVE Ordered(v[i].what, v[j].what)
  <2>1. i \in 1 .. n
    BY <1>1, <1>7
  <2> QED
    BY <1>1, <1>2, <1>7, <2>1 DEF Watched
<1>8. Watched(v, ws, k)
  BY <1>3, <1>4, <1>5, <1>6, <1>7 DEF Watched
<1> QED
  BY <1>8 DEF v

\* The members of a session.
HttpMembers == {"open", "silent", "busy", "look", "content", "overWs", "fmp4Ws", "first", "reader", "read", "stamps",
                "senders", "flush", "tasks", "out"}
HttpKnows(h) ==
  /\ DOMAIN h = HttpMembers /\ IsSequence(h.out)
  /\ h.open \in BOOLEAN /\ h.content \in BOOLEAN /\ h.overWs \in BOOLEAN /\ h.fmp4Ws \in BOOLEAN /\ h.first \in BOOLEAN

\* Nothing but what was sent and counted has changed.
Same(h, q) ==
  /\ q.open = h.open /\ q.reader = h.reader /\ q.look = h.look
  /\ q.overWs = h.overWs /\ q.fmp4Ws = h.fmp4Ws /\ q.content = h.content

\* An item to be sent, and what becomes of it.
Item(x) == "what" \in DOMAIN x /\ "frame" \in DOMAIN x /\ x.frame = "none"
Framed(h) == IF ~h.overWs THEN "none" ELSE IF h.fmp4Ws /\ h.first THEN "text" ELSE "binary"

LEMMA Emits ==
  ASSUME NEW h, HttpKnows(h), NEW y, NEW s, IsSequence(s)
  PROVE  /\ HttpKnows(Emit(h, y)) /\ Same(h, Emit(h, y)) /\ Emit(h, y).first = h.first
         /\ s \o Emit(h, y).out = Append(s \o h.out, y)
<1> DEFINE q == Emit(h, y)
<1>1. DOMAIN q = HttpMembers /\ q.out = Append(h.out, y) /\ q.first = h.first /\ Same(h, q)
  BY DEF Emit, HttpKnows, HttpMembers, Same
<1>2. IsSequence(Append(h.out, y)) /\ s \o Append(h.out, y) = Append(s \o h.out, y)
  BY GrowsByOne, OneMoreOfAll DEF HttpKnows
<1> HIDE DEF q
<1>3. HttpKnows(q)
  BY <1>1, <1>2 DEF HttpKnows, Same
<1> QED
  BY <1>1, <1>2, <1>3 DEF q

LEMMA Writes ==
  ASSUME NEW h, HttpKnows(h), NEW x, Item(x), NEW s, IsSequence(s)
  PROVE  LET q == Write(h, x)
         IN  /\ HttpKnows(q) /\ Same(h, q) /\ q.first = (h.first /\ ~(h.overWs /\ h.fmp4Ws))
             /\ \E y : y.what = x.what /\ y.frame = Framed(h) /\ s \o q.out = Append(s \o h.out, y)
<1> DEFINE q == Write(h, x)
           y == IF h.overWs THEN [x EXCEPT !.frame = Framed(h)] ELSE x
           e == Emit(h, y)
<1>1. y.what = x.what /\ y.frame = Framed(h)
  BY DEF Item, Framed
<1>2. HttpKnows(e) /\ Same(h, e) /\ e.first = h.first /\ s \o e.out = Append(s \o h.out, y)
  BY Emits
<1>3. CASE ~h.overWs
  <2>1. q = e
    BY <1>3 DEF Write
  <2> HIDE DEF q, y, e
  <2>2. e.first = (h.first /\ ~(h.overWs /\ h.fmp4Ws))
    BY <1>2, <1>3 DEF HttpKnows
  <2> QED
    BY <1>1, <1>2, <2>1, <2>2 DEF q
<1>4. CASE h.overWs
  <2>1. q = [e EXCEPT !.first = @ /\ ~h.fmp4Ws]
    BY <1>4 DEF Write, Framed
  <2> HIDE DEF q, y, e
  <2>2. /\ q.first = (h.first /\ ~(h.overWs /\ h.fmp4Ws)) /\ q.out = e.out /\ DOMAIN q = HttpMembers
        /\ q.open = e.open /\ q.reader = e.reader /\ q.look = e.look /\ q.overWs = e.overWs /\ q.fmp4Ws = e.fmp4Ws
        /\ q.content = e.content
    BY <1>2, <1>4, <2>1 DEF HttpKnows, HttpMembers
  <2>3. HttpKnows(q)
    BY <1>2, <2>2 DEF HttpKnows
  <2>4. Same(h, q)
    BY <1>2, <2>2 DEF Same
  <2> QED
    BY <1>1, <1>2, <2>2, <2>3, <2>4 DEF q
<1> QED
  BY <1>3, <1>4 DEF HttpKnows
-----------------------------------------------------------------------------
(* Several items: the fold is a function on the sets of their places.      *)
IsWriting(e, h, s, n) ==
  e = [t \in SUBSET (1 .. n) |-> IF t = {} THEN h ELSE Write(e[t \ {Max(t)}], s[Max(t)])]

LEMMA WritingIs ==
  ASSUME NEW h, NEW s, NEW n, DOMAIN s = 1 .. n
  PROVE  WriteAll(h, s) = (CHOOSE e : IsWriting(e, h, s, n))[1 .. n]
<1>1. FoldLeft(Write, h, s) =
        (CHOOSE e : e = [t \in SUBSET (DOMAIN s) |-> IF t = {} THEN h ELSE Write(e[t \ {Max(t)}], s[Max(t)])])[DOMAIN s]
  BY DEF FoldLeft, MapThenFoldSet
<1> QED
  BY <1>1 DEF IsWriting, WriteAll

LEMMA WritingGrows ==
  ASSUME NEW h, NEW s, NEW n \in Nat \ {0}, NEW e, IsWriting(e, h, s, n - 1)
  PROVE  IsWriting([t \in SUBSET (1 .. n) |-> IF n \in t THEN Write(e[t \ {n}], s[n]) ELSE e[t]], h, s, n)
<1> DEFINE F(t) == IF n \in t THEN Write(e[t \ {n}], s[n]) ELSE e[t]
           f == [t \in SUBSET (1 .. n) |-> F(t)]
           G(t) == IF t = {} THEN h ELSE Write(f[t \ {Max(t)}], s[Max(t)])
<1>1. \A t \in SUBSET (1 .. n - 1) : e[t] = IF t = {} THEN h ELSE Write(e[t \ {Max(t)}], s[Max(t)])
  BY DEF IsWriting
<1>2. \A t \in SUBSET (1 .. n) : f[t] = F(t)
  OBVIOUS
<1>3. ASSUME NEW t \in SUBSET (1 .. n) PROVE f[t] = G(t)
  <2>1. \A r \in SUBSET (1 .. n) : n \notin r => r \in SUBSET (1 .. n - 1)
    OBVIOUS
  <2>2. CASE n \in t
    <3>1. Max(t) = n /\ t # {}
      BY <2>2, LastOf
    <3>2. PICK r : r = t \ {n}
      OBVIOUS
    <3>3. r \in SUBSET (1 .. n) /\ n \notin r
      BY <3>2
    <3>4. f[r] = e[r]
      BY <1>2, <3>3
    <3>5. f[t] = Write(e[r], s[n])
      BY <1>2, <2>2, <3>2
    <3> HIDE DEF f
    <3> QED
      BY <3>1, <3>2, <3>4, <3>5
  <2>3. CASE n \notin t
    <3>1. PICK r : r = t \ {Max(t)}
      OBVIOUS
    <3>2. r \in SUBSET (1 .. n) /\ n \notin r /\ t \in SUBSET (1 .. n - 1)
      BY <2>1, <2>3, <3>1
    <3>3. f[r] = e[r] /\ f[t] = e[t]
      BY <1>2, <2>3, <3>2
    <3> HIDE DEF f
    <3> QED
      BY <1>1, <3>1, <3>2, <3>3
  <2> QED
    BY <2>2, <2>3
<1>4. f = [t \in SUBSET (1 .. n) |-> G(t)]
  <2> HIDE DEF G
  <2>1. \A t \in SUBSET (1 .. n) : F(t) = G(t)
    BY <1>2, <1>3
  <2> HIDE DEF F
  <2> QED
    BY <2>1
<1>5. IsWriting(f, h, s, n)
  <2> HIDE DEF f
  <2> QED
    BY <1>4 DEF IsWriting
<1> QED
  BY <1>5

LEMMA WritingExists == ASSUME NEW h, NEW s, NEW n \in Nat PROVE \E e : IsWriting(e, h, s, n)
<1> DEFINE T == {k \in 0 .. n : \E e : IsWriting(e, h, s, k)}
<1>1. 0 \in T
  <2> DEFINE e == [t \in SUBSET (1 .. 0) |-> h]
  <2>1. SUBSET (1 .. 0) = {{}}
    OBVIOUS
  <2>2. e = [t \in SUBSET (1 .. 0) |-> IF t = {} THEN h ELSE Write(e[t \ {Max(t)}], s[Max(t)])]
    BY <2>1
  <2>3. IsWriting(e, h, s, 0)
    BY <2>2 DEF IsWriting
  <2> QED
    BY <2>3
<1>2. ASSUME NEW k \in 1 .. n, k - 1 \in T PROVE k \in T
  <2>1. PICK e : IsWriting(e, h, s, k - 1)
    BY <1>2
  <2>2. k \in Nat \ {0} /\ k \in 0 .. n
    OBVIOUS
  <2>3. \E f : IsWriting(f, h, s, k)
    BY <2>1, <2>2, WritingGrows
  <2> QED
    BY <2>2, <2>3
<1> HIDE DEF T
<1>3. \A k \in 0 .. n : k \in T
  BY <1>1, <1>2, Along
<1> QED
  BY <1>3 DEF T

\* It is what is written step by step.
LEMMA WritesAll ==
  ASSUME NEW h, NEW s, NEW n \in Nat, DOMAIN s = 1 .. n
  PROVE  \E f : f[0] = h /\ f[n] = WriteAll(h, s) /\ \A i \in 1 .. n : f[i] = Write(f[i - 1], s[i])
<1>1. PICK e : e = CHOOSE d : IsWriting(d, h, s, n)
  OBVIOUS
<1>2. IsWriting(e, h, s, n)
  BY <1>1, WritingExists
<1>3. \A t \in SUBSET (1 .. n) : e[t] = IF t = {} THEN h ELSE Write(e[t \ {Max(t)}], s[Max(t)])
  BY <1>2 DEF IsWriting
<1> DEFINE f == [i \in 0 .. n |-> e[1 .. i]]
<1>4. f[0] = h
  <2>1. 1 .. 0 = {} /\ 1 .. 0 \in SUBSET (1 .. n)
    OBVIOUS
  <2>2. e[1 .. 0] = h
    BY <1>3, <2>1
  <2>3. f[0] = e[1 .. 0]
    OBVIOUS
  <2> QED
    BY <2>2, <2>3
<1>5. ASSUME NEW k \in 1 .. n PROVE f[k] = Write(f[k - 1], s[k])
  <2>1. k \in Nat \ {0} /\ k <= n /\ k \in 1 .. k /\ \A i \in 1 .. k : i \in 1 .. n
    OBVIOUS
  <2>2. 1 .. k \in SUBSET (1 .. n) /\ 1 .. k # {}
    BY <2>1
  <2>3. Max(1 .. k) = k
    BY <2>1, <2>2, LastOf
  <2>4. (1 .. k) \ {k} = 1 .. k - 1
    OBVIOUS
  <2>5. e[1 .. k] = Write(e[1 .. k - 1], s[k])
    BY <1>3, <2>2, <2>3, <2>4
  <2> QED
    BY <2>5
<1>6. f[n] = WriteAll(h, s)
  BY <1>1, WritingIs
<1> QED
  BY <1>4, <1>5, <1>6
-----------------------------------------------------------------------------
\* What comes before the media: a description of an MP4 stream over a WebSocket is text.
Lead(items, text) ==
  /\ IsSequence(items)
  /\ \A m \in DOMAIN items : Item(items[m]) /\ items[m].what \in Leads /\ (items[m].what = "mime" <=> (m = 1 /\ text))
  /\ \A m, n \in DOMAIN items : m < n => Ordered(items[m].what, items[n].what)
  /\ \E m \in DOMAIN items : Describes(items[m])

\* Where a session is after i of them.
Led(h, s, k, items, i, q) ==
  /\ HttpKnows(q) /\ Same(h, q) /\ (h.overWs /\ h.fmp4Ws => q.first = (i = 0))
  /\ Watched(s \o q.out, h.overWs, k)
  /\ \A j \in DOMAIN (s \o q.out) : j > k => \E m \in 1 .. i : (s \o q.out)[j].what = items[m].what
  /\ \A m \in 1 .. i : \E j \in DOMAIN (s \o q.out) : k < j /\ (s \o q.out)[j].what = items[m].what

LEMMA LeadsOn ==
  ASSUME NEW h, HttpKnows(h), NEW s, IsSequence(s), NEW k, NEW items, Lead(items, h.overWs /\ h.fmp4Ws),
         NEW i \in Nat \ {0}, i \in DOMAIN items, \A m \in 1 .. i : m \in DOMAIN items,
         NEW p, Led(h, s, k, items, i - 1, p)
  PROVE  Led(h, s, k, items, i, Write(p, items[i]))
<1> DEFINE q == Write(p, items[i])
           w == s \o p.out
           v == s \o q.out
           ws == h.overWs
<1>1. Item(items[i]) /\ items[i].what \in Leads /\ (items[i].what = "mime" <=> (i = 1 /\ h.overWs /\ h.fmp4Ws))
  BY DEF Lead
<1>2. PICK y : /\ HttpKnows(q) /\ Same(p, q) /\ q.first = (p.first /\ ~(p.overWs /\ p.fmp4Ws))
               /\ y.what = items[i].what /\ y.frame = Framed(p) /\ v = Append(w, y)
  <2>1. PICK x : x = items[i]
    OBVIOUS
  <2>2. HttpKnows(p) /\ Item(x)
    BY <1>1, <2>1 DEF Led
  <2> DEFINE r == Write(p, x)
  <2>3. /\ HttpKnows(r) /\ Same(p, r) /\ r.first = (p.first /\ ~(p.overWs /\ p.fmp4Ws))
        /\ \E y : y.what = x.what /\ y.frame = Framed(p) /\ s \o r.out = Append(s \o p.out, y)
    BY <2>2, Writes
  <2>4. q = r
    BY <2>1
  <2> HIDE DEF q, r
  <2> QED
    BY <2>1, <2>3, <2>4
<1>3. Same(h, q) /\ p.overWs = h.overWs /\ p.fmp4Ws = h.fmp4Ws
  BY <1>2 DEF Led, Same
<1>4. h.overWs /\ h.fmp4Ws => q.first = (i = 0)
  BY <1>2, <1>3 DEF Led
<1>5. IsSequence(w)
  BY JoinedSequences DEF Led, HttpKnows
<1>6. Streamed(y, ws)
  <2>1. h.overWs \in BOOLEAN /\ h.fmp4Ws \in BOOLEAN
    BY DEF HttpKnows
  <2>2. h.overWs /\ h.fmp4Ws => p.first = (i = 1)
    <3>1. (i - 1 = 0) = (i = 1)
      OBVIOUS
    <3> QED
      BY <3>1 DEF Led
  <2>3. y.frame = IF ~h.overWs THEN "none" ELSE IF h.fmp4Ws /\ i = 1 THEN "text" ELSE "binary"
    BY <1>2, <1>3, <2>1, <2>2 DEF Framed
  <2>4. y.what \in Leads /\ y.what # "body" /\ y.what # "close"
    BY <1>1, <1>2 DEF Leads
  <2> QED
    BY <1>1, <1>2, <2>1, <2>3, <2>4 DEF Streamed
<1>7. Watched(w, ws, k)
  BY DEF Led
<1>8. ASSUME NEW j \in DOMAIN w, j > k PROVE Ordered(w[j].what, y.what)
  <2>1. PICK m \in 1 .. i - 1 : w[j].what = items[m].what
    BY <1>8 DEF Led
  <2>2. m \in DOMAIN items /\ m < i
    BY <2>1
  <2> QED
    BY <1>2, <2>1, <2>2 DEF Lead
<1>9. y.what # "media"
  BY <1>1, <1>2 DEF Leads
<1> HIDE DEF q, v, w, ws
<1>10. Watched(v, ws, k)
  BY <1>2, <1>5, <1>6, <1>7, <1>8, <1>9, WatchGoesOn
<1>11. /\ Len(w) \in Nat /\ DOMAIN w = 1 .. Len(w) /\ DOMAIN v = 1 .. Len(w) + 1 /\ v[Len(w) + 1] = y
       /\ \A j \in 1 .. Len(w) : v[j] = w[j]
  BY <1>2, <1>5, GrowsByOne
<1>12. ASSUME NEW j \in DOMAIN v, j > k PROVE \E m \in 1 .. i : v[j].what = items[m].what
  <2>1. CASE j = Len(w) + 1
    <3>1. i \in 1 .. i
      OBVIOUS
    <3> QED
      BY <1>2, <1>11, <2>1, <3>1
  <2>2. CASE j # Len(w) + 1
    <3>1. j \in DOMAIN w /\ v[j] = w[j]
      BY <1>11, <2>2
    <3>2. PICK m \in 1 .. i - 1 : w[j].what = items[m].what
      BY <1>12, <3>1 DEF Led, w
    <3>3. m \in 1 .. i
      BY <3>2
    <3> QED
      BY <3>1, <3>2, <3>3
  <2> QED
    BY <2>1, <2>2
<1>13. ASSUME NEW m \in 1 .. i PROVE \E j \in DOMAIN v : k < j /\ v[j].what = items[m].what
  <2>1. CASE m = i
    <3>1. Len(w) + 1 \in DOMAIN v /\ k < Len(w) + 1
      BY <1>7, <1>11 DEF Watched
    <3> QED
      BY <1>2, <1>11, <2>1, <3>1
  <2>2. CASE m # i
    <3>1. m \in 1 .. i - 1
      BY <2>2
    <3>2. PICK j \in DOMAIN w : k < j /\ w[j].what = items[m].what
      BY <3>1 DEF Led, w
    <3>3. j \in DOMAIN v /\ v[j] = w[j]
      BY <1>11, <3>2
    <3> QED
      BY <3>2, <3>3
  <2> QED
    BY <2>1, <2>2
<1> QED
  BY <1>2, <1>3, <1>4, <1>10, <1>12, <1>13 DEF Led, q, v, ws

\* A session that has been asked for no stream, or has not found it; and one that has sent its head.
Waiting(h, w) == ~h.overWs /\ h.first /\ Unwatched(w)
Watching(h, w) ==
  \E k : /\ Watched(w, h.overWs, k) /\ (h.overWs /\ h.fmp4Ws => ~h.first)
         /\ \E j \in DOMAIN w : k < j /\ Describes(w[j])

\* The whole of what comes before the media.
LEMMA LeadsAll ==
  ASSUME NEW h, HttpKnows(h), h.first, NEW s, IsSequence(s), Watched(s \o h.out, h.overWs, Len(s \o h.out)),
         NEW items, Lead(items, h.overWs /\ h.fmp4Ws)
  PROVE  /\ HttpKnows(WriteAll(h, items)) /\ Same(h, WriteAll(h, items))
         /\ Watched(s \o WriteAll(h, items).out, h.overWs, Len(s \o h.out))
         /\ Watching(WriteAll(h, items), s \o WriteAll(h, items).out)
<1> DEFINE k == Len(s \o h.out)
           n == Len(items)
           q == WriteAll(h, items)
<1>1. n \in Nat /\ DOMAIN items = 1 .. n
  <2>1. PICK S : items \in Seq(S)
    BY DEF Lead, IsSequence
  <2> QED
    BY <2>1, LenProperties
<1>2. PICK f : f[0] = h /\ f[n] = q /\ \A i \in 1 .. n : f[i] = Write(f[i - 1], items[i])
  <2>1. PICK m, t : m = n /\ t = items
    OBVIOUS
  <2>2. m \in Nat /\ DOMAIN t = 1 .. m
    BY <1>1, <2>1
  <2>3. PICK f : f[0] = h /\ f[m] = WriteAll(h, t) /\ \A i \in 1 .. m : f[i] = Write(f[i - 1], t[i])
    BY <2>2, WritesAll
  <2>4. f[0] = h /\ f[n] = q /\ \A i \in 1 .. n : f[i] = Write(f[i - 1], items[i])
    BY <2>1, <2>3
  <2> QED
    BY <2>4
<1>3. Led(h, s, k, items, 0, h)
  <2>1. \A j \in DOMAIN (s \o h.out) : ~(j > k)
    <3>1. IsSequence(s \o h.out)
      BY JoinedSequences DEF HttpKnows
    <3>2. PICK S : s \o h.out \in Seq(S)
      BY <3>1 DEF IsSequence
    <3>3. k \in Nat /\ DOMAIN (s \o h.out) = 1 .. k
      BY <3>2, LenProperties
    <3> QED
      BY <3>3
  <2>2. \A m : m \notin 1 .. 0
    OBVIOUS
  <2> QED
    BY <2>1, <2>2 DEF Led, Same, HttpKnows
<1> HIDE DEF k, n, q
<1> DEFINE T == {i \in 0 .. n : Led(h, s, k, items, i, f[i])}
<1>4. 0 \in T
  BY <1>1, <1>2, <1>3
<1>5. ASSUME NEW i \in 1 .. n, i - 1 \in T PROVE i \in T
  <2>1. i \in Nat \ {0} /\ i \in DOMAIN items /\ (\A m \in 1 .. i : m \in DOMAIN items) /\ i \in 0 .. n
    BY <1>1
  <2>2. Led(h, s, k, items, i - 1, f[i - 1])
    BY <1>5
  <2>3. Led(h, s, k, items, i, Write(f[i - 1], items[i]))
    BY <2>1, <2>2, LeadsOn
  <2> QED
    BY <1>2, <2>1, <2>3
<1> HIDE DEF T
<1>6. \A i \in 0 .. n : i \in T
  BY <1>1, <1>4, <1>5, Along
<1>7. Led(h, s, k, items, n, q)
  BY <1>1, <1>2, <1>6 DEF T
<1>8. PICK m \in 1 .. n : Describes(items[m])
  BY <1>1 DEF Lead
<1>9. h.overWs /\ h.fmp4Ws => ~q.first
  <2>1. (n = 0) = FALSE
    BY <1>1, <1>8
  <2> QED
    BY <1>7, <2>1 DEF Led
<1>10. PICK j \in DOMAIN (s \o q.out) : k < j /\ (s \o q.out)[j].what = items[m].what
  BY <1>7 DEF Led
<1>11. Watching(q, s \o q.out)
  <2>1. Describes((s \o q.out)[j])
    BY <1>8, <1>10 DEF Describes
  <2>2. q.overWs = h.overWs /\ q.fmp4Ws = h.fmp4Ws
    BY <1>7 DEF Led, Same
  <2>3. Watched(s \o q.out, q.overWs, k)
    BY <1>7, <2>2 DEF Led
  <2> QED
    BY <1>9, <1>10, <2>1, <2>2, <2>3 DEF Watching
<1> QED
  BY <1>7, <1>11 DEF Led, q, k

\* What FlvMuxer writes first.
Two(tracks) == tracks \subseteq BOOLEAN

LEMMA FlvLeads ==
  ASSUME NEW tracks, Two(tracks)
  PROVE  Lead(FlvHeader(tracks, TRUE), FALSE)
<1> DEFINE S == {[what |-> "config", video |-> v, frame |-> "none"] : v \in tracks}
           a == << [what |-> "header", tracks |-> tracks, frame |-> "none"] >>
           b == << Plainly("meta") >>
           c == SetToSeq(S)
           items == (a \o b) \o c
<1>1. FlvHeader(tracks, TRUE) = items
  BY DEF FlvHeader
<1>2. c \in Seq(S)
  <2>1. PICK x, y : S \subseteq {x} \cup {y}
    <3>1. S \subseteq {[what |-> "config", video |-> TRUE, frame |-> "none"]}
                      \cup {[what |-> "config", video |-> FALSE, frame |-> "none"]}
      BY DEF Two
    <3> QED
      BY <3>1
  <2>2. IsFiniteSet({x} \cup {y})
    BY FS_Singleton, FS_AddElement
  <2>3. IsFiniteSet(S)
    BY <2>1, <2>2, FS_Subset
  <2> HIDE DEF S
  <2> QED
    BY <2>3, InSomeOrder
<1>3. IsSequence(a) /\ Len(a) = 1 /\ IsSequence(b) /\ Len(b) = 1
  BY OneOnly
<1>4. Item(a[1]) /\ a[1].what = "header" /\ Item(b[1]) /\ b[1].what = "meta"
  BY DEF Item, Plainly
<1>5. IsSequence(c) /\ Len(c) \in Nat /\ \A i \in 1 .. Len(c) : Item(c[i]) /\ c[i].what = "config"
  <2>1. \A x \in S : Item(x) /\ x.what = "config"
    BY DEF Item
  <2> HIDE DEF S, c
  <2>2. Len(c) \in Nat /\ DOMAIN c = 1 .. Len(c) /\ \A i \in 1 .. Len(c) : c[i] \in S
    BY <1>2, LenProperties, ElementOfSeq
  <2> QED
    BY <1>2, <2>1, <2>2 DEF IsSequence
<1> DEFINE l == Len(c)
<1> HIDE DEF a, b, c, S
<1>6. IsSequence(a \o b) /\ Len(a \o b) = 2 /\ (a \o b)[1] = a[1] /\ (a \o b)[2] = b[1]
  <2>1. /\ IsSequence(a \o b) /\ Len(a \o b) = Len(a) + Len(b)
        /\ \A i \in 1 .. Len(a) + Len(b) : (a \o b)[i] = IF i <= Len(a) THEN a[i] ELSE b[i - Len(a)]
    BY <1>3, JoinedSequences
  <2>2. 1 \in 1 .. 2 /\ 2 \in 1 .. 2 /\ 1 <= 1 /\ ~(2 <= 1) /\ 2 - 1 = 1 /\ 1 + 1 = 2
    OBVIOUS
  <2> QED
    BY <1>3, <2>1, <2>2
<1>7. /\ IsSequence(items) /\ Len(items) = 2 + l
      /\ \A i \in 1 .. 2 + l : items[i] = IF i <= 2 THEN (a \o b)[i] ELSE c[i - 2]
  BY <1>5, <1>6, JoinedSequences
<1>8. DOMAIN items = 1 .. 2 + l
  <2>1. PICK U : items \in Seq(U)
    BY <1>7 DEF IsSequence
  <2> QED
    BY <1>7, <2>1, LenProperties
<1> HIDE DEF items
<1>9. 1 \in DOMAIN items /\ items[1] = a[1] /\ 2 \in DOMAIN items /\ items[2] = b[1]
  BY <1>5, <1>6, <1>7, <1>8
<1>10. \A i \in DOMAIN items : i = 1 \/ i = 2 \/ (i > 2 /\ Item(items[i]) /\ items[i].what = "config")
  BY <1>5, <1>7, <1>8
<1>11. ASSUME NEW m \in DOMAIN items
       PROVE  Item(items[m]) /\ items[m].what \in Leads /\ (items[m].what = "mime" <=> (m = 1 /\ FALSE))
  BY <1>4, <1>9, <1>10 DEF Leads
<1>12. ASSUME NEW m \in DOMAIN items, NEW n \in DOMAIN items, m < n PROVE Ordered(items[m].what, items[n].what)
  <2>1. n = 2 \/ (n > 2 /\ items[n].what = "config")
    BY <1>8, <1>10, <1>12
  <2>2. (m = 1 /\ items[m].what = "header") \/ (m = 2 /\ items[m].what = "meta") \/ items[m].what = "config"
    BY <1>4, <1>9, <1>10
  <2>3. n = 2 => m = 1 /\ items[n].what = "meta"
    BY <1>4, <1>8, <1>9, <1>12
  <2>4. Ordered("header", "meta") /\ Ordered("header", "config") /\ Ordered("meta", "config") /\ Ordered("config", "config")
    BY DEF Ordered, Rank
  <2>5. CASE n = 2
    BY <1>4, <1>9, <2>3, <2>4, <2>5
  <2>6. CASE n > 2 /\ items[n].what = "config"
    BY <2>2, <2>4, <2>6
  <2> QED
    BY <2>1, <2>5, <2>6
<1>13. Describes(items[1])
  BY <1>4, <1>9 DEF Describes
<1>14. Lead(items, FALSE)
  BY <1>7, <1>9, <1>11, <1>12, <1>13 DEF Lead
<1> QED
  BY <1>1, <1>14 DEF items

\* What comes first of an MP4 stream.
LEMMA Mp4Leads ==
  ASSUME NEW text \in BOOLEAN
  PROVE  Lead((IF text THEN << Plainly("mime") >> ELSE <<>>) \o << Plainly("init") >>, text)
<1> DEFINE a == << Plainly("mime") >>
           b == << Plainly("init") >>
<1>1. IsSequence(a) /\ Len(a) = 1 /\ IsSequence(b) /\ Len(b) = 1
  BY OneOnly
<1>2. Item(a[1]) /\ a[1].what = "mime" /\ Item(b[1]) /\ b[1].what = "init"
  BY DEF Item, Plainly
<1> HIDE DEF a, b
<1>3. CASE text
  <2> DEFINE items == a \o b
  <2>1. /\ IsSequence(items) /\ Len(items) = 1 + 1
        /\ \A i \in 1 .. 1 + 1 : items[i] = IF i <= 1 THEN a[i] ELSE b[i - 1]
    <3>1. /\ IsSequence(items) /\ Len(items) = Len(a) + Len(b)
          /\ \A i \in 1 .. Len(a) + Len(b) : items[i] = IF i <= Len(a) THEN a[i] ELSE b[i - Len(a)]
      BY <1>1, JoinedSequences
    <3> HIDE DEF items
    <3> QED
      BY <1>1, <3>1
  <2>2. DOMAIN items = 1 .. 2
    <3>1. PICK U : items \in Seq(U)
      BY <2>1 DEF IsSequence
    <3> QED
      BY <2>1, <3>1, LenProperties
  <2> HIDE DEF items
  <2>3. items[1] = a[1] /\ items[2] = b[1] /\ 1 \in DOMAIN items /\ 2 \in DOMAIN items
    BY <2>1, <2>2
  <2>4. \A i \in DOMAIN items : i = 1 \/ i = 2
    BY <2>2
  <2>5. Ordered("mime", "init")
    BY DEF Ordered, Rank
  <2>6. \A m, n \in DOMAIN items : m < n => m = 1 /\ n = 2
    BY <2>2
  <2>7. \A m \in DOMAIN items : Item(items[m]) /\ items[m].what \in Leads /\ (items[m].what = "mime" <=> (m = 1 /\ text))
    BY <1>2, <1>3, <2>3, <2>4 DEF Leads
  <2>8. Describes(items[2])
    BY <1>2, <2>3 DEF Describes
  <2>9. Lead(items, text)
    BY <1>2, <2>1, <2>3, <2>5, <2>6, <2>7, <2>8 DEF Lead
  <2> QED
    BY <1>3, <2>9 DEF items, a, b
<1>4. CASE ~text
  <2>1. <<>> \o b = b
    <3>1. PICK U : b \in Seq(U)
      BY <1>1 DEF IsSequence
    <3> QED
      BY <3>1, ConcatEmptySeq
  <2>2. DOMAIN b = 1 .. 1
    <3>1. PICK U : b \in Seq(U)
      BY <1>1 DEF IsSequence
    <3> QED
      BY <1>1, <3>1, LenProperties
  <2>3. 1 \in DOMAIN b /\ \A i \in DOMAIN b : i = 1
    BY <2>2
  <2>4. Describes(b[1])
    BY <1>2 DEF Describes
  <2>5. \A m \in DOMAIN b : Item(b[m]) /\ b[m].what \in Leads /\ (b[m].what = "mime" <=> (m = 1 /\ text))
    BY <1>2, <1>4, <2>3 DEF Leads
  <2>6. \A m, n \in DOMAIN b : ~(m < n)
    BY <2>2
  <2>7. Lead(b, text)
    BY <1>1, <2>3, <2>4, <2>5, <2>6 DEF Lead
  <2> QED
    BY <1>4, <2>1, <2>7 DEF a, b
<1> QED
  BY <1>3, <1>4

\* start of a stream with these tracks, from this packet on
StartWith(h, kind, tracks, key) ==
  LET before == IF kind = "flv" THEN FlvHeader(tracks, TRUE)
                ELSE (IF h.fmp4Ws THEN << Plainly("mime") >> ELSE <<>>) \o << Plainly("init") >>
  IN  [WriteAll(h, before) EXCEPT !.reader = kind, !.read = key, !.stamps = IF kind = "flv" THEN SyncTo(@) ELSE @]

\* The stream starts after its head.
LEMMA Starts ==
  ASSUME NEW h, HttpKnows(h), h.first, NEW s, IsSequence(s), Watched(s \o h.out, h.overWs, Len(s \o h.out)),
         NEW kind, h.fmp4Ws => h.overWs /\ kind # "flv", NEW tracks, Two(tracks), NEW key,
         NEW q, q = StartWith(h, kind, tracks, key)
  PROVE  /\ HttpKnows(q) /\ q.open = h.open /\ q.reader = kind /\ q.look = h.look
         /\ q.fmp4Ws = h.fmp4Ws /\ q.content = h.content
         /\ Watched(s \o q.out, h.overWs, Len(s \o h.out)) /\ Watching(q, s \o q.out)
<1> DEFINE items == IF kind = "flv" THEN FlvHeader(tracks, TRUE)
                    ELSE (IF h.fmp4Ws THEN << Plainly("mime") >> ELSE <<>>) \o << Plainly("init") >>
           e == WriteAll(h, items)
<1>1. Lead(items, h.overWs /\ h.fmp4Ws)
  <2>1. CASE kind = "flv"
    <3>1. (h.overWs /\ h.fmp4Ws) = FALSE
      BY <2>1
    <3> QED
      BY <2>1, <3>1, FlvLeads
  <2>2. CASE kind # "flv"
    <3>1. h.fmp4Ws \in BOOLEAN /\ (h.overWs /\ h.fmp4Ws) = h.fmp4Ws
      BY DEF HttpKnows
    <3> QED
      BY <2>2, <3>1, Mp4Leads
  <2> QED
    BY <2>1, <2>2
<1>2. /\ q = [e EXCEPT !.reader = kind, !.read = key, !.stamps = IF kind = "flv" THEN SyncTo(@) ELSE @]
  BY DEF StartWith
<1> HIDE DEF items
<1>3. HttpKnows(e) /\ Same(h, e) /\ Watched(s \o e.out, h.overWs, Len(s \o h.out)) /\ Watching(e, s \o e.out)
  BY <1>1, LeadsAll
<1> HIDE DEF e
<1>4. /\ DOMAIN q = HttpMembers /\ q.out = e.out /\ q.reader = kind /\ q.open = e.open /\ q.look = e.look
      /\ q.overWs = e.overWs /\ q.fmp4Ws = e.fmp4Ws /\ q.content = e.content /\ q.first = e.first
  BY <1>2, <1>3 DEF HttpKnows, HttpMembers
<1>5. HttpKnows(q)
  BY <1>3, <1>4 DEF HttpKnows
<1>6. Watching(q, s \o q.out)
  BY <1>3, <1>4 DEF Watching
<1> QED
  BY <1>3, <1>4, <1>5, <1>6 DEF Same
-----------------------------------------------------------------------------
(* What every call of a session keeps, of all that it has sent.            *)
HttpGood(h, w) ==
  /\ HttpKnows(h) /\ IsSequence(w)
  /\ Waiting(h, w) \/ Watching(h, w)
  /\ h.open /\ h.reader = "none" => Waiting(h, w)
  /\ h.reader # "none" => Watching(h, w)
  /\ h.fmp4Ws => h.content
  /\ h.look # <<>> => /\ h.open /\ h.reader = "none"
                      /\ \E l : /\ h.look = <<l>> /\ l.ws \in BOOLEAN /\ l.kind # "none"
                                /\ h.fmp4Ws <=> l.ws /\ l.kind # "flv"

\* A change of something else.
LEMMA ElseGood ==
  ASSUME NEW h, NEW w, HttpGood(h, w), NEW q, HttpKnows(q), Same(h, q), q.first = h.first
  PROVE  HttpGood(q, w)
<1>1. /\ q.open = h.open /\ q.reader = h.reader /\ q.look = h.look
      /\ q.overWs = h.overWs /\ q.fmp4Ws = h.fmp4Ws /\ q.content = h.content
  BY DEF Same
<1>2. Waiting(h, w) => Waiting(q, w)
  BY <1>1 DEF Waiting
<1>3. Watching(h, w) => Watching(q, w)
  BY <1>1 DEF Watching
<1> QED
  BY <1>1, <1>2, <1>3 DEF HttpGood

\* SocketHelper::shutdown
LEMMA ShutGood ==
  ASSUME NEW h, NEW w, HttpGood(h, w)
  PROVE  HttpGood(HShutdown(h), w) /\ HShutdown(h).out = h.out /\ HShutdown(h).look = <<>>
<1> DEFINE q == HShutdown(h)
<1>1. /\ DOMAIN q = HttpMembers /\ q.out = h.out /\ q.open = FALSE /\ q.reader = "none" /\ q.look = <<>>
      /\ q.overWs = h.overWs /\ q.fmp4Ws = h.fmp4Ws /\ q.content = h.content /\ q.first = h.first
  BY DEF HShutdown, HttpGood, HttpKnows, HttpMembers
<1> HIDE DEF q
<1>2. HttpKnows(q)
  BY <1>1 DEF HttpGood, HttpKnows
<1>3. Waiting(h, w) => Waiting(q, w)
  BY <1>1 DEF Waiting
<1>4. Watching(h, w) => Watching(q, w)
  BY <1>1 DEF Watching
<1>5. HttpGood(q, w)
  BY <1>1, <1>2, <1>3, <1>4 DEF HttpGood
<1> QED
  BY <1>1, <1>5 DEF q

\* AsyncSender::onSocketFlushed
LEMMA FlushedGood ==
  ASSUME NEW h, NEW w, HttpGood(h, w), NEW i
  PROVE  /\ HttpGood(OnSocketFlushed(h, i), w) /\ OnSocketFlushed(h, i).out = h.out
         /\ OnSocketFlushed(h, i).look \in {h.look, <<>>}
<1> DEFINE a == [h EXCEPT !.tasks = Append(@, i)]
           b == [h EXCEPT !.flush = 0]
<1>1. /\ HttpKnows(a) /\ Same(h, a) /\ a.first = h.first /\ a.out = h.out /\ a.look = h.look
      /\ HttpKnows(b) /\ Same(h, b) /\ b.first = h.first /\ b.out = h.out /\ b.look = h.look
  BY DEF HttpGood, HttpKnows, HttpMembers, Same
<1>2. OnSocketFlushed(h, i) \in {a, b, HShutdown(h)}
  BY DEF OnSocketFlushed
<1> HIDE DEF a, b
<1>3. HttpGood(a, w) /\ HttpGood(b, w)
  BY <1>1, ElseGood
<1> QED
  BY <1>1, <1>2, <1>3, ShutGood

\* A body is part of an answer, or of one that is not over when a stream begins.
LEMMA BodyGood ==
  ASSUME NEW h, NEW s, IsSequence(s), HttpGood(h, s \o h.out)
  PROVE  LET q == Emit(h, Plainly("body"))
         IN  /\ HttpGood(q, s \o q.out) /\ q.look = h.look
             /\ \A j \in DOMAIN (s \o q.out) : j > Len(s \o h.out) => (s \o q.out)[j].what # "head"
<1> DEFINE y == Plainly("body")
           q == Emit(h, y)
           w == s \o h.out
           v == s \o q.out
<1>1. HttpKnows(q) /\ Same(h, q) /\ q.first = h.first /\ v = Append(w, y)
  BY Emits DEF HttpGood
<1>2. y.what = "body" /\ y.frame = "none"
  BY DEF Plainly
<1> HIDE DEF y, q, w, v
<1>3. HttpGood(h, w) /\ IsSequence(w)
  BY DEF HttpGood, w
<1>4. /\ IsSequence(v) /\ Len(w) \in Nat /\ DOMAIN w = 1 .. Len(w) /\ DOMAIN v = 1 .. Len(w) + 1 /\ v[Len(w) + 1] = y
      /\ \A j \in 1 .. Len(w) : v[j] = w[j]
  BY <1>1, <1>3, GrowsByOne
<1>5. Waiting(h, w) => Waiting(q, v)
  BY <1>1, <1>2, <1>3, UnwatchedMore DEF Waiting, Same, Plain
<1>6. ASSUME Watching(h, w) PROVE Watching(q, v)
  <2>1. PICK k : /\ Watched(w, h.overWs, k) /\ (h.overWs /\ h.fmp4Ws => ~h.first)
                 /\ \E j \in DOMAIN w : k < j /\ Describes(w[j])
    BY <1>6 DEF Watching
  <2>2. Streamed(y, h.overWs) /\ y.what # "media" /\ \A z : Ordered(z, y.what)
    BY <1>2 DEF Streamed, Ordered, Rank
  <2>3. Watched(v, h.overWs, k)
    BY <1>1, <1>3, <2>1, <2>2, WatchGoesOn
  <2>4. \E j \in DOMAIN v : k < j /\ Describes(v[j])
    BY <1>4, <2>1
  <2> QED
    BY <1>1, <2>1, <2>3, <2>4 DEF Watching, Same
<1>7. HttpGood(q, v)
  BY <1>1, <1>3, <1>4, <1>5, <1>6 DEF HttpGood, Same
<1>8. \A j \in DOMAIN v : j > Len(w) => v[j].what # "head"
  BY <1>2, <1>4
<1> QED
  BY <1>1, <1>7, <1>8 DEF Same, q, w, v, y

\* A head that begins no stream.
LEMMA HeadGood ==
  ASSUME NEW h, NEW s, IsSequence(s), HttpGood(h, s \o h.out), Waiting(h, s \o h.out), h.reader = "none",
         NEW code, code # "101", NEW length
  PROVE  LET q == Emit(h, HeadOf(code, length))
         IN  HttpGood(q, s \o q.out) /\ q.look = h.look /\ Len(s \o q.out) = Len(s \o h.out) + 1
<1> DEFINE y == HeadOf(code, length)
           q == Emit(h, y)
           w == s \o h.out
           v == s \o q.out
<1>1. HttpKnows(q) /\ Same(h, q) /\ q.first = h.first /\ v = Append(w, y)
  BY Emits DEF HttpGood
<1>2. Plain(y)
  BY DEF HeadOf, Plain
<1> HIDE DEF y, q, w, v
<1>3. HttpGood(h, w) /\ IsSequence(w) /\ Waiting(h, w)
  BY DEF HttpGood, w
<1>4. IsSequence(v) /\ Len(v) = Len(w) + 1
  BY <1>1, <1>3, GrowsByOne
<1>6. Waiting(q, v)
  BY <1>1, <1>2, <1>3, UnwatchedMore DEF Waiting, Same
<1>7. HttpGood(q, v)
  BY <1>1, <1>3, <1>4, <1>6 DEF HttpGood, Same
<1> QED
  BY <1>1, <1>4, <1>7 DEF Same, q, w, v, y

\* An answer of the session, if there is one, begins with its head, and has no other.
OneHead(w, v) == \A j \in DOMAIN v : j > Len(w) + 1 => v[j].what # "head"
Replies(h, q, s) ==
  /\ HttpGood(q, s \o q.out)
  /\ (q.look = <<>> /\ OneHead(s \o h.out, s \o q.out)) \/ s \o q.out = s \o h.out

\* sendResponse, but for the head of a stream
LEMMA RespondGood ==
  ASSUME NEW h, NEW s, IsSequence(s), HttpGood(h, s \o h.out), Waiting(h, s \o h.out), h.reader = "none", h.look = <<>>,
         NEW code, code # "101", NEW close, NEW length
  PROVE  Replies(h, SendResponse(h, code, close, length), s)
<1> DEFINE e == Emit(h, HeadOf(code, length))
           i == Len(h.senders) + 1
           d == [e EXCEPT !.senders = Append(@, [close |-> close, done |-> FALSE, parts |-> 0]), !.flush = i]
           r == SendHead(h, code, close, length)
           q == SendResponse(h, code, close, length)
           w == s \o h.out
<1>1. HttpGood(e, s \o e.out) /\ e.look = <<>> /\ Len(s \o e.out) = Len(w) + 1
  BY HeadGood
<1>2. HttpKnows(d) /\ Same(e, d) /\ d.first = e.first /\ d.out = e.out /\ d.look = <<>>
  <2> HIDE DEF e, i
  <2>1. DOMAIN e = HttpMembers
    BY <1>1 DEF HttpGood, HttpKnows
  <2>2. /\ DOMAIN d = HttpMembers /\ d.out = e.out /\ d.first = e.first /\ d.open = e.open /\ d.reader = e.reader
        /\ d.look = e.look /\ d.overWs = e.overWs /\ d.fmp4Ws = e.fmp4Ws /\ d.content = e.content
    BY <2>1 DEF HttpMembers
  <2> HIDE DEF d
  <2> QED
    BY <1>1, <2>2 DEF HttpGood, HttpKnows, Same
<1>3. r \in {e, OnSocketFlushed(d, i)}
  BY DEF SendHead
<1>4. q \in {r, HShutdown(r)}
  BY DEF SendResponse
<1> HIDE DEF e, i, d, r, q, w
<1>5. HttpGood(d, s \o e.out)
  BY <1>1, <1>2, ElseGood
<1>6. HttpGood(r, s \o e.out) /\ r.out = e.out /\ r.look = <<>>
  BY <1>1, <1>2, <1>3, <1>5, FlushedGood
<1>7. HttpGood(q, s \o e.out) /\ q.out = e.out /\ q.look = <<>>
  BY <1>4, <1>6, ShutGood
<1>8. OneHead(w, s \o e.out)
  <2>1. PICK S : s \o e.out \in Seq(S)
    BY <1>1 DEF HttpGood, IsSequence
  <2>2. DOMAIN (s \o e.out) = 1 .. Len(s \o e.out) /\ Len(s \o e.out) \in Nat
    BY <2>1, LenProperties
  <2>3. \A j \in DOMAIN (s \o e.out) : ~(j > Len(w) + 1)
    BY <1>1, <2>2
  <2> QED
    BY <2>3 DEF OneHead
<1> QED
  BY <1>7, <1>8 DEF Replies, q, w

\* checkLiveStreamFlv, checkLiveStreamFMP4
FoundOf(h, l, tracks, key) ==
  IF l.ws THEN StartWith(SendResponse([h EXCEPT !.overWs = TRUE], "101", FALSE, -1), l.kind, tracks, key)
  ELSE StartWith(SendResponse(h, "200", FALSE, -1), l.kind, tracks, key)

LEMMA FoundGood ==
  ASSUME NEW h, NEW s, IsSequence(s), HttpGood(h, s \o h.out), Waiting(h, s \o h.out), h.look = <<>>,
         NEW l, l.ws \in BOOLEAN, l.kind # "none", h.fmp4Ws <=> l.ws /\ l.kind # "flv",
         NEW tracks, Two(tracks), NEW key
  PROVE  Replies(h, FoundOf(h, l, tracks, key), s)
<1> DEFINE ws == l.ws
           g == IF l.ws THEN [h EXCEPT !.overWs = TRUE] ELSE h
           y == HeadOf(IF l.ws THEN "101" ELSE "200", -1)
           e == Emit(g, y)
           q == FoundOf(h, l, tracks, key)
           w == s \o h.out
<1>1. q = StartWith(e, l.kind, tracks, key)
  <2>1. -1 <= 0 /\ ~(-1 = 0)
    OBVIOUS
  <2> QED
    BY <2>1 DEF FoundOf, SendResponse, SendHead
<1>2. HttpKnows(g) /\ g.out = h.out /\ g.overWs = ws /\ g.fmp4Ws = h.fmp4Ws /\ g.content = h.content /\ g.first /\ g.look = <<>>
  BY DEF HttpGood, HttpKnows, HttpMembers, Waiting
<1>3. y.what = "head" /\ y.frame = "none" /\ y.code = IF ws THEN "101" ELSE "200"
  BY DEF HeadOf
<1>4. IsSequence(w) /\ Unwatched(w)
  BY DEF HttpGood, Waiting
<1> HIDE DEF g, y, q, w
<1>5. /\ HttpKnows(e) /\ Same(g, e) /\ e.first = g.first /\ s \o e.out = Append(w, y)
  BY <1>2, Emits DEF w
<1>6. Len(s \o e.out) = Len(w) + 1
  BY <1>4, <1>5, GrowsByOne
<1>7. Watched(s \o e.out, e.overWs, Len(s \o e.out))
  <2>1. e.overWs = ws
    BY <1>2, <1>5 DEF Same
  <2>2. Watched(Append(w, y), ws, Len(w) + 1)
    BY <1>3, <1>4, WatchBegins
  <2> HIDE DEF ws
  <2> QED
    BY <1>5, <1>6, <2>1, <2>2
<1>8. e.first /\ e.look = <<>> /\ (e.fmp4Ws => e.overWs /\ l.kind # "flv")
  BY <1>2, <1>5 DEF Same
<1> HIDE DEF e
<1>9. /\ HttpKnows(q) /\ q.reader = l.kind /\ q.look = <<>> /\ q.fmp4Ws = e.fmp4Ws /\ q.content = e.content
      /\ Watched(s \o q.out, e.overWs, Len(w) + 1) /\ Watching(q, s \o q.out)
  <2>1. PICK p : p = StartWith(e, l.kind, tracks, key)
    OBVIOUS
  <2>2. /\ HttpKnows(p) /\ p.open = e.open /\ p.reader = l.kind /\ p.look = e.look /\ p.fmp4Ws = e.fmp4Ws
        /\ p.content = e.content
        /\ Watched(s \o p.out, e.overWs, Len(s \o e.out)) /\ Watching(p, s \o p.out)
    <3>1. HttpKnows(e)
      BY <1>5
    <3> HIDE DEF ws
    <3> QED
      BY <1>7, <1>8, <2>1, <3>1, Starts
  <2> QED
    BY <1>1, <1>6, <1>8, <2>1, <2>2
<1>10. IsSequence(s \o q.out)
  BY <1>9, JoinedSequences DEF HttpKnows
<1>11. HttpGood(q, s \o q.out)
  <2>1. q.fmp4Ws => q.content
    BY <1>2, <1>5, <1>9 DEF HttpGood, Same
  <2> QED
    BY <1>9, <1>10, <2>1 DEF HttpGood
<1>12. OneHead(w, s \o q.out)
  <2>1. \A j \in DOMAIN (s \o q.out) : j > Len(w) + 1 => Streamed((s \o q.out)[j], e.overWs)
    BY <1>9 DEF Watched
  <2> QED
    BY <2>1 DEF OneHead, Streamed, Leads
<1> QED
  BY <1>9, <1>11, <1>12 DEF Replies, q, w

\* A request is answered, or waits for its stream (onRecvHeader, Handle_Req_GET).
Upgrades(h, r) == [h EXCEPT !.content = @ \/ r.ws, !.fmp4Ws = @ \/ (r.ws /\ r.url # "flv")]
Look(r) == [kind |-> r.url, ws |-> r.ws, close |-> r.close]
Received(h, r, tracks, key, q) ==
  \/ q = SendResponse(h, "405", TRUE, 0)
  \/ r.url # "other" /\ q \in {FoundOf(Upgrades(h, r), Look(r), tracks, key), [Upgrades(h, r) EXCEPT !.look = <<Look(r)>>]}
  \/ q \in {SendResponse(Upgrades(h, r), "501", TRUE, 0), SendResponse(Upgrades(h, r), "hook", TRUE, r.length)}

LEMMA RequestGood ==
  ASSUME NEW h, NEW s, IsSequence(s), HttpGood(h, s \o h.out), h.open, h.reader = "none", h.look = <<>>, ~h.content,
         NEW r \in Requests, NEW tracks, Two(tracks), NEW key, NEW q, Received(h, r, tracks, key, q)
  PROVE  Replies(h, q, s)
<1> DEFINE v == Upgrades(h, r)
           l == Look(r)
           z == [v EXCEPT !.look = <<l>>]
           w == s \o h.out
<1>1. Waiting(h, w) /\ h.content = FALSE /\ h.fmp4Ws = FALSE
  BY DEF HttpGood, HttpKnows
<1>2. r.ws \in BOOLEAN /\ r.url \in {"flv", "mp4", "other"}
  BY DEF Requests
<1>3. /\ HttpKnows(v) /\ v.out = h.out /\ v.open /\ v.reader = "none" /\ v.look = <<>> /\ v.overWs = h.overWs
      /\ v.first = h.first /\ v.content = r.ws /\ v.fmp4Ws = (r.ws /\ r.url # "flv")
  BY <1>1, <1>2 DEF HttpGood, HttpKnows, HttpMembers, Upgrades
<1>4. l.kind = r.url /\ l.ws = r.ws
  BY DEF Look
<1>5. /\ HttpKnows(z) /\ z.out = h.out /\ z.open /\ z.reader = "none" /\ z.look = <<l>> /\ z.overWs = h.overWs
      /\ z.first = h.first /\ z.content = v.content /\ z.fmp4Ws = v.fmp4Ws
  <2> HIDE DEF v, l
  <2> QED
    BY <1>3 DEF HttpKnows, HttpMembers
<1>6. \/ q = SendResponse(h, "405", TRUE, 0)
      \/ r.url # "other" /\ q \in {FoundOf(v, l, tracks, key), z}
      \/ q \in {SendResponse(v, "501", TRUE, 0), SendResponse(v, "hook", TRUE, r.length)}
  BY DEF Received
<1> HIDE DEF v, l, z, w
<1>8. Waiting(v, w) /\ HttpGood(v, w)
  BY <1>1, <1>3 DEF HttpGood, Waiting, w
<1>9. ASSUME NEW p, Replies(v, p, s) PROVE Replies(h, p, s)
  BY <1>3, <1>9 DEF Replies
<1>10. \A c, a, n : c # "101" => Replies(h, SendResponse(v, c, a, n), s) /\ Replies(h, SendResponse(h, c, a, n), s)
  BY <1>1, <1>3, <1>8, <1>9, RespondGood DEF w
<1>11. r.url # "other" => Replies(h, FoundOf(v, l, tracks, key), s)
  <2> SUFFICES ASSUME r.url # "other" PROVE Replies(v, FoundOf(v, l, tracks, key), s)
    BY <1>9
  <2>1. s \o v.out = w
    BY <1>3 DEF w
  <2>2. l.ws \in BOOLEAN /\ l.kind # "none" /\ (v.fmp4Ws <=> l.ws /\ l.kind # "flv")
    BY <1>2, <1>3, <1>4
  <2>3. HttpGood(v, s \o v.out) /\ Waiting(v, s \o v.out) /\ v.look = <<>>
    BY <1>3, <1>8, <2>1
  <2> QED
    BY <2>2, <2>3, FoundGood
<1>12. r.url # "other" => Replies(h, z, s)
  <2>1. Waiting(z, w)
    BY <1>1, <1>5 DEF Waiting
  <2>2. HttpGood(z, w)
    BY <1>2, <1>3, <1>4, <1>5, <1>8, <2>1 DEF HttpGood
  <2> QED
    BY <1>5, <2>2 DEF Replies, w
<1> QED
  BY <1>6, <1>10, <1>11, <1>12

\* onRequestData: a body, whatever becomes of its sender.
LEMMA DataGood ==
  ASSUME NEW h, NEW s, IsSequence(s), HttpGood(h, s \o h.out), NEW i, NEW busy
  PROVE  LET q == OnRequestData(h, i, busy)
         IN  /\ HttpGood(q, s \o q.out) /\ q.look \in {h.look, <<>>}
             /\ \A j \in DOMAIN (s \o q.out) : j > Len(s \o h.out) => (s \o q.out)[j].what # "head"
<1> DEFINE e == Emit(h, Plainly("body"))
           d == [e EXCEPT !.senders[i].parts = @ + 1, !.busy = busy]
           q == OnRequestData(h, i, busy)
           v == s \o e.out
<1>1. /\ HttpGood(e, v) /\ e.look = h.look
      /\ \A j \in DOMAIN v : j > Len(s \o h.out) => v[j].what # "head"
  BY BodyGood
<1>2. q \in {d, OnSocketFlushed(d, i)}
  BY DEF OnRequestData, HasMore
<1> HIDE DEF e, q, v
<1>3. HttpKnows(d) /\ Same(e, d) /\ d.first = e.first /\ d.out = e.out /\ d.look = e.look
  <2>1. DOMAIN e = HttpMembers
    BY <1>1 DEF HttpGood, HttpKnows
  <2>2. /\ DOMAIN d = HttpMembers /\ d.out = e.out /\ d.first = e.first /\ d.open = e.open /\ d.reader = e.reader
        /\ d.look = e.look /\ d.overWs = e.overWs /\ d.fmp4Ws = e.fmp4Ws /\ d.content = e.content
    BY <2>1 DEF HttpMembers
  <2> HIDE DEF d
  <2> QED
    BY <1>1, <2>2 DEF HttpGood, HttpKnows, Same
<1> HIDE DEF d
<1>4. HttpGood(d, v)
  BY <1>1, <1>3, ElseGood
<1>5. HttpGood(q, v) /\ q.out = e.out /\ q.look \in {h.look, <<>>}
  BY <1>1, <1>2, <1>3, <1>4, FlushedGood
<1> QED
  BY <1>1, <1>5 DEF q, v

\* The reader writes a packet (onWriteRtmp, setReadCB).
LEMMA MediaGood ==
  ASSUME NEW h, NEW s, IsSequence(s), HttpGood(h, s \o h.out), h.reader # "none",
         NEW x, Item(x), x.what = "media"
  PROVE  LET q == Write(h, x)
         IN  /\ HttpGood(q, s \o q.out) /\ q.look = h.look
             /\ \A j \in DOMAIN (s \o q.out) : j > Len(s \o h.out) => (s \o q.out)[j].what # "head"
<1> DEFINE q == Write(h, x)
           w == s \o h.out
           v == s \o q.out
<1>1. HttpKnows(h) /\ IsSequence(w) /\ Watching(h, w)
  BY DEF HttpGood
<1>2. PICK y : /\ HttpKnows(q) /\ Same(h, q) /\ q.first = (h.first /\ ~(h.overWs /\ h.fmp4Ws))
               /\ y.what = "media" /\ y.frame = Framed(h) /\ v = Append(w, y)
  BY <1>1, Writes
<1> HIDE DEF q, w, v
<1>3. PICK k : /\ Watched(w, h.overWs, k) /\ (h.overWs /\ h.fmp4Ws => ~h.first)
               /\ \E j \in DOMAIN w : k < j /\ Describes(w[j])
  BY <1>1 DEF Watching
<1>4. Streamed(y, h.overWs)
  <2>1. h.overWs \in BOOLEAN /\ y.frame = IF h.overWs THEN "binary" ELSE "none"
    BY <1>1, <1>2, <1>3 DEF Framed, HttpKnows
  <2> QED
    BY <1>2, <2>1 DEF Streamed
<1>5. \A z : Ordered(z, "media")
  BY DEF Ordered, Rank
<1>6. Watched(v, h.overWs, k)
  BY <1>1, <1>2, <1>3, <1>4, <1>5, WatchGoesOn
<1>7. /\ IsSequence(v) /\ Len(w) \in Nat /\ DOMAIN w = 1 .. Len(w) /\ DOMAIN v = 1 .. Len(w) + 1 /\ v[Len(w) + 1] = y
      /\ \A j \in 1 .. Len(w) : v[j] = w[j]
  BY <1>1, <1>2, GrowsByOne
<1>8. Watching(q, v)
  <2>1. \E j \in DOMAIN v : k < j /\ Describes(v[j])
    BY <1>3, <1>7
  <2>2. q.overWs = h.overWs /\ (q.overWs /\ q.fmp4Ws => ~q.first)
    BY <1>2 DEF Same
  <2> QED
    BY <1>6, <2>1, <2>2 DEF Watching
<1>9. HttpGood(q, v)
  BY <1>2, <1>7, <1>8 DEF HttpGood, Same
<1>10. \A j \in DOMAIN v : j > Len(w) => v[j].what # "head"
  BY <1>2, <1>7
<1> QED
  BY <1>2, <1>9, <1>10 DEF Same, q, v, w

\* The close frame is echoed (onWebSocketDecodeComplete).
LEMMA EchoGood ==
  ASSUME NEW h, NEW s, IsSequence(s), HttpGood(h, s \o h.out), h.open, h.overWs
  PROVE  LET q == Emit(h, [what |-> "close", frame |-> "close"])
         IN  /\ HttpGood(q, s \o q.out)
             /\ \A j \in DOMAIN (s \o q.out) : j > Len(s \o h.out) => (s \o q.out)[j].what # "head"
<1> DEFINE y == [what |-> "close", frame |-> "close"]
           q == Emit(h, y)
           w == s \o h.out
           v == s \o q.out
<1>1. HttpKnows(h) /\ IsSequence(w) /\ Watching(h, w) /\ h.reader # "none" /\ h.overWs = TRUE
  BY DEF HttpGood, Waiting, HttpKnows
<1>2. HttpKnows(q) /\ Same(h, q) /\ q.first = h.first /\ v = Append(w, y)
  BY <1>1, Emits
<1>3. Streamed(y, h.overWs) /\ y.what = "close" /\ \A z : Ordered(z, y.what)
  BY <1>1 DEF Streamed, Ordered, Rank
<1> HIDE DEF y, q, w, v
<1>4. PICK k : /\ Watched(w, h.overWs, k) /\ (h.overWs /\ h.fmp4Ws => ~h.first)
               /\ \E j \in DOMAIN w : k < j /\ Describes(w[j])
  BY <1>1 DEF Watching
<1>5. Watched(v, h.overWs, k)
  BY <1>1, <1>2, <1>3, <1>4, WatchGoesOn
<1>6. /\ IsSequence(v) /\ Len(w) \in Nat /\ DOMAIN w = 1 .. Len(w) /\ DOMAIN v = 1 .. Len(w) + 1 /\ v[Len(w) + 1] = y
      /\ \A j \in 1 .. Len(w) : v[j] = w[j]
  BY <1>1, <1>2, GrowsByOne
<1>7. Watching(q, v)
  <2>1. \E j \in DOMAIN v : k < j /\ Describes(v[j])
    BY <1>4, <1>6
  <2> QED
    BY <1>2, <1>4, <1>5, <2>1 DEF Watching, Same
<1>8. HttpGood(q, v)
  BY <1>1, <1>2, <1>6, <1>7 DEF HttpGood, Same
<1>9. \A j \in DOMAIN v : j > Len(w) => v[j].what # "head"
  BY <1>3, <1>6
<1> QED
  BY <1>8, <1>9 DEF q, v, w, y
-----------------------------------------------------------------------------
\* Heads are counted.
HeadsOf(w) == {i \in DOMAIN w : w[i].what = "head"}

LEMMA HeadsAdd ==
  ASSUME NEW s, NEW o, IsSequence(s), IsSequence(o)
  PROVE  /\ Cardinality(HeadsOf(s)) \in Nat /\ Cardinality(HeadsOf(s \o o)) \in Nat
         /\ OneHead(s, s \o o) => Cardinality(HeadsOf(s \o o)) <= Cardinality(HeadsOf(s)) + 1
         /\ (\A j \in DOMAIN (s \o o) : j > Len(s) => (s \o o)[j].what # "head") =>
              Cardinality(HeadsOf(s \o o)) = Cardinality(HeadsOf(s))
<1> DEFINE w == s \o o
           n == Len(s)
<1>1. /\ IsSequence(w) /\ n \in Nat /\ Len(o) \in Nat /\ Len(w) = n + Len(o)
      /\ \A i \in 1 .. n + Len(o) : w[i] = IF i <= n THEN s[i] ELSE o[i - n]
  BY JoinedSequences
<1>2. DOMAIN w = 1 .. n + Len(o) /\ DOMAIN s = 1 .. n
  <2>1. PICK S, U : s \in Seq(S) /\ w \in Seq(U)
    BY <1>1 DEF IsSequence
  <2> HIDE DEF w
  <2> QED
    BY <1>1, <2>1, LenProperties
<1> HIDE DEF w, n
<1>3. IsFiniteSet(HeadsOf(s)) /\ Cardinality(HeadsOf(s)) \in Nat /\ IsFiniteSet(HeadsOf(w)) /\ Cardinality(HeadsOf(w)) \in Nat
  <2>1. IsFiniteSet(1 .. n) /\ IsFiniteSet(1 .. n + Len(o))
    BY <1>1, FS_Interval
  <2>2. HeadsOf(s) \subseteq 1 .. n /\ HeadsOf(w) \subseteq 1 .. n + Len(o)
    BY <1>2 DEF HeadsOf
  <2> QED
    BY <2>1, <2>2, FS_Subset, FS_CardinalityType
<1>4. \A i \in 1 .. n : i \in HeadsOf(w) <=> i \in HeadsOf(s)
  BY <1>1, <1>2 DEF HeadsOf
<1>5. ASSUME OneHead(s, w) PROVE Cardinality(HeadsOf(w)) <= Cardinality(HeadsOf(s)) + 1
  <2>1. HeadsOf(w) \subseteq HeadsOf(s) \cup {n + 1}
    <3> SUFFICES ASSUME NEW i \in HeadsOf(w), i # n + 1 PROVE i \in HeadsOf(s)
      OBVIOUS
    <3>1. i \in DOMAIN w /\ w[i].what = "head"
      BY DEF HeadsOf
    <3>2. ~(i > n + 1)
      BY <1>5, <3>1 DEF OneHead, n
    <3>3. i \in 1 .. n
      BY <1>1, <1>2, <3>1, <3>2
    <3> QED
      BY <1>4, <3>3
  <2>2. /\ IsFiniteSet(HeadsOf(s) \cup {n + 1})
        /\ Cardinality(HeadsOf(s) \cup {n + 1}) \in {Cardinality(HeadsOf(s)), Cardinality(HeadsOf(s)) + 1}
    BY <1>3, FS_AddElement
  <2>3. Cardinality(HeadsOf(w)) <= Cardinality(HeadsOf(s) \cup {n + 1})
    BY <2>1, <2>2, FS_Subset
  <2> QED
    BY <1>3, <2>2, <2>3
<1>6. ASSUME \A j \in DOMAIN w : j > Len(s) => w[j].what # "head" PROVE HeadsOf(w) = HeadsOf(s)
  <2>1. ASSUME NEW i \in HeadsOf(w) PROVE i \in HeadsOf(s)
    <3>1. i \in DOMAIN w /\ w[i].what = "head"
      BY <2>1 DEF HeadsOf
    <3>2. i \in 1 .. n
      BY <1>1, <1>2, <1>6, <3>1 DEF n
    <3> QED
      BY <1>4, <2>1, <3>2
  <2>2. ASSUME NEW i \in HeadsOf(s) PROVE i \in HeadsOf(w)
    <3>1. i \in 1 .. n
      BY <1>2, <2>2 DEF HeadsOf
    <3> QED
      BY <1>4, <2>2, <3>1
  <2> QED
    BY <2>1, <2>2
<1> QED
  BY <1>3, <1>5, <1>6 DEF w
-----------------------------------------------------------------------------
(* The session.                                                            *)
HttpInv ==
  /\ case \in Https /\ http.out = <<>> /\ HttpGood(http, sent)
  /\ asked \in Nat /\ Cardinality(HeadsOf(sent)) <= asked
  /\ http.look # <<>> => Cardinality(HeadsOf(sent)) < asked

\* What is said between two events is nothing.
LEMMA HttpStands ==
  ASSUME HttpInv
  PROVE  /\ IsSequence(sent) /\ sent \o http.out = sent /\ HttpGood(http, sent \o http.out)
         /\ case.tracks \in SUBSET BOOLEAN /\ case.requests \in Seq(Requests)
<1>1. IsSequence(sent) /\ http.out = <<>>
  BY DEF HttpInv, HttpGood
<1>2. sent \o http.out = sent
  BY <1>1, NoneMore
<1>3. case \in Https
  BY DEF HttpInv
<1> QED
  BY <1>1, <1>2, <1>3, HttpsAssumption DEF HttpInv

\* The session has said what it had to.
LEMMA HttpSays ==
  ASSUME HttpInv, NEW q, HttpDoes(q), HttpGood(q, sent \o q.out), asked' \in {asked, asked + 1},
         LET n == Cardinality(HeadsOf(sent \o q.out)) IN n <= asked' /\ (q.look # <<>> => n < asked')
  PROVE  HttpInv'
<1>1. http' = [q EXCEPT !.out = <<>>] /\ sent' = sent \o q.out /\ case' = case
  BY DEF HttpDoes
<1>2. DOMAIN q = HttpMembers
  BY DEF HttpGood, HttpKnows
<1> DEFINE p == [q EXCEPT !.out = <<>>]
<1>3. p.out = <<>> /\ Same(q, p) /\ p.first = q.first /\ p.look = q.look /\ DOMAIN p = HttpMembers
  BY <1>2 DEF HttpMembers, Same
<1> HIDE DEF p
<1>4. HttpKnows(p)
  <2>1. IsSequence(<<>>)
    BY NoneMore, HttpStands
  <2> QED
    BY <1>3, <2>1 DEF HttpGood, HttpKnows, Same
<1>5. HttpGood(p, sent \o q.out)
  BY <1>3, <1>4, ElseGood
<1>6. http' = p
  BY <1>1 DEF p
<1>7. asked' \in Nat
  BY DEF HttpInv
<1> QED
  BY <1>1, <1>3, <1>5, <1>6, <1>7 DEF HttpInv

\* It has said nothing that begins an answer.
LEMMA HttpGoesOn ==
  ASSUME HttpInv, NEW q, HttpDoes(q), HttpGood(q, sent \o q.out), asked' = asked, q.look \in {http.look, <<>>},
         \A j \in DOMAIN (sent \o q.out) : j > Len(sent) => (sent \o q.out)[j].what # "head"
  PROVE  HttpInv'
<1>1. Cardinality(HeadsOf(sent \o q.out)) = Cardinality(HeadsOf(sent))
  BY HttpStands, HeadsAdd DEF HttpGood, HttpKnows
<1> QED
  BY <1>1, HttpSays DEF HttpInv

\* It has said nothing at all.
LEMMA HttpIsSilent ==
  ASSUME HttpInv, NEW q, HttpDoes(q), HttpGood(q, sent), q.out = <<>>, asked' = asked, q.look \in {http.look, <<>>}
  PROVE  HttpInv'
<1>1. sent \o q.out = sent
  BY HttpStands, NoneMore
<1>2. \A j \in DOMAIN sent : ~(j > Len(sent))
  <2>1. PICK S : sent \in Seq(S)
    BY HttpStands DEF IsSequence
  <2> QED
    BY <2>1, LenProperties
<1> QED
  BY <1>1, <1>2, HttpGoesOn

LEMMA HttpInvInit == HInit => HttpInv
<1> SUFFICES ASSUME HInit PROVE HttpInv
  OBVIOUS
<1>1. /\ case \in Https /\ sent = <<>> /\ asked = 0 /\ http = [NewHttp EXCEPT !.open = case.requests # <<>>]
  BY DEF HInit
<1>2. IsSequence(<<>>) /\ DOMAIN <<>> = {}
  <2>1. <<>> \in Seq({})
    BY EmptySeq
  <2> QED
    BY <2>1 DEF IsSequence
<1>3. /\ HttpKnows(http) /\ http.out = <<>> /\ http.look = <<>> /\ http.reader = "none"
      /\ http.overWs = FALSE /\ http.first = TRUE /\ http.fmp4Ws = FALSE
  <2>1. /\ DOMAIN http = HttpMembers /\ http.out = <<>> /\ http.look = <<>> /\ http.reader = "none"
        /\ http.overWs = FALSE /\ http.first = TRUE /\ http.fmp4Ws = FALSE /\ http.content = FALSE
        /\ http.open = (case.requests # <<>>)
    BY <1>1 DEF NewHttp, HttpMembers
  <2>2. http.open \in BOOLEAN
    BY <2>1
  <2> QED
    BY <1>2, <2>1, <2>2 DEF HttpKnows
<1>4. Unwatched(<<>>) /\ HeadsOf(<<>>) = {}
  BY <1>2 DEF Unwatched, HeadsOf
<1>5. Waiting(http, sent)
  BY <1>1, <1>3, <1>4 DEF Waiting
<1>6. HttpGood(http, sent)
  BY <1>1, <1>2, <1>3, <1>5 DEF HttpGood
<1>7. Cardinality(HeadsOf(sent)) = 0
  BY <1>1, <1>4, FS_EmptySet
<1>8. asked \in Nat /\ 0 <= asked
  BY <1>1
<1> QED
  BY <1>1, <1>3, <1>6, <1>7, <1>8 DEF HttpInv

LEMMA AsksKept == HttpInv /\ Asks => HttpInv'
<1> SUFFICES ASSUME HttpInv, Asks PROVE HttpInv'
  OBVIOUS
<1> DEFINE h == [http EXCEPT !.silent = FALSE]
           r == case.requests[asked + 1]
           q == OnRecvHeader(h, r)
<1>1. /\ http.open /\ asked < Len(case.requests) /\ Answered /\ ~http.content /\ asked' = asked + 1 /\ HttpDoes(q)
  BY DEF Asks
<1>2. r \in Requests
  <2>1. asked + 1 \in 1 .. Len(case.requests)
    BY <1>1, HttpStands, LenProperties DEF HttpInv
  <2> QED
    BY <2>1, HttpStands, ElementOfSeq
<1>3. HttpKnows(h) /\ Same(http, h) /\ h.first = http.first /\ h.out = http.out
  BY DEF HttpInv, HttpGood, HttpKnows, HttpMembers, Same
<1>4. Received(h, r, case.tracks, case.key, q)
  <2>1. q = SendResponse(h, "405", TRUE, 0) \/ q = HandleReqGET(h, r)
    BY DEF OnRecvHeader
  <2>2. r.url \in {"flv", "mp4", "other"} /\ r.ws \in BOOLEAN
    BY <1>2 DEF Requests
  <2> HIDE DEF h, r
  <2>3. \/ r.url # "other" /\ HandleReqGET(h, r) \in {Found(Upgrades(h, r), Look(r)), [Upgrades(h, r) EXCEPT !.look = <<Look(r)>>]}
        \/ HandleReqGET(h, r) \in {SendResponse(Upgrades(h, r), "501", TRUE, 0), SendResponse(Upgrades(h, r), "hook", TRUE, r.length)}
    BY <2>2 DEF HandleReqGET, CheckLiveStream, Upgrades, Look
  <2>4. Found(Upgrades(h, r), Look(r)) = FoundOf(Upgrades(h, r), Look(r), case.tracks, case.key)
    BY DEF Found, FoundOf, Start, StartWith
  <2> HIDE DEF q
  <2> QED
    BY <2>1, <2>3, <2>4 DEF Received
<1> HIDE DEF h, r, q
<1>5. HttpGood(h, sent \o h.out) /\ sent \o h.out = sent
  BY <1>3, HttpStands, ElseGood
<1>6. Cardinality(HeadsOf(sent)) = asked /\ http.reader = "none"
  BY <1>1 DEF Answered, Heads, HeadsOf
<1>7. http.look = <<>>
  BY <1>6 DEF HttpInv
<1>8. h.open /\ h.reader = "none" /\ h.look = <<>> /\ ~h.content
  BY <1>1, <1>3, <1>6, <1>7 DEF Same
<1>9. Replies(h, q, sent)
  <2>1. Two(case.tracks)
    BY HttpStands DEF Two
  <2>2. PICK t, c : t = case.tracks /\ c = case.key
    OBVIOUS
  <2> QED
    BY <1>2, <1>4, <1>5, <1>8, <2>1, <2>2, HttpStands, RequestGood
<1>10. HttpGood(q, sent \o q.out) /\ IsSequence(q.out)
  BY <1>9 DEF Replies, HttpGood, HttpKnows
<1>11. CASE q.look = <<>> /\ OneHead(sent, sent \o q.out)
  <2>1. Cardinality(HeadsOf(sent \o q.out)) <= asked + 1
    BY <1>6, <1>10, <1>11, HttpStands, HeadsAdd
  <2> QED
    BY <1>1, <1>10, <1>11, <2>1, HttpSays
<1>12. CASE sent \o q.out = sent
  <2>1. Cardinality(HeadsOf(sent \o q.out)) = asked /\ asked < asked + 1
    BY <1>6, <1>12 DEF HttpInv
  <2> QED
    BY <1>1, <1>10, <2>1, HttpSays DEF HttpInv
<1> QED
  BY <1>5, <1>9, <1>11, <1>12 DEF Replies

LEMMA LookEndsKept == HttpInv /\ LookEnds => HttpInv'
<1> SUFFICES ASSUME HttpInv, LookEnds PROVE HttpInv'
  OBVIOUS
<1> DEFINE h == [http EXCEPT !.look = <<>>]
<1>1. PICK l : /\ http.look = <<l>> /\ l.ws \in BOOLEAN /\ l.kind # "none" /\ (http.fmp4Ws <=> l.ws /\ l.kind # "flv")
               /\ http.open /\ http.reader = "none"
  BY DEF LookEnds, HttpInv, HttpGood
<1>2. Head(http.look) = l
  BY <1>1
<1>3. asked' = asked /\ (HttpDoes(Found(h, l)) \/ HttpDoes(NotFound(h, l)))
  BY <1>2 DEF LookEnds
<1>4. /\ HttpKnows(h) /\ h.look = <<>> /\ h.out = http.out /\ h.open = http.open /\ h.reader = http.reader
      /\ h.overWs = http.overWs /\ h.fmp4Ws = http.fmp4Ws /\ h.content = http.content /\ h.first = http.first
  BY DEF HttpInv, HttpGood, HttpKnows, HttpMembers
<1>5. Found(h, l) = FoundOf(h, l, case.tracks, case.key) /\ NotFound(h, l) = SendResponse(h, "404", l.close, 1)
  BY DEF Found, FoundOf, Start, StartWith, NotFound
<1> HIDE DEF h
<1>6. Waiting(http, sent)
  BY <1>1 DEF HttpInv, HttpGood
<1>7. Waiting(h, sent) /\ HttpGood(h, sent) /\ sent \o h.out = sent
  <2>1. Waiting(h, sent)
    BY <1>4, <1>6 DEF Waiting
  <2>2. sent \o h.out = sent
    BY <1>4, HttpStands
  <2> QED
    BY <1>1, <1>4, <2>1, <2>2 DEF HttpGood, HttpInv
<1>8. ASSUME NEW q, HttpDoes(q), Replies(h, q, sent) PROVE HttpInv'
  <2>1. Cardinality(HeadsOf(sent)) < asked /\ asked \in Nat
    BY <1>1 DEF HttpInv
  <2>2. HttpGood(q, sent \o q.out) /\ IsSequence(q.out)
    BY <1>8 DEF Replies, HttpGood, HttpKnows
  <2>3. CASE q.look = <<>> /\ OneHead(sent, sent \o q.out)
    <3>1. Cardinality(HeadsOf(sent \o q.out)) <= asked
      <4>1. /\ Cardinality(HeadsOf(sent \o q.out)) <= Cardinality(HeadsOf(sent)) + 1
            /\ Cardinality(HeadsOf(sent)) \in Nat /\ Cardinality(HeadsOf(sent \o q.out)) \in Nat
        BY <2>2, <2>3, HttpStands, HeadsAdd
      <4> QED
        BY <2>1, <4>1
    <3> QED
      BY <1>3, <1>8, <2>2, <2>3, <3>1, HttpSays
  <2>4. CASE sent \o q.out = sent
    <3>1. Cardinality(HeadsOf(sent \o q.out)) < asked /\ Cardinality(HeadsOf(sent \o q.out)) <= asked
      BY <2>1, <2>4 DEF HttpInv
    <3> QED
      BY <1>3, <1>8, <2>2, <3>1, HttpSays
  <2> QED
    BY <1>7, <1>8, <2>3, <2>4 DEF Replies
<1>9. Replies(h, SendResponse(h, "404", l.close, 1), sent)
  BY <1>1, <1>4, <1>7, HttpStands, RespondGood
<1>10. Replies(h, FoundOf(h, l, case.tracks, case.key), sent)
  <2>1. Two(case.tracks)
    BY HttpStands DEF Two
  <2>2. h.fmp4Ws <=> l.ws /\ l.kind # "flv"
    BY <1>1, <1>4
  <2>3. HttpGood(h, sent \o h.out) /\ Waiting(h, sent \o h.out) /\ h.look = <<>> /\ IsSequence(sent)
    BY <1>4, <1>7, HttpStands
  <2>4. l.ws \in BOOLEAN /\ l.kind # "none"
    BY <1>1
  <2>5. PICK t, c, s : t = case.tracks /\ c = case.key /\ s = sent
    OBVIOUS
  <2>6. HttpGood(h, s \o h.out) /\ Waiting(h, s \o h.out) /\ IsSequence(s) /\ Two(t)
    BY <2>1, <2>3, <2>5
  <2>7. Replies(h, FoundOf(h, l, t, c), s)
    BY <2>2, <2>3, <2>4, <2>6, FoundGood
  <2> QED
    BY <2>5, <2>7
<1> QED
  BY <1>3, <1>5, <1>8, <1>9, <1>10

LEMMA SenderTaskKept == HttpInv /\ SenderTask => HttpInv'
<1> SUFFICES ASSUME HttpInv, SenderTask PROVE HttpInv'
  OBVIOUS
<1> DEFINE h == [http EXCEPT !.tasks = Tail(@)]
<1>1. PICK busy : HttpDoes(OnRequestData(h, Head(http.tasks), busy))
  BY DEF SenderTask
<1>2. PICK i : i = Head(http.tasks)
  OBVIOUS
<1>3. asked' = asked
  BY DEF SenderTask
<1>4. HttpKnows(h) /\ Same(http, h) /\ h.first = http.first /\ h.out = http.out
  BY DEF HttpInv, HttpGood, HttpKnows, HttpMembers, Same
<1> HIDE DEF h
<1>5. HttpGood(h, sent \o h.out) /\ sent \o h.out = sent /\ IsSequence(sent) /\ h.look = http.look
  BY <1>4, HttpStands, ElseGood DEF Same
<1> DEFINE q == OnRequestData(h, i, busy)
<1>6. /\ HttpGood(q, sent \o q.out) /\ q.look \in {h.look, <<>>}
      /\ \A j \in DOMAIN (sent \o q.out) : j > Len(sent \o h.out) => (sent \o q.out)[j].what # "head"
  BY <1>5, DataGood
<1>7. HttpDoes(q)
  BY <1>1, <1>2
<1> HIDE DEF q
<1> QED
  BY <1>3, <1>5, <1>6, <1>7, HttpGoesOn

LEMMA FlushedKept == HttpInv /\ Flushed => HttpInv'
<1> SUFFICES ASSUME HttpInv, Flushed PROVE HttpInv'
  OBVIOUS
<1> DEFINE h == [http EXCEPT !.busy = FALSE]
<1>1. HttpDoes(IF h.flush = 0 THEN h ELSE OnSocketFlushed(h, h.flush)) /\ asked' = asked
  BY DEF Flushed
<1>2. HttpKnows(h) /\ Same(http, h) /\ h.first = http.first /\ h.out = http.out
  BY DEF HttpInv, HttpGood, HttpKnows, HttpMembers, Same
<1> HIDE DEF h
<1>3. HttpGood(h, sent) /\ h.out = <<>> /\ h.look = http.look
  BY <1>2, HttpStands, ElseGood DEF Same, HttpInv
<1>4. CASE h.flush = 0
  BY <1>1, <1>3, <1>4, HttpIsSilent
<1>5. CASE h.flush # 0
  <2>1. PICK q : q = OnSocketFlushed(h, h.flush)
    OBVIOUS
  <2>2. HttpGood(q, sent) /\ q.out = <<>> /\ q.look \in {http.look, <<>>}
    BY <1>3, <2>1, FlushedGood
  <2>3. HttpDoes(q)
    BY <1>1, <1>5, <2>1
  <2> QED
    BY <1>1, <2>2, <2>3, HttpIsSilent
<1> QED
  BY <1>4, <1>5

LEMMA ReadsKept == HttpInv /\ Reads => HttpInv'
<1> SUFFICES ASSUME HttpInv, Reads PROVE HttpInv'
  OBVIOUS
<1> DEFINE p == case.media[http.read + 1]
           h == [http EXCEPT !.read = @ + 1, !.stamps = IF http.reader = "flv" THEN WriteRtmp(@, p) ELSE @]
           x == Tag(h.stamps, p)
<1>1. http.reader # "none" /\ HttpDoes(Write(h, x)) /\ asked' = asked
  BY DEF Reads
<1>2. Item(x) /\ x.what = "media"
  BY DEF Tag, Item
<1>3. HttpKnows(h) /\ Same(http, h) /\ h.first = http.first /\ h.out = http.out
  BY DEF HttpInv, HttpGood, HttpKnows, HttpMembers, Same
<1> HIDE DEF h, x, p
<1>4. HttpGood(h, sent \o h.out) /\ sent \o h.out = sent /\ IsSequence(sent) /\ h.look = http.look /\ h.reader # "none"
  BY <1>1, <1>3, HttpStands, ElseGood DEF Same
<1>5. PICK y : y = x
  OBVIOUS
<1>6. Item(y) /\ y.what = "media"
  BY <1>2, <1>5
<1> DEFINE q == Write(h, y)
<1>7. /\ HttpGood(q, sent \o q.out) /\ q.look = h.look
      /\ \A j \in DOMAIN (sent \o q.out) : j > Len(sent \o h.out) => (sent \o q.out)[j].what # "head"
  <2>1. PICK s, g : s = sent /\ g = h
    OBVIOUS
  <2>2. HttpGood(g, s \o g.out) /\ IsSequence(s) /\ g.reader # "none"
    BY <1>4, <2>1
  <2> DEFINE d == Write(g, y)
  <2>3. /\ HttpGood(d, s \o d.out) /\ d.look = g.look
        /\ \A j \in DOMAIN (s \o d.out) : j > Len(s \o g.out) => (s \o d.out)[j].what # "head"
    BY <1>6, <2>2, MediaGood
  <2>4. q = d
    BY <2>1
  <2> HIDE DEF q, d
  <2> QED
    BY <2>1, <2>3, <2>4
<1>8. HttpDoes(q)
  BY <1>1, <1>5
<1> HIDE DEF q
<1> QED
  BY <1>1, <1>4, <1>7, <1>8, HttpGoesOn

LEMMA ShutKept == HttpInv /\ HttpDoes(HShutdown(http)) /\ asked' = asked => HttpInv'
<1> SUFFICES ASSUME HttpInv, HttpDoes(HShutdown(http)), asked' = asked PROVE HttpInv'
  OBVIOUS
<1>1. PICK q : q = HShutdown(http)
  OBVIOUS
<1>2. HttpGood(q, sent) /\ q.out = <<>> /\ q.look = <<>>
  BY <1>1, ShutGood DEF HttpInv
<1> QED
  BY <1>1, <1>2, HttpIsSilent

LEMMA ClosesWebSocketKept == HttpInv /\ ClosesWebSocket => HttpInv'
<1> SUFFICES ASSUME HttpInv, ClosesWebSocket PROVE HttpInv'
  OBVIOUS
<1> DEFINE e == Emit(http, [what |-> "close", frame |-> "close"])
<1>1. http.open /\ http.overWs /\ HttpDoes(HShutdown(e)) /\ asked' = asked
  BY DEF ClosesWebSocket
<1>2. /\ HttpGood(e, sent \o e.out)
      /\ \A j \in DOMAIN (sent \o e.out) : j > Len(sent \o http.out) => (sent \o e.out)[j].what # "head"
  <2>1. PICK h : h = http
    OBVIOUS
  <2>2. HttpGood(h, sent \o h.out) /\ h.open /\ h.overWs /\ IsSequence(sent)
    BY <1>1, <2>1, HttpStands
  <2> DEFINE d == Emit(h, [what |-> "close", frame |-> "close"])
  <2>3. /\ HttpGood(d, sent \o d.out)
        /\ \A j \in DOMAIN (sent \o d.out) : j > Len(sent \o h.out) => (sent \o d.out)[j].what # "head"
    BY <2>2, EchoGood
  <2> QED
    BY <2>1, <2>3
<1> HIDE DEF e
<1>3. PICK q : q = HShutdown(e)
  OBVIOUS
<1>4. HttpGood(q, sent \o e.out) /\ q.out = e.out /\ q.look = <<>>
  BY <1>2, <1>3, ShutGood
<1>5. \A j \in DOMAIN (sent \o q.out) : j > Len(sent) => (sent \o q.out)[j].what # "head"
  BY <1>2, <1>4, HttpStands
<1> QED
  BY <1>1, <1>3, <1>4, <1>5, HttpGoesOn

LEMMA FallsSilentKept == HttpInv /\ FallsSilent => HttpInv'
<1> SUFFICES ASSUME HttpInv, FallsSilent PROVE HttpInv'
  OBVIOUS
<1> DEFINE h == [http EXCEPT !.silent = TRUE]
<1>1. http' = h /\ case' = case /\ sent' = sent /\ asked' = asked
  BY DEF FallsSilent
<1>2. HttpKnows(h) /\ Same(http, h) /\ h.first = http.first /\ h.out = http.out
  BY DEF HttpInv, HttpGood, HttpKnows, HttpMembers, Same
<1> HIDE DEF h
<1>3. HttpGood(h, sent)
  BY <1>2, ElseGood DEF HttpInv
<1> QED
  BY <1>1, <1>2, <1>3 DEF HttpInv, Same

LEMMA HttpInvStep == HttpInv /\ [HNext]_hvars => HttpInv'
<1> SUFFICES ASSUME HttpInv, [HNext]_hvars PROVE HttpInv'
  OBVIOUS
<1>1. CASE Asks
  BY <1>1, AsksKept
<1>2. CASE LookEnds
  BY <1>2, LookEndsKept
<1>3. CASE SenderTask
  BY <1>3, SenderTaskKept
<1>4. CASE Flushed
  BY <1>4, FlushedKept
<1>5. CASE Reads
  BY <1>5, ReadsKept
<1>6. CASE Detached \/ HOnManager \/ PeerCloses
  BY <1>6, ShutKept DEF Detached, HOnManager, PeerCloses
<1>7. CASE ClosesWebSocket
  BY <1>7, ClosesWebSocketKept
<1>8. CASE FallsSilent
  BY <1>8, FallsSilentKept
<1>9. CASE SourceStarts \/ SourceWritesMore \/ SourceEnds \/ UNCHANGED hvars
  <2>1. case' = case /\ http' = http /\ sent' = sent /\ asked' = asked
    BY <1>9 DEF SourceStarts, SourceWritesMore, SourceEnds, hvars
  <2> QED
    BY <2>1 DEF HttpInv
<1> QED
  BY <1>1, <1>2, <1>3, <1>4, <1>5, <1>6, <1>7, <1>8, <1>9 DEF HNext, HttpLoop

-----------------------------------------------------------------------------
(* What it means for the client.                                           *)
LEMMA PlaceOf == ASSUME HttpInv PROVE Len(sent) \in Nat /\ DOMAIN sent = 1 .. Len(sent)
<1>1. PICK S : sent \in Seq(S)
  BY HttpStands DEF IsSequence
<1> QED
  BY <1>1, LenProperties

\* A session that waits has sent nothing of a stream.
LEMMA WaitingInStep ==
  ASSUME HttpInv, Unwatched(sent)
  PROVE  HeadsFirst /\ FramesFollowUpgrade
<1>1. \A i \in DOMAIN sent : Plain(sent[i])
  BY DEF Unwatched
<1>2. InStream = {}
  BY <1>1 DEF InStream, Stream, Plain
<1>3. Heads <= asked
  BY DEF HttpInv, Heads, HeadsOf
<1>4. ASSUME NEW i \in DOMAIN sent PROVE ~Upgraded(i)
  <2>1. \A j \in 1 .. i - 1 : j \in DOMAIN sent
    BY <1>4, PlaceOf
  <2> QED
    BY <1>1, <2>1 DEF Upgraded, Plain
<1>5. ASSUME NEW i \in DOMAIN sent
      PROVE  sent[i].frame = "none" /\ sent[i].what \in {"head", "body"}
  BY <1>1 DEF Plain
<1>6. HeadsFirst
  BY <1>2, <1>3 DEF HeadsFirst
<1>7. FramesFollowUpgrade
  BY <1>4, <1>5 DEF FramesFollowUpgrade
<1> QED
  BY <1>6, <1>7

LEMMA WatchedInStep ==
  ASSUME HttpInv, NEW ws \in BOOLEAN, NEW k, Watched(sent, ws, k)
  PROVE  HeadsFirst /\ FramesFollowUpgrade
<1> DEFINE n == Len(sent)
<1>1. n \in Nat /\ DOMAIN sent = 1 .. n /\ k \in 1 .. n
  BY PlaceOf DEF Watched
<1>2. /\ sent[k].what = "head" /\ sent[k].frame = "none" /\ sent[k].code = IF ws THEN "101" ELSE "200"
      /\ \A i \in 1 .. n : i < k => Plain(sent[i])
      /\ \A i \in 1 .. n : i > k => Streamed(sent[i], ws)
  BY <1>1 DEF Watched
<1>3. \A i \in 1 .. n : i > k => sent[i].what # "head"
  BY <1>2 DEF Streamed, Leads
<1> HIDE DEF n
<1>4. ASSUME NEW i \in InStream PROVE i \in 1 .. n /\ i > k /\ sent[i].what \in DOMAIN Rank
  <2>1. i \in 1 .. n /\ sent[i].what \in DOMAIN Rank
    BY <1>1 DEF InStream, Stream, Rank
  <2>2. ~Plain(sent[i]) /\ sent[i].what # "head"
    BY <2>1 DEF Plain, Rank
  <2>3. i # k /\ ~(i < k)
    BY <1>2, <2>1, <2>2
  <2> QED
    BY <1>1, <2>1, <2>3
<1>5. HeadsFirst
  <2>1. Heads <= asked
    BY DEF HttpInv, Heads, HeadsOf
  <2>2. ASSUME NEW i \in InStream
        PROVE  \E j \in 1 .. i - 1 : /\ sent[j].what = "head" /\ sent[j].code \in {"200", "101"}
                                     /\ \A m \in j + 1 .. i : sent[m].what # "head"
    <3>1. k \in 1 .. i - 1 /\ sent[k].code \in {"200", "101"}
      BY <1>1, <1>2, <1>4
    <3>2. \A m \in k + 1 .. i : sent[m].what # "head"
      BY <1>1, <1>3, <1>4
    <3> QED
      BY <1>2, <3>1, <3>2
  <2>3. ASSUME NEW i \in InStream, sent[i].what = "media"
        PROVE  \E j \in 1 .. i - 1 : sent[j].what \in {"header", "init"}
    <3>1. PICK j \in 1 .. n : k < j /\ j < i /\ Describes(sent[j])
      BY <1>1, <1>4, <2>3 DEF Watched
    <3>2. j \in 1 .. i - 1
      BY <1>1, <1>4, <3>1
    <3> QED
      BY <3>1, <3>2 DEF Describes
  <2>4. ASSUME NEW i \in InStream, NEW j \in InStream, i < j
        PROVE  LET a == Stream[sent[i].what]  b == Stream[sent[j].what]
               IN  a <= b /\ (a = b => a \in {3, 4})
    <3>1. Ordered(sent[i].what, sent[j].what)
      BY <1>1, <1>4, <2>4 DEF Watched
    <3>2. sent[i].what \in DOMAIN Rank /\ sent[j].what \in DOMAIN Rank
      BY <1>4
    <3>3. Stream = Rank
      BY DEF Stream, Rank
    <3> QED
      BY <3>1, <3>2, <3>3 DEF Ordered
  <2> QED
    BY <2>1, <2>2, <2>3, <2>4 DEF HeadsFirst
<1>6. ASSUME NEW i \in 1 .. n
      PROVE  /\ (sent[i].frame # "none") = (Upgraded(i) /\ sent[i].what # "body")
             /\ (sent[i].frame = "text") = (sent[i].what = "mime")
  <2>1. CASE i <= k
    <3>1. sent[i].frame = "none" /\ sent[i].what # "mime"
      <4>1. i = k \/ i < k
        BY <1>1, <2>1
      <4> QED
        BY <1>2, <4>1 DEF Plain
    <3>2. ~Upgraded(i)
      <4> SUFFICES ASSUME NEW j \in 1 .. i - 1 PROVE ~(sent[j].what = "head" /\ sent[j].code = "101")
        BY DEF Upgraded
      <4>1. j \in 1 .. n /\ j < k
        BY <1>1, <2>1
      <4> QED
        BY <1>2, <4>1 DEF Plain
    <3> QED
      BY <3>1, <3>2
  <2>2. CASE i > k
    <3>1. Streamed(sent[i], ws)
      BY <1>2, <2>2
    <3>2. Upgraded(i) = ws
      <4>1. ASSUME ws PROVE Upgraded(i)
        <5>1. k \in 1 .. i - 1
          BY <1>1, <2>2
        <5> QED
          BY <1>2, <4>1, <5>1 DEF Upgraded
      <4>2. ASSUME ~ws PROVE ~Upgraded(i)
        <5> SUFFICES ASSUME NEW j \in 1 .. i - 1 PROVE ~(sent[j].what = "head" /\ sent[j].code = "101")
          BY DEF Upgraded
        <5>1. j \in 1 .. n /\ (j < k \/ j = k \/ j > k)
          BY <1>1
        <5> QED
          BY <1>2, <1>3, <4>2, <5>1 DEF Plain
      <4>3. Upgraded(i) \in BOOLEAN
        BY DEF Upgraded
      <4> QED
        BY <4>1, <4>2, <4>3
    <3> QED
      BY <3>1, <3>2 DEF Streamed
  <2> QED
    BY <1>1, <2>1, <2>2
<1>7. FramesFollowUpgrade
  BY <1>1, <1>6 DEF FramesFollowUpgrade
<1> QED
  BY <1>5, <1>7

LEMMA HttpInvInStep == HttpInv => HeadsFirst /\ FramesFollowUpgrade
<1> SUFFICES ASSUME HttpInv PROVE HeadsFirst /\ FramesFollowUpgrade
  OBVIOUS
<1>1. Waiting(http, sent) \/ Watching(http, sent)
  BY DEF HttpInv, HttpGood
<1>2. http.overWs \in BOOLEAN
  BY DEF HttpInv, HttpGood, HttpKnows
<1>3. CASE Waiting(http, sent)
  BY <1>3, WaitingInStep DEF Waiting
<1>4. CASE Watching(http, sent)
  <2>1. PICK k : Watched(sent, http.overWs, k)
    BY <1>4 DEF Watching
  <2>2. PICK ws \in BOOLEAN : ws = http.overWs
    BY <1>2
  <2>3. Watched(sent, ws, k)
    BY <2>1, <2>2
  <2> QED
    BY <2>3, WatchedInStep
<1> QED
  BY <1>1, <1>3, <1>4

\* What a client is sent is in step with what it asked for, whatever requests came before and whenever the stream is
\* found: no more heads than requests, a stream after its own head and in order, and frames from an upgrade on, but
\* for the bodies of earlier answers, which are not framed (checkLiveStream, sendResponse, start, onWrite).
THEOREM WatchedOverHttp == HSpec => []HttpInStep
<1>1. HInit => HttpInv
  BY HttpInvInit
<1>2. HttpInv /\ [HNext]_hvars => HttpInv'
  BY HttpInvStep
<1>3. HttpInv => HttpInStep
  BY HttpInvInStep DEF HttpInStep
<1> QED
  BY <1>1, <1>2, <1>3, PTL DEF HSpec
=============================================================================
