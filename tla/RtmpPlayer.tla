----------------------------- MODULE RtmpPlayer -----------------------------
(***************************************************************************)
(* RtmpPlayer and RtmpPlayerImp.  Results are taken by the function of the *)
(* request they name; status messages name none and are taken by the       *)
(* functions of _deque_on_status in turn.                                  *)
(***************************************************************************)
EXTENDS PlayerBase

NewRtmpPlayer ==
  Derived([ named    |-> FALSE,   \* _app and _stream_id are set
            waiting  |-> {},      \* _map_on_result
            statuses |-> <<>>,    \* _deque_on_status
            metadata |-> FALSE,   \* _metadata_got
            paused   |-> FALSE,   \* _paused
            beat     |-> FALSE ])  \* _beat_timer

Command(p, cmd, flag) == Say(p, [cmd |-> cmd, flag |-> flag, named |-> p.named])

SendInvoke(p, cmd) == Command([p EXCEPT !.waiting = @ \cup {cmd}], cmd, FALSE)

\* Faulty form: a third status is expected to answer the play.
SendPlayThrice(p) == Command([p EXCEPT !.statuses = @ \o <<"play", "play", "play">>], "play", FALSE)

SendPlay(p) == Command([p EXCEPT !.statuses = @ \o <<"play", "play">>], "play", FALSE)

SendPause(p, flag) ==
  Command([p EXCEPT !.statuses = Append(@, IF flag THEN "pause" ELSE "resume"), !.beat = flag], "pause", flag)

\* Everything but _paused and _metadata_got.
Teardown(p) ==
  [Stop(IF Alive(p) THEN Hang(p) ELSE p)
     EXCEPT !.named = FALSE, !.beat = FALSE, !.waiting = {}, !.statuses = <<>>]

\* onPlayResult_l
PlayResult_l(p, ex, done) ==
  IF ex = "shutdown" THEN p
  ELSE LET q == IF ~done THEN OnPlayResult([p EXCEPT !.play = FALSE], ex)
                ELSE IF ex # "ok" THEN OnShutdown(p) ELSE OnResume(p)
       IN  IF ex = "ok" THEN [q EXCEPT !.quiet = 0, !.recv = TRUE] ELSE Teardown(q)

\* onRecv catches what a callback throws.
Throw(p) == PlayResult_l(p, "other", ~p.play)
-----------------------------------------------------------------------------
\* Called by the owner.  Faulty form: the timer is armed once there is a connection.
PlayUntimed(p, legal) ==
  LET q == Teardown(p)
  IN  IF ~legal THEN PlayResult_l(q, "other", FALSE)
      ELSE StartConnect([q EXCEPT !.named = TRUE, !.metadata = FALSE])

Play(p, legal) ==
  LET q == Teardown(p)
  IN  IF ~legal THEN PlayResult_l(q, "other", FALSE)
      ELSE StartConnect([q EXCEPT !.named = TRUE, !.play = TRUE, !.metadata = FALSE])

Pause(p, flag) == SendPause(p, flag)

Seek(p) ==
  LET q == IF p.paused THEN SendPause(p, FALSE) ELSE p
  IN  Command([q EXCEPT !.statuses = Append(@, "seek")], "seek", FALSE)

\* Called by the connection, after its handshake.
OnConnect(p, ok) == IF ok THEN SendInvoke(p, "connect") ELSE PlayResult_l(p, "other", FALSE)
OnErr(p, ex)     == PlayResult_l(Hang(p), ex, ~p.play)
-----------------------------------------------------------------------------
\* onCmd_result, and the callbacks of connect and createStream, which throw at an
\* error: the one at its level, the other because its object is no stream number.
OnResult(p, m) ==
  LET q == [p EXCEPT !.waiting = @ \ {m.cmd}]
  IN  IF m.cmd \notin p.waiting THEN p
      ELSE CASE m.cmd = "connect"      -> IF m.level = "status" THEN SendInvoke(q, "createStream") ELSE Throw(p)
             [] m.cmd = "createStream" -> IF m.level # "error" THEN SendPlay(q) ELSE Throw(p)

\* What the functions of the deque do.  A status without a level is one that no
\* function of a play or pause can read.
Status(p, m, h) ==
  CASE h = "pause" /\ m.level = "status"  -> [p EXCEPT !.paused = TRUE, !.recv = FALSE]
    [] h = "resume" /\ m.level = "status" -> PlayResult_l([p EXCEPT !.paused = FALSE], "ok", TRUE)
    [] h = "pause" /\ m.level = "error"   -> p
    [] h = "seek"                         -> p
    [] h = "play" /\ m.level = "status"   -> p
    [] OTHER                              -> Throw(p)

\* onCmd_onStatus
OnStatus(p, m) ==
  IF p.statuses # <<>>
  THEN Status([p EXCEPT !.statuses = Tail(@)], m, Head(p.statuses))
  ELSE IF m.level = "error" THEN Throw(p) ELSE p

\* onMediaData_l: the first frame that is not configuration is the success.
OnMedia(p, m) ==
  LET q == [p EXCEPT !.quiet = 0, !.metadata = TRUE]
  IN  IF q.play /\ m.frame THEN PlayResult_l(q, "ok", FALSE) ELSE q

\* onRtmpChunk and the control messages
OnMessage(p, m) ==
  CASE m.t = "result" -> OnResult(p, m)
    [] m.t = "status" -> OnStatus(p, m)
    [] m.t = "meta"   -> [p EXCEPT !.metadata = TRUE]
    [] m.t = "media"  -> OnMedia(p, m)
    [] m.t = "dry"    -> PlayResult_l(p, "other", TRUE)
-----------------------------------------------------------------------------
PlayTimer(p) == PlayResult_l([p EXCEPT !.play = FALSE], "timeout", FALSE)
RecvTimer(p, late) == IF late THEN PlayResult_l(p, "timeout", TRUE) ELSE [p EXCEPT !.quiet = @ + 1]
BeatTimer(p) == Command(p, "ping", FALSE)
=============================================================================
