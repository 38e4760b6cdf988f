---------------------------- MODULE RtmpSession -----------------------------
(***************************************************************************)
(* RtmpSession: the server's side of an RTMP connection, in the same form  *)
(* as RtspSession.                                                         *)
(***************************************************************************)
EXTENDS Naturals, Sequences

NewRtmpSession ==
  [ open   |-> TRUE,
    named  |-> FALSE,   \* _media_info names a stream
    reader |-> 0,       \* _ring_reader: the source it reads, 0 for null
    push   |-> FALSE,   \* _publisher_src
    own    |-> 0,       \* the instance it is registered as
    paused |-> FALSE,   \* _paused
    look   |-> "no",    \* the answer awaited: no, play or publish (the listener's), wait, posted
    late   |-> FALSE,   \* older than handshake_sec
    idle   |-> FALSE,   \* nothing received for keep_alive_sec
    out    |-> <<>> ]

Send(s, m) == IF s.open THEN [s EXCEPT !.out = Append(@, m)] ELSE s

Shutdown(s) == [s EXCEPT !.open = FALSE, !.look = "no", !.reader = 0, !.own = 0, !.push = FALSE]

Result(s, cmd) == Send(s, [t |-> "result", cmd |-> cmd, level |-> "status"])

Status(s, code, level) == Send(s, [t |-> "status", code |-> code, level |-> level])

Media(s, frame) == Send(s, [t |-> "media", frame |-> frame])
-----------------------------------------------------------------------------
\* sendPlayResponse: four statuses, of which the third has no level, the
\* metadata, the configuration frames, and then the reader.
SendPlayResponse(s, src) ==
  LET begun  == Status(Status(s, "Reset", "status"), "Start", "status")
      noted  == Status(Status(begun, "DataStart", "none"), "PublishNotify", "status")
      primed == Media(Send(noted, [t |-> "meta"]), FALSE)
  IN  IF src = 0 THEN Shutdown(Status(s, "NotFound", "error"))
      ELSE [primed EXCEPT !.look = "no", !.reader = src]

\* doPlayResponse with findAsync
DoPlayResponse(s, ok, live) ==
  IF ~ok \/ live # 0 THEN SendPlayResponse(s, IF ok THEN live ELSE 0)
  ELSE [s EXCEPT !.look = "wait"]

\* doPlay: a listener of kBroadcastMediaPlayed answers later, if there is one.
DoPlay(s, asks, live) == IF asks THEN [s EXCEPT !.look = "play"] ELSE DoPlayResponse(s, TRUE, live)

\* on_res of onCmd_publish
OnPublish(s, ok, live) ==
  IF ok /\ s.named /\ live = 0 /\ ~s.push
  THEN [Status(s, "PublishStart", "status") EXCEPT !.look = "no", !.push = TRUE]
  ELSE Shutdown(Status(s, "BadName", "error"))

OnCmdPublish(s, asks, live) ==
  IF asks /\ s.named THEN [s EXCEPT !.look = "publish"] ELSE OnPublish(s, TRUE, live)

\* The listener answers a play or a publication.
OnAuth(s, ok, live) == IF s.look = "play" THEN DoPlayResponse(s, ok, live) ELSE OnPublish(s, ok, live)

\* onCmd_pause; the control message after it says nothing to this player.
OnCmdPause(s, flag) == [Status(s, IF flag THEN "Pause" ELSE "Unpause", "status") EXCEPT !.paused = flag]

\* onProcessCmd and onRtmpChunk
OnRequest(s, r, asks, live, fresh) ==
  LET q == [s EXCEPT !.idle = FALSE]
      n == [q EXCEPT !.named = r.named]
  IN  CASE r.cmd = "connect"      -> Result(q, r.cmd)
        [] r.cmd = "createStream" -> Result(q, r.cmd)
        [] r.cmd = "play"         -> DoPlay(n, asks, IF r.named THEN live ELSE 0)
        [] r.cmd = "play2"        -> DoPlay(q, asks, IF q.named THEN live ELSE 0)
        [] r.cmd = "publish"      -> OnCmdPublish(n, asks, live)
        [] r.cmd = "pause"        -> OnCmdPause(q, r.flag)
        [] r.cmd = "seek"         -> Status(q, "Seek", "status")
        [] r.cmd = "deleteStream" -> Shutdown(Status(q, "Unpublish", "status"))
        [] r.cmd = "setDataFrame" -> IF q.push THEN q ELSE Shutdown(q)
        [] r.cmd = "media"        -> IF ~q.push THEN Shutdown(q)
                                     ELSE IF q.own = 0 THEN [q EXCEPT !.own = fresh] ELSE q
        [] OTHER                  -> q
-----------------------------------------------------------------------------
\* The reader's callback: a packet of the source.
OnRead(s) == IF s.paused THEN s ELSE Media(s, TRUE)

OnDetach(s) == Shutdown(s)

\* Faulty form: a publisher that fell silent is kept.
OnManagerPatient(s) == IF s.late /\ s.reader = 0 /\ ~s.push THEN Shutdown(s) ELSE s

OnManager(s) ==
  IF s.late /\ s.reader = 0 /\ ~s.push THEN Shutdown(s)
  ELSE IF s.push /\ s.idle THEN Shutdown(s) ELSE s
=============================================================================
