----------------------------- MODULE RtspPlayer -----------------------------
(***************************************************************************)
(* RtspPlayer and RtspPlayerImp.  There is one slot, _on_response, for the *)
(* function that takes the next reply, whatever it answers.                *)
(***************************************************************************)
EXTENDS PlayerBase

CONSTANT Tracks   \* how many tracks a stream has


NewRtspPlayer(over) ==
  Derived([ handler  |-> "none",   \* _on_response
            setup    |-> 0,        \* the track the SETUP reply is for
            session  |-> 0,        \* _session_id
            cseq     |-> 1,        \* _cseq_send
            tracks   |-> 0,        \* the size of _sdp_track
            realm    |-> FALSE,    \* _realm is known
            over     |-> over,     \* kRtpType
            delegate |-> "none",   \* _delegate: none, or one that knows some tracks or all
            analyse  |-> FALSE,    \* _max_analysis_ms is not 0
            crossed  |-> FALSE ])  \* history: a reply was outstanding when the slot was filled

Request(p, cmd) ==
  Say([p EXCEPT !.cseq = @ + 1],
      [cmd |-> cmd, cseq |-> p.cseq, session |-> p.session, track |-> p.setup, over |-> p.over])

\* Fill the slot and send.
Ask(p, handler, cmd) ==
  Request([p EXCEPT !.handler = handler, !.crossed = @ \/ p.handler # "none"], cmd)

SendOptions(p)   == Ask(p, "OPTIONS", "OPTIONS")
SendDescribe(p)  == Ask(p, "DESCRIBE", "DESCRIBE")
SendSetup(p, i)  == Ask([p EXCEPT !.setup = i], "SETUP", "SETUP")
SendKeepAlive(p) == Ask(p, "KEEP", "GET_PARAMETER")
\* type_play, type_pause and type_seek
SendPause(p, type) == Ask(p, type, IF type = "PAUSE" THEN "PAUSE" ELSE "PLAY")

\* Faulty form: the check of received packets survives.
TeardownWatching(p) ==
  LET q == IF Alive(p) THEN Hang(Request(p, "TEARDOWN")) ELSE p
  IN  [Stop(q) EXCEPT !.recv = q.recv, !.session = 0, !.tracks = 0, !.realm = FALSE, !.cseq = 1, !.handler = "none"]

Teardown(p) ==
  LET q == IF Alive(p) THEN Hang(Request(p, "TEARDOWN")) ELSE p
  IN  [Stop(q) EXCEPT !.session = 0, !.tracks = 0, !.realm = FALSE, !.cseq = 1, !.handler = "none"]

\* RtspPlayerImp::onPlayResult: a success waits for the tracks.
PlayResult(p, ex) ==
  IF ex # "ok" \/ p.delegate = "all" THEN OnPlayResult(p, ex) ELSE [p EXCEPT !.analyse = TRUE]

\* onPlayResult_l
PlayResult_l(p, ex, done) ==
  IF ex = "shutdown" THEN p
  ELSE LET q == IF ~done THEN PlayResult([p EXCEPT !.play = FALSE], ex)
                ELSE IF ex # "ok" THEN OnShutdown(p) ELSE OnResume(p)
       IN  IF ex = "ok" THEN [q EXCEPT !.quiet = 0, !.recv = TRUE] ELSE Teardown(q)

Throw(p) == PlayResult_l(p, "other", ~p.play)
-----------------------------------------------------------------------------
\* Called by the owner.
Play(p, legal) ==
  IF ~legal THEN PlayResult_l(p, "other", FALSE)
  ELSE StartConnect([Teardown(p) EXCEPT !.play = TRUE, !.crossed = FALSE])

Pause(p, flag) == SendPause(p, IF flag THEN "PAUSE" ELSE "SEEK")
Seek(p)        == SendPause(p, "SEEK")

\* Called by the connection.
OnConnect(p, ok) == IF ok THEN SendOptions(p) ELSE PlayResult_l(p, "other", FALSE)
\* Faulty form: the end is told as an end although there was no result.
OnErrDown(p, ex) == PlayResult_l(Hang(p), ex, TRUE)
OnErr(p, ex)     == PlayResult_l(Hang(p), ex, ~p.play)
-----------------------------------------------------------------------------
\* "good" is the player after a good reply.
HandleResponse(p, m, good) ==
  CASE m.code = "401" /\ ~p.realm         -> SendOptions([p EXCEPT !.realm = TRUE])
    [] m.code = "302"                     -> Play(p, TRUE)
    [] m.code = "200"                     -> good
    [] OTHER                              -> Throw(p)

HandleResDESCRIBE(p, m, sdp) ==
  HandleResponse(p, m, SendSetup([p EXCEPT !.tracks = Tracks, !.delegate = sdp], 1))

HandleResSETUP(p, m) ==
  IF m.code # "200" THEN Throw(p)
  ELSE LET q == IF p.setup = 1 THEN [p EXCEPT !.session = m.session] ELSE p
       IN  IF p.setup < p.tracks THEN SendSetup(q, p.setup + 1) ELSE SendPause(q, "PLAY")

\* Faulty form: a pause leaves the check of received packets on.
HandleResPAUSEWatching(p, m, type) ==
  CASE m.code # "200" -> IF type = "PLAY" THEN PlayResult_l(p, "shutdown", ~p.play) ELSE p
    [] type = "PAUSE" /\ m.code = "200" -> p
    [] OTHER          -> PlayResult_l(p, "ok", ~p.play)

\* A refused PLAY is an Err_shutdown, which is never told: the timer tells.
HandleResPAUSE(p, m, type) ==
  CASE m.code # "200" -> IF type = "PLAY" THEN PlayResult_l(p, "shutdown", ~p.play) ELSE p
    [] type = "PAUSE" /\ m.code = "200" -> [p EXCEPT !.recv = FALSE]
    [] OTHER          -> PlayResult_l(p, "ok", ~p.play)

\* onWholeRtspPacket: the slot is emptied, then its function runs.  "sdp" is
\* whether a description tells all there is to know of the tracks.
OnReply(p, m, sdp) ==
  LET q == [p EXCEPT !.handler = "none"]
  IN  CASE p.handler = "OPTIONS"  -> HandleResponse(q, m, SendDescribe(q))
        [] p.handler = "DESCRIBE" -> HandleResDESCRIBE(q, m, sdp)
        [] p.handler = "SETUP"    -> HandleResSETUP(q, m)
        [] p.handler \in {"PLAY", "PAUSE", "SEEK"} -> HandleResPAUSE(q, m, p.handler)
        [] OTHER                  -> q

\* onRtpSorted and onRecvRTP_l: "done" is whether the tracks are known by now,
\* or waited for long enough, "beat" whether five seconds have passed.
OnRtp(p, done, beat) ==
  LET q == [p EXCEPT !.quiet = 0]
      r == IF q.analyse /\ done THEN [OnPlayResult(q, "ok") EXCEPT !.analyse = FALSE] ELSE q
  IN  IF beat THEN SendKeepAlive(r) ELSE r
-----------------------------------------------------------------------------
PlayTimer(p) == PlayResult_l([p EXCEPT !.play = FALSE], "timeout", FALSE)

\* The check of received packets, by whether the limit has passed.
RecvTimer(p, late) == IF late THEN PlayResult_l(p, "timeout", TRUE) ELSE [p EXCEPT !.quiet = @ + 1]
=============================================================================
