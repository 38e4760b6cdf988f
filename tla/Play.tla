-------------------------------- MODULE Play --------------------------------
(***************************************************************************)
(* A stream played over one connection: the player with its owner and the  *)
(* session of the server, over RTSP or RTMP, and the source of the stream, *)
(* which comes and goes.  In some scenes the player faces a server that is *)
(* not this one, in others the session faces a client that sends whatever  *)
(* it likes.  A connection keeps the order of what is sent; its end may    *)
(* overtake the rest when the server closes with requests unread.          *)
(***************************************************************************)
EXTENDS Naturals, Sequences, SequencesExt

CONSTANTS
  Tracks,      \* the tracks of the stream
  Scenes,      \* who plays, of whom, and how much happens
  MaxSource    \* bound of how often the stream is registered

ASSUME PlayAssumption ==
  /\ Tracks \in Nat \ {0} /\ MaxSource \in Nat
  /\ \A s \in Scenes : s.sdp \in {"all", "some"}   \* what a description tells of the tracks

VARIABLES
  scene, player, session,
  up, down,    \* what is on its way to the server and to the client
  live, made,  \* the registered instance of the source, and how many there were
  left,        \* how much of each kind may still happen
  heard,       \* history: the last thing the client read of playing or pausing
  torn         \* history: the owner tore the player down since it played

vars == <<scene, player, session, up, down, live, made, left, heard, torn>>

RtspP == INSTANCE RtspPlayer
RtspS == INSTANCE RtspSession
RtmpP == INSTANCE RtmpPlayer
RtmpS == INSTANCE RtmpSession

Rtsp   == scene.kind = "rtsp"
Client == scene.client = "player"     \* not one that sends whatever it likes
Server == scene.server = "session"    \* not another server
Fresh  == IF Rtsp THEN RtspS!NewRtspSession ELSE RtmpS!NewRtmpSession

Init ==
  /\ scene \in Scenes
  /\ player = IF ~Client THEN [RtspP!NewPlayer EXCEPT !.link = "open"]
              ELSE IF Rtsp THEN RtspP!NewRtspPlayer(scene.over) ELSE RtmpP!NewRtmpPlayer
  /\ session = [Fresh EXCEPT !.open = ~Client]
  /\ up = <<>> /\ down = <<>>
  /\ live = 0 /\ made = 0 /\ left = scene.left
  /\ heard = "none" /\ torn = FALSE

Spend(what) == left[what] > 0 /\ left' = [left EXCEPT ![what] = @ - 1]
-----------------------------------------------------------------------------
\* What the client learns of playing and pausing from a message.
Hear(before, m) ==
  CASE m.t = "reply" /\ m.code = "200" /\ m.cmd = "PLAY"         -> "playing"
    [] m.t = "reply" /\ m.code = "200" /\ m.cmd = "PAUSE"        -> "paused"
    [] m.t = "status" /\ m.code \in {"Start", "Unpause"}         -> "playing"
    [] m.t = "status" /\ m.code = "Pause" /\ m.level = "status"  -> "paused"
    [] OTHER                                                     -> before

\* The player has done something: d is what is left to read, h what it has heard.
PlayerIs(q, d, h) ==
  /\ player' = [q EXCEPT !.out = <<>>]
  /\ up' = up \o q.out
  /\ down' = IF q.link = "open" THEN d ELSE <<>>
  /\ heard' = IF q.link = "open" THEN h ELSE "none"
  /\ UNCHANGED <<scene, session, live, made>>

PlayerDoes(q) == PlayerIs(q, down, heard)

\* A careful owner operates a play that has succeeded, one thing at a time.
Settled ==
  /\ player.link = "open" /\ player.told # <<>> /\ player.told[1] = "ok"
  /\ IF Rtsp THEN player.handler \in {"none", "KEEP"} ELSE player.statuses = <<>>

\* Resuming before there is a delegate is undefined: RtspPlayerImp reads through null.
MayOperate(resume) == Settled \/ (scene.hasty /\ (Rtsp /\ resume => player.delegate # "none"))

UserPlay ==
  /\ Client /\ Spend("plays")
  /\ \E legal \in BOOLEAN :
       LET p == RtspP!SetCallbacks(player)
       IN  PlayerDoes(IF Rtsp THEN RtspP!Play(p, legal) ELSE RtmpP!Play(p, legal))
  /\ torn' = FALSE

UserPause ==
  /\ Client /\ Spend("ops")
  /\ \E flag \in BOOLEAN :
       /\ MayOperate(~flag)
       /\ PlayerDoes(IF Rtsp THEN RtspP!Pause(player, flag) ELSE RtmpP!Pause(player, flag))
  /\ UNCHANGED torn

UserSeek ==
  /\ Client /\ MayOperate(TRUE) /\ Spend("ops")
  /\ PlayerDoes(IF Rtsp THEN RtspP!Seek(player) ELSE RtmpP!Seek(player))
  /\ UNCHANGED torn

UserTeardown ==
  /\ Client /\ Spend("ops")
  /\ PlayerDoes(IF Rtsp THEN RtspP!Teardown(player) ELSE RtmpP!Teardown(player))
  /\ torn' = TRUE
-----------------------------------------------------------------------------
ToldConnect(p, ok) == IF Rtsp THEN RtspP!OnConnect(p, ok) ELSE RtmpP!OnConnect(p, ok)

\* The worker's answer: there is a descriptor, or the name is unknown.
Resolve ==
  /\ player.link = "resolving"
  /\ \/ PlayerDoes([player EXCEPT !.link = "connecting"])
     \/ PlayerDoes(ToldConnect([player EXCEPT !.link = "closed"], FALSE))
  /\ UNCHANGED <<left, torn>>

\* The server accepts, once the session before is gone.
Connect ==
  /\ player.link = "connecting" /\ ~session.open
  /\ LET q == ToldConnect([player EXCEPT !.link = "open"], TRUE)
     IN  player' = [q EXCEPT !.out = <<>>] /\ up' = q.out
  /\ session' = Fresh
  /\ down' = <<>> /\ heard' = "none"
  /\ UNCHANGED <<scene, live, made, left, torn>>

\* Refused, or the connect timer, which also runs while the name is resolved.
NotConnected ==
  /\ player.link \in {"resolving", "connecting"}
  /\ PlayerDoes(ToldConnect([player EXCEPT !.link = "closed"], FALSE))
  /\ UNCHANGED <<left, torn>>

PlayerReads ==
  /\ Client /\ player.link = "open" /\ down # <<>>
  /\ LET m == Head(down) IN
       \/ /\ ~Rtsp /\ UNCHANGED left
          /\ PlayerIs(RtmpP!OnMessage(player, m), Tail(down), Hear(heard, m))
       \/ /\ Rtsp /\ m.t = "reply" /\ UNCHANGED left
          /\ PlayerIs(RtspP!OnReply(player, m, scene.sdp), Tail(down), Hear(heard, m))
       \/ /\ Rtsp /\ m.t = "media"
          /\ \E done, beat \in BOOLEAN :
               /\ IF beat THEN Spend("keeps") ELSE UNCHANGED left
               /\ PlayerIs(RtspP!OnRtp(player, done, beat), Tail(down), heard)
  /\ UNCHANGED torn

PlayerEof ==
  /\ Client /\ player.link = "open" /\ ~session.open
  /\ down = <<>> \/ up # <<>>
  /\ PlayerDoes(IF Rtsp THEN RtspP!OnErr(player, "eof") ELSE RtmpP!OnErr(player, "eof"))
  /\ UNCHANGED <<left, torn>>

PlayTimer ==
  /\ Client /\ player.play
  /\ PlayerDoes(IF Rtsp THEN RtspP!PlayTimer(player) ELSE RtmpP!PlayTimer(player))
  /\ UNCHANGED <<left, torn>>

RecvTimer ==
  /\ Client /\ player.recv
  /\ \E late \in RtspP!Silence(player) :
       PlayerDoes(IF Rtsp THEN RtspP!RecvTimer(player, late) ELSE RtmpP!RecvTimer(player, late))
  /\ UNCHANGED <<left, torn>>

BeatTimer ==
  /\ Client /\ ~Rtsp /\ player.beat /\ Spend("keeps")
  /\ PlayerDoes(RtmpP!BeatTimer(player))
  /\ UNCHANGED torn
-----------------------------------------------------------------------------
\* The session has done something.
SessionDoes(s) ==
  /\ session' = [s EXCEPT !.out = <<>>]
  /\ down' = IF player.link = "open" THEN down \o s.out ELSE <<>>
  /\ UNCHANGED <<scene, player, heard, torn>>

\* Its published source lives and dies with it.
SourceOf(s) ==
  CASE s.own # session.own /\ s.own # 0 -> live' = s.own /\ made' = s.own
    [] s.own = 0 /\ session.own # 0     -> live' = 0 /\ UNCHANGED made
    [] OTHER                            -> UNCHANGED <<live, made>>

SessionReads ==
  /\ Server /\ session.open /\ up # <<>>
  /\ up' = Tail(up)
  /\ LET r == Head(up) IN
       \E asks \in (IF scene.auth THEN {TRUE} ELSE {FALSE}) :
         LET s == IF ~Rtsp THEN RtmpS!OnRequest(session, r, asks, live, made + 1)
                  ELSE IF r.cmd = "media" THEN RtspS!OnRtpPacket(session, made + 1)
                  ELSE RtspS!OnRequest(session, r, live)
         IN  SessionDoes(s) /\ SourceOf(s)
  /\ UNCHANGED left

\* The client is gone, and all it sent was read.
SessionEof ==
  /\ session.open /\ player.link # "open" /\ (up = <<>> \/ ~Server)
  /\ LET s == IF Rtsp THEN RtspS!Shutdown(session) ELSE RtmpS!Shutdown(session)
     IN  SessionDoes(s) /\ SourceOf(s)
  /\ up' = <<>>
  /\ UNCHANGED left

LookedUp(src) ==
  /\ SessionDoes(IF Rtsp THEN RtspS!Described(session, src) ELSE RtmpS!SendPlayResponse(session, src))
  /\ UNCHANGED <<up, live, made, left>>

LookFound   == session.look = "posted" /\ LookedUp(live)
LookTimeOut == session.look = "wait" /\ LookedUp(0)

\* The listener that was asked for leave answers.
AuthAnswers ==
  /\ session.look \in {"play", "publish"}
  /\ \E ok \in BOOLEAN :
       SessionDoes(RtmpS!OnAuth(session, ok, IF session.named THEN live ELSE 0))
  /\ UNCHANGED <<up, live, made, left>>

Manager ==
  /\ Server /\ session.open
  /\ LET s == IF Rtsp THEN RtspS!OnManager(session) ELSE RtmpS!OnManager(session)
     IN  s # session /\ SessionDoes(s) /\ SourceOf(s)
  /\ UNCHANGED <<up, left>>

\* A session that has not come to anything yet, which only its age can tell.
Idling == IF Rtsp THEN session.session = 0 ELSE session.reader = 0 /\ ~session.push

\* Time passes for the session, where the manager looks at the time.
Ages ==
  /\ Server /\ session.open
  /\ \/ Idling /\ ~session.late /\ session' = [session EXCEPT !.late = TRUE]
     \/ session.push /\ ~session.idle /\ session' = [session EXCEPT !.idle = TRUE]
  /\ UNCHANGED <<scene, player, up, down, live, made, left, heard, torn>>

\* The ring tells the reader that its source is gone.
Detach ==
  /\ Server /\ session.open /\ session.reader # 0 /\ session.reader # live
  /\ SessionDoes(IF Rtsp THEN RtspS!OnDetach(session) ELSE RtmpS!OnDetach(session))
  /\ UNCHANGED <<up, live, made, left>>
-----------------------------------------------------------------------------
\* The source is registered: a look-up that waits for it is posted.
SourceOn ==
  /\ Server /\ live = 0 /\ made < MaxSource /\ ~session.push
  /\ live' = made + 1 /\ made' = made + 1
  /\ session' = IF session.look = "wait" /\ (Rtsp \/ session.named)
                THEN [session EXCEPT !.look = "posted"] ELSE session
  /\ UNCHANGED <<scene, player, up, down, left, heard, torn>>

SourceOff ==
  /\ Server /\ live # 0 /\ live # session.own
  /\ live' = 0
  /\ UNCHANGED <<scene, player, session, up, down, made, left, heard, torn>>

SourceWrites ==
  /\ Server /\ session.open /\ session.reader = live /\ live # 0 /\ Spend("media")
  /\ SessionDoes(IF Rtsp THEN RtspS!OnRead(session) ELSE RtmpS!OnRead(session))
  /\ UNCHANGED <<up, live, made>>
-----------------------------------------------------------------------------
\* Another server answers a request with what it likes, the right way round.
OtherReply(r) ==
  IF Rtsp
  THEN {<<[t |-> "reply", code |-> c, cseq |-> r.cseq, session |-> 1, cmd |-> r.cmd, to |-> r.cseq]>> :
           c \in {"200", "401", "302", "454"}}
  ELSE CASE r.cmd \in {"connect", "createStream"} ->
              {<<[t |-> "result", cmd |-> r.cmd, level |-> l]>> : l \in {"status", "error"}}
         [] r.cmd \in {"play", "pause", "seek"} ->
              {<<[t |-> "status", code |-> "Other", level |-> l]>> : l \in {"status", "error"}}
              \cup {<<[t |-> "dry"]>>}
         [] OTHER -> {<<>>}

OtherAnswers ==
  /\ ~Server /\ session.open /\ up # <<>> /\ player.link = "open"
  /\ Spend("media")
  /\ up' = Tail(up)
  /\ \E a \in OtherReply(Head(up)) : down' = down \o a
  /\ UNCHANGED <<scene, player, session, live, made, heard, torn>>

OtherSends ==
  /\ ~Server /\ session.open /\ player.link = "open" /\ Spend("media")
  /\ \E f \in BOOLEAN : down' = Append(down, [t |-> "media", frame |-> f])
  /\ UNCHANGED <<scene, player, session, up, live, made, heard, torn>>

OtherCloses ==
  /\ ~Server /\ session.open
  /\ session' = [session EXCEPT !.open = FALSE]
  /\ UNCHANGED <<scene, player, up, down, live, made, left, heard, torn>>
-----------------------------------------------------------------------------
\* A client that sends what it likes, and one look-up at a time.
AnyRequest ==
  IF Rtsp
  THEN LET R(cmd, ids, is, os) == {[cmd |-> cmd, cseq |-> 10 - left.requests, session |-> s, track |-> i, over |-> o] :
                                      s \in ids, i \in is, o \in os}
           Ids == {0, session.session}
       IN  UNION { R("DESCRIBE", {0}, {0}, {"TCP"}), R("ANNOUNCE", {0}, {0}, {"TCP"}), R("RECORD", Ids, {0}, {"TCP"}),
                   R("SETUP", {0}, 1 .. Tracks, {"TCP", "UDP"}), R("PLAY", Ids, {0}, {"TCP"}),
                   R("PAUSE", Ids, {0}, {"TCP"}), R("POST", {0}, {0}, {"TCP"}),
                   IF session.over = "TCP" THEN R("media", {0}, {0}, {"TCP"}) ELSE {} }
  ELSE {[cmd |-> c, flag |-> FALSE, named |-> n] : c \in {"play", "publish"}, n \in BOOLEAN}
       \cup {[cmd |-> "pause", flag |-> f, named |-> TRUE] : f \in BOOLEAN}
       \cup {[cmd |-> c, flag |-> FALSE, named |-> TRUE] :
               c \in {"connect", "play2", "seek", "deleteStream", "setDataFrame", "media"}}

AnySends ==
  /\ ~Client /\ player.link = "open" /\ Spend("requests")
  /\ session.look = "no" \/ Rtsp
  /\ down = <<>> /\ Len(up) < 2
  /\ \E r \in AnyRequest :
       /\ r.cmd \in {"DESCRIBE", "play", "play2"} => session.look = "no" /\ up = <<>>
       /\ up' = Append(up, r)
  /\ UNCHANGED <<scene, player, session, down, live, made, heard, torn>>

AnyReads ==
  /\ ~Client /\ player.link = "open" /\ down # <<>>
  /\ down' = Tail(down) /\ heard' = Hear(heard, Head(down))
  /\ UNCHANGED <<scene, player, session, up, live, made, left, torn>>

AnyCloses ==
  /\ ~Client /\ player.link = "open"
  /\ player' = [player EXCEPT !.link = "closed"]
  /\ down' = <<>> /\ heard' = "none"
  /\ UNCHANGED <<scene, session, up, live, made, left, torn>>
-----------------------------------------------------------------------------
PlayerLoop  == Resolve \/ Connect \/ PlayerReads \/ PlayerEof
PlayerTimes == PlayTimer \/ RecvTimer
SessionLoop == SessionReads \/ SessionEof \/ LookFound \/ Detach \/ Manager

Next ==
  \/ UserPlay \/ UserPause \/ UserSeek \/ UserTeardown
  \/ PlayerLoop \/ NotConnected \/ PlayerTimes \/ BeatTimer
  \/ SessionLoop \/ LookTimeOut \/ AuthAnswers \/ Ages
  \/ SourceOn \/ SourceOff \/ SourceWrites
  \/ OtherAnswers \/ OtherSends \/ OtherCloses
  \/ AnySends \/ AnyReads \/ AnyCloses

Spec == Init /\ [][Next]_vars

\* The pollers of both sides go on, and time passes.
Fair ==
  /\ WF_vars(PlayerLoop) /\ WF_vars(PlayTimer) /\ WF_vars(RecvTimer)
  /\ WF_vars(SessionLoop) /\ WF_vars(LookTimeOut) /\ WF_vars(Ages)
FairSpec == Spec /\ Fair
-----------------------------------------------------------------------------
Outcomes == {"ok", "fail", "resume", "down"}

\* Type invariant: what the records of both sides and the messages may hold.
TypeOK ==
  /\ scene \in Scenes /\ live \in 0 .. made /\ made \in 0 .. MaxSource + 2
  /\ player.link \in {"none", "resolving", "connecting", "open", "closed"}
  /\ player.quiet \in 0 .. 2 /\ player.out = <<>> /\ player.told \in Seq(Outcomes)
  /\ session.open \in BOOLEAN /\ session.look \in {"no", "play", "publish", "wait", "posted"}
  /\ session.reader \in 0 .. made /\ session.out = <<>>
  /\ \A i \in DOMAIN down : down[i].t \in {"reply", "result", "status", "meta", "media", "dry"}
  /\ heard \in {"none", "playing", "paused"} /\ torn \in BOOLEAN

Says(what) == \E i \in DOMAIN player.told : player.told[i] = what

\* What the owner is told of a play (onPlayResult_l of both players) makes sense:
\* the result first and once, then perhaps resumptions, and the end last; nothing
\* follows a failure.  A play torn down before its name was resolved is beyond this
\* (its connection is made all the same), and so is one the owner operates early,
\* an RTSP play that ends while the tracks are still analysed, and an RTMP play
\* whose server calls the stream dry before it starts (onStreamDry).
OutcomesInOrder ==
  LET told == player.told
  IN  \/ player.stray \/ scene.hasty \/ told = <<>>
      \/ told = <<"fail">>
      \/ /\ told[1] = "ok"
         /\ \A i \in 2 .. Len(told) : told[i] \in {"resume", "down"} /\ (told[i] = "down" => i = Len(told))
      \/ ((Rtsp /\ scene.sdp = "some") \/ (~Rtsp /\ ~Server)) /\ told = <<"down">>

\* A player that was torn down, or has given up, rests: nothing is armed that would
\* send or tell anything (teardown of both players).
RestsWhenDown ==
  Client /\ ~scene.hasty /\ player.link \in {"none", "closed"} =>
    /\ ~player.play /\ ~player.recv
    /\ ~Rtsp => ~player.beat /\ player.waiting = {} /\ player.statuses = <<>>

Careful == Client /\ ~scene.hasty /\ ~player.stray

\* The check of received packets follows the play: it is off once a pause was
\* acknowledged, so that a paused player is not told of a time-out, and on while
\* packets are expected.  A keep-alive whose reply was outstanding when the pause was
\* sent, or that was sent before the pause was acknowledged, shares its slot with the
\* pause (RtspPlayer::_on_response): that player is beyond this.
Outstanding == IF Rtsp THEN player.handler # "none" ELSE player.statuses # <<>>

WatchFollowsPlay ==
  Careful /\ Server /\ player.link = "open" /\ ~Outstanding /\ Says("ok") /\ (Rtsp => ~player.crossed) =>
    /\ heard = "paused" => ~player.recv
    /\ heard = "playing" => player.recv

\* A success is told only of a play the server has granted (onMediaData_l, which
\* waits for a frame, and handleResPAUSE), and a failure told while a message is
\* read has its cause in that message: no good answer makes a play fail.
Granted(m) == (m.t = "reply" => m.code = "200") /\ (m.t = "status" => m.level # "error")

TruthIsTold ==
  [][Careful /\ Server /\ (Rtsp => ~player.crossed) /\ PlayerReads /\ player'.told # player.told =>
       IF Last(player'.told) \in {"ok", "resume"} THEN heard' = "playing" ELSE ~Granted(Head(down))]_vars

\* Media is sent only after a play was answered and not after a pause was, in the
\* order the client reads it (handleReq_Play, handleReq_Pause, onCmd_pause).
MediaWhenPlaying ==
  \A i \in DOMAIN down :
    Server /\ down[i].t = "media" /\ down[i].frame =>
      FoldLeft(Hear, heard, SubSeq(down, 1, i - 1)) = "playing"

\* A reply carries the number of its request (sendRtspResponse), but for that of a
\* description that waited for its stream while other requests were answered.
RepliesAreNumbered ==
  \A i \in DOMAIN down :
    down[i].t = "reply" /\ down[i].cseq # down[i].to => down[i].cmd = "DESCRIBE" /\ ~Careful

\* Every play is decided: the owner is told the result or the end, unless it tore
\* the player down.
PlayIsDecided == (player.result /\ ~torn) ~> (~player.result \/ torn \/ Says("down"))

\* A session that reads a source which is gone, that never came to play or publish,
\* or whose publisher fell silent.
Useless ==
  /\ Server /\ session.open
  /\ \/ session.reader # 0 /\ session.reader # live
     \/ session.late /\ Idling
     \/ session.push /\ session.idle

\* The owner of a player is told once and in order, and a player that is done is
\* quiet (onPlayResult_l and teardown of both players).
PlayerTold == OutcomesInOrder /\ RestsWhenDown

\* Player, owner and session agree on what is played while requests, answers and media
\* overtake each other (handleResPAUSE, handleReq_Play, handleReq_Pause, onCmd_pause).
PlayInStep == PlayerTold /\ WatchFollowsPlay /\ MediaWhenPlaying /\ RepliesAreNumbered
=============================================================================
