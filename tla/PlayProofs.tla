----------------------------- MODULE PlayProofs -----------------------------
(***************************************************************************)
(* Theorems about Play for any scenes, tracks and sources: the owner of a  *)
(* player, over RTSP or RTMP, is told the outcome of its play once and in  *)
(* order, and a player that has given up rests.  The argument is an        *)
(* invariant of the player (RtspGood, RtmpGood) that ties what was told to *)
(* the state of the connection, the timers and the requests outstanding,   *)
(* kept by every call of the player, whatever the other side sends; for    *)
(* RTMP it also needs that this server never calls a stream dry, and so    *)
(* that its session sends only what it may (Clean).                        *)
(*                                                                         *)
(* Player and session also agree on what is played (InStep): the messages  *)
(* on their way take the player, from what it expects now, to what the     *)
(* session owes it for the requests it has yet to answer, and each of them *)
(* is one the player expects when it comes to it.  From that follow that   *)
(* the check of packets follows the play, that media is sent only while    *)
(* playing, and that the owner is told the truth.                          *)
(***************************************************************************)
EXTENDS Play, SequenceTheorems, SequenceFacts, TLAPS

\* The members of a player, by protocol.
BaseMembers == {"link", "play", "recv", "quiet", "result", "down", "told", "stray", "out"}
RtspMembers == BaseMembers \cup
  {"handler", "setup", "session", "cseq", "tracks", "realm", "over", "delegate", "analyse", "crossed"}
RtmpMembers == BaseMembers \cup {"named", "waiting", "statuses", "metadata", "paused", "beat"}

\* The connection is on its way or there.
Live == {"resolving", "connecting", "open"}
Links == Live \cup {"none", "closed"}

\* What the members hold that both players have.
Members(p, ms) ==
  /\ DOMAIN p = ms
  /\ p.link \in Links
  /\ p.play \in BOOLEAN /\ p.recv \in BOOLEAN /\ p.result \in BOOLEAN /\ p.down \in BOOLEAN
  /\ p.stray \in BOOLEAN

\* What may have been told: of a play that goes on, and of one that is over.
Ongoing == {<<>>, <<"ok">>, <<"ok", "resume">>}
Over == {<<"fail">>, <<"down">>, <<"ok", "down">>, <<"ok", "resume", "down">>}

\* A play that ends, or is redirected, has told nothing of an end yet.
Pending(p) == p.told \in Ongoing /\ (p.result => p.told = <<>>)

\* Nothing is armed without a connection.
Rests(p) == p.link \in {"none", "closed"} => ~p.play /\ ~p.recv

\* What was told agrees with the connection and with the callbacks: an end closes the
\* connection, and a play of which nothing was told owes the result.
Core(p) ==
  /\ p.told \in Ongoing \cup Over
  /\ p.told \in Over => p.link \in {"none", "closed"}
  /\ p.result => p.told \in {<<>>, <<"down">>}
  /\ p.told = <<>> /\ p.link \in Live => p.result

\* A description that does not tell all of the tracks.
Some == scene.sdp = "some"

\* An RTSP player once its delegate was made from the description.
RtspKnows(p) ==
  /\ Members(p, RtspMembers)
  /\ p.handler \in {"SETUP", "PLAY"} => p.delegate = scene.sdp

\* The invariant of an RTSP player.  While nothing was told the play timer runs, unless
\* the tracks are still analysed; only then may the end be all the owner is told.
RtspGood(p) ==
  /\ RtspKnows(p) /\ Rests(p)
  /\ ~p.stray =>
       /\ Core(p)
       /\ p.told = <<>> /\ p.link \in Live /\ ~p.play =>
            p.link = "open" /\ p.handler \in {"none", "KEEP"} /\ Some
       /\ p.told = <<>> => p.handler \notin {"PAUSE", "SEEK"}
       /\ p.told = <<>> /\ p.recv => Some
       /\ p.told = <<"down">> => Some

\* A sequence of one or two that grows.
LEMMA Grows ==
  ASSUME NEW S, NEW s \in Seq(S), NEW y \in S
  PROVE  /\ Append(s, y) \in Seq(S) /\ Len(Append(s, y)) = Len(s) + 1 /\ Append(s, y)[Len(s) + 1] = y
         /\ \A i \in 1 .. Len(s) : Append(s, y)[i] = s[i]
  BY AppendProperties

\* One thing after another.
LEMMA AppendSecond ==
  ASSUME NEW S, NEW x \in S, NEW y \in S
  PROVE  Append(<<x>>, y) = <<x, y>>
<1> DEFINE s == <<x>>   t == <<x, y>>   a == Append(s, y)
<1>1. s \in Seq(S) /\ Len(s) = 1 /\ s[1] = x
  OBVIOUS
<1>2. t \in Seq(S) /\ Len(t) = 2 /\ t[1] = x /\ t[2] = y
  OBVIOUS
<1> HIDE DEF s, t
<1>3. Len(s) + 1 = 2 /\ 1 \in 1 .. Len(s)
  BY <1>1
<1>4. /\ a \in Seq(S) /\ Len(a) = Len(s) + 1 /\ a[Len(s) + 1] = y
      /\ \A i \in 1 .. Len(s) : a[i] = s[i]
  BY <1>1, Grows
<1> HIDE DEF a
<1>5. Len(a) = 2 /\ a[1] = x /\ a[2] = y
  BY <1>1, <1>3, <1>4
<1>6. a = t
  BY <1>2, <1>4, <1>5, SeqEqual
<1> QED
  BY <1>6 DEF a, s, t

\* A third after two.
LEMMA AppendThird ==
  ASSUME NEW S, NEW x \in S, NEW y \in S, NEW z \in S
  PROVE  Append(<<x, y>>, z) = <<x, y, z>>
<1> DEFINE s == <<x, y>>   t == <<x, y, z>>   a == Append(s, z)
<1>1. s \in Seq(S) /\ Len(s) = 2 /\ s[1] = x /\ s[2] = y
  OBVIOUS
<1>2. t \in Seq(S) /\ Len(t) = 3 /\ t[1] = x /\ t[2] = y /\ t[3] = z
  OBVIOUS
<1> HIDE DEF s, t
<1>3. Len(s) + 1 = 3 /\ 1 \in 1 .. Len(s) /\ 2 \in 1 .. Len(s)
  BY <1>1
<1>4. /\ a \in Seq(S) /\ Len(a) = Len(s) + 1 /\ a[Len(s) + 1] = z
      /\ \A i \in 1 .. Len(s) : a[i] = s[i]
  <2>1. s \in Seq(S)
    BY <1>1
  <2> QED
    BY <2>1, Grows
<1> HIDE DEF a
<1>5. Len(a) = 3 /\ a[1] = x /\ a[2] = y /\ a[3] = z
  BY <1>1, <1>3, <1>4
<1>6. a = t
  BY <1>2, <1>4, <1>5, SeqEqual
<1> QED
  BY <1>6 DEF a, s, t

\* What is told, one thing after the other.
LEMMA Telling ==
  /\ Append(<<>>, "ok") = <<"ok">> /\ Append(<<>>, "fail") = <<"fail">> /\ Append(<<>>, "down") = <<"down">>
  /\ Append(<<"ok">>, "resume") = <<"ok", "resume">> /\ Append(<<"ok">>, "down") = <<"ok", "down">>
  /\ Append(<<"ok", "resume">>, "down") = <<"ok", "resume", "down">>
<1>1. Append(<<>>, "ok") = <<"ok">>
  OBVIOUS
<1>2. Append(<<>>, "fail") = <<"fail">>
  OBVIOUS
<1>3. Append(<<>>, "down") = <<"down">>
  OBVIOUS
<1>4. \A x, y \in Outcomes : Append(<<x>>, y) = <<x, y>>
  BY AppendSecond
<1>5. \A x, y, z \in Outcomes : Append(<<x, y>>, z) = <<x, y, z>>
  BY AppendThird
<1>6. "ok" \in Outcomes /\ "resume" \in Outcomes /\ "down" \in Outcomes
  BY DEF Outcomes
<1> QED
  BY <1>1, <1>2, <1>3, <1>4, <1>5, <1>6

\* OnResume, of what was told.
Resumed(s) == IF "resume" \in {s[i] : i \in DOMAIN s} THEN s ELSE Append(s, "resume")

\* A result, a resumption or the end, told of a play that goes on.
LEMMA Tells ==
  ASSUME NEW s \in Ongoing
  PROVE  /\ s = <<>> => Append(s, "ok") \in Ongoing \ {<<>>} /\ Append(s, "fail") \in Over \ {<<"down">>}
         /\ Append(s, "down") \in Over /\ (s = <<>> <=> Append(s, "down") = <<"down">>)
         /\ s # <<>> => Resumed(s) \in Ongoing \ {<<>>}
<1>1. CASE s = <<>>
  BY <1>1, Telling DEF Ongoing, Over
<1>2. CASE s = <<"ok">>
  <2>1. "resume" \notin {s[i] : i \in DOMAIN s}
    BY <1>2
  <2> QED
    BY <1>2, <2>1, Telling DEF Ongoing, Over, Resumed
<1>3. CASE s = <<"ok", "resume">>
  <2>1. "resume" \in {s[i] : i \in DOMAIN s}
    BY <1>3
  <2> QED
    BY <1>3, <2>1, Telling DEF Ongoing, Over, Resumed
<1> QED
  BY <1>1, <1>2, <1>3 DEF Ongoing

\* Going on is not over.
LEMMA Distinct ==
  /\ Ongoing \cap Over = {} /\ <<>> \in Ongoing /\ <<"down">> \in Over /\ <<>> # <<"down">>
  BY DEF Ongoing, Over

\* A new RTSP player.
LEMMA RtspStarts == ASSUME NEW o PROVE LET p == RtspP!NewRtspPlayer(o) IN
     /\ DOMAIN p = RtspMembers /\ p.link = "none" /\ p.told = <<>> /\ p.handler = "none"
     /\ p.play = FALSE /\ p.recv = FALSE /\ p.result = FALSE /\ p.down = FALSE /\ p.stray = FALSE
  BY DEF RtspP!NewRtspPlayer, RtspP!Derived, RtspP!NewPlayer, RtspMembers, BaseMembers

\* sendRtspRequest changes what is sent, and counts it.
LEMMA RtspSays ==
  ASSUME NEW p, NEW cmd, DOMAIN p = RtspMembers
  PROVE  LET q == RtspP!Request(p, cmd) IN
           /\ DOMAIN q = RtspMembers
           /\ \A m \in RtspMembers \ {"out", "cseq"} : q[m] = p[m]
  BY DEF RtspP!Request, RtspP!Say, RtspMembers, BaseMembers

\* A request fills the slot and leaves the play as it is.
LEMMA RtspAsks ==
  ASSUME NEW p, NEW handler, NEW cmd, DOMAIN p = RtspMembers
  PROVE  LET q == RtspP!Ask(p, handler, cmd) IN
           /\ DOMAIN q = RtspMembers /\ q.handler = handler
           /\ q.link = p.link /\ q.play = p.play /\ q.recv = p.recv /\ q.result = p.result /\ q.down = p.down
           /\ q.told = p.told /\ q.stray = p.stray /\ q.delegate = p.delegate /\ q.analyse = p.analyse
<1>0. PICK r : r = [p EXCEPT !.handler = handler, !.crossed = @ \/ p.handler # "none"]
  OBVIOUS
<1>1. /\ DOMAIN r = RtspMembers /\ r.handler = handler
      /\ \A m \in RtspMembers \ {"handler", "crossed"} : r[m] = p[m]
  BY <1>0 DEF RtspMembers, BaseMembers
<1> PICK q : q = RtspP!Request(r, cmd)
  OBVIOUS
<1>2. /\ DOMAIN q = RtspMembers
      /\ \A m \in RtspMembers \ {"out", "cseq"} : q[m] = r[m]
  BY <1>1, RtspSays
<1>3. q = RtspP!Ask(p, handler, cmd)
  BY <1>0 DEF RtspP!Ask
<1> QED
  BY <1>1, <1>2, <1>3 DEF RtspMembers, BaseMembers

\* RtspPlayer::teardown: nothing is armed, and the connection is closed if there is one.
LEMMA RtspTearsDown ==
  ASSUME NEW p, DOMAIN p = RtspMembers, p.link \in Links, p.stray \in BOOLEAN
  PROVE  LET q == RtspP!Teardown(p) IN
           /\ DOMAIN q = RtspMembers /\ q.handler = "none" /\ q.play = FALSE /\ q.recv = FALSE
           /\ q.link = IF p.link \in {"connecting", "open"} THEN "closed" ELSE p.link
           /\ q.stray \in BOOLEAN /\ q.stray = (p.stray \/ p.link = "resolving")
           /\ q.result = p.result /\ q.down = p.down
           /\ q.told = p.told /\ q.delegate = p.delegate /\ q.analyse = p.analyse
<1> PICK r : r = IF RtspP!Alive(p) THEN RtspP!Hang(RtspP!Request(p, "TEARDOWN")) ELSE p
  OBVIOUS
<1>1. /\ DOMAIN r = RtspMembers
      /\ r.link = IF p.link \in {"connecting", "open"} THEN "closed" ELSE p.link
      /\ r.result = p.result /\ r.down = p.down /\ r.stray = p.stray
      /\ r.told = p.told /\ r.delegate = p.delegate /\ r.analyse = p.analyse
  <2> PICK s : s = RtspP!Request(p, "TEARDOWN")
    OBVIOUS
  <2>1. DOMAIN s = RtspMembers /\ \A m \in RtspMembers \ {"out", "cseq"} : s[m] = p[m]
    BY RtspSays
  <2> QED
    BY <2>1 DEF RtspP!Alive, RtspP!Hang, RtspMembers, BaseMembers
<1> QED
  BY <1>1 DEF RtspP!Teardown, RtspP!Stop, RtspMembers, BaseMembers, Links, Live

\* The owner is told of an end, or of a failure, and the player is torn down.
LEMMA RtspFails ==
  ASSUME NEW p, RtspKnows(p), NEW ex, ex \notin {"ok", "shutdown"}, NEW done \in BOOLEAN,
         ~p.stray => Pending(p) /\ (done /\ p.told = <<>> => Some)
  PROVE  RtspGood(RtspP!PlayResult_l(p, ex, done))
<1> PICK q : q = IF ~done THEN RtspP!PlayResult([p EXCEPT !.play = FALSE], ex) ELSE RtspP!OnShutdown(p)
  OBVIOUS
<1>1. /\ DOMAIN q = RtspMembers /\ q.link = p.link /\ q.stray = p.stray /\ q.down \in BOOLEAN
      /\ ~done => q.result = FALSE /\ q.told = IF p.result THEN Append(p.told, "fail") ELSE p.told
      /\ done => q.result = p.result /\ q.told = IF p.down THEN Append(p.told, "down") ELSE p.told
  BY DEF RtspP!PlayResult, RtspP!OnPlayResult, RtspP!OnShutdown, RtspKnows, Members, RtspMembers, BaseMembers
<1>2. p.link \in Links /\ p.stray \in BOOLEAN /\ p.result \in BOOLEAN
  BY DEF RtspKnows, Members
<1> PICK r : r = RtspP!Teardown(q)
  OBVIOUS
<1>3. /\ DOMAIN r = RtspMembers /\ r.handler = "none" /\ r.play = FALSE /\ r.recv = FALSE
      /\ r.link = IF q.link \in {"connecting", "open"} THEN "closed" ELSE q.link
      /\ r.stray \in BOOLEAN /\ r.stray = (q.stray \/ q.link = "resolving")
      /\ r.result = q.result /\ r.down = q.down /\ r.told = q.told
  BY <1>1, <1>2, RtspTearsDown
<1>4. r = RtspP!PlayResult_l(p, ex, done)
  BY DEF RtspP!PlayResult_l
<1>5. RtspKnows(r) /\ Rests(r)
  BY <1>1, <1>2, <1>3 DEF RtspKnows, Members, Rests, Links, Live
<1>6. ASSUME ~r.stray
      PROVE  /\ r.link \in {"none", "closed"} /\ r.told \in Ongoing \cup Over
             /\ r.result => r.told \in {<<>>, <<"down">>}
             /\ r.told = <<"down">> => Some
  <2>1. ~p.stray /\ r.link \in {"none", "closed"}
    BY <1>1, <1>2, <1>3, <1>6 DEF Links, Live
  <2>2. p.told \in Ongoing /\ (p.result => p.told = <<>>) /\ (done /\ p.told = <<>> => Some)
    BY <2>1 DEF Pending
  <2>3. CASE ~done
    BY <1>1, <1>2, <1>3, <2>1, <2>2, <2>3, Tells, Distinct
  <2>4. CASE done
    BY <1>1, <1>2, <1>3, <2>1, <2>2, <2>4, Tells, Distinct
  <2> QED
    BY <2>3, <2>4
<1>7. r.link \in {"none", "closed"} => r.link \notin Live
  BY DEF Live
<1> QED
  BY <1>3, <1>4, <1>5, <1>6, <1>7 DEF RtspGood, Core

\* A player in the middle of a call while it is connected.
RtspReady(p) ==
  /\ RtspKnows(p) /\ p.link = "open"
  /\ ~p.stray => /\ Pending(p)
                 /\ p.told = <<>> => p.result /\ (p.recv \/ ~p.play => Some)

\* Nothing was told since the play was asked for: the timer runs.
Playing(p) == ~p.stray /\ p.told = <<>> => p.play

\* A success, of the play or of a resumption.
LEMMA RtspSucceeds ==
  ASSUME NEW p, RtspReady(p), Playing(p), p.handler = "none", scene.sdp \in {"all", "some"},
         ~p.stray /\ p.told = <<>> => p.delegate = scene.sdp
  PROVE  RtspGood(RtspP!PlayResult_l(p, "ok", ~p.play))
<1>1. /\ DOMAIN p = RtspMembers /\ p.link = "open" /\ p.play \in BOOLEAN /\ p.recv \in BOOLEAN
      /\ p.result \in BOOLEAN /\ p.stray \in BOOLEAN /\ p.down \in BOOLEAN
  BY DEF RtspReady, RtspKnows, Members
<1> PICK q : q = IF p.play THEN RtspP!PlayResult([p EXCEPT !.play = FALSE], "ok") ELSE RtspP!OnResume(p)
  OBVIOUS
<1>2. /\ DOMAIN q = RtspMembers /\ q.link = p.link /\ q.stray = p.stray /\ q.down = p.down
      /\ q.handler = p.handler /\ q.play = FALSE /\ q.result \in BOOLEAN /\ (q.result => p.result)
  BY <1>1 DEF RtspP!PlayResult, RtspP!OnPlayResult, RtspP!OnResume, RtspMembers, BaseMembers
<1>3. p.play => IF p.delegate = "all" /\ p.result THEN ~q.result /\ q.told = Append(p.told, "ok")
                ELSE q.result = p.result /\ q.told = p.told
  BY <1>1 DEF RtspP!PlayResult, RtspP!OnPlayResult, RtspMembers, BaseMembers
<1>4. ~p.play => q.told = Resumed(p.told)
  BY <1>1 DEF RtspP!OnResume, Resumed, RtspMembers, BaseMembers
<1> PICK r : r = [q EXCEPT !.quiet = 0, !.recv = TRUE]
  OBVIOUS
<1>5. /\ DOMAIN r = RtspMembers /\ r.link = "open" /\ r.stray = p.stray /\ r.down = p.down
      /\ r.handler = "none" /\ r.play = FALSE /\ r.result = q.result /\ r.told = q.told /\ r.recv = TRUE
  BY <1>1, <1>2 DEF RtspMembers, BaseMembers
<1>6. r = RtspP!PlayResult_l(p, "ok", ~p.play)
  BY <1>1 DEF RtspP!PlayResult_l
<1>7. RtspKnows(r) /\ Rests(r)
  BY <1>1, <1>2, <1>5 DEF RtspKnows, Members, Rests, Links, Live
<1>8. ASSUME ~r.stray
      PROVE  r.told \in Ongoing /\ (r.result => r.told = <<>>) /\ (r.told = <<>> => Some /\ r.result)
  <2>1. /\ ~p.stray /\ p.told \in Ongoing /\ (p.result => p.told = <<>>)
        /\ p.told = <<>> => p.result /\ p.play /\ p.delegate = scene.sdp
    BY <1>5, <1>8 DEF RtspReady, Playing, Pending
  <2>2. CASE p.play
    <3>1. CASE p.delegate = "all" /\ p.result
      <4>1. ~r.result /\ r.told = Append(p.told, "ok") /\ p.told = <<>>
        BY <1>3, <1>5, <2>1, <2>2, <3>1
      <4>2. r.told \in Ongoing \ {<<>>}
        BY <2>1, <4>1, Tells
      <4> QED
        BY <4>1, <4>2
    <3>2. CASE ~(p.delegate = "all" /\ p.result)
      <4>1. r.result = p.result /\ r.told = p.told
        BY <1>3, <1>5, <2>2, <3>2
      <4>2. ASSUME p.told = <<>> PROVE p.result /\ scene.sdp = "some"
        BY <2>1, <3>2, <4>2
      <4> QED
        BY <2>1, <4>1, <4>2 DEF Some
    <3> QED
      BY <3>1, <3>2
  <2>3. CASE ~p.play
    <3>1. p.told # <<>> /\ ~q.result
      BY <1>1, <1>2, <2>1, <2>3
    <3>2. r.told \in Ongoing \ {<<>>}
      BY <1>4, <1>5, <2>1, <2>3, <3>1, Tells
    <3> QED
      BY <1>5, <3>1, <3>2
  <2> QED
    BY <1>1, <2>2, <2>3
<1> QED
  BY <1>5, <1>6, <1>7, <1>8, Distinct DEF RtspGood, Core, Live

\* The owner plays, or the server redirects the play.
LEMMA RtspPlays ==
  ASSUME NEW p, RtspKnows(p), ~p.stray => Pending(p) /\ (p.told = <<>> => p.result)
  PROVE  RtspGood(RtspP!Play(p, TRUE))
<1>1. p.link \in Links /\ p.stray \in BOOLEAN /\ p.result \in BOOLEAN /\ p.down \in BOOLEAN /\ DOMAIN p = RtspMembers
  BY DEF RtspKnows, Members
<1> PICK q : q = RtspP!Teardown(p)
  OBVIOUS
<1>2. /\ DOMAIN q = RtspMembers /\ q.handler = "none" /\ q.recv = FALSE
      /\ q.stray \in BOOLEAN /\ q.stray = (p.stray \/ p.link = "resolving")
      /\ q.result = p.result /\ q.down = p.down /\ q.told = p.told
  BY <1>1, RtspTearsDown
<1> PICK r : r = RtspP!StartConnect([q EXCEPT !.play = TRUE, !.crossed = FALSE])
  OBVIOUS
<1>3. /\ DOMAIN r = RtspMembers /\ r.handler = "none" /\ r.recv = FALSE /\ r.play = TRUE /\ r.link = "resolving"
      /\ r.stray = q.stray /\ r.result = q.result /\ r.down = q.down /\ r.told = q.told
  BY <1>2 DEF RtspP!StartConnect, RtspMembers, BaseMembers
<1>4. r = RtspP!Play(p, TRUE)
  BY DEF RtspP!Play
<1>5. RtspKnows(r) /\ Rests(r)
  BY <1>1, <1>2, <1>3 DEF RtspKnows, Members, Rests, Links, Live
<1>6. ~r.stray => r.told \in Ongoing /\ (r.result => r.told = <<>>) /\ (r.told = <<>> => r.result)
  BY <1>1, <1>2, <1>3 DEF Pending
<1> QED
  BY <1>3, <1>4, <1>5, <1>6, Distinct DEF RtspGood, Core

\* A connected player is ready for a call.
LEMMA RtspOpen ==
  ASSUME NEW p, RtspGood(p), p.link = "open"
  PROVE  RtspReady(p)
  BY Distinct DEF RtspGood, RtspReady, Core, Pending, Live

\* It fills the slot and sends.
LEMMA RtspAsking ==
  ASSUME NEW p, RtspReady(p), NEW h, NEW cmd, h \in {"SETUP", "PLAY"} => p.delegate = scene.sdp,
         h # "KEEP" => Playing(p), h \in {"PAUSE", "SEEK"} => p.stray \/ p.told # <<>>
  PROVE  RtspGood(RtspP!Ask(p, h, cmd))
<1> PICK q : q = RtspP!Ask(p, h, cmd)
  OBVIOUS
<1>1. /\ DOMAIN q = RtspMembers /\ q.handler = h
      /\ q.link = p.link /\ q.play = p.play /\ q.recv = p.recv /\ q.result = p.result /\ q.down = p.down
      /\ q.told = p.told /\ q.stray = p.stray /\ q.delegate = p.delegate
  BY RtspAsks DEF RtspReady, RtspKnows, Members
<1>2. RtspKnows(q) /\ Rests(q)
  BY <1>1 DEF RtspReady, RtspKnows, Members, Rests
<1>3. ASSUME ~q.stray
      PROVE  /\ Core(q)
             /\ q.told = <<>> /\ ~q.play => q.link = "open" /\ q.handler \in {"none", "KEEP"} /\ Some
             /\ q.told = <<>> => q.handler \notin {"PAUSE", "SEEK"}
             /\ q.told = <<>> /\ q.recv => Some
             /\ q.told # <<"down">>
  BY <1>1, <1>2, <1>3, Distinct DEF RtspReady, RtspKnows, Members, Core, Pending, Playing
<1> QED
  BY <1>2, <1>3 DEF RtspGood

\* A reply of the server while the play is set up.
LEMMA RtspResponds ==
  ASSUME NEW p, RtspReady(p), Playing(p), NEW m, NEW good, m.code = "200" => RtspGood(good)
  PROVE  RtspGood(RtspP!HandleResponse(p, m, good))
<1>1. /\ DOMAIN p = RtspMembers /\ p.link = "open" /\ p.play \in BOOLEAN
      /\ ~p.stray => Pending(p) /\ (p.told = <<>> => p.result /\ p.play)
  BY DEF RtspReady, RtspKnows, Members, Playing
<1>2. RtspGood(RtspP!SendOptions([p EXCEPT !.realm = TRUE]))
  <2> PICK q : q = [p EXCEPT !.realm = TRUE]
    OBVIOUS
  <2>1. RtspReady(q) /\ Playing(q)
    BY <1>1 DEF RtspReady, RtspKnows, Members, Playing, Pending, RtspMembers, BaseMembers
  <2> QED
    BY <2>1, RtspAsking DEF RtspP!SendOptions
<1>3. RtspGood(RtspP!Play(p, TRUE))
  BY <1>1, RtspPlays DEF RtspReady
<1>4. RtspGood(RtspP!Throw(p))
  BY <1>1, RtspFails DEF RtspP!Throw, RtspReady
<1> QED
  BY <1>2, <1>3, <1>4 DEF RtspP!HandleResponse

\* The same player but for what it counts, sends or forgets.
LEMMA RtspSame ==
  ASSUME NEW p, NEW q, RtspGood(p), DOMAIN q = RtspMembers, q.link = p.link, q.play = p.play,
         q.recv \in {p.recv, FALSE}, q.result = p.result, q.down = p.down, q.told = p.told, q.stray = p.stray,
         q.handler \in {p.handler, "none"}, q.delegate = p.delegate
  PROVE  RtspGood(q)
<1>1. RtspKnows(q) /\ Rests(q)
  BY DEF RtspGood, RtspKnows, Members, Rests
<1>2. ASSUME ~q.stray
      PROVE  /\ Core(q)
             /\ q.told = <<>> /\ q.link \in Live /\ ~q.play =>
                  q.link = "open" /\ q.handler \in {"none", "KEEP"} /\ Some
             /\ q.told = <<>> => q.handler \notin {"PAUSE", "SEEK"}
             /\ q.told = <<>> /\ q.recv => Some
             /\ q.told = <<"down">> => Some
  BY <1>2 DEF RtspGood, Core, RtspKnows, Members
<1> QED
  BY <1>1, <1>2 DEF RtspGood

\* onWholeRtspPacket
LEMMA RtspReplies ==
  ASSUME NEW p, RtspGood(p), p.link = "open", NEW m, scene.sdp \in {"all", "some"}
  PROVE  RtspGood(RtspP!OnReply(p, m, scene.sdp))
<1>0. DOMAIN p = RtspMembers /\ p.play \in BOOLEAN /\ p.stray \in BOOLEAN
  BY DEF RtspGood, RtspKnows, Members
<1> PICK q : q = [p EXCEPT !.handler = "none"]
  OBVIOUS
<1>1. /\ DOMAIN q = RtspMembers /\ q.handler = "none"
      /\ \A f \in RtspMembers \ {"handler"} : q[f] = p[f]
  BY <1>0 DEF RtspMembers, BaseMembers
<1>2. /\ q.link = p.link /\ q.play = p.play /\ q.recv = p.recv /\ q.result = p.result /\ q.down = p.down
      /\ q.told = p.told /\ q.stray = p.stray /\ q.delegate = p.delegate
  BY <1>1 DEF RtspMembers, BaseMembers
<1>3. RtspGood(q)
  BY <1>1, <1>2, RtspSame
<1>4. RtspReady(q)
  BY <1>2, <1>3, RtspOpen
<1>5. p.handler \notin {"none", "KEEP"} => Playing(q)
  BY <1>2 DEF RtspGood, Playing, Live
<1>6. CASE p.handler = "OPTIONS"
  <2>1. RtspGood(RtspP!SendDescribe(q))
    BY <1>4, <1>5, <1>6, RtspAsking DEF RtspP!SendDescribe
  <2> QED
    BY <1>4, <1>5, <1>6, <2>1, RtspResponds DEF RtspP!OnReply
<1>7. CASE p.handler = "DESCRIBE"
  <2>1. RtspGood(RtspP!SendSetup([q EXCEPT !.tracks = Tracks, !.delegate = scene.sdp], 1))
    <3> PICK r : r = [[q EXCEPT !.tracks = Tracks, !.delegate = scene.sdp] EXCEPT !.setup = 1]
      OBVIOUS
    <3>1. /\ DOMAIN r = RtspMembers /\ r.delegate = scene.sdp /\ r.link = q.link /\ r.play = q.play
          /\ r.recv = q.recv /\ r.result = q.result /\ r.down = q.down /\ r.told = q.told /\ r.stray = q.stray
      BY <1>1 DEF RtspMembers, BaseMembers
    <3>2. RtspReady(r) /\ Playing(r)
      BY <1>4, <1>5, <1>7, <3>1 DEF RtspReady, RtspKnows, Members, Pending, Playing
    <3> QED
      BY <3>1, <3>2, RtspAsking DEF RtspP!SendSetup
  <2> QED
    BY <1>4, <1>5, <1>7, <2>1, RtspResponds DEF RtspP!OnReply, RtspP!HandleResDESCRIBE
<1>8. CASE p.handler = "SETUP"
  <2>1. RtspGood(RtspP!Throw(q))
    BY <1>2, <1>4, <1>5, <1>8, <1>0, RtspFails DEF RtspP!Throw, RtspReady, Playing
  <2> PICK r : r = IF q.setup = 1 THEN [q EXCEPT !.session = m.session] ELSE q
    OBVIOUS
  <2>2. /\ DOMAIN r = RtspMembers /\ r.delegate = scene.sdp /\ r.link = q.link /\ r.play = q.play
        /\ r.recv = q.recv /\ r.result = q.result /\ r.down = q.down /\ r.told = q.told /\ r.stray = q.stray
    BY <1>1, <1>2, <1>8 DEF RtspMembers, BaseMembers, RtspGood, RtspKnows
  <2>3. RtspReady(r) /\ Playing(r)
    BY <1>4, <1>5, <1>8, <2>2 DEF RtspReady, RtspKnows, Members, Pending, Playing
  <2>4. RtspGood(RtspP!SendPause(r, "PLAY"))
    BY <2>2, <2>3, RtspAsking DEF RtspP!SendPause
  <2>5. RtspGood(RtspP!SendSetup(r, q.setup + 1))
    <3> PICK s : s = [r EXCEPT !.setup = q.setup + 1]
      OBVIOUS
    <3>1. /\ DOMAIN s = RtspMembers /\ s.delegate = scene.sdp /\ s.link = r.link /\ s.play = r.play
          /\ s.recv = r.recv /\ s.result = r.result /\ s.down = r.down /\ s.told = r.told /\ s.stray = r.stray
      BY <2>2 DEF RtspMembers, BaseMembers
    <3>2. RtspReady(s) /\ Playing(s)
      BY <2>3, <3>1 DEF RtspReady, RtspKnows, Members, Pending, Playing
    <3> QED
      BY <3>1, <3>2, RtspAsking DEF RtspP!SendSetup
  <2>6. RtspGood(RtspP!HandleResSETUP(q, m))
    BY <2>1, <2>4, <2>5 DEF RtspP!HandleResSETUP
  <2> QED
    BY <1>8, <2>6 DEF RtspP!OnReply
<1>9. CASE p.handler \in {"PLAY", "PAUSE", "SEEK"}
  <2>1. RtspGood(RtspP!PlayResult_l(q, "shutdown", ~q.play))
    BY <1>3 DEF RtspP!PlayResult_l
  <2>2. RtspGood([q EXCEPT !.recv = FALSE])
    <3> PICK r : r = [q EXCEPT !.recv = FALSE]
      OBVIOUS
    <3>1. /\ DOMAIN r = RtspMembers /\ r.delegate = q.delegate /\ r.link = q.link /\ r.play = q.play
          /\ r.recv = FALSE /\ r.result = q.result /\ r.down = q.down /\ r.told = q.told /\ r.stray = q.stray
          /\ r.handler = q.handler
      BY <1>1 DEF RtspMembers, BaseMembers
    <3> QED
      BY <1>3, <3>1, RtspSame
  <2>3. RtspGood(RtspP!PlayResult_l(q, "ok", ~q.play))
    <3>1. ~q.stray /\ q.told = <<>> => q.delegate = scene.sdp
      BY <1>2, <1>9 DEF RtspGood, RtspKnows
    <3> QED
      BY <1>1, <1>4, <1>5, <1>9, <3>1, RtspSucceeds
  <2>4. RtspGood(RtspP!HandleResPAUSE(q, m, p.handler))
    BY <1>3, <2>1, <2>2, <2>3 DEF RtspP!HandleResPAUSE
  <2> QED
    BY <1>9, <2>4 DEF RtspP!OnReply
<1>10. CASE p.handler \notin {"OPTIONS", "DESCRIBE", "SETUP", "PLAY", "PAUSE", "SEEK"}
  BY <1>3, <1>10 DEF RtspP!OnReply
<1> QED
  BY <1>6, <1>7, <1>8, <1>9, <1>10

\* onRtpSorted and onRecvRTP_l
LEMMA RtspMedia ==
  ASSUME NEW p, RtspGood(p), p.link = "open", NEW done \in BOOLEAN, NEW beat \in BOOLEAN
  PROVE  RtspGood(RtspP!OnRtp(p, done, beat))
<1>1. DOMAIN p = RtspMembers /\ p.result \in BOOLEAN
  BY DEF RtspGood, RtspKnows, Members
<1>2. PICK q : q = [p EXCEPT !.quiet = 0]
  OBVIOUS
<1>3. /\ DOMAIN q = RtspMembers /\ q.link = p.link /\ q.play = p.play /\ q.recv = p.recv /\ q.result = p.result
      /\ q.down = p.down /\ q.told = p.told /\ q.stray = p.stray /\ q.handler = p.handler /\ q.delegate = p.delegate
  BY <1>1, <1>2 DEF RtspMembers, BaseMembers
<1>4. RtspGood(q)
  BY <1>3, RtspSame
<1>5. PICK r : r = IF q.analyse /\ done THEN [RtspP!OnPlayResult(q, "ok") EXCEPT !.analyse = FALSE] ELSE q
  OBVIOUS
<1>6. /\ DOMAIN r = RtspMembers /\ r.link = q.link /\ r.play = q.play /\ r.recv = q.recv
      /\ r.down = q.down /\ r.stray = q.stray /\ r.handler = q.handler /\ r.delegate = q.delegate
  BY <1>1, <1>3, <1>5 DEF RtspP!OnPlayResult, RtspMembers, BaseMembers
<1>7. \/ r.told = q.told /\ r.result = q.result
      \/ q.result /\ r.told = Append(q.told, "ok") /\ r.result = FALSE
  BY <1>1, <1>3, <1>5 DEF RtspP!OnPlayResult, RtspMembers, BaseMembers
<1>8. RtspGood(r)
  <2>1. CASE r.told = q.told /\ r.result = q.result
    BY <1>4, <1>6, <2>1, RtspSame
  <2>2. CASE q.result /\ r.told = Append(q.told, "ok") /\ r.result = FALSE
    <3>1. RtspKnows(r) /\ Rests(r)
      BY <1>4, <1>6, <2>2 DEF RtspGood, RtspKnows, Members, Rests
    <3>2. ~r.stray => r.told \in Ongoing \ {<<>>}
      BY <1>3, <1>4, <1>6, <2>2, Tells, Distinct, RtspOpen DEF RtspReady, Pending
    <3>3. ~r.stray => Core(r) /\ r.told # <<>> /\ r.told # <<"down">>
      <4>1. r.result = FALSE
        BY <2>2
      <4> QED
        BY <3>2, <4>1, Distinct DEF Core
    <3> QED
      BY <3>1, <3>3 DEF RtspGood
  <2> QED
    BY <1>7, <2>1, <2>2
<1>9. RtspGood(RtspP!SendKeepAlive(r))
  BY <1>3, <1>6, <1>8, RtspOpen, RtspAsking DEF RtspP!SendKeepAlive
<1>10. RtspP!OnRtp(p, done, beat) = IF beat THEN RtspP!SendKeepAlive(r) ELSE r
  BY <1>2, <1>5 DEF RtspP!OnRtp
<1> QED
  BY <1>8, <1>9, <1>10

\* The connection is refused, or ends.
LEMMA RtspCloses ==
  ASSUME NEW p, RtspGood(p), p.link \in Live
  PROVE  /\ RtspGood(RtspP!OnErr(p, "eof"))
         /\ RtspGood(RtspP!OnConnect([p EXCEPT !.link = "closed"], FALSE))
<1> PICK q : q = [p EXCEPT !.link = "closed"]
  OBVIOUS
<1>1. RtspKnows(q) /\ q.stray = p.stray /\ q.told = p.told /\ q.result = p.result /\ p.play \in BOOLEAN
  BY DEF RtspGood, RtspKnows, Members, RtspMembers, BaseMembers, Links
<1>2. ~q.stray => Pending(q) /\ (~p.play /\ q.told = <<>> => Some)
  BY <1>1, Distinct DEF RtspGood, Core, Pending, Live
<1>3. RtspGood(RtspP!PlayResult_l(q, "eof", ~p.play))
  BY <1>1, <1>2, RtspFails
<1>4. RtspGood(RtspP!PlayResult_l(q, "other", FALSE))
  BY <1>1, <1>2, RtspFails
<1> QED
  BY <1>3, <1>4 DEF RtspP!OnErr, RtspP!Hang, RtspP!OnConnect

\* The name is resolved, and the connection made.
LEMMA RtspConnects ==
  ASSUME NEW p, RtspGood(p)
  PROVE  /\ p.link = "resolving" => RtspGood([p EXCEPT !.link = "connecting"])
         /\ p.link = "connecting" => RtspGood(RtspP!OnConnect([p EXCEPT !.link = "open"], TRUE))
<1>0. DOMAIN p = RtspMembers
  BY DEF RtspGood, RtspKnows, Members
<1>1. ASSUME p.link = "resolving" PROVE RtspGood([p EXCEPT !.link = "connecting"])
  <2> PICK q : q = [p EXCEPT !.link = "connecting"]
    OBVIOUS
  <2>1. /\ DOMAIN q = RtspMembers /\ q.link = "connecting" /\ q.play = p.play /\ q.recv = p.recv /\ q.result = p.result
        /\ q.down = p.down /\ q.told = p.told /\ q.stray = p.stray /\ q.handler = p.handler /\ q.delegate = p.delegate
    BY <1>0 DEF RtspMembers, BaseMembers
  <2>2. RtspKnows(q) /\ Rests(q)
    BY <2>1 DEF RtspGood, RtspKnows, Members, Rests, Links, Live
  <2> QED
    BY <1>1, <2>1, <2>2 DEF RtspGood, Core, Live
<1>2. ASSUME p.link = "connecting" PROVE RtspGood(RtspP!OnConnect([p EXCEPT !.link = "open"], TRUE))
  <2> PICK q : q = [p EXCEPT !.link = "open"]
    OBVIOUS
  <2>1. /\ DOMAIN q = RtspMembers /\ q.link = "open" /\ q.play = p.play /\ q.recv = p.recv /\ q.result = p.result
        /\ q.down = p.down /\ q.told = p.told /\ q.stray = p.stray /\ q.handler = p.handler /\ q.delegate = p.delegate
    BY <1>0 DEF RtspMembers, BaseMembers
  <2>2. RtspReady(q) /\ Playing(q)
    BY <1>2, <2>1, Distinct DEF RtspGood, RtspKnows, Members, RtspReady, Playing, Core, Pending, Links, Live
  <2> QED
    BY <2>2, RtspAsking DEF RtspP!OnConnect, RtspP!SendOptions
<1> QED
  BY <1>1, <1>2

\* What the owner calls.
LEMMA RtspOwner ==
  ASSUME NEW p, RtspGood(p)
  PROVE  /\ \A legal \in BOOLEAN : RtspGood(RtspP!Play(RtspP!SetCallbacks(p), legal))
         /\ RtspGood(RtspP!Teardown(p))
         /\ p.link = "open" /\ p.told # <<>> =>
              (\A flag \in BOOLEAN : RtspGood(RtspP!Pause(p, flag))) /\ RtspGood(RtspP!Seek(p))
<1>1. ASSUME NEW legal \in BOOLEAN PROVE RtspGood(RtspP!Play(RtspP!SetCallbacks(p), legal))
  <2> PICK q : q = RtspP!SetCallbacks(p)
    OBVIOUS
  <2>1. RtspKnows(q) /\ q.told = <<>> /\ q.result
    BY DEF RtspP!SetCallbacks, RtspGood, RtspKnows, Members, RtspMembers, BaseMembers
  <2>2. Pending(q)
    BY <2>1, Distinct DEF Pending
  <2>3. RtspGood(RtspP!Play(q, TRUE))
    BY <2>1, <2>2, RtspPlays
  <2>4. RtspGood(RtspP!Play(q, FALSE))
    BY <2>1, <2>2, RtspFails DEF RtspP!Play
  <2> QED
    BY <2>3, <2>4
<1>2. RtspGood(RtspP!Teardown(p))
  <2> PICK q : q = RtspP!Teardown(p)
    OBVIOUS
  <2>0. DOMAIN p = RtspMembers /\ p.link \in Links /\ p.stray \in BOOLEAN
    BY DEF RtspGood, RtspKnows, Members
  <2>1. /\ DOMAIN q = RtspMembers /\ q.handler = "none" /\ q.play = FALSE /\ q.recv = FALSE
        /\ q.link = IF p.link \in {"connecting", "open"} THEN "closed" ELSE p.link
        /\ q.stray \in BOOLEAN /\ q.stray = (p.stray \/ p.link = "resolving")
        /\ q.result = p.result /\ q.down = p.down /\ q.told = p.told
    BY <2>0, RtspTearsDown
  <2>2. RtspKnows(q) /\ Rests(q)
    BY <2>0, <2>1 DEF RtspGood, RtspKnows, Members, Rests, Links, Live
  <2>3. ~q.stray => ~p.stray /\ q.link \in {"none", "closed"}
    BY <2>0, <2>1 DEF Links, Live
  <2> QED
    BY <2>1, <2>2, <2>3 DEF RtspGood, Core, Live
<1>3. ASSUME p.link = "open", p.told # <<>>, NEW type \in {"PAUSE", "SEEK"}
      PROVE  RtspGood(RtspP!SendPause(p, type))
  BY <1>3, RtspOpen, RtspAsking DEF RtspP!SendPause, Playing
<1> QED
  BY <1>1, <1>2, <1>3 DEF RtspP!Pause, RtspP!Seek

\* The play timer, and the check of received packets.
LEMMA RtspTimes ==
  ASSUME NEW p, RtspGood(p), NEW late \in BOOLEAN
  PROVE  /\ p.play => RtspGood(RtspP!PlayTimer(p))
         /\ p.recv => RtspGood(RtspP!RecvTimer(p, late))
<1>1. DOMAIN p = RtspMembers /\ p.link \in Links
  BY DEF RtspGood, RtspKnows, Members
<1>2. (p.play \/ p.recv) /\ ~p.stray => Pending(p) /\ (p.told = <<>> /\ p.recv => Some)
  BY <1>1, Distinct DEF RtspGood, Rests, Core, Pending, Links
<1>3. ASSUME p.play PROVE RtspGood(RtspP!PlayTimer(p))
  <2> PICK q : q = [p EXCEPT !.play = FALSE]
    OBVIOUS
  <2>1. RtspKnows(q) /\ q.stray = p.stray /\ q.told = p.told /\ q.result = p.result
    BY DEF RtspGood, RtspKnows, Members, RtspMembers, BaseMembers
  <2>2. ~q.stray => Pending(q)
    BY <1>2, <1>3, <2>1 DEF Pending
  <2> QED
    BY <2>1, <2>2, RtspFails DEF RtspP!PlayTimer
<1>4. ASSUME p.recv PROVE RtspGood(RtspP!RecvTimer(p, late))
  <2>1. RtspGood(RtspP!PlayResult_l(p, "timeout", TRUE))
    BY <1>2, <1>4, RtspFails DEF RtspGood
  <2>2. RtspGood([p EXCEPT !.quiet = @ + 1])
    <3> PICK q : q = [p EXCEPT !.quiet = @ + 1]
      OBVIOUS
    <3>1. /\ DOMAIN q = RtspMembers /\ q.link = p.link /\ q.play = p.play /\ q.recv = p.recv /\ q.result = p.result
          /\ q.down = p.down /\ q.told = p.told /\ q.stray = p.stray /\ q.handler = p.handler
          /\ q.delegate = p.delegate
      BY <1>1 DEF RtspMembers, BaseMembers
    <3> QED
      BY <3>1, RtspSame
  <2> QED
    BY <2>1, <2>2 DEF RtspP!RecvTimer
<1> QED
  BY <1>3, <1>4
-----------------------------------------------------------------------------
\* The functions in _deque_on_status.
Expected == {"play", "pause", "resume", "seek"}

\* What the members of an RTMP player hold.
RtmpKnows(p) ==
  /\ Members(p, RtmpMembers)
  /\ p.waiting \subseteq {"connect", "createStream"} /\ p.statuses \in Seq(Expected)

\* Nothing is armed or expected without a connection.
RtmpRests(p) ==
  p.link \in {"none", "closed"} =>
    ~p.play /\ ~p.recv /\ p.beat = FALSE /\ p.waiting = {} /\ p.statuses = <<>>

\* The invariant of an RTMP player: while nothing was told the play timer runs, nothing
\* but the play is expected, and packets are not checked.
RtmpGood(p) ==
  /\ RtmpKnows(p) /\ RtmpRests(p)
  /\ ~p.stray =>
       /\ Core(p)
       /\ p.told = <<>> /\ p.link \in Live => p.play
       /\ p.told = <<>> => p.statuses \in Seq({"play"}) /\ ~p.recv
       /\ p.told = <<"down">> => ~Server

\* A new RTMP player.
LEMMA RtmpStarts ==
  LET p == RtmpP!NewRtmpPlayer
  IN  /\ DOMAIN p = RtmpMembers /\ p.link = "none" /\ p.told = <<>> /\ p.waiting = {} /\ p.statuses = <<>>
      /\ p.play = FALSE /\ p.recv = FALSE /\ p.result = FALSE /\ p.down = FALSE /\ p.stray = FALSE /\ p.beat = FALSE
  BY DEF RtmpP!NewRtmpPlayer, RtmpP!Derived, RtmpP!NewPlayer, RtmpMembers, BaseMembers

\* A command is all that is sent.
LEMMA RtmpSays ==
  ASSUME NEW p, NEW cmd, NEW flag, DOMAIN p = RtmpMembers
  PROVE  LET q == RtmpP!Command(p, cmd, flag) IN
           DOMAIN q = RtmpMembers /\ \A f \in RtmpMembers \ {"out"} : q[f] = p[f]
  BY DEF RtmpP!Command, RtmpP!Say, RtmpMembers, BaseMembers

\* RtmpPlayer::teardown: nothing is armed or expected.
LEMMA RtmpTearsDown ==
  ASSUME NEW p, DOMAIN p = RtmpMembers, p.link \in Links, p.stray \in BOOLEAN
  PROVE  LET q == RtmpP!Teardown(p) IN
           /\ DOMAIN q = RtmpMembers /\ q.play = FALSE /\ q.recv = FALSE /\ q.beat = FALSE
           /\ q.waiting = {} /\ q.statuses = <<>>
           /\ q.link = IF p.link \in {"connecting", "open"} THEN "closed" ELSE p.link
           /\ q.stray \in BOOLEAN /\ q.stray = (p.stray \/ p.link = "resolving")
           /\ q.result = p.result /\ q.down = p.down /\ q.told = p.told
<1>1. PICK r : r = IF RtmpP!Alive(p) THEN RtmpP!Hang(p) ELSE p
  OBVIOUS
<1>2. /\ DOMAIN r = RtmpMembers
      /\ r.link = IF p.link \in {"connecting", "open"} THEN "closed" ELSE p.link
      /\ r.result = p.result /\ r.down = p.down /\ r.stray = p.stray /\ r.told = p.told
  BY <1>1 DEF RtmpP!Alive, RtmpP!Hang, RtmpMembers, BaseMembers
<1>3. PICK s : s = RtmpP!Stop(r)
  OBVIOUS
<1>4. /\ DOMAIN s = RtmpMembers /\ s.play = FALSE /\ s.recv = FALSE /\ s.link = r.link
      /\ s.stray = (r.stray \/ r.link = "resolving") /\ s.result = r.result /\ s.down = r.down /\ s.told = r.told
  BY <1>2, <1>3 DEF RtmpP!Stop, RtmpMembers, BaseMembers
<1>5. RtmpP!Teardown(p) = [s EXCEPT !.named = FALSE, !.beat = FALSE, !.waiting = {}, !.statuses = <<>>]
  BY <1>1, <1>3 DEF RtmpP!Teardown
<1>6. s.stray \in BOOLEAN /\ s.stray = (p.stray \/ p.link = "resolving")
  BY <1>2, <1>4 DEF Links, Live
<1> QED
  BY <1>2, <1>4, <1>5, <1>6 DEF RtmpMembers, BaseMembers

\* The owner is told of an end, or of a failure, and the player is torn down.
LEMMA RtmpFails ==
  ASSUME NEW p, RtmpKnows(p), NEW ex, ex \notin {"ok", "shutdown"}, NEW done \in BOOLEAN,
         ~p.stray => Pending(p) /\ (done /\ p.told = <<>> => ~Server)
  PROVE  RtmpGood(RtmpP!PlayResult_l(p, ex, done))
<1>1. PICK q : q = IF ~done THEN RtmpP!OnPlayResult([p EXCEPT !.play = FALSE], ex) ELSE RtmpP!OnShutdown(p)
  OBVIOUS
<1>2. /\ DOMAIN q = RtmpMembers /\ q.link = p.link /\ q.stray = p.stray /\ q.down \in BOOLEAN
      /\ ~done => q.result = FALSE /\ q.told = IF p.result THEN Append(p.told, "fail") ELSE p.told
      /\ done => q.result = p.result /\ q.told = IF p.down THEN Append(p.told, "down") ELSE p.told
  BY <1>1 DEF RtmpP!OnPlayResult, RtmpP!OnShutdown, RtmpKnows, Members, RtmpMembers, BaseMembers
<1>3. p.link \in Links /\ p.stray \in BOOLEAN /\ p.result \in BOOLEAN
  BY DEF RtmpKnows, Members
<1>4. PICK r : r = RtmpP!Teardown(q)
  OBVIOUS
<1>5. /\ DOMAIN r = RtmpMembers /\ r.play = FALSE /\ r.recv = FALSE /\ r.beat = FALSE
      /\ r.waiting = {} /\ r.statuses = <<>>
      /\ r.link = IF q.link \in {"connecting", "open"} THEN "closed" ELSE q.link
      /\ r.stray \in BOOLEAN /\ r.stray = (q.stray \/ q.link = "resolving")
      /\ r.result = q.result /\ r.down = q.down /\ r.told = q.told
  BY <1>2, <1>3, <1>4, RtmpTearsDown
<1>6. r = RtmpP!PlayResult_l(p, ex, done)
  BY <1>1, <1>4 DEF RtmpP!PlayResult_l
<1>7. RtmpKnows(r) /\ RtmpRests(r) /\ r.statuses \in Seq({"play"})
  <2>1. r.statuses \in Seq({"play"}) /\ r.statuses \in Seq(Expected)
    BY <1>5
  <2>2. Members(r, RtmpMembers)
    BY <1>2, <1>3, <1>5 DEF Members, Links, Live
  <2> QED
    BY <1>5, <2>1, <2>2 DEF RtmpKnows, RtmpRests
<1>8. ASSUME ~r.stray
      PROVE  /\ r.link \in {"none", "closed"} /\ r.told \in Ongoing \cup Over
             /\ r.result => r.told \in {<<>>, <<"down">>}
             /\ r.told = <<"down">> => ~Server
  <2>1. ~p.stray /\ r.link \in {"none", "closed"}
    BY <1>2, <1>3, <1>5, <1>8 DEF Links, Live
  <2>2. p.told \in Ongoing /\ (p.result => p.told = <<>>) /\ (done /\ p.told = <<>> => ~Server)
    BY <2>1 DEF Pending
  <2>3. CASE ~done
    BY <1>2, <1>3, <1>5, <2>1, <2>2, <2>3, Tells, Distinct
  <2>4. CASE done
    BY <1>2, <1>3, <1>5, <2>1, <2>2, <2>4, Tells, Distinct
  <2> QED
    BY <2>3, <2>4
<1>9. r.link \in {"none", "closed"} => r.link \notin Live
  BY DEF Live
<1> QED
  BY <1>5, <1>6, <1>7, <1>8, <1>9 DEF RtmpGood, Core

\* What a connected player knows.
LEMMA RtmpOpen ==
  ASSUME NEW p, p.link = "open"
  PROVE  RtmpGood(p) <=> /\ RtmpKnows(p)
                         /\ ~p.stray => /\ Pending(p)
                                        /\ p.told = <<>> => /\ p.result /\ p.play /\ ~p.recv
                                                            /\ p.statuses \in Seq({"play"})
  BY Distinct DEF RtmpGood, RtmpRests, Core, Pending, Live

\* The first frame, or the answer to a resumption.
LEMMA RtmpSucceeds ==
  ASSUME NEW p, RtmpGood(p), p.link = "open", NEW done \in BOOLEAN, done => p.stray \/ p.told # <<>>
  PROVE  RtmpGood(RtmpP!PlayResult_l(p, "ok", done))
<1>1. /\ DOMAIN p = RtmpMembers /\ p.play \in BOOLEAN /\ p.result \in BOOLEAN /\ p.stray \in BOOLEAN
      /\ ~p.stray => p.told \in Ongoing /\ (p.result <=> p.told = <<>>)
  BY RtmpOpen DEF RtmpGood, RtmpKnows, Members, Pending
<1>2. PICK q : q = IF ~done THEN RtmpP!OnPlayResult([p EXCEPT !.play = FALSE], "ok") ELSE RtmpP!OnResume(p)
  OBVIOUS
<1>3. /\ DOMAIN q = RtmpMembers /\ q.link = p.link /\ q.stray = p.stray /\ q.down = p.down
      /\ q.waiting = p.waiting /\ q.statuses = p.statuses /\ q.beat = p.beat
      /\ q.play \in BOOLEAN /\ q.result \in BOOLEAN
  BY <1>1, <1>2 DEF RtmpP!OnPlayResult, RtmpP!OnResume, RtmpMembers, BaseMembers
<1>4. ~done => q.result = FALSE /\ q.told = IF p.result THEN Append(p.told, "ok") ELSE p.told
  BY <1>1, <1>2 DEF RtmpP!OnPlayResult, RtmpMembers, BaseMembers
<1>5. done => q.result = p.result /\ q.told = Resumed(p.told)
  BY <1>1, <1>2 DEF RtmpP!OnResume, Resumed, RtmpMembers, BaseMembers
<1>6. PICK r : r = [q EXCEPT !.quiet = 0, !.recv = TRUE]
  OBVIOUS
<1>7. /\ DOMAIN r = RtmpMembers /\ r.link = q.link /\ r.stray = q.stray /\ r.down = q.down
      /\ r.waiting = q.waiting /\ r.statuses = q.statuses
      /\ r.play = q.play /\ r.result = q.result /\ r.told = q.told /\ r.recv = TRUE
  BY <1>3, <1>6 DEF RtmpMembers, BaseMembers
<1>8. r = RtmpP!PlayResult_l(p, "ok", done)
  BY <1>2, <1>6 DEF RtmpP!PlayResult_l
<1>9. RtmpKnows(r)
  BY <1>3, <1>7 DEF RtmpGood, RtmpKnows, Members
<1>10. ASSUME ~r.stray PROVE r.told \in Ongoing \ {<<>>} /\ r.result = FALSE
  <2>1. ~p.stray /\ p.told \in Ongoing /\ (p.result <=> p.told = <<>>)
    BY <1>1, <1>3, <1>7, <1>10
  <2>2. CASE ~done
    BY <1>1, <1>4, <1>7, <2>1, <2>2, Tells
  <2>3. CASE done
    <3>1. p.told # <<>> /\ p.result = FALSE
      BY <1>1, <2>1, <2>3
    <3> QED
      BY <1>5, <1>7, <2>1, <2>3, <3>1, Tells
  <2> QED
    BY <2>2, <2>3
<1>11. r.link = "open" /\ (~r.stray => Pending(r) /\ r.told # <<>>)
  BY <1>3, <1>7, <1>10 DEF Pending
<1> QED
  BY <1>8, <1>9, <1>11, RtmpOpen

\* The same player but for what it counts, sends or expects.
LEMMA RtmpSame ==
  ASSUME NEW p, NEW q, RtmpGood(p), p.link = "open", DOMAIN q = RtmpMembers, q.link = p.link, q.play = p.play,
         q.recv \in {p.recv, FALSE}, q.result = p.result, q.down = p.down, q.told = p.told, q.stray = p.stray,
         q.waiting \subseteq {"connect", "createStream"}, q.statuses \in Seq(Expected),
         ~p.stray /\ p.told = <<>> => q.statuses \in Seq({"play"})
  PROVE  RtmpGood(q)
<1>1. RtmpKnows(q)
  BY DEF RtmpGood, RtmpKnows, Members
<1>2. ~q.stray => /\ Pending(q)
                  /\ q.told = <<>> => q.result /\ q.play /\ ~q.recv /\ q.statuses \in Seq({"play"})
  BY RtmpOpen DEF Pending
<1> QED
  BY <1>1, <1>2, RtmpOpen

\* onRecv catches what a callback throws.
LEMMA RtmpThrows ==
  ASSUME NEW p, RtmpGood(p), p.link = "open"
  PROVE  RtmpGood(RtmpP!Throw(p))
<1>1. RtmpKnows(p) /\ p.play \in BOOLEAN /\ (~p.stray => Pending(p) /\ (p.told = <<>> => p.play))
  BY RtmpOpen DEF RtmpKnows, Members
<1> QED
  BY <1>1, RtmpFails DEF RtmpP!Throw

\* Sending a command changes nothing else.
LEMMA RtmpCommands ==
  ASSUME NEW p, RtmpGood(p), p.link = "open", NEW cmd, NEW flag
  PROVE  RtmpGood(RtmpP!Command(p, cmd, flag))
<1>1. PICK q : q = RtmpP!Command(p, cmd, flag)
  OBVIOUS
<1>2. DOMAIN p = RtmpMembers /\ p.waiting \subseteq {"connect", "createStream"} /\ p.statuses \in Seq(Expected)
  BY DEF RtmpGood, RtmpKnows, Members
<1>3. DOMAIN q = RtmpMembers /\ \A f \in RtmpMembers \ {"out"} : q[f] = p[f]
  BY <1>1, <1>2, RtmpSays
<1>4. /\ q.link = p.link /\ q.play = p.play /\ q.recv = p.recv /\ q.result = p.result /\ q.down = p.down
      /\ q.told = p.told /\ q.stray = p.stray /\ q.waiting = p.waiting /\ q.statuses = p.statuses
  BY <1>3 DEF RtmpMembers, BaseMembers
<1>5. ~p.stray /\ p.told = <<>> => q.statuses \in Seq({"play"})
  BY <1>4 DEF RtmpGood
<1>6. RtmpGood(q)
  BY <1>2, <1>3, <1>4, <1>5, RtmpSame
<1> QED
  BY <1>1, <1>6

\* sendInvoke waits for one result more.
LEMMA RtmpInvokes ==
  ASSUME NEW p, RtmpGood(p), p.link = "open", NEW cmd \in {"connect", "createStream"}
  PROVE  RtmpGood(RtmpP!SendInvoke(p, cmd))
<1>1. PICK q : q = [p EXCEPT !.waiting = @ \cup {cmd}]
  OBVIOUS
<1>2. DOMAIN p = RtmpMembers /\ p.waiting \subseteq {"connect", "createStream"} /\ p.statuses \in Seq(Expected)
  BY DEF RtmpGood, RtmpKnows, Members
<1>3. /\ DOMAIN q = RtmpMembers
      /\ q.link = p.link /\ q.play = p.play /\ q.recv = p.recv /\ q.result = p.result /\ q.down = p.down
      /\ q.told = p.told /\ q.stray = p.stray /\ q.waiting = p.waiting \cup {cmd} /\ q.statuses = p.statuses
  BY <1>1, <1>2 DEF RtmpMembers, BaseMembers
<1>4. ~p.stray /\ p.told = <<>> => q.statuses \in Seq({"play"})
  BY <1>3 DEF RtmpGood
<1>5. RtmpGood(q)
  BY <1>2, <1>3, <1>4, RtmpSame
<1> QED
  BY <1>1, <1>3, <1>5, RtmpCommands DEF RtmpP!SendInvoke

\* onCmd_result
LEMMA RtmpResults ==
  ASSUME NEW p, RtmpGood(p), p.link = "open", NEW m
  PROVE  RtmpGood(RtmpP!OnResult(p, m))
<1>1. PICK q : q = [p EXCEPT !.waiting = @ \ {m.cmd}]
  OBVIOUS
<1>2. DOMAIN p = RtmpMembers /\ p.waiting \subseteq {"connect", "createStream"} /\ p.statuses \in Seq(Expected)
  BY DEF RtmpGood, RtmpKnows, Members
<1>3. /\ DOMAIN q = RtmpMembers
      /\ q.link = p.link /\ q.play = p.play /\ q.recv = p.recv /\ q.result = p.result /\ q.down = p.down
      /\ q.told = p.told /\ q.stray = p.stray /\ q.waiting = p.waiting \ {m.cmd} /\ q.statuses = p.statuses
  BY <1>1, <1>2 DEF RtmpMembers, BaseMembers
<1>4. ~p.stray /\ p.told = <<>> => q.statuses \in Seq({"play"})
  BY <1>3 DEF RtmpGood
<1>5. RtmpGood(q)
  BY <1>2, <1>3, <1>4, RtmpSame
<1>6. RtmpGood(RtmpP!SendInvoke(q, "createStream")) /\ RtmpGood(RtmpP!Throw(p))
  BY <1>3, <1>5, RtmpInvokes, RtmpThrows
<1>7. RtmpGood(RtmpP!SendPlay(q))
  <2>1. PICK r : r = [q EXCEPT !.statuses = @ \o <<"play", "play">>]
    OBVIOUS
  <2>2. /\ DOMAIN r = RtmpMembers
        /\ r.link = q.link /\ r.play = q.play /\ r.recv = q.recv /\ r.result = q.result /\ r.down = q.down
        /\ r.told = q.told /\ r.stray = q.stray /\ r.waiting = q.waiting
        /\ r.statuses = q.statuses \o <<"play", "play">>
    BY <1>3, <2>1 DEF RtmpMembers, BaseMembers
  <2>3. <<"play", "play">> \in Seq(Expected) /\ <<"play", "play">> \in Seq({"play"})
    BY DEF Expected
  <2>4. q.statuses \in Seq(Expected) => r.statuses \in Seq(Expected)
    BY <2>2, <2>3, ConcatProperties
  <2>5. q.statuses \in Seq({"play"}) => r.statuses \in Seq({"play"})
    BY <2>2, <2>3, ConcatProperties
  <2>6. ~q.stray /\ q.told = <<>> => r.statuses \in Seq({"play"})
    BY <1>3, <1>4, <2>5
  <2>7. RtmpGood(r)
    BY <1>2, <1>3, <1>5, <2>2, <2>4, <2>6, RtmpSame
  <2> QED
    BY <1>3, <2>1, <2>2, <2>7, RtmpCommands DEF RtmpP!SendPlay
<1>8. CASE m.cmd \notin p.waiting
  BY <1>8 DEF RtmpP!OnResult
<1>9. CASE m.cmd \in p.waiting /\ m.cmd = "connect"
  BY <1>1, <1>6, <1>9 DEF RtmpP!OnResult
<1>10. CASE m.cmd \in p.waiting /\ m.cmd = "createStream"
  BY <1>1, <1>6, <1>7, <1>10 DEF RtmpP!OnResult
<1> QED
  BY <1>2, <1>8, <1>9, <1>10

\* onCmd_onStatus
LEMMA RtmpStatuses ==
  ASSUME NEW p, RtmpGood(p), p.link = "open", NEW m
  PROVE  RtmpGood(RtmpP!OnStatus(p, m))
<1>1. /\ DOMAIN p = RtmpMembers /\ p.waiting \subseteq {"connect", "createStream"} /\ p.statuses \in Seq(Expected)
      /\ p.stray \in BOOLEAN
  BY DEF RtmpGood, RtmpKnows, Members
<1>2. CASE p.statuses = <<>>
  BY <1>2, RtmpThrows DEF RtmpP!OnStatus
<1>3. CASE p.statuses # <<>>
  <2>1. PICK h : h = Head(p.statuses)
    OBVIOUS
  <2>2. h \in Expected /\ Tail(p.statuses) \in Seq(Expected)
    BY <1>1, <1>3, <2>1, HeadTailProperties
  <2>3. ~p.stray /\ p.told = <<>> => h = "play" /\ Tail(p.statuses) \in Seq({"play"})
    <3> SUFFICES ASSUME p.statuses \in Seq({"play"}) PROVE h = "play" /\ Tail(p.statuses) \in Seq({"play"})
      BY DEF RtmpGood
    <3>1. h \in {"play"} /\ Tail(p.statuses) \in Seq({"play"})
      BY <1>3, <2>1, HeadTailProperties
    <3> QED
      BY <3>1
  <2>4. PICK q : q = [p EXCEPT !.statuses = Tail(@)]
    OBVIOUS
  <2>5. /\ DOMAIN q = RtmpMembers
        /\ q.link = p.link /\ q.play = p.play /\ q.recv = p.recv /\ q.result = p.result /\ q.down = p.down
        /\ q.told = p.told /\ q.stray = p.stray /\ q.waiting = p.waiting /\ q.statuses = Tail(p.statuses)
    BY <1>1, <2>4 DEF RtmpMembers, BaseMembers
  <2>6. RtmpGood(q)
    BY <1>1, <2>2, <2>3, <2>5, RtmpSame
  <2>7. RtmpGood([q EXCEPT !.paused = TRUE, !.recv = FALSE])
    <3>1. PICK r : r = [q EXCEPT !.paused = TRUE, !.recv = FALSE]
      OBVIOUS
    <3>2. /\ DOMAIN r = RtmpMembers
          /\ r.link = q.link /\ r.play = q.play /\ r.recv = FALSE /\ r.result = q.result /\ r.down = q.down
          /\ r.told = q.told /\ r.stray = q.stray /\ r.waiting = q.waiting /\ r.statuses = q.statuses
      BY <2>5, <3>1 DEF RtmpMembers, BaseMembers
    <3>3. RtmpGood(r)
      BY <1>1, <2>2, <2>3, <2>5, <2>6, <3>2, RtmpSame
    <3> QED
      BY <3>1, <3>3
  <2>8. h = "resume" => RtmpGood(RtmpP!PlayResult_l([q EXCEPT !.paused = FALSE], "ok", TRUE))
    <3> SUFFICES ASSUME h = "resume" PROVE RtmpGood(RtmpP!PlayResult_l([q EXCEPT !.paused = FALSE], "ok", TRUE))
      OBVIOUS
    <3>1. PICK r : r = [q EXCEPT !.paused = FALSE]
      OBVIOUS
    <3>2. /\ DOMAIN r = RtmpMembers
          /\ r.link = q.link /\ r.play = q.play /\ r.recv = q.recv /\ r.result = q.result /\ r.down = q.down
          /\ r.told = q.told /\ r.stray = q.stray /\ r.waiting = q.waiting /\ r.statuses = q.statuses
      BY <2>5, <3>1 DEF RtmpMembers, BaseMembers
    <3>3. RtmpGood(r)
      BY <1>1, <2>2, <2>3, <2>5, <2>6, <3>2, RtmpSame
    <3>4. r.stray \/ r.told # <<>>
      BY <1>1, <2>3, <2>5, <3>2
    <3>5. RtmpGood(RtmpP!PlayResult_l(r, "ok", TRUE))
      BY <2>5, <3>2, <3>3, <3>4, RtmpSucceeds
    <3> QED
      BY <3>1, <3>5
  <2>9. RtmpGood(RtmpP!Throw(q))
    BY <2>5, <2>6, RtmpThrows
  <2>10. RtmpGood(RtmpP!Status(q, m, h))
    BY <2>2, <2>6, <2>7, <2>8, <2>9 DEF RtmpP!Status
  <2> QED
    BY <1>3, <2>1, <2>4, <2>10 DEF RtmpP!OnStatus
<1> QED
  BY <1>2, <1>3

\* What a server may send.  The server of this project never calls a stream dry.
Commands == {"connect", "createStream"}
Levels   == {"status", "error", "none"}
Codes    == {"Reset", "Start", "DataStart", "PublishNotify", "NotFound", "PublishStart", "BadName", "Pause",
             "Unpause", "Seek", "Unpublish", "Other"}
Answers ==
  [t : {"result"}, cmd : Commands, level : Levels] \cup [t : {"status"}, code : Codes, level : Levels]
  \cup [t : {"meta"}] \cup [t : {"media"}, frame : BOOLEAN]
Messages == IF Server THEN Answers ELSE Answers \cup [t : {"dry"}]

\* onMediaData_l
LEMMA RtmpFrames ==
  ASSUME NEW p, RtmpGood(p), p.link = "open", NEW m, m.frame \in BOOLEAN
  PROVE  RtmpGood(RtmpP!OnMedia(p, m))
<1>1. /\ DOMAIN p = RtmpMembers /\ p.waiting \subseteq {"connect", "createStream"} /\ p.statuses \in Seq(Expected)
      /\ p.play \in BOOLEAN
  BY DEF RtmpGood, RtmpKnows, Members
<1>2. PICK q : q = [p EXCEPT !.quiet = 0, !.metadata = TRUE]
  OBVIOUS
<1>3. /\ DOMAIN q = RtmpMembers
      /\ q.link = p.link /\ q.play = p.play /\ q.recv = p.recv /\ q.result = p.result /\ q.down = p.down
      /\ q.told = p.told /\ q.stray = p.stray /\ q.waiting = p.waiting /\ q.statuses = p.statuses
  BY <1>1, <1>2 DEF RtmpMembers, BaseMembers
<1>4. ~p.stray /\ p.told = <<>> => q.statuses \in Seq({"play"})
  BY <1>3 DEF RtmpGood
<1>5. RtmpGood(q)
  BY <1>1, <1>3, <1>4, RtmpSame
<1>6. RtmpGood(RtmpP!PlayResult_l(q, "ok", FALSE))
  BY <1>3, <1>5, RtmpSucceeds
<1> QED
  BY <1>2, <1>5, <1>6 DEF RtmpP!OnMedia

\* onRtmpChunk
LEMMA RtmpReads ==
  ASSUME NEW p, RtmpGood(p), p.link = "open", NEW m \in Messages
  PROVE  RtmpGood(RtmpP!OnMessage(p, m))
<1>1. /\ DOMAIN p = RtmpMembers /\ p.waiting \subseteq {"connect", "createStream"} /\ p.statuses \in Seq(Expected)
      /\ RtmpKnows(p) /\ (~p.stray => Pending(p))
  BY RtmpOpen DEF RtmpGood, RtmpKnows, Members
<1>2. CASE m.t = "result"
  BY <1>2, RtmpResults DEF RtmpP!OnMessage
<1>3. CASE m.t = "status"
  BY <1>3, RtmpStatuses DEF RtmpP!OnMessage
<1>4. CASE m.t = "meta"
  <2>1. PICK q : q = [p EXCEPT !.metadata = TRUE]
    OBVIOUS
  <2>2. /\ DOMAIN q = RtmpMembers
        /\ q.link = p.link /\ q.play = p.play /\ q.recv = p.recv /\ q.result = p.result /\ q.down = p.down
        /\ q.told = p.told /\ q.stray = p.stray /\ q.waiting = p.waiting /\ q.statuses = p.statuses
    BY <1>1, <2>1 DEF RtmpMembers, BaseMembers
  <2>3. ~p.stray /\ p.told = <<>> => q.statuses \in Seq({"play"})
    BY <2>2 DEF RtmpGood
  <2>4. RtmpGood(q)
    BY <1>1, <2>2, <2>3, RtmpSame
  <2> QED
    BY <1>4, <2>1, <2>4 DEF RtmpP!OnMessage
<1>5. CASE m.t = "media"
  <2>1. m.frame \in BOOLEAN
    BY <1>5 DEF Messages, Answers
  <2> QED
    BY <1>5, <2>1, RtmpFrames DEF RtmpP!OnMessage
<1>6. CASE m.t = "dry"
  <2>1. ~Server
    BY <1>6 DEF Messages, Answers
  <2>2. RtmpGood(RtmpP!PlayResult_l(p, "other", TRUE))
    BY <1>1, <2>1, RtmpFails
  <2> QED
    BY <1>6, <2>2 DEF RtmpP!OnMessage
<1>7. m.t \in {"result", "status", "meta", "media", "dry"}
  BY DEF Messages, Answers
<1> QED
  BY <1>2, <1>3, <1>4, <1>5, <1>6, <1>7

\* The connection is refused, or ends.
LEMMA RtmpCloses ==
  ASSUME NEW p, RtmpGood(p), p.link \in Live
  PROVE  /\ RtmpGood(RtmpP!OnErr(p, "eof"))
         /\ RtmpGood(RtmpP!OnConnect([p EXCEPT !.link = "closed"], FALSE))
<1>1. PICK q : q = [p EXCEPT !.link = "closed"]
  OBVIOUS
<1>2. RtmpKnows(q) /\ q.stray = p.stray /\ q.told = p.told /\ q.result = p.result /\ p.play \in BOOLEAN
  BY <1>1 DEF RtmpGood, RtmpKnows, Members, RtmpMembers, BaseMembers, Links
<1>3. ~q.stray => Pending(q) /\ (q.told = <<>> => p.play)
  BY <1>2, Distinct DEF RtmpGood, Core, Pending, Live
<1>4. RtmpGood(RtmpP!PlayResult_l(q, "eof", ~p.play))
  BY <1>2, <1>3, RtmpFails
<1>5. RtmpGood(RtmpP!PlayResult_l(q, "other", FALSE))
  BY <1>2, <1>3, RtmpFails
<1> QED
  BY <1>1, <1>4, <1>5 DEF RtmpP!OnErr, RtmpP!Hang, RtmpP!OnConnect

\* The name is resolved, and the connection made.
LEMMA RtmpConnects ==
  ASSUME NEW p, RtmpGood(p)
  PROVE  /\ p.link = "resolving" => RtmpGood([p EXCEPT !.link = "connecting"])
         /\ p.link = "connecting" => RtmpGood(RtmpP!OnConnect([p EXCEPT !.link = "open"], TRUE))
<1>1. DOMAIN p = RtmpMembers
  BY DEF RtmpGood, RtmpKnows, Members
<1>2. ASSUME NEW l \in {"connecting", "open"}, p.link \in {"resolving", "connecting"}
      PROVE  RtmpGood([p EXCEPT !.link = l])
  <2>1. PICK q : q = [p EXCEPT !.link = l]
    OBVIOUS
  <2>2. /\ DOMAIN q = RtmpMembers /\ q.link = l
        /\ q.play = p.play /\ q.recv = p.recv /\ q.result = p.result /\ q.down = p.down
        /\ q.told = p.told /\ q.stray = p.stray /\ q.waiting = p.waiting /\ q.statuses = p.statuses
    BY <1>1, <2>1 DEF RtmpMembers, BaseMembers
  <2>3. RtmpKnows(q) /\ RtmpRests(q)
    BY <1>2, <2>2 DEF RtmpGood, RtmpKnows, Members, RtmpRests, Links, Live
  <2>4. RtmpGood(q)
    BY <1>2, <2>2, <2>3 DEF RtmpGood, Core, Live
  <2> QED
    BY <2>1, <2>4
<1>3. ASSUME p.link = "connecting" PROVE RtmpGood(RtmpP!OnConnect([p EXCEPT !.link = "open"], TRUE))
  <2>1. PICK q : q = [p EXCEPT !.link = "open"]
    OBVIOUS
  <2>2. RtmpGood(q) /\ q.link = "open"
    BY <1>1, <1>2, <1>3, <2>1 DEF RtmpMembers, BaseMembers
  <2> QED
    BY <2>1, <2>2, RtmpInvokes DEF RtmpP!OnConnect
<1> QED
  BY <1>2, <1>3

\* What the owner calls.
LEMMA RtmpOwner ==
  ASSUME NEW p, RtmpGood(p)
  PROVE  /\ \A legal \in BOOLEAN : RtmpGood(RtmpP!Play(RtspP!SetCallbacks(p), legal))
         /\ RtmpGood(RtmpP!Teardown(p))
<1>1. DOMAIN p = RtmpMembers /\ p.link \in Links /\ p.stray \in BOOLEAN /\ p.down \in BOOLEAN
  BY DEF RtmpGood, RtmpKnows, Members
<1>2. ASSUME NEW legal \in BOOLEAN PROVE RtmpGood(RtmpP!Play(RtspP!SetCallbacks(p), legal))
  <2>1. PICK q : q = RtspP!SetCallbacks(p)
    OBVIOUS
  <2>2. DOMAIN q = RtmpMembers /\ q.told = <<>> /\ q.result = TRUE /\ q.down = TRUE
        /\ q.link = p.link /\ q.stray = FALSE
    BY <1>1, <2>1 DEF RtspP!SetCallbacks, RtmpMembers, BaseMembers
  <2>3. PICK r : r = RtmpP!Teardown(q)
    OBVIOUS
  <2>4. /\ DOMAIN r = RtmpMembers /\ r.play = FALSE /\ r.recv = FALSE /\ r.beat = FALSE
        /\ r.waiting = {} /\ r.statuses = <<>>
        /\ r.link = IF q.link \in {"connecting", "open"} THEN "closed" ELSE q.link
        /\ r.stray \in BOOLEAN
        /\ r.result = q.result /\ r.down = q.down /\ r.told = q.told
    BY <1>1, <2>2, <2>3, RtmpTearsDown
  <2>5. r.statuses \in Seq({"play"}) /\ r.statuses \in Seq(Expected)
    BY <2>4
  <2>6. RtmpKnows(r) /\ Pending(r)
    BY <1>1, <2>2, <2>4, <2>5, Distinct DEF RtmpKnows, Members, Pending, Links, Live
  <2>7. RtmpGood(RtmpP!PlayResult_l(r, "other", FALSE))
    BY <2>6, RtmpFails
  <2>8. PICK s : s = RtmpP!StartConnect([r EXCEPT !.named = TRUE, !.play = TRUE, !.metadata = FALSE])
    OBVIOUS
  <2>9. /\ DOMAIN s = RtmpMembers /\ s.play = TRUE /\ s.recv = FALSE /\ s.beat = FALSE /\ s.waiting = {}
        /\ s.statuses = <<>> /\ s.link = "resolving" /\ s.stray = r.stray /\ s.result = TRUE /\ s.down = TRUE
        /\ s.told = <<>>
    BY <2>2, <2>4, <2>8 DEF RtmpP!StartConnect, RtmpMembers, BaseMembers
  <2>10. s.statuses \in Seq({"play"}) /\ s.statuses \in Seq(Expected)
    BY <2>9
  <2>11. RtmpKnows(s) /\ RtmpRests(s)
    BY <2>4, <2>9, <2>10 DEF RtmpKnows, Members, RtmpRests, Links, Live
  <2>12. RtmpGood(s)
    BY <2>9, <2>10, <2>11, Distinct DEF RtmpGood, Core
  <2> QED
    BY <2>1, <2>3, <2>7, <2>8, <2>12 DEF RtmpP!Play
<1>3. RtmpGood(RtmpP!Teardown(p))
  <2>1. PICK q : q = RtmpP!Teardown(p)
    OBVIOUS
  <2>2. /\ DOMAIN q = RtmpMembers /\ q.play = FALSE /\ q.recv = FALSE /\ q.beat = FALSE
        /\ q.waiting = {} /\ q.statuses = <<>>
        /\ q.link = IF p.link \in {"connecting", "open"} THEN "closed" ELSE p.link
        /\ q.stray \in BOOLEAN /\ q.stray = (p.stray \/ p.link = "resolving")
        /\ q.result = p.result /\ q.down = p.down /\ q.told = p.told
    BY <1>1, <2>1, RtmpTearsDown
  <2>3. q.statuses \in Seq({"play"}) /\ q.statuses \in Seq(Expected)
    BY <2>2
  <2>4. Members(q, RtmpMembers)
    BY <1>1, <2>2 DEF RtmpGood, RtmpKnows, Members, Links, Live
  <2>5. RtmpKnows(q) /\ RtmpRests(q)
    BY <2>2, <2>3, <2>4 DEF RtmpKnows, RtmpRests
  <2>6. ~q.stray => ~p.stray /\ q.link \in {"none", "closed"}
    BY <1>1, <2>2 DEF Links, Live
  <2>7. RtmpGood(q)
    BY <2>2, <2>3, <2>5, <2>6 DEF RtmpGood, Core, Live
  <2> QED
    BY <2>1, <2>7
<1> QED
  BY <1>2, <1>3

\* It expects one status more, and perhaps beats.
LEMMA RtmpExpects ==
  ASSUME NEW p, RtmpGood(p), p.link = "open", p.told # <<>>, NEW h \in Expected, NEW q, NEW b \in BOOLEAN,
         \/ q = [p EXCEPT !.statuses = Append(@, h)]
         \/ q = [p EXCEPT !.statuses = Append(@, h), !.beat = b]
  PROVE  RtmpGood(q) /\ q.link = "open" /\ q.told # <<>>
<1>1. DOMAIN p = RtmpMembers /\ p.waiting \subseteq {"connect", "createStream"} /\ p.statuses \in Seq(Expected)
  BY DEF RtmpGood, RtmpKnows, Members
<1>2. /\ DOMAIN q = RtmpMembers
      /\ q.link = p.link /\ q.play = p.play /\ q.recv = p.recv /\ q.result = p.result /\ q.down = p.down
      /\ q.told = p.told /\ q.stray = p.stray /\ q.waiting = p.waiting /\ q.statuses = Append(p.statuses, h)
  BY <1>1 DEF RtmpMembers, BaseMembers
<1>3. q.statuses \in Seq(Expected)
  BY <1>1, <1>2
<1> QED
  BY <1>1, <1>2, <1>3, RtmpSame

\* What the owner calls of a play that has succeeded.
LEMMA RtmpOperates ==
  ASSUME NEW p, RtmpGood(p), p.link = "open", p.told # <<>>
  PROVE  (\A flag \in BOOLEAN : RtmpGood(RtmpP!Pause(p, flag))) /\ RtmpGood(RtmpP!Seek(p))
<1>1. ASSUME NEW r, RtmpGood(r), r.link = "open", r.told # <<>>, NEW flag \in BOOLEAN
      PROVE  RtmpGood(RtmpP!SendPause(r, flag))
  <2>1. PICK h \in Expected : h = IF flag THEN "pause" ELSE "resume"
    BY DEF Expected
  <2>2. PICK q : q = [r EXCEPT !.statuses = Append(@, h), !.beat = flag]
    OBVIOUS
  <2>3. RtmpGood(q) /\ q.link = "open" /\ q.told # <<>>
    BY <1>1, <2>2, RtmpExpects
  <2>4. RtmpP!SendPause(r, flag) = RtmpP!Command(q, "pause", flag)
    BY <2>1, <2>2 DEF RtmpP!SendPause
  <2> QED
    BY <2>3, <2>4, RtmpCommands
<1>2. RtmpGood(RtmpP!Seek(p))
  <2>1. PICK q : q = IF p.paused THEN RtmpP!SendPause(p, FALSE) ELSE p
    OBVIOUS
  <2>2. RtmpGood(q)
    BY <1>1, <2>1
  <2>3. q.link = "open" /\ q.told # <<>>
    <3>1. PICK r : r = [p EXCEPT !.statuses = Append(@, "resume"), !.beat = FALSE]
      OBVIOUS
    <3>2. DOMAIN r = RtmpMembers /\ r.link = p.link /\ r.told = p.told
      BY <3>1 DEF RtmpGood, RtmpKnows, Members, RtmpMembers, BaseMembers
    <3>0. PICK no : no = FALSE
      OBVIOUS
    <3>3. PICK s : s = RtmpP!Command(r, "pause", no)
      OBVIOUS
    <3>4. \A f \in RtmpMembers \ {"out"} : s[f] = r[f]
      BY <3>2, <3>3, RtmpSays
    <3>5. s.link = p.link /\ s.told = p.told
      BY <3>2, <3>4 DEF RtmpMembers, BaseMembers
    <3>6. RtmpP!SendPause(p, FALSE) = s
      BY <3>0, <3>1, <3>3 DEF RtmpP!SendPause
    <3> QED
      BY <2>1, <3>5, <3>6
  <2>4. PICK r : r = [q EXCEPT !.statuses = Append(@, "seek")]
    OBVIOUS
  <2>5. RtmpGood(r) /\ r.link = "open"
    BY <2>2, <2>3, <2>4, RtmpExpects DEF Expected
  <2>6. RtmpP!Seek(p) = RtmpP!Command(r, "seek", FALSE)
    BY <2>1, <2>4 DEF RtmpP!Seek
  <2> QED
    BY <2>5, <2>6, RtmpCommands
<1> QED
  BY <1>1, <1>2 DEF RtmpP!Pause

\* The play timer, and the check of received packets.
LEMMA RtmpTimes ==
  ASSUME NEW p, RtmpGood(p), NEW late \in BOOLEAN
  PROVE  /\ p.play => RtmpGood(RtmpP!PlayTimer(p))
         /\ p.recv => RtmpGood(RtmpP!RecvTimer(p, late))
<1>1. DOMAIN p = RtmpMembers /\ p.link \in Links /\ RtmpKnows(p)
  BY DEF RtmpGood, RtmpKnows, Members
<1>2. (p.play \/ p.recv) /\ ~p.stray => Pending(p) /\ (p.told = <<>> => ~p.recv)
  BY <1>1, Distinct DEF RtmpGood, RtmpRests, Core, Pending, Links
<1>3. ASSUME p.play PROVE RtmpGood(RtmpP!PlayTimer(p))
  <2>1. PICK q : q = [p EXCEPT !.play = FALSE]
    OBVIOUS
  <2>2. RtmpKnows(q) /\ q.stray = p.stray /\ q.told = p.told /\ q.result = p.result
    BY <2>1 DEF RtmpGood, RtmpKnows, Members, RtmpMembers, BaseMembers
  <2>3. ~q.stray => Pending(q)
    BY <1>2, <1>3, <2>2 DEF Pending
  <2>4. RtmpGood(RtmpP!PlayResult_l(q, "timeout", FALSE))
    BY <2>2, <2>3, RtmpFails
  <2> QED
    BY <2>1, <2>4 DEF RtmpP!PlayTimer
<1>4. ASSUME p.recv PROVE RtmpGood(RtmpP!RecvTimer(p, late))
  <2>1. RtmpGood(RtmpP!PlayResult_l(p, "timeout", TRUE))
    BY <1>1, <1>2, <1>4, RtmpFails
  <2>2. RtmpGood([p EXCEPT !.quiet = @ + 1])
    <3>1. PICK q : q = [p EXCEPT !.quiet = @ + 1]
      OBVIOUS
    <3>2. /\ DOMAIN q = RtmpMembers /\ q.link = p.link /\ q.play = p.play /\ q.recv = p.recv /\ q.result = p.result
          /\ q.down = p.down /\ q.told = p.told /\ q.stray = p.stray /\ q.beat = p.beat
          /\ q.waiting = p.waiting /\ q.statuses = p.statuses
      BY <1>1, <3>1 DEF RtmpMembers, BaseMembers
    <3>3. RtmpKnows(q) /\ RtmpRests(q)
      BY <3>2 DEF RtmpGood, RtmpKnows, Members, RtmpRests
    <3>4. RtmpGood(q)
      BY <3>2, <3>3 DEF RtmpGood, Core
    <3> QED
      BY <3>1, <3>4
  <2> QED
    BY <2>1, <2>2 DEF RtmpP!RecvTimer
<1> QED
  BY <1>3, <1>4
-----------------------------------------------------------------------------
\* The members of an RTMP session.
SessionMembers ==
  {"open", "named", "reader", "push", "own", "paused", "look", "late", "idle", "out"}

\* An RTMP session that has sent what it may.
Clean(s) == DOMAIN s = SessionMembers /\ s.out \in Seq(Answers)

\* A new session has sent nothing.
LEMMA SessionStarts == Clean(RtmpS!NewRtmpSession) /\ RtmpS!NewRtmpSession.out = <<>>
  BY DEF RtmpS!NewRtmpSession, Clean, SessionMembers

\* One message more.
LEMMA SessionSends ==
  ASSUME NEW s, Clean(s), NEW m \in Answers
  PROVE  Clean(RtmpS!Send(s, m))
<1>1. PICK q : q = [s EXCEPT !.out = Append(@, m)]
  OBVIOUS
<1>2. DOMAIN q = SessionMembers /\ q.out = Append(s.out, m)
  BY <1>1 DEF Clean, SessionMembers
<1>3. q.out \in Seq(Answers)
  BY <1>2 DEF Clean
<1> QED
  BY <1>1, <1>2, <1>3 DEF RtmpS!Send, Clean

\* Each kind of message it sends is one it may.
LEMMA SessionSays ==
  ASSUME NEW s, Clean(s)
  PROVE  /\ \A cmd \in Commands : Clean(RtmpS!Result(s, cmd))
         /\ \A code \in Codes, level \in Levels : Clean(RtmpS!Status(s, code, level))
         /\ \A frame \in BOOLEAN : Clean(RtmpS!Media(s, frame))
         /\ Clean(RtmpS!Send(s, [t |-> "meta"]))
         /\ Clean(RtmpS!Shutdown(s))
<1>0. \A m \in Answers : Clean(RtmpS!Send(s, m))
  BY SessionSends
<1>1. \A cmd \in Commands : Clean(RtmpS!Result(s, cmd))
  <2> TAKE cmd \in Commands
  <2>0. "status" \in Levels
    BY DEF Levels
  <2>1. [t |-> "result", cmd |-> cmd, level |-> "status"] \in [t : {"result"}, cmd : Commands, level : Levels]
    BY <2>0
  <2>2. [t |-> "result", cmd |-> cmd, level |-> "status"] \in Answers
    BY <2>1 DEF Answers
  <2> QED
    BY <1>0, <2>2 DEF RtmpS!Result
<1>2. \A code \in Codes, level \in Levels : Clean(RtmpS!Status(s, code, level))
  <2> TAKE code \in Codes, level \in Levels
  <2>1. [t |-> "status", code |-> code, level |-> level] \in Answers
    BY DEF Answers
  <2> QED
    BY <1>0, <2>1 DEF RtmpS!Status
<1>3. \A frame \in BOOLEAN : Clean(RtmpS!Media(s, frame))
  <2> TAKE frame \in BOOLEAN
  <2>1. [t |-> "media", frame |-> frame] \in Answers
    BY DEF Answers
  <2> QED
    BY <1>0, <2>1 DEF RtmpS!Media
<1>4. Clean(RtmpS!Send(s, [t |-> "meta"]))
  <2>1. [t |-> "meta"] \in Answers
    BY DEF Answers
  <2> QED
    BY <1>0, <2>1
<1>5. Clean(RtmpS!Shutdown(s))
  BY DEF RtmpS!Shutdown, Clean, SessionMembers
<1> QED
  BY <1>1, <1>2, <1>3, <1>4, <1>5

\* Each thing this server says.
LEMMA SessionTalks ==
  ASSUME NEW s, Clean(s)
  PROVE  /\ Clean(RtmpS!Result(s, "connect")) /\ Clean(RtmpS!Result(s, "createStream"))
         /\ Clean(RtmpS!Status(s, "Reset", "status")) /\ Clean(RtmpS!Status(s, "Start", "status"))
         /\ Clean(RtmpS!Status(s, "DataStart", "none")) /\ Clean(RtmpS!Status(s, "PublishNotify", "status"))
         /\ Clean(RtmpS!Status(s, "NotFound", "error")) /\ Clean(RtmpS!Status(s, "PublishStart", "status"))
         /\ Clean(RtmpS!Status(s, "BadName", "error")) /\ Clean(RtmpS!Status(s, "Seek", "status"))
         /\ Clean(RtmpS!Status(s, "Pause", "status")) /\ Clean(RtmpS!Status(s, "Unpause", "status"))
         /\ Clean(RtmpS!Status(s, "Unpublish", "status"))
         /\ Clean(RtmpS!Media(s, TRUE)) /\ Clean(RtmpS!Media(s, FALSE))
         /\ Clean(RtmpS!Send(s, [t |-> "meta"])) /\ Clean(RtmpS!Shutdown(s))
<1>1. \A c \in Codes, l \in Levels : Clean(RtmpS!Status(s, c, l))
  BY SessionSays
<1>2. \A frame \in BOOLEAN : Clean(RtmpS!Media(s, frame))
  BY SessionSays
<1>3. \A cmd \in Commands : Clean(RtmpS!Result(s, cmd))
  BY SessionSays
<1>4. Clean(RtmpS!Result(s, "connect")) /\ Clean(RtmpS!Result(s, "createStream"))
  BY <1>3 DEF Commands
<1>5. Clean(RtmpS!Media(s, TRUE)) /\ Clean(RtmpS!Media(s, FALSE))
  BY <1>2
<1>6. /\ Clean(RtmpS!Status(s, "Reset", "status")) /\ Clean(RtmpS!Status(s, "Start", "status"))
      /\ Clean(RtmpS!Status(s, "DataStart", "none")) /\ Clean(RtmpS!Status(s, "PublishNotify", "status"))
      /\ Clean(RtmpS!Status(s, "NotFound", "error")) /\ Clean(RtmpS!Status(s, "PublishStart", "status"))
  BY <1>1 DEF Codes, Levels
<1>7. /\ Clean(RtmpS!Status(s, "BadName", "error")) /\ Clean(RtmpS!Status(s, "Seek", "status"))
      /\ Clean(RtmpS!Status(s, "Pause", "status")) /\ Clean(RtmpS!Status(s, "Unpause", "status"))
      /\ Clean(RtmpS!Status(s, "Unpublish", "status"))
  BY <1>1 DEF Codes, Levels
<1> QED
  BY <1>4, <1>5, <1>6, <1>7, SessionSays

\* sendPlayResponse
LEMMA SessionPlays ==
  ASSUME NEW s, Clean(s), NEW src
  PROVE  Clean(RtmpS!SendPlayResponse(s, src))
<1>1. PICK a : a = RtmpS!Status(s, "Reset", "status")
  OBVIOUS
<1>2. PICK b : b = RtmpS!Status(a, "Start", "status")
  OBVIOUS
<1>3. PICK c : c = RtmpS!Status(b, "DataStart", "none")
  OBVIOUS
<1>4. PICK d : d = RtmpS!Status(c, "PublishNotify", "status")
  OBVIOUS
<1>5. PICK e : e = RtmpS!Send(d, [t |-> "meta"])
  OBVIOUS
<1> DEFINE f == RtmpS!Media(e, FALSE)
<1>7. PICK n : n = RtmpS!Status(s, "NotFound", "error")
  OBVIOUS
<1>8. Clean(a) /\ Clean(n)
  BY <1>1, <1>7, SessionTalks
<1>9. Clean(b)
  BY <1>2, <1>8, SessionTalks
<1>10. Clean(c)
  BY <1>3, <1>9, SessionTalks
<1>11. Clean(d)
  BY <1>4, <1>10, SessionTalks
<1>12. Clean(e)
  BY <1>5, <1>11, SessionTalks
<1>13. Clean(f) /\ Clean(RtmpS!Shutdown(n))
  BY <1>8, <1>12, SessionTalks
<1> HIDE DEF f
<1>14. Clean([f EXCEPT !.look = "no", !.reader = src])
  BY <1>13 DEF Clean, SessionMembers
<1>15. RtmpS!SendPlayResponse(s, src) = IF src = 0 THEN RtmpS!Shutdown(n) ELSE [f EXCEPT !.look = "no", !.reader = src]
  BY <1>1, <1>2, <1>3, <1>4, <1>5, <1>7 DEF RtmpS!SendPlayResponse, f
<1> QED
  BY <1>13, <1>14, <1>15

\* The listener has answered a play or a publication.
LEMMA SessionAnswers ==
  ASSUME NEW s, Clean(s), NEW ok, NEW live_
  PROVE  /\ Clean(RtmpS!DoPlayResponse(s, ok, live_)) /\ Clean(RtmpS!OnPublish(s, ok, live_))
         /\ Clean(RtmpS!OnAuth(s, ok, live_))
<1>1. Clean(RtmpS!DoPlayResponse(s, ok, live_))
  <2>1. Clean([s EXCEPT !.look = "wait"])
    BY DEF Clean, SessionMembers
  <2>2. \A src : Clean(RtmpS!SendPlayResponse(s, src))
    BY SessionPlays
  <2> QED
    BY <2>1, <2>2 DEF RtmpS!DoPlayResponse
<1>2. Clean(RtmpS!OnPublish(s, ok, live_))
  <2>1. PICK q : q = RtmpS!Status(s, "PublishStart", "status")
    OBVIOUS
  <2>2. PICK n : n = RtmpS!Status(s, "BadName", "error")
    OBVIOUS
  <2>3. Clean(q) /\ Clean(n)
    BY <2>1, <2>2, SessionTalks
  <2>4. Clean(RtmpS!Shutdown(n))
    BY <2>3, SessionTalks
  <2>5. Clean([q EXCEPT !.look = "no", !.push = TRUE])
    BY <2>3 DEF Clean, SessionMembers
  <2>6. RtmpS!OnPublish(s, ok, live_) = IF ok /\ s.named /\ live_ = 0 /\ ~s.push
                                       THEN [q EXCEPT !.look = "no", !.push = TRUE] ELSE RtmpS!Shutdown(n)
    BY <2>1, <2>2 DEF RtmpS!OnPublish
  <2> QED
    BY <2>4, <2>5, <2>6
<1> QED
  BY <1>1, <1>2 DEF RtmpS!OnAuth

\* onProcessCmd and onRtmpChunk
LEMMA SessionServes ==
  ASSUME NEW s, Clean(s), NEW r, NEW asks \in BOOLEAN, NEW l, NEW fresh
  PROVE  Clean(RtmpS!OnRequest(s, r, asks, l, fresh))
<1>1. PICK q : q = [s EXCEPT !.idle = FALSE]
  OBVIOUS
<1>2. PICK n : n = [q EXCEPT !.named = r.named]
  OBVIOUS
<1>3. Clean(q)
  BY <1>1 DEF Clean, SessionMembers
<1>4. Clean(n)
  BY <1>2, <1>3 DEF Clean, SessionMembers
<1>5. ASSUME NEW p, Clean(p), NEW k PROVE Clean(RtmpS!DoPlay(p, asks, k)) /\ Clean(RtmpS!OnCmdPublish(p, asks, k))
  <2>1. \A ok : Clean(RtmpS!DoPlayResponse(p, ok, k)) /\ Clean(RtmpS!OnPublish(p, ok, k))
    BY <1>5, SessionAnswers
  <2>2. \A x : Clean([p EXCEPT !.look = x])
    BY <1>5 DEF Clean, SessionMembers
  <2> PICK yes : yes = TRUE
    OBVIOUS
  <2>3. Clean(RtmpS!DoPlayResponse(p, yes, k)) /\ Clean(RtmpS!OnPublish(p, yes, k))
    BY <2>1
  <2>4. Clean(RtmpS!DoPlayResponse(p, TRUE, k)) /\ Clean(RtmpS!OnPublish(p, TRUE, k))
    BY <2>3
  <2> QED
    BY <2>2, <2>4 DEF RtmpS!DoPlay, RtmpS!OnCmdPublish
<1>6. /\ Clean(RtmpS!Result(q, "connect")) /\ Clean(RtmpS!Result(q, "createStream"))
      /\ Clean(RtmpS!Status(q, "Seek", "status")) /\ Clean(RtmpS!Status(q, "Pause", "status"))
      /\ Clean(RtmpS!Status(q, "Unpause", "status")) /\ Clean(RtmpS!Shutdown(q))
      /\ Clean(RtmpS!Status(q, "Unpublish", "status"))
  BY <1>3, SessionTalks
<1>7. Clean(RtmpS!Shutdown(RtmpS!Status(q, "Unpublish", "status")))
  <2>1. PICK u : u = RtmpS!Status(q, "Unpublish", "status")
    OBVIOUS
  <2>2. Clean(u)
    BY <1>6, <2>1
  <2> QED
    BY <2>1, <2>2, SessionTalks
<1>8. \A flag : Clean(RtmpS!OnCmdPause(q, flag))
  <2> TAKE flag
  <2>1. PICK u : u = RtmpS!Status(q, IF flag THEN "Pause" ELSE "Unpause", "status")
    OBVIOUS
  <2>2. Clean(u)
    BY <1>6, <2>1
  <2>3. Clean([u EXCEPT !.paused = flag])
    BY <2>2 DEF Clean, SessionMembers
  <2> QED
    BY <2>1, <2>3 DEF RtmpS!OnCmdPause
<1>9. \A x : Clean([q EXCEPT !.own = x])
  BY <1>3 DEF Clean, SessionMembers
<1>10. CASE r.cmd = "connect"
  BY <1>1, <1>2, <1>6, <1>10 DEF RtmpS!OnRequest
<1>11. CASE r.cmd = "createStream"
  BY <1>1, <1>2, <1>6, <1>11 DEF RtmpS!OnRequest
<1>12. CASE r.cmd = "play"
  BY <1>1, <1>2, <1>4, <1>5, <1>12 DEF RtmpS!OnRequest
<1>13. CASE r.cmd = "play2"
  BY <1>1, <1>2, <1>3, <1>5, <1>13 DEF RtmpS!OnRequest
<1>14. CASE r.cmd = "publish"
  BY <1>1, <1>2, <1>4, <1>5, <1>14 DEF RtmpS!OnRequest
<1>15. CASE r.cmd = "pause"
  BY <1>1, <1>2, <1>8, <1>15 DEF RtmpS!OnRequest
<1>16. CASE r.cmd = "seek"
  BY <1>1, <1>2, <1>6, <1>16 DEF RtmpS!OnRequest
<1>17. CASE r.cmd = "deleteStream"
  BY <1>1, <1>2, <1>7, <1>17 DEF RtmpS!OnRequest
<1>18. CASE r.cmd = "setDataFrame"
  BY <1>1, <1>2, <1>3, <1>6, <1>18 DEF RtmpS!OnRequest
<1>19. CASE r.cmd = "media"
  <2>1. RtmpS!OnRequest(s, r, asks, l, fresh) =
          IF ~q.push THEN RtmpS!Shutdown(q) ELSE IF q.own = 0 THEN [q EXCEPT !.own = fresh] ELSE q
    BY <1>1, <1>19 DEF RtmpS!OnRequest
  <2> QED
    BY <1>3, <1>6, <1>9, <2>1
<1>20. CASE r.cmd \notin {"connect", "createStream", "play", "play2", "publish", "pause", "seek",
                       "deleteStream", "setDataFrame", "media"}
  BY <1>1, <1>3, <1>20 DEF RtmpS!OnRequest
<1> QED
  BY <1>10, <1>11, <1>12, <1>13, <1>14, <1>15, <1>16, <1>17, <1>18, <1>19, <1>20

\* The reader, its end, and the manager.
LEMMA SessionTimes ==
  ASSUME NEW s, Clean(s)
  PROVE  Clean(RtmpS!OnRead(s)) /\ Clean(RtmpS!OnDetach(s)) /\ Clean(RtmpS!OnManager(s))
  BY SessionTalks DEF RtmpS!OnRead, RtmpS!OnDetach, RtmpS!OnManager
-----------------------------------------------------------------------------
\* What this server may send, any server may.
LEMMA Messaging == Answers \subseteq Messages /\ \A s \in Seq(Answers) : s \in Seq(Messages)
<1>1. Answers \subseteq Messages
  BY DEF Messages
<1> QED
  BY <1>1
-----------------------------------------------------------------------------
\* What was sent is on its way: the RTMP player is the same.
LEMMA RtmpSent ==
  ASSUME NEW p, RtmpGood(p)
  PROVE  RtmpGood([p EXCEPT !.out = <<>>])
<1>1. PICK q : q = [p EXCEPT !.out = <<>>]
  OBVIOUS
<1>2. DOMAIN p = RtmpMembers
  BY DEF RtmpGood, RtmpKnows, Members
<1>3. /\ DOMAIN q = RtmpMembers
      /\ q.link = p.link /\ q.play = p.play /\ q.recv = p.recv /\ q.result = p.result /\ q.down = p.down
      /\ q.told = p.told /\ q.stray = p.stray /\ q.waiting = p.waiting /\ q.statuses = p.statuses /\ q.beat = p.beat
  BY <1>1, <1>2 DEF RtmpMembers, BaseMembers
<1>4. RtmpGood(q)
  BY <1>3 DEF RtmpGood, RtmpKnows, Members, RtmpRests, Core
<1> QED
  BY <1>1, <1>4

\* The same of the RTSP player.
LEMMA RtspSent ==
  ASSUME NEW p, RtspGood(p)
  PROVE  RtspGood([p EXCEPT !.out = <<>>])
<1>1. PICK q : q = [p EXCEPT !.out = <<>>]
  OBVIOUS
<1>2. DOMAIN p = RtspMembers
  BY DEF RtspGood, RtspKnows, Members
<1>3. /\ DOMAIN q = RtspMembers
      /\ q.link = p.link /\ q.play = p.play /\ q.recv = p.recv /\ q.result = p.result /\ q.down = p.down
      /\ q.told = p.told /\ q.stray = p.stray /\ q.handler = p.handler /\ q.delegate = p.delegate
  BY <1>1, <1>2 DEF RtspMembers, BaseMembers
<1>4. RtspGood(q)
  BY <1>3, RtspSame
<1> QED
  BY <1>1, <1>4

\* The invariant of the player, over either protocol.
Good(p) == IF Rtsp THEN RtspGood(p) ELSE RtmpGood(p)

\* What was sent is on its way.
LEMMA Sent ==
  ASSUME NEW p, Good(p)
  PROVE  Good([p EXCEPT !.out = <<>>])
  BY RtmpSent, RtspSent DEF Good

\* The invariant: of a player whose owner is careful, of the connection of a client that
\* is no player, and of what an RTMP session has sent.
PlayInv ==
  /\ scene \in Scenes
  /\ Client /\ ~scene.hasty => Good(player)
  /\ ~Client => DOMAIN player = BaseMembers /\ player.link \in {"open", "closed"} /\ player.told = <<>>
  /\ ~Rtsp => Clean(session) /\ down \in Seq(Messages)

\* The scene does not change, and so what is said of it does not.
LEMMA SameScene ==
  ASSUME scene' = scene
  PROVE  /\ Rtsp' = Rtsp /\ Client' = Client /\ Server' = Server /\ Some' = Some /\ Messages' = Messages
         /\ (Good(player))' = Good(player') /\ (Clean(session))' = Clean(session')
<1>1. Rtsp' = Rtsp /\ Client' = Client /\ Server' = Server /\ Some' = Some
  BY DEF Rtsp, Client, Server, Some
<1>2. Messages' = Messages
  BY <1>1 DEF Messages
<1>3. (RtspGood(player))' = RtspGood(player')
  BY <1>1 DEF RtspGood, RtspKnows, Members, Rests, Core, Some
<1>4. (RtmpGood(player))' = RtmpGood(player')
  BY <1>1 DEF RtmpGood, RtmpKnows, Members, RtmpRests, Core
<1>5. (Clean(session))' = Clean(session')
  BY DEF Clean
<1> QED
  BY <1>1, <1>2, <1>3, <1>4, <1>5 DEF Good

\* What a step has to keep.
LEMMA PlayInvNext ==
  ASSUME PlayInv, scene' = scene, Client /\ ~scene.hasty => Good(player'),
         ~Client => DOMAIN player' = BaseMembers /\ player'.link \in {"open", "closed"} /\ player'.told = <<>>,
         ~Rtsp => Clean(session') /\ down' \in Seq(Messages)
  PROVE  PlayInv'
  BY SameScene DEF PlayInv

\* A step in which the player does something.
LEMMA PlayerMoves ==
  ASSUME PlayInv, Client, NEW q, NEW d, NEW h, PlayerIs(q, d, h), ~scene.hasty => Good(q),
         ~Rtsp => d \in Seq(Messages)
  PROVE  PlayInv'
<1>1. ~scene.hasty => Good(player')
  BY Sent DEF PlayerIs
<1>2. ~Rtsp => down' \in Seq(Messages)
  BY DEF PlayerIs
<1>3. ~Rtsp => Clean(session')
  BY DEF PlayerIs, PlayInv
<1>4. scene' = scene
  BY DEF PlayerIs
<1> QED
  BY <1>1, <1>2, <1>3, <1>4, PlayInvNext

\* A step the player has no part in.
LEMMA SessionMoves ==
  ASSUME PlayInv, scene' = scene, player' = player, ~Rtsp => Clean(session') /\ down' \in Seq(Messages)
  PROVE  PlayInv'
  BY PlayInvNext DEF PlayInv

\* A step in which the session does something.
LEMMA SessionActs ==
  ASSUME PlayInv, NEW s, SessionDoes(s), ~Rtsp => Clean(s)
  PROVE  PlayInv'
<1>1. scene' = scene /\ player' = player
  BY DEF SessionDoes
<1>2. ASSUME ~Rtsp PROVE Clean(session')
  BY <1>2 DEF SessionDoes, Clean, SessionMembers
<1>3. ASSUME ~Rtsp PROVE down' \in Seq(Messages)
  <2>1. s.out \in Seq(Messages)
    BY <1>3, Messaging DEF Clean
  <2>2. down \in Seq(Messages)
    BY <1>3 DEF PlayInv
  <2>3. down \o s.out \in Seq(Messages)
    BY <2>1, <2>2
  <2>4. down' = IF player.link = "open" THEN down \o s.out ELSE <<>>
    BY DEF SessionDoes
  <2> QED
    BY <2>3, <2>4
<1> QED
  BY <1>1, <1>2, <1>3, SessionMoves
-----------------------------------------------------------------------------
\* What the owner does.
LEMMA OwnerSteps ==
  ASSUME PlayInv, Client, UserPlay \/ UserPause \/ UserSeek \/ UserTeardown
  PROVE  PlayInv'
<1>1. ~scene.hasty => Good(player)
  BY DEF PlayInv
<1>2. ~Rtsp => down \in Seq(Messages)
  BY DEF PlayInv
<1>3. CASE UserPlay
  <2>1. PICK legal \in BOOLEAN :
          PlayerDoes(IF Rtsp THEN RtspP!Play(RtspP!SetCallbacks(player), legal)
                     ELSE RtmpP!Play(RtspP!SetCallbacks(player), legal))
    BY <1>3 DEF UserPlay
  <2>2. PICK q : q = IF Rtsp THEN RtspP!Play(RtspP!SetCallbacks(player), legal)
                     ELSE RtmpP!Play(RtspP!SetCallbacks(player), legal)
    OBVIOUS
  <2>3. ~scene.hasty => Good(q)
    BY <1>1, <2>2, RtspOwner, RtmpOwner DEF Good
  <2>4. PlayerIs(q, down, heard)
    BY <2>1, <2>2 DEF PlayerDoes
  <2> QED
    BY <1>2, <2>3, <2>4, PlayerMoves
<1>4. CASE UserPause
  <2>1. PICK flag \in BOOLEAN :
          MayOperate(~flag) /\ PlayerDoes(IF Rtsp THEN RtspP!Pause(player, flag) ELSE RtmpP!Pause(player, flag))
    BY <1>4 DEF UserPause
  <2>2. PICK q : q = IF Rtsp THEN RtspP!Pause(player, flag) ELSE RtmpP!Pause(player, flag)
    OBVIOUS
  <2>3. ~scene.hasty => player.link = "open" /\ player.told # <<>>
    BY <2>1 DEF MayOperate, Settled
  <2>4. ~scene.hasty => Good(q)
    BY <1>1, <2>2, <2>3, RtspOwner, RtmpOperates DEF Good
  <2>5. PlayerIs(q, down, heard)
    BY <2>1, <2>2 DEF PlayerDoes
  <2> QED
    BY <1>2, <2>4, <2>5, PlayerMoves
<1>5. CASE UserSeek
  <2>1. (Settled \/ scene.hasty) /\ PlayerDoes(IF Rtsp THEN RtspP!Seek(player) ELSE RtmpP!Seek(player))
    BY <1>5 DEF UserSeek, MayOperate
  <2>2. PICK q : q = IF Rtsp THEN RtspP!Seek(player) ELSE RtmpP!Seek(player)
    OBVIOUS
  <2>3. ~scene.hasty => player.link = "open" /\ player.told # <<>>
    BY <2>1 DEF Settled
  <2>4. ~scene.hasty => Good(q)
    BY <1>1, <2>2, <2>3, RtspOwner, RtmpOperates DEF Good
  <2>5. PlayerIs(q, down, heard)
    BY <2>1, <2>2 DEF PlayerDoes
  <2> QED
    BY <1>2, <2>4, <2>5, PlayerMoves
<1>6. CASE UserTeardown
  <2>1. PlayerDoes(IF Rtsp THEN RtspP!Teardown(player) ELSE RtmpP!Teardown(player))
    BY <1>6 DEF UserTeardown
  <2>2. PICK q : q = IF Rtsp THEN RtspP!Teardown(player) ELSE RtmpP!Teardown(player)
    OBVIOUS
  <2>3. ~scene.hasty => Good(q)
    BY <1>1, <2>2, RtspOwner, RtmpOwner DEF Good
  <2>4. PlayerIs(q, down, heard)
    BY <2>1, <2>2 DEF PlayerDoes
  <2> QED
    BY <1>2, <2>3, <2>4, PlayerMoves
<1> QED
  BY <1>3, <1>4, <1>5, <1>6

\* What the connection does.
LEMMA LinkSteps ==
  ASSUME PlayInv, Resolve \/ Connect \/ NotConnected \/ PlayerEof
  PROVE  PlayInv'
<1>1. ~scene.hasty /\ Client => Good(player)
  BY DEF PlayInv
<1>2. ~Rtsp => down \in Seq(Messages) /\ Clean(session)
  BY DEF PlayInv
<1>3. CASE Resolve
  <2>1. Client /\ player.link = "resolving" /\ player.link \in Live
    BY <1>3 DEF Resolve, PlayInv, Live
  <2>2. PICK q : PlayerDoes(q) /\ \/ q = [player EXCEPT !.link = "connecting"]
                                  \/ q = ToldConnect([player EXCEPT !.link = "closed"], FALSE)
    BY <1>3 DEF Resolve
  <2>3. CASE q = [player EXCEPT !.link = "connecting"]
    <3>1. ~scene.hasty => Good(q)
      BY <1>1, <2>1, <2>3, RtspConnects, RtmpConnects DEF Good
    <3> QED
      BY <1>2, <2>1, <2>2, <3>1, PlayerMoves DEF PlayerDoes
  <2>4. CASE q = ToldConnect([player EXCEPT !.link = "closed"], FALSE)
    <3>1. ~scene.hasty => Good(q)
      BY <1>1, <2>1, <2>4, RtspCloses, RtmpCloses DEF Good, ToldConnect
    <3> QED
      BY <1>2, <2>1, <2>2, <3>1, PlayerMoves DEF PlayerDoes
  <2> QED
    BY <2>2, <2>3, <2>4
<1>4. CASE Connect
  <2>1. Client /\ player.link = "connecting"
    BY <1>4 DEF Connect, PlayInv
  <2>2. PICK q : q = ToldConnect([player EXCEPT !.link = "open"], TRUE)
    OBVIOUS
  <2>3. ~scene.hasty => Good(q)
    BY <1>1, <2>1, <2>2, RtspConnects, RtmpConnects DEF Good, ToldConnect
  <2>4. player' = [q EXCEPT !.out = <<>>] /\ session' = Fresh /\ down' = <<>> /\ scene' = scene
    BY <1>4, <2>2 DEF Connect
  <2>5. ~scene.hasty => Good(player')
    BY <2>3, <2>4, Sent
  <2>6. ~Rtsp => Clean(session') /\ down' \in Seq(Messages)
    BY <2>4, SessionStarts DEF Fresh
  <2> QED
    BY <2>1, <2>4, <2>5, <2>6, PlayInvNext
<1>5. CASE NotConnected
  <2>1. Client /\ player.link \in Live
    BY <1>5 DEF NotConnected, PlayInv, Live
  <2>2. PICK q : q = ToldConnect([player EXCEPT !.link = "closed"], FALSE)
    OBVIOUS
  <2>3. ~scene.hasty => Good(q)
    BY <1>1, <2>1, <2>2, RtspCloses, RtmpCloses DEF Good, ToldConnect
  <2>4. PlayerIs(q, down, heard)
    BY <1>5, <2>2 DEF NotConnected, PlayerDoes
  <2> QED
    BY <1>2, <2>1, <2>3, <2>4, PlayerMoves
<1>6. CASE PlayerEof
  <2>1. Client /\ player.link \in Live
    BY <1>6 DEF PlayerEof, Live
  <2>2. PICK q : q = IF Rtsp THEN RtspP!OnErr(player, "eof") ELSE RtmpP!OnErr(player, "eof")
    OBVIOUS
  <2>3. ~scene.hasty => Good(q)
    BY <1>1, <2>1, <2>2, RtspCloses, RtmpCloses DEF Good
  <2>4. PlayerIs(q, down, heard)
    BY <1>6, <2>2 DEF PlayerEof, PlayerDoes
  <2> QED
    BY <1>2, <2>1, <2>3, <2>4, PlayerMoves
<1> QED
  BY <1>3, <1>4, <1>5, <1>6

\* What the player reads.
LEMMA ReadSteps ==
  ASSUME PlayInv, PlayAssumption, PlayerReads
  PROVE  PlayInv'
<1>1. Client /\ player.link = "open" /\ down # <<>>
  BY DEF PlayerReads
<1>2. ~scene.hasty => Good(player)
  BY <1>1 DEF PlayInv
<1>3. ~Rtsp => Head(down) \in Messages /\ Tail(down) \in Seq(Messages)
  BY <1>1 DEF PlayInv
<1>4. PICK m : m = Head(down)
  OBVIOUS
<1>5. CASE ~Rtsp /\ PlayerIs(RtmpP!OnMessage(player, m), Tail(down), Hear(heard, m))
  <2>1. ~scene.hasty => Good(RtmpP!OnMessage(player, m))
    BY <1>1, <1>2, <1>3, <1>4, <1>5, RtmpReads DEF Good
  <2> QED
    BY <1>1, <1>3, <1>5, <2>1, PlayerMoves
<1>6. CASE Rtsp /\ PlayerIs(RtspP!OnReply(player, m, scene.sdp), Tail(down), Hear(heard, m))
  <2>1. scene.sdp \in {"all", "some"}
    BY DEF PlayAssumption, PlayInv
  <2>2. ~scene.hasty => Good(RtspP!OnReply(player, m, scene.sdp))
    BY <1>1, <1>2, <1>6, <2>1, RtspReplies DEF Good
  <2> QED
    BY <1>1, <1>6, <2>2, PlayerMoves
<1>7. CASE Rtsp /\ \E done, beat \in BOOLEAN : PlayerIs(RtspP!OnRtp(player, done, beat), Tail(down), heard)
  <2>1. PICK done \in BOOLEAN, beat \in BOOLEAN : PlayerIs(RtspP!OnRtp(player, done, beat), Tail(down), heard)
    BY <1>7
  <2>2. ~scene.hasty => Good(RtspP!OnRtp(player, done, beat))
    BY <1>1, <1>2, <1>7, RtspMedia DEF Good
  <2> QED
    BY <1>1, <1>7, <2>1, <2>2, PlayerMoves
<1> QED
  BY <1>4, <1>5, <1>6, <1>7 DEF PlayerReads

\* The beat of a paused player.
LEMMA RtmpBeats == ASSUME NEW p, RtmpGood(p) PROVE RtmpGood(RtmpP!BeatTimer(p))
<1>1. PICK no : no = FALSE
  OBVIOUS
<1>2. CASE p.link = "open"
  <2>1. RtmpP!BeatTimer(p) = RtmpP!Command(p, "ping", no)
    BY <1>1 DEF RtmpP!BeatTimer
  <2> QED
    BY <1>2, <2>1, RtmpCommands
<1>3. CASE p.link # "open"
  BY <1>3 DEF RtmpP!BeatTimer, RtmpP!Command, RtmpP!Say
<1> QED
  BY <1>2, <1>3

\* What the timers do.
LEMMA TimerSteps ==
  ASSUME PlayInv, PlayTimer \/ RecvTimer \/ BeatTimer
  PROVE  PlayInv'
<1>1. Client
  BY DEF PlayTimer, RecvTimer, BeatTimer
<1>2. ~scene.hasty => Good(player)
  BY <1>1 DEF PlayInv
<1>3. ~Rtsp => down \in Seq(Messages)
  BY DEF PlayInv
<1>4. CASE PlayTimer
  <2>1. PICK q : q = IF Rtsp THEN RtspP!PlayTimer(player) ELSE RtmpP!PlayTimer(player)
    OBVIOUS
  <2>2. ~scene.hasty => Good(q)
    BY <1>2, <1>4, <2>1, RtspTimes, RtmpTimes DEF Good, PlayTimer
  <2>3. PlayerIs(q, down, heard)
    BY <1>4, <2>1 DEF PlayTimer, PlayerDoes
  <2> QED
    BY <1>1, <1>3, <2>2, <2>3, PlayerMoves
<1>5. CASE RecvTimer
  <2>1. PICK late \in RtspP!Silence(player) :
          PlayerDoes(IF Rtsp THEN RtspP!RecvTimer(player, late) ELSE RtmpP!RecvTimer(player, late))
    BY <1>5 DEF RecvTimer
  <2>2. late \in BOOLEAN
    BY <2>1 DEF RtspP!Silence
  <2>3. PICK q : q = IF Rtsp THEN RtspP!RecvTimer(player, late) ELSE RtmpP!RecvTimer(player, late)
    OBVIOUS
  <2>4. ~scene.hasty => Good(q)
    BY <1>2, <1>5, <2>2, <2>3, RtspTimes, RtmpTimes DEF Good, RecvTimer
  <2>5. PlayerIs(q, down, heard)
    BY <2>1, <2>3 DEF PlayerDoes
  <2> QED
    BY <1>1, <1>3, <2>4, <2>5, PlayerMoves
<1>6. CASE BeatTimer
  <2>1. ~Rtsp /\ PlayerIs(RtmpP!BeatTimer(player), down, heard)
    BY <1>6 DEF BeatTimer, PlayerDoes
  <2>2. ~scene.hasty => Good(RtmpP!BeatTimer(player))
    BY <1>2, <2>1, RtmpBeats DEF Good
  <2> QED
    BY <1>1, <1>3, <2>1, <2>2, PlayerMoves
<1> QED
  BY <1>4, <1>5, <1>6
-----------------------------------------------------------------------------
\* What the session does.
LEMMA SessionSteps ==
  ASSUME PlayInv,
         \/ SessionReads \/ SessionEof \/ LookFound \/ LookTimeOut
         \/ AuthAnswers \/ Manager \/ Detach \/ SourceWrites
  PROVE  PlayInv'
<1>1. ~Rtsp => Clean(session)
  BY DEF PlayInv
<1>2. CASE SessionReads
  <2>1. PICK asks, s :
          /\ asks \in BOOLEAN /\ SessionDoes(s)
          /\ ~Rtsp => s = RtmpS!OnRequest(session, Head(up), asks, live, made + 1)
    BY <1>2 DEF SessionReads
  <2>2. ~Rtsp => Clean(s)
    BY <1>1, <2>1, SessionServes
  <2> QED
    BY <2>1, <2>2, SessionActs
<1>3. CASE SessionEof
  <2>1. PICK s : SessionDoes(s) /\ (~Rtsp => s = RtmpS!Shutdown(session))
    BY <1>3 DEF SessionEof
  <2>2. ~Rtsp => Clean(s)
    BY <1>1, <2>1, SessionTalks
  <2> QED
    BY <2>1, <2>2, SessionActs
<1>4. CASE LookFound \/ LookTimeOut
  <2>1. PICK s, src : SessionDoes(s) /\ (~Rtsp => s = RtmpS!SendPlayResponse(session, src))
    BY <1>4 DEF LookFound, LookTimeOut, LookedUp
  <2>2. ~Rtsp => Clean(s)
    BY <1>1, <2>1, SessionPlays
  <2> QED
    BY <2>1, <2>2, SessionActs
<1>5. CASE AuthAnswers
  <2>1. PICK ok, s, l : SessionDoes(s) /\ s = RtmpS!OnAuth(session, ok, l)
    BY <1>5 DEF AuthAnswers
  <2>2. ~Rtsp => Clean(s)
    BY <1>1, <2>1, SessionAnswers
  <2> QED
    BY <2>1, <2>2, SessionActs
<1>6. CASE Manager
  <2>1. PICK s : SessionDoes(s) /\ (~Rtsp => s = RtmpS!OnManager(session))
    BY <1>6 DEF Manager
  <2>2. ~Rtsp => Clean(s)
    BY <1>1, <2>1, SessionTimes
  <2> QED
    BY <2>1, <2>2, SessionActs
<1>7. CASE Detach
  <2>1. PICK s : SessionDoes(s) /\ (~Rtsp => s = RtmpS!OnDetach(session))
    BY <1>7 DEF Detach
  <2>2. ~Rtsp => Clean(s)
    BY <1>1, <2>1, SessionTimes
  <2> QED
    BY <2>1, <2>2, SessionActs
<1>8. CASE SourceWrites
  <2>1. PICK s : SessionDoes(s) /\ (~Rtsp => s = RtmpS!OnRead(session))
    BY <1>8 DEF SourceWrites
  <2>2. ~Rtsp => Clean(s)
    BY <1>1, <2>1, SessionTimes
  <2> QED
    BY <2>1, <2>2, SessionActs
<1> QED
  BY <1>2, <1>3, <1>4, <1>5, <1>6, <1>7, <1>8

\* What happens to the session and the source besides.
LEMMA SourceSteps ==
  ASSUME PlayInv, Ages \/ SourceOn \/ SourceOff \/ OtherCloses
  PROVE  PlayInv'
<1>1. scene' = scene /\ player' = player /\ down' = down
  BY DEF Ages, SourceOn, SourceOff, OtherCloses
<1>2. ~Rtsp => Clean(session) /\ down \in Seq(Messages)
  BY DEF PlayInv
<1>3. ASSUME ~Rtsp PROVE Clean(session')
  <2>1. \/ session' = session \/ session' = [session EXCEPT !.late = TRUE]
        \/ session' = [session EXCEPT !.idle = TRUE] \/ session' = [session EXCEPT !.look = "posted"]
        \/ session' = [session EXCEPT !.open = FALSE]
    BY DEF Ages, SourceOn, SourceOff, OtherCloses
  <2> QED
    BY <1>2, <1>3, <2>1 DEF Clean, SessionMembers
<1> QED
  BY <1>1, <1>2, <1>3, SessionMoves

\* Another server.
LEMMA OtherSteps ==
  ASSUME PlayInv, OtherAnswers \/ OtherSends
  PROVE  PlayInv'
<1>1. scene' = scene /\ player' = player /\ session' = session /\ ~Server
  BY DEF OtherAnswers, OtherSends
<1>2. ~Rtsp => Clean(session) /\ down \in Seq(Messages)
  BY DEF PlayInv
<1>3. ASSUME ~Rtsp, OtherAnswers PROVE down' \in Seq(Messages)
  <2>1. PICK a \in OtherReply(Head(up)) : down' = down \o a
    BY <1>3 DEF OtherAnswers
  <2>2. PICK c : c = Head(up).cmd
    OBVIOUS
  <2>3. \A cmd \in Commands, l \in Levels : [t |-> "result", cmd |-> cmd, level |-> l] \in Messages
    BY DEF Messages, Answers
  <2>4. \A l \in Levels : [t |-> "status", code |-> "Other", level |-> l] \in Messages
    <3>1. "Other" \in Codes
      BY DEF Codes
    <3>2. \A code \in Codes, l \in Levels : [t |-> "status", code |-> code, level |-> l] \in Messages
      BY DEF Messages, Answers
    <3> QED
      BY <3>1, <3>2
  <2>5. [t |-> "dry"] \in Messages
    BY <1>1 DEF Messages
  <2>6. \/ a = <<>>
        \/ c \in Commands /\ \E l \in Levels : a = <<[t |-> "result", cmd |-> c, level |-> l]>>
        \/ \E l \in Levels : a = <<[t |-> "status", code |-> "Other", level |-> l]>>
        \/ a = <<[t |-> "dry"]>>
    <3>1. CASE c \in Commands
      <4>1. PICK l \in Levels : a = <<[t |-> "result", cmd |-> c, level |-> l]>>
        BY <1>3, <2>1, <2>2, <3>1 DEF OtherReply, Levels, Commands
      <4> QED
        BY <3>1, <4>1
    <3>2. CASE c \in {"play", "pause", "seek"}
      BY <1>3, <2>1, <2>2, <3>2 DEF OtherReply, Levels
    <3>3. CASE c \notin Commands \cup {"play", "pause", "seek"}
      BY <1>3, <2>1, <2>2, <3>3 DEF OtherReply, Commands
    <3> QED
      BY <3>1, <3>2, <3>3
  <2>7. \A m \in Messages : <<m>> \in Seq(Messages)
    OBVIOUS
  <2>8. a \in Seq(Messages)
    <3>1. CASE a = <<>>
      BY <3>1
    <3>2. ASSUME c \in Commands, NEW l \in Levels, a = <<[t |-> "result", cmd |-> c, level |-> l]>>
          PROVE  a \in Seq(Messages)
      BY <2>3, <2>7, <3>2
    <3>3. ASSUME NEW l \in Levels, a = <<[t |-> "status", code |-> "Other", level |-> l]>>
          PROVE  a \in Seq(Messages)
      BY <2>4, <2>7, <3>3
    <3>4. CASE a = <<[t |-> "dry"]>>
      BY <2>5, <2>7, <3>4
    <3> QED
      BY <2>6, <3>1, <3>2, <3>3, <3>4
  <2> QED
    BY <1>2, <1>3, <2>1, <2>8
<1>4. ASSUME ~Rtsp, OtherSends PROVE down' \in Seq(Messages)
  <2>1. PICK f \in BOOLEAN : down' = Append(down, [t |-> "media", frame |-> f])
    BY <1>4 DEF OtherSends
  <2>2. [t |-> "media", frame |-> f] \in Messages
    BY DEF Messages, Answers
  <2> QED
    BY <1>2, <1>4, <2>1, <2>2
<1> QED
  BY <1>1, <1>2, <1>3, <1>4, SessionMoves

\* A client that sends what it likes.
LEMMA AnySteps ==
  ASSUME PlayInv, AnySends \/ AnyReads \/ AnyCloses
  PROVE  PlayInv'
<1>1. scene' = scene /\ session' = session /\ ~Client
  BY DEF AnySends, AnyReads, AnyCloses
<1>2. ~Rtsp => Clean(session') /\ down \in Seq(Messages)
  BY <1>1 DEF PlayInv
<1>3. CASE AnySends \/ AnyReads
  <2>1. player' = player /\ (down' = down \/ (down' = Tail(down) /\ down # <<>>))
    BY <1>3 DEF AnySends, AnyReads
  <2> QED
    BY <1>1, <1>2, <2>1, SessionMoves
<1>4. CASE AnyCloses
  <2>1. player' = [player EXCEPT !.link = "closed"] /\ down' = <<>>
    BY <1>4 DEF AnyCloses
  <2>2. DOMAIN player = BaseMembers /\ player.told = <<>>
    BY <1>1 DEF PlayInv
  <2>3. DOMAIN player' = BaseMembers /\ player'.link \in {"open", "closed"} /\ player'.told = <<>>
    BY <2>1, <2>2 DEF BaseMembers
  <2> QED
    BY <1>1, <1>2, <2>1, <2>3, PlayInvNext
<1> QED
  BY <1>3, <1>4
-----------------------------------------------------------------------------
\* The invariant holds at first.
LEMMA PlayInvInit == Init => PlayInv
<1> SUFFICES ASSUME Init PROVE PlayInv
  OBVIOUS
<1>1. ASSUME Client, Rtsp PROVE Good(player)
  <2>1. player = RtspP!NewRtspPlayer(scene.over)
    BY <1>1 DEF Init
  <2>2. /\ DOMAIN player = RtspMembers /\ player.link = "none" /\ player.told = <<>> /\ player.handler = "none"
        /\ player.play = FALSE /\ player.recv = FALSE /\ player.result = FALSE
        /\ player.down = FALSE /\ player.stray = FALSE
    BY <2>1, RtspStarts
  <2>3. RtspGood(player)
    BY <2>2, Distinct DEF RtspGood, RtspKnows, Members, Rests, Core, Links, Live
  <2> QED
    BY <1>1, <2>3 DEF Good
<1>2. ASSUME Client, ~Rtsp PROVE Good(player)
  <2>1. player = RtmpP!NewRtmpPlayer
    BY <1>2 DEF Init
  <2>2. /\ DOMAIN player = RtmpMembers /\ player.link = "none" /\ player.told = <<>>
        /\ player.waiting = {} /\ player.statuses = <<>> /\ player.beat = FALSE
        /\ player.play = FALSE /\ player.recv = FALSE /\ player.result = FALSE
        /\ player.down = FALSE /\ player.stray = FALSE
    BY <2>1, RtmpStarts
  <2>3. RtmpGood(player)
    <3>1. RtmpKnows(player)
      <4>1. Members(player, RtmpMembers)
        BY <2>2 DEF Members, Links
      <4>2. player.waiting \subseteq {"connect", "createStream"}
        BY <2>2
      <4>3. player.statuses \in Seq(Expected)
        BY <2>2
      <4> QED
        BY <4>1, <4>2, <4>3 DEF RtmpKnows
    <3>2. player.link \notin Live /\ RtmpRests(player) /\ player.statuses \in Seq({"play"})
      BY <2>2 DEF Live, RtmpRests
    <3>3. <<>> \in Ongoing /\ <<>> \notin Over
      BY Distinct
    <3>4. Core(player) /\ player.told # <<"down">>
      BY <2>2, <3>2, <3>3, Distinct DEF Core
    <3> QED
      BY <2>2, <3>1, <3>2, <3>4 DEF RtmpGood
  <2> QED
    BY <1>2, <2>3 DEF Good
<1>3. ASSUME ~Client PROVE DOMAIN player = BaseMembers /\ player.link \in {"open", "closed"} /\ player.told = <<>>
  BY <1>3 DEF Init, RtspP!NewPlayer, BaseMembers
<1>4. ASSUME ~Rtsp PROVE Clean(session) /\ down \in Seq(Messages)
  <2>1. session = [RtmpS!NewRtmpSession EXCEPT !.open = ~Client] /\ down = <<>>
    BY <1>4 DEF Init, Fresh
  <2>2. PICK s : s = RtmpS!NewRtmpSession
    OBVIOUS
  <2>3. Clean(s)
    BY <2>2, SessionStarts
  <2>4. Clean([s EXCEPT !.open = ~Client])
    BY <2>3 DEF Clean, SessionMembers
  <2> QED
    BY <2>1, <2>2, <2>4
<1> QED
  BY <1>1, <1>2, <1>3, <1>4 DEF PlayInv, Init

\* Every step keeps the invariant.
LEMMA PlayInvStep == PlayInv /\ [Next]_vars => PlayInv'
<1> SUFFICES ASSUME PlayInv, [Next]_vars PROVE PlayInv'
  OBVIOUS
<1>1. CASE UNCHANGED vars
  <2>1. scene' = scene /\ player' = player /\ session' = session /\ down' = down
    BY <1>1 DEF vars
  <2> QED
    BY <2>1, SessionMoves DEF PlayInv
<1>2. CASE UserPlay \/ UserPause \/ UserSeek \/ UserTeardown
  BY <1>2, OwnerSteps DEF UserPlay, UserPause, UserSeek, UserTeardown
<1>3. CASE Resolve \/ Connect \/ NotConnected \/ PlayerEof
  BY <1>3, LinkSteps
<1>4. CASE PlayerReads
  BY <1>4, ReadSteps, PlayAssumption
<1>5. CASE PlayTimer \/ RecvTimer \/ BeatTimer
  BY <1>5, TimerSteps
<1>6. CASE SessionReads \/ SessionEof \/ LookFound \/ LookTimeOut \/ AuthAnswers \/ Manager \/ Detach \/ SourceWrites
  BY <1>6, SessionSteps
<1>7. CASE Ages \/ SourceOn \/ SourceOff \/ OtherCloses
  BY <1>7, SourceSteps
<1>8. CASE OtherAnswers \/ OtherSends
  BY <1>8, OtherSteps
<1>9. CASE AnySends \/ AnyReads \/ AnyCloses
  BY <1>9, AnySteps
<1> QED
  BY <1>1, <1>2, <1>3, <1>4, <1>5, <1>6, <1>7, <1>8, <1>9 DEF Next, PlayerLoop, PlayerTimes, SessionLoop

\* The invariant implies the property.
LEMMA PlayInvTells == PlayInv => PlayerTold
<1> SUFFICES ASSUME PlayInv PROVE PlayerTold
  OBVIOUS
<1>1. OutcomesInOrder
  <2>1. CASE ~Client
    BY <2>1 DEF PlayInv, OutcomesInOrder
  <2>2. CASE scene.hasty \/ player.stray
    BY <2>2 DEF OutcomesInOrder
  <2>3. CASE Client /\ ~scene.hasty /\ ~player.stray
    <3>1. Good(player)
      BY <2>3 DEF PlayInv
    <3>2. player.told \in Ongoing \cup Over
      BY <2>3, <3>1 DEF Good, RtspGood, RtmpGood, Core
    <3>3. player.told = <<"down">> => (Rtsp /\ scene.sdp = "some") \/ (~Rtsp /\ ~Server)
      BY <2>3, <3>1 DEF Good, RtspGood, RtmpGood, Some
    <3>4. CASE player.told \in {<<>>, <<"fail">>, <<"down">>}
      BY <3>3, <3>4 DEF OutcomesInOrder
    <3>5. CASE player.told = <<"ok">>
      <4>1. player.told[1] = "ok" /\ Len(player.told) = 1
        BY <3>5
      <4>2. 2 .. Len(player.told) = {}
        BY <4>1
      <4> QED
        BY <4>1, <4>2 DEF OutcomesInOrder
    <3>6. ASSUME NEW x \in {"resume", "down"}, player.told = <<"ok", x>> PROVE OutcomesInOrder
      <4>1. player.told[1] = "ok" /\ Len(player.told) = 2 /\ player.told[2] = x
        BY <3>6
      <4>2. \A i \in 2 .. Len(player.told) : i = 2
        BY <4>1
      <4> QED
        BY <4>1, <4>2 DEF OutcomesInOrder
    <3>7. CASE player.told = <<"ok", "resume", "down">>
      <4>1. /\ player.told[1] = "ok" /\ Len(player.told) = 3
            /\ player.told[2] = "resume" /\ player.told[3] = "down"
        BY <3>7
      <4>2. \A i \in 2 .. Len(player.told) : i = 2 \/ i = 3
        BY <4>1
      <4> QED
        BY <4>1, <4>2 DEF OutcomesInOrder
    <3> QED
      BY <3>2, <3>4, <3>5, <3>6, <3>7 DEF Ongoing, Over
  <2> QED
    BY <2>1, <2>2, <2>3
<1>2. RestsWhenDown
  BY DEF PlayInv, RestsWhenDown, Good, RtspGood, RtmpGood, Rests, RtmpRests
<1> QED
  BY <1>1, <1>2 DEF PlayerTold

\* The owner of a player is told the result first and once, then perhaps that it resumed,
\* and the end last, however the play timer, the end of the connection, a bad answer, the
\* check of received packets and a teardown race (onPlayResult_l of RtspPlayer and
\* RtmpPlayer, PlayerImp); and a player without a connection has nothing armed (teardown).
THEOREM ToldOnceAndInOrder == Spec => []PlayerTold
<1>1. Spec => []PlayInv
  BY PlayInvInit, PlayInvStep, PTL DEF Spec
<1> QED
  BY <1>1, PlayInvTells, PTL
-----------------------------------------------------------------------------
(* What a client has yet to read, and what the server has yet to answer.   *)

\* What a player expects: over RTMP, once the play is answered; over RTSP, the reply to a request.
Ops  == {"rest", "pause", "resume", "seek", "both"}
Cmds == {"OPTIONS", "DESCRIBE", "SETUP", "PLAY", "PAUSE", "GET_PARAMETER"}

\* Nothing is expected: of RTMP after a play, of RTMP before it has to go on, of RTSP.
Still == {"rest", "turn", "idle"}

\* The statuses of this server: what is expected before and after each of them.
Turns ==
  { <<"play", "Reset", "status", "start">>, <<"start", "Start", "status", "data">>,
    <<"data", "DataStart", "none", "notify">>, <<"notify", "PublishNotify", "status", "rest">>,
    <<"play", "NotFound", "error", "turn">>,
    <<"pause", "Pause", "status", "rest">>, <<"resume", "Unpause", "status", "rest">>,
    <<"seek", "Seek", "status", "rest">>, <<"both", "Unpause", "status", "seek">> }

\* Media that is not configuration, and a reply that carries the number of its request.
IsFrame(m) == m.t = "media" /\ m.frame
Right(m) == m.t = "reply" => m.cseq = m.to

\* A message takes a client from what it expected to what it expects.  Nothing is known of the replies
\* to a player whose requests crossed but their numbers, and of those to a hasty one not even these.
Goes(x, m, y) ==
  \/ x = "lost" /\ y = "lost" /\ (~Right(m) => m.cmd = "DESCRIBE")
  \/ x = "crossed" /\ y = "crossed" /\ Right(m) /\ (m.t = "media" => m.frame)
  \/ x \in Cmds /\ m.t = "reply" /\ Right(m) /\ x = m.cmd /\ y = "idle"
  \/ x \in Commands /\ m.t = "result" /\ m.level = "status" /\ x = m.cmd /\ y = "turn"
  \/ m.t = "status" /\ <<x, m.code, m.level, y>> \in Turns
  \/ m.t = "meta" /\ y = x /\ x \in Ops
  \/ m.t = "media" /\ y = x /\ (x \in Ops \/ (m.frame /\ x \in Cmds \cup {"idle"}))

\* A client that has heard h and expects x gets s; then it has heard k and expects y.
Runs(h, x, s, k, y) ==
  /\ IsSequence(s)
  /\ \E f, g :
       /\ f[0] = h /\ g[0] = x /\ f[Len(s)] = k /\ g[Len(s)] = y
       /\ \A i \in 1 .. Len(s) : /\ f[i] = Hear(f[i - 1], s[i]) /\ Goes(g[i - 1], s[i], g[i])
                                 /\ IsFrame(s[i]) => f[i - 1] = "playing"

\* A request that is answered takes the player from what it expects to what it expects then.
Serves(y, r, z) ==
  \/ y = "lost" /\ z = "lost"
  \/ y = "crossed" /\ z = "crossed" /\ r.cmd # "DESCRIBE"
  \/ y \in Cmds /\ y = r.cmd /\ z = "idle"
  \/ y \in Commands /\ y = r.cmd /\ z = "turn"
  \/ y = "play" /\ r.cmd = "play" /\ z = "rest"
  \/ r.cmd = "pause" /\ r.flag /\ y = "pause" /\ z = "rest"
  \/ r.cmd = "pause" /\ ~r.flag /\ <<y, z>> \in {<<"resume", "rest">>, <<"both", "seek">>}
  \/ r.cmd = "seek" /\ y = "seek" /\ z = "rest"
  \/ r.cmd = "ping" /\ y \in Ops /\ z = y

\* The answers to the requests u.
Awaits(y, u, z) ==
  /\ IsSequence(u)
  /\ \E g : g[0] = y /\ g[Len(u)] = z /\ \A i \in 1 .. Len(u) : Serves(g[i - 1], u[i], g[i])

\* No message.
LEMMA RunsNone == ASSUME NEW h, NEW x PROVE Runs(h, x, <<>>, h, x)
<1> DEFINE f == [i \in {0} |-> h]
           g == [i \in {0} |-> x]
<1>1. f[0] = h /\ g[0] = x /\ Len(<<>>) = 0 /\ 1 .. 0 = {}
  BY Nothing_
<1> QED
  BY <1>1, Nothing_ DEF Runs

\* One message.
LEMMA RunsOne ==
  ASSUME NEW h, NEW x, NEW m, NEW y, Goes(x, m, y), IsFrame(m) => h = "playing"
  PROVE  Runs(h, x, <<m>>, Hear(h, m), y)
<1> DEFINE f == [i \in {0, 1} |-> IF i = 0 THEN h ELSE Hear(h, m)]
           g == [i \in {0, 1} |-> IF i = 0 THEN x ELSE y]
           s == <<m>>
<1>1. f[0] = h /\ g[0] = x /\ f[1] = Hear(h, m) /\ g[1] = y /\ Len(s) = 1 /\ s[1] = m /\ \A i \in 1 .. 1 : i = 1
  BY OneOnly
<1>2. IsSequence(s)
  BY OneOnly
<1> HIDE DEF f, g, s
<1>3. \A i \in 1 .. Len(s) : /\ f[i] = Hear(f[i - 1], s[i]) /\ Goes(g[i - 1], s[i], g[i])
                             /\ IsFrame(s[i]) => f[i - 1] = "playing"
  BY <1>1
<1>4. Runs(h, x, s, Hear(h, m), y)
  BY <1>1, <1>2, <1>3 DEF Runs
<1> QED
  BY <1>4 DEF s

\* Messages after others.
LEMMA RunsMore ==
  ASSUME NEW h, NEW x, NEW s, NEW k, NEW y, NEW t, NEW l, NEW z, Runs(h, x, s, k, y), Runs(k, y, t, l, z)
  PROVE  Runs(h, x, s \o t, l, z)
<1>1. IsSequence(s) /\ IsSequence(t)
  BY DEF Runs
<1>2. PICK f, g : /\ f[0] = h /\ g[0] = x /\ f[Len(s)] = k /\ g[Len(s)] = y
                  /\ \A i \in 1 .. Len(s) : /\ f[i] = Hear(f[i - 1], s[i]) /\ Goes(g[i - 1], s[i], g[i])
                                            /\ IsFrame(s[i]) => f[i - 1] = "playing"
  BY DEF Runs
<1>3. PICK e, j : /\ e[0] = k /\ j[0] = y /\ e[Len(t)] = l /\ j[Len(t)] = z
                  /\ \A i \in 1 .. Len(t) : /\ e[i] = Hear(e[i - 1], t[i]) /\ Goes(j[i - 1], t[i], j[i])
                                            /\ IsFrame(t[i]) => e[i - 1] = "playing"
  BY DEF Runs
<1> DEFINE n == Len(s)
           p == s \o t
           a == [i \in 0 .. n + Len(t) |-> IF i <= n THEN f[i] ELSE e[i - n]]
           b == [i \in 0 .. n + Len(t) |-> IF i <= n THEN g[i] ELSE j[i - n]]
<1>4. /\ IsSequence(p) /\ n \in Nat /\ Len(t) \in Nat /\ Len(p) = n + Len(t)
      /\ \A i \in 1 .. n + Len(t) : p[i] = IF i <= n THEN s[i] ELSE t[i - n]
  BY <1>1, JoinedSequences
<1>5. \A i \in 0 .. n + Len(t) : a[i] = (IF i <= n THEN f[i] ELSE e[i - n]) /\ b[i] = IF i <= n THEN g[i] ELSE j[i - n]
  OBVIOUS
<1> HIDE DEF a, b, p
<1>6. a[0] = h /\ b[0] = x
  BY <1>2, <1>4, <1>5
<1>7. a[n + Len(t)] = l /\ b[n + Len(t)] = z
  <2>1. CASE Len(t) = 0
    BY <1>2, <1>3, <1>4, <1>5, <2>1
  <2>2. CASE Len(t) # 0
    BY <1>3, <1>4, <1>5, <2>2
  <2> QED
    BY <2>1, <2>2
<1>8. ASSUME NEW i \in 1 .. Len(p)
      PROVE  a[i] = Hear(a[i - 1], p[i]) /\ Goes(b[i - 1], p[i], b[i]) /\ (IsFrame(p[i]) => a[i - 1] = "playing")
  <2>1. CASE i <= n
    <3>1. i \in 1 .. n /\ i - 1 \in 0 .. n + Len(t) /\ i - 1 <= n /\ i \in 0 .. n + Len(t)
      BY <1>4, <1>8, <2>1
    <3>2. a[i] = f[i] /\ a[i - 1] = f[i - 1] /\ b[i] = g[i] /\ b[i - 1] = g[i - 1] /\ p[i] = s[i]
      BY <1>4, <1>5, <2>1, <3>1
    <3> QED
      BY <1>2, <3>1, <3>2
  <2>2. CASE i > n
    <3>1. i - n \in 1 .. Len(t) /\ i - 1 \in 0 .. n + Len(t) /\ i \in 0 .. n + Len(t) /\ ~(i <= n) /\ (i - n) - 1 = i - 1 - n
      BY <1>4, <1>8, <2>2
    <3>2. a[i] = e[i - n] /\ b[i] = j[i - n] /\ p[i] = t[i - n]
      BY <1>4, <1>5, <1>8, <3>1
    <3>3. a[i - 1] = e[(i - n) - 1] /\ b[i - 1] = j[(i - n) - 1]
      <4>1. CASE i - 1 <= n
        <5>1. i - 1 = n /\ (i - n) - 1 = 0
          BY <1>4, <2>2, <4>1, <1>8
        <5> QED
          BY <1>2, <1>3, <1>5, <3>1, <5>1
      <4>2. CASE ~(i - 1 <= n)
        BY <1>5, <3>1, <4>2
      <4> QED
        BY <4>1, <4>2
    <3> QED
      BY <1>3, <3>1, <3>2, <3>3
  <2> QED
    BY <1>4, <1>8, <2>1, <2>2
<1>9. Runs(h, x, p, l, z)
  <2>1. a[Len(p)] = l /\ b[Len(p)] = z
    BY <1>4, <1>7
  <2> QED
    BY <1>4, <1>6, <1>8, <2>1 DEF Runs
<1> QED
  BY <1>9 DEF p

\* The first message is read.
LEMMA RunsTail ==
  ASSUME NEW h, NEW x, NEW s, NEW k, NEW y, Runs(h, x, s, k, y), s # <<>>
  PROVE  /\ IsFrame(Head(s)) => h = "playing"
         /\ \E z : Goes(x, Head(s), z) /\ Runs(Hear(h, Head(s)), z, Tail(s), k, y)
<1>1. IsSequence(s)
  BY DEF Runs
<1>2. PICK f, g : /\ f[0] = h /\ g[0] = x /\ f[Len(s)] = k /\ g[Len(s)] = y
                  /\ \A i \in 1 .. Len(s) : /\ f[i] = Hear(f[i - 1], s[i]) /\ Goes(g[i - 1], s[i], g[i])
                                            /\ IsFrame(s[i]) => f[i - 1] = "playing"
  BY DEF Runs
<1> DEFINE t == Tail(s)
           n == Len(s)
           m == Head(s)
           a == [i \in 0 .. n |-> f[i + 1]]
           b == [i \in 0 .. n |-> g[i + 1]]
<1>3. /\ IsSequence(t) /\ n \in Nat \ {0} /\ Len(t) = n - 1 /\ m = s[1]
      /\ \A i \in 1 .. n - 1 : t[i] = s[i + 1]
  BY <1>1, Tailed
<1>4. \A i \in 0 .. n : a[i] = f[i + 1] /\ b[i] = g[i + 1]
  OBVIOUS
<1> HIDE DEF a, b, t, n, m
<1>5. 1 \in 1 .. Len(s) /\ 1 - 1 = 0
  BY <1>3 DEF n
<1>6. f[1] = Hear(h, m) /\ Goes(x, m, g[1]) /\ (IsFrame(m) => h = "playing")
  BY <1>2, <1>3, <1>5
<1>7. a[0] = Hear(h, m) /\ b[0] = g[1]
  BY <1>3, <1>4, <1>6
<1>8. a[Len(t)] = k /\ b[Len(t)] = y
  BY <1>2, <1>3, <1>4 DEF n
<1>9. ASSUME NEW i \in 1 .. Len(t)
      PROVE  a[i] = Hear(a[i - 1], t[i]) /\ Goes(b[i - 1], t[i], b[i]) /\ (IsFrame(t[i]) => a[i - 1] = "playing")
  <2>1. i \in 0 .. n /\ i - 1 \in 0 .. n /\ i + 1 \in 1 .. Len(s) /\ (i + 1) - 1 = i /\ (i - 1) + 1 = i /\ i \in 1 .. n - 1
    BY <1>3, <1>9 DEF n
  <2>2. a[i] = f[i + 1] /\ a[i - 1] = f[i] /\ b[i] = g[i + 1] /\ b[i - 1] = g[i] /\ t[i] = s[i + 1]
    BY <1>3, <1>4, <2>1
  <2> QED
    BY <1>2, <2>1, <2>2
<1>10. Runs(Hear(h, m), g[1], t, k, y)
  BY <1>3, <1>7, <1>8, <1>9 DEF Runs
<1> QED
  BY <1>6, <1>10 DEF t, m

\* From a player's place, by its kind.
LEMMA RunsEnds ==
  ASSUME NEW h, NEW x, NEW s, NEW k, NEW y, Runs(h, x, s, k, y)
  PROVE  /\ x \in Ops => y \in Ops
         /\ x \in Cmds => y \in {x, "idle"}
         /\ x \in {"rest", "turn", "idle", "crossed", "lost"} => y = x
<1>1. PICK f, g : /\ g[0] = x /\ g[Len(s)] = y /\ Len(s) \in Nat
                  /\ \A i \in 1 .. Len(s) : Goes(g[i - 1], s[i], g[i])
  <2>1. Len(s) \in Nat
    BY JoinedSequences DEF Runs
  <2> QED
    BY <2>1 DEF Runs
<1> DEFINE n == Len(s)
<1>2. \A S : x \in S /\ (\A i \in 1 .. n : g[i - 1] \in S => g[i] \in S) => y \in S
  <2> TAKE S
  <2> HAVE x \in S /\ (\A i \in 1 .. n : g[i - 1] \in S => g[i] \in S)
  <2> DEFINE T == {i \in 0 .. n : g[i] \in S}
  <2>1. 0 \in T /\ \A i \in 1 .. n : i - 1 \in T => i \in T
    BY <1>1
  <2> HIDE DEF T
  <2>2. \A i \in 0 .. n : i \in T
    BY <1>1, <2>1, Along
  <2> QED
    BY <1>1, <2>2 DEF T
<1> HIDE DEF n
<1>3. \A w, m, z : Goes(w, m, z) =>
        /\ w \in Ops => z \in Ops
        /\ w \in Cmds => z \in {w, "idle"}
        /\ w \in {"rest", "turn", "idle", "crossed", "lost"} => z = w
  BY DEF Goes, Ops, Cmds, Commands, Turns
<1>4. \A i \in 1 .. n : Goes(g[i - 1], s[i], g[i])
  BY <1>1 DEF n
<1>5. x \in Ops => y \in Ops
  BY <1>2, <1>3, <1>4
<1>6. ASSUME x \in Cmds PROVE y \in {x, "idle"}
  <2>1. \A i \in 1 .. n : g[i - 1] \in {x, "idle"} => g[i] \in {x, "idle"}
    BY <1>3, <1>4, <1>6
  <2> QED
    BY <1>2, <2>1
<1>7. ASSUME x \in {"rest", "turn", "idle", "crossed", "lost"} PROVE y = x
  <2>1. \A i \in 1 .. n : g[i - 1] \in {x} => g[i] \in {x}
    BY <1>3, <1>4, <1>7
  <2> QED
    BY <1>2, <2>1
<1> QED
  BY <1>5, <1>6, <1>7

\* A player that expects nothing may come to expect something, and one may lose track of its replies.
Turned(x, w) ==
  \/ x = "turn" /\ w \in {"createStream", "play"}
  \/ x = "rest" /\ w \in Ops
  \/ x = "idle" /\ w \in Cmds
  \/ x \in Cmds \cup {"idle", "crossed"} /\ w = "crossed"

LEMMA RunsElse ==
  ASSUME NEW h, NEW x, NEW s, NEW k, NEW y, NEW w, Runs(h, x, s, k, y), Turned(x, w)
  PROVE  Runs(h, w, s, k, w)
<1>1. PICK f, g : /\ f[0] = h /\ g[0] = x /\ f[Len(s)] = k /\ g[Len(s)] = y
                  /\ \A i \in 1 .. Len(s) : /\ f[i] = Hear(f[i - 1], s[i]) /\ Goes(g[i - 1], s[i], g[i])
                                            /\ IsFrame(s[i]) => f[i - 1] = "playing"
  BY DEF Runs
<1>2. Len(s) \in Nat /\ IsSequence(s)
  BY JoinedSequences DEF Runs
<1> DEFINE n == Len(s)
           S == IF w = "crossed" THEN Cmds \cup {"idle", "crossed"} ELSE {x}
           T == {i \in 0 .. n : g[i] \in S}
           b == [i \in 0 .. n |-> w]
<1>3. x \in S
  BY DEF Turned, Cmds, Ops
<1>4. \A v, m, z : Goes(v, m, z) /\ v \in S => z \in S /\ Goes(w, m, w)
  <2> SUFFICES ASSUME NEW v, NEW m, NEW z, Goes(v, m, z), v \in S PROVE z \in S /\ Goes(w, m, w)
    OBVIOUS
  <2>1. CASE w = "crossed"
    <3>1. v \in Cmds \cup {"idle", "crossed"}
      BY <2>1
    <3>2. \/ v = "crossed" /\ z = "crossed" /\ Right(m) /\ (m.t = "media" => m.frame)
          \/ v \in Cmds /\ m.t = "reply" /\ Right(m) /\ z = "idle"
          \/ m.t = "media" /\ m.frame /\ z = v
      BY <3>1 DEF Goes, Cmds, Commands, Turns, Ops
    <3>3. Right(m) /\ (m.t = "media" => m.frame)
      BY <3>2 DEF Right
    <3> QED
      BY <2>1, <3>1, <3>2, <3>3 DEF Goes
  <2>2. CASE w # "crossed"
    <3>1. v = x /\ S = {x}
      BY <2>2
    <3>2. CASE x = "turn"
      BY <3>1, <3>2 DEF Goes, Cmds, Commands, Turns, Ops
    <3>3. CASE x = "rest" /\ w \in Ops
      <4>1. m.t \in {"meta", "media"} /\ z = x
        BY <3>1, <3>3 DEF Goes, Cmds, Commands, Turns, Ops
      <4> QED
        BY <3>1, <3>3, <4>1 DEF Goes
    <3>4. CASE x = "idle" /\ w \in Cmds
      <4>1. m.t = "media" /\ m.frame /\ z = x
        BY <3>1, <3>4 DEF Goes, Cmds, Commands, Turns, Ops
      <4> QED
        BY <3>1, <3>4, <4>1 DEF Goes
    <3> QED
      BY <2>2, <3>2, <3>3, <3>4 DEF Turned
  <2> QED
    BY <2>1, <2>2
<1> HIDE DEF S
<1>5. \A i \in 0 .. n : i \in T
  <2>1. 0 \in T
    BY <1>1, <1>2, <1>3
  <2>2. \A i \in 1 .. n : i - 1 \in T => i \in T
    BY <1>1, <1>4
  <2> HIDE DEF T
  <2> QED
    BY <1>2, <2>1, <2>2, Along
<1>6. b[0] = w /\ b[n] = w /\ \A i \in 1 .. n : b[i - 1] = w /\ b[i] = w
  BY <1>2
<1> HIDE DEF b
<1>7. \A i \in 1 .. n : Goes(b[i - 1], s[i], b[i])
  <2> TAKE i \in 1 .. n
  <2>1. i - 1 \in 0 .. n
    BY <1>2
  <2>2. g[i - 1] \in S /\ Goes(g[i - 1], s[i], g[i])
    BY <1>1, <1>5, <2>1
  <2> QED
    BY <1>4, <1>6, <2>2
<1>8. \A i \in 1 .. n : /\ f[i] = Hear(f[i - 1], s[i]) /\ Goes(b[i - 1], s[i], b[i])
                        /\ IsFrame(s[i]) => f[i - 1] = "playing"
  BY <1>1, <1>7
<1>9. f[0] = h /\ b[0] = w /\ f[n] = k /\ b[n] = w
  BY <1>1, <1>6
<1> HIDE DEF n
<1> QED
  BY <1>2, <1>8, <1>9 DEF Runs, n

-----------------------------------------------------------------------------
\* No request, or one.
LEMMA AwaitsFew ==
  ASSUME NEW y, NEW r, NEW z
  PROVE  Awaits(y, <<>>, y) /\ (Serves(y, r, z) => Awaits(y, <<r>>, z))
<1>1. Awaits(y, <<>>, y)
  <2> DEFINE g == [i \in {0} |-> y]
  <2>1. g[0] = y /\ Len(<<>>) = 0 /\ 1 .. 0 = {}
    BY Nothing_
  <2> QED
    BY <2>1, Nothing_ DEF Awaits
<1>2. ASSUME Serves(y, r, z) PROVE Awaits(y, <<r>>, z)
  <2> DEFINE g == [i \in {0, 1} |-> IF i = 0 THEN y ELSE z]
             u == <<r>>
  <2>1. g[0] = y /\ g[1] = z /\ Len(u) = 1 /\ u[1] = r /\ \A i \in 1 .. 1 : i = 1
    BY OneOnly
  <2>2. IsSequence(u)
    BY OneOnly
  <2> HIDE DEF g, u
  <2>3. \A i \in 1 .. Len(u) : Serves(g[i - 1], u[i], g[i])
    BY <1>2, <2>1
  <2>4. Awaits(y, u, z)
    BY <2>1, <2>2, <2>3 DEF Awaits
  <2> QED
    BY <2>4 DEF u
<1> QED
  BY <1>1, <1>2

\* Requests after others.
LEMMA AwaitsMore ==
  ASSUME NEW x, NEW s, NEW y, NEW t, NEW z, Awaits(x, s, y), Awaits(y, t, z)
  PROVE  Awaits(x, s \o t, z)
<1>1. IsSequence(s) /\ IsSequence(t)
  BY DEF Awaits
<1>2. PICK g : g[0] = x /\ g[Len(s)] = y /\ \A i \in 1 .. Len(s) : Serves(g[i - 1], s[i], g[i])
  BY DEF Awaits
<1>3. PICK j : j[0] = y /\ j[Len(t)] = z /\ \A i \in 1 .. Len(t) : Serves(j[i - 1], t[i], j[i])
  BY DEF Awaits
<1> DEFINE n == Len(s)
           p == s \o t
           b == [i \in 0 .. n + Len(t) |-> IF i <= n THEN g[i] ELSE j[i - n]]
<1>4. /\ IsSequence(p) /\ n \in Nat /\ Len(t) \in Nat /\ Len(p) = n + Len(t)
      /\ \A i \in 1 .. n + Len(t) : p[i] = IF i <= n THEN s[i] ELSE t[i - n]
  BY <1>1, JoinedSequences
<1>5. \A i \in 0 .. n + Len(t) : b[i] = IF i <= n THEN g[i] ELSE j[i - n]
  OBVIOUS
<1> HIDE DEF b, p
<1>6. b[0] = x
  BY <1>2, <1>4, <1>5
<1>7. b[n + Len(t)] = z
  <2>1. CASE Len(t) = 0
    BY <1>2, <1>3, <1>4, <1>5, <2>1
  <2>2. CASE Len(t) # 0
    BY <1>3, <1>4, <1>5, <2>2
  <2> QED
    BY <2>1, <2>2
<1>8. ASSUME NEW i \in 1 .. Len(p) PROVE Serves(b[i - 1], p[i], b[i])
  <2>1. CASE i <= n
    <3>1. i \in 1 .. n /\ i - 1 \in 0 .. n + Len(t) /\ i - 1 <= n /\ i \in 0 .. n + Len(t)
      BY <1>4, <1>8, <2>1
    <3>2. b[i] = g[i] /\ b[i - 1] = g[i - 1] /\ p[i] = s[i]
      BY <1>4, <1>5, <2>1, <3>1
    <3> QED
      BY <1>2, <3>1, <3>2
  <2>2. CASE i > n
    <3>1. i - n \in 1 .. Len(t) /\ i - 1 \in 0 .. n + Len(t) /\ i \in 0 .. n + Len(t) /\ ~(i <= n) /\ (i - n) - 1 = i - 1 - n
      BY <1>4, <1>8, <2>2
    <3>2. b[i] = j[i - n] /\ p[i] = t[i - n]
      BY <1>4, <1>5, <1>8, <3>1
    <3>3. b[i - 1] = j[(i - n) - 1]
      <4>1. CASE i - 1 <= n
        <5>1. i - 1 = n /\ (i - n) - 1 = 0
          BY <1>4, <2>2, <4>1, <1>8
        <5> QED
          BY <1>2, <1>3, <1>5, <3>1, <5>1
      <4>2. CASE ~(i - 1 <= n)
        BY <1>5, <3>1, <4>2
      <4> QED
        BY <4>1, <4>2
    <3> QED
      BY <1>3, <3>1, <3>2, <3>3
  <2> QED
    BY <1>4, <1>8, <2>1, <2>2
<1>9. Awaits(x, p, z)
  BY <1>4, <1>6, <1>7, <1>8 DEF Awaits
<1> QED
  BY <1>9 DEF p

\* The first request is answered.
LEMMA AwaitsTail ==
  ASSUME NEW x, NEW s, NEW y, Awaits(x, s, y), s # <<>>
  PROVE  \E z : Serves(x, Head(s), z) /\ Awaits(z, Tail(s), y)
<1>1. IsSequence(s)
  BY DEF Awaits
<1>2. PICK g : g[0] = x /\ g[Len(s)] = y /\ \A i \in 1 .. Len(s) : Serves(g[i - 1], s[i], g[i])
  BY DEF Awaits
<1> DEFINE t == Tail(s)
           n == Len(s)
           m == Head(s)
           b == [i \in 0 .. n |-> g[i + 1]]
<1>3. /\ IsSequence(t) /\ n \in Nat \ {0} /\ Len(t) = n - 1 /\ m = s[1]
      /\ \A i \in 1 .. n - 1 : t[i] = s[i + 1]
  BY <1>1, Tailed
<1>4. \A i \in 0 .. n : b[i] = g[i + 1]
  OBVIOUS
<1> HIDE DEF b, t, n, m
<1>5. 1 \in 1 .. Len(s) /\ 1 - 1 = 0
  BY <1>3 DEF n
<1>6. Serves(x, m, g[1])
  BY <1>2, <1>3, <1>5
<1>7. b[0] = g[1] /\ b[Len(t)] = y
  BY <1>2, <1>3, <1>4 DEF n
<1>8. ASSUME NEW i \in 1 .. Len(t) PROVE Serves(b[i - 1], t[i], b[i])
  <2>1. i \in 0 .. n /\ i - 1 \in 0 .. n /\ i + 1 \in 1 .. Len(s) /\ (i + 1) - 1 = i /\ (i - 1) + 1 = i /\ i \in 1 .. n - 1
    BY <1>3, <1>8 DEF n
  <2>2. b[i] = g[i + 1] /\ b[i - 1] = g[i] /\ t[i] = s[i + 1]
    BY <1>3, <1>4, <2>1
  <2> QED
    BY <1>2, <2>1, <2>2
<1>9. Awaits(g[1], t, y)
  BY <1>3, <1>7, <1>8 DEF Awaits
<1> QED
  BY <1>6, <1>9 DEF t, m

\* By the kind of the place.
LEMMA AwaitsEnds ==
  ASSUME NEW x, NEW s, NEW y, Awaits(x, s, y)
  PROVE  /\ x \in Ops => y \in Ops
         /\ x \in Cmds => y \in {x, "idle"}
         /\ x \in {"rest", "turn", "idle", "crossed", "lost"} => y = x
         /\ x \in {"turn", "idle"} => s = <<>>
<1>1. PICK g : /\ g[0] = x /\ g[Len(s)] = y /\ Len(s) \in Nat
               /\ \A i \in 1 .. Len(s) : Serves(g[i - 1], s[i], g[i])
  <2>1. Len(s) \in Nat
    BY JoinedSequences DEF Awaits
  <2> QED
    BY <2>1 DEF Awaits
<1> DEFINE n == Len(s)
<1>2. \A S : x \in S /\ (\A i \in 1 .. n : g[i - 1] \in S => g[i] \in S) => y \in S
  <2> TAKE S
  <2> HAVE x \in S /\ (\A i \in 1 .. n : g[i - 1] \in S => g[i] \in S)
  <2> DEFINE T == {i \in 0 .. n : g[i] \in S}
  <2>1. 0 \in T /\ \A i \in 1 .. n : i - 1 \in T => i \in T
    BY <1>1
  <2> HIDE DEF T
  <2>2. \A i \in 0 .. n : i \in T
    BY <1>1, <2>1, Along
  <2> QED
    BY <1>1, <2>2 DEF T
<1> HIDE DEF n
<1>3. \A w, m, z : Serves(w, m, z) =>
        /\ w \in Ops => z \in Ops
        /\ w \in Cmds => z \in {w, "idle"}
        /\ w \in {"rest", "turn", "idle", "crossed", "lost"} => z = w
        /\ w \notin {"turn", "idle"}
  BY DEF Serves, Ops, Cmds, Commands
<1>4. \A i \in 1 .. n : Serves(g[i - 1], s[i], g[i])
  BY <1>1 DEF n
<1>5. x \in Ops => y \in Ops
  BY <1>2, <1>3, <1>4
<1>6. ASSUME x \in Cmds PROVE y \in {x, "idle"}
  <2>1. \A i \in 1 .. n : g[i - 1] \in {x, "idle"} => g[i] \in {x, "idle"}
    BY <1>3, <1>4, <1>6
  <2> QED
    BY <1>2, <2>1
<1>7. ASSUME x \in {"rest", "turn", "idle", "crossed", "lost"} PROVE y = x
  <2>1. \A i \in 1 .. n : g[i - 1] \in {x} => g[i] \in {x}
    BY <1>3, <1>4, <1>7
  <2> QED
    BY <1>2, <2>1
<1>8. ASSUME x \in {"turn", "idle"}, s # <<>> PROVE FALSE
  <2>1. n # 0
    <3>1. IsSequence(s)
      BY DEF Awaits
    <3> QED
      BY <1>8, <3>1, Tailed DEF n
  <2>2. 1 \in 1 .. n /\ 1 - 1 = 0
    BY <1>1, <2>1 DEF n
  <2>3. Serves(x, s[1], g[1])
    BY <1>1, <1>4, <2>2
  <2> QED
    BY <1>3, <1>8, <2>3
<1> QED
  BY <1>5, <1>6, <1>7, <1>8

\* A player that turns to something else.
LEMMA AwaitsElse ==
  ASSUME NEW x, NEW s, NEW y, NEW w, Awaits(x, s, y), Turned(x, w), x # "DESCRIBE"
  PROVE  Awaits(w, s, w)
<1>1. PICK g : /\ g[0] = x /\ g[Len(s)] = y /\ Len(s) \in Nat
               /\ \A i \in 1 .. Len(s) : Serves(g[i - 1], s[i], g[i])
  <2>1. Len(s) \in Nat
    BY JoinedSequences DEF Awaits
  <2> QED
    BY <2>1 DEF Awaits
<1>2. Len(s) \in Nat /\ IsSequence(s)
  BY JoinedSequences DEF Awaits
<1> DEFINE n == Len(s)
           S == IF w = "crossed" THEN (Cmds \cup {"idle", "crossed"}) \ {"DESCRIBE"} ELSE {x}
           T == {i \in 0 .. n : g[i] \in S}
           b == [i \in 0 .. n |-> w]
<1>3. x \in S
  BY DEF Turned, Cmds, Ops
<1>4. \A v, m, z : Serves(v, m, z) /\ v \in S => z \in S /\ Serves(w, m, w)
  <2> SUFFICES ASSUME NEW v, NEW m, NEW z, Serves(v, m, z), v \in S PROVE z \in S /\ Serves(w, m, w)
    OBVIOUS
  <2>1. CASE w = "crossed"
    <3>1. v \in (Cmds \cup {"idle", "crossed"}) \ {"DESCRIBE"}
      BY <2>1
    <3>2. m.cmd # "DESCRIBE" /\ z \in {"idle", "crossed"}
      BY <3>1 DEF Serves, Cmds, Commands, Ops
    <3> QED
      BY <2>1, <3>2 DEF Serves
  <2>2. CASE w # "crossed"
    <3>1. v = x /\ S = {x}
      BY <2>2
    <3>2. CASE x = "turn" \/ x = "idle"
      BY <3>1, <3>2 DEF Serves, Cmds, Commands, Ops
    <3>3. CASE x = "rest" /\ w \in Ops
      <4>1. m.cmd = "ping" /\ z = x
        BY <3>1, <3>3 DEF Serves, Cmds, Commands, Ops
      <4> QED
        BY <3>1, <3>3, <4>1 DEF Serves
    <3> QED
      BY <2>2, <3>2, <3>3 DEF Turned
  <2> QED
    BY <2>1, <2>2
<1> HIDE DEF S
<1>5. \A i \in 0 .. n : i \in T
  <2>1. 0 \in T
    BY <1>1, <1>2, <1>3
  <2>2. \A i \in 1 .. n : i - 1 \in T => i \in T
    BY <1>1, <1>4
  <2> HIDE DEF T
  <2> QED
    BY <1>2, <2>1, <2>2, Along
<1>6. b[0] = w /\ b[n] = w /\ \A i \in 1 .. n : b[i - 1] = w /\ b[i] = w
  BY <1>2
<1> HIDE DEF b
<1>7. \A i \in 1 .. n : Serves(b[i - 1], s[i], b[i])
  <2> TAKE i \in 1 .. n
  <2>1. i - 1 \in 0 .. n
    BY <1>2
  <2>2. g[i - 1] \in S /\ Serves(g[i - 1], s[i], g[i])
    BY <1>1, <1>5, <2>1
  <2> QED
    BY <1>4, <1>6, <2>2
<1> HIDE DEF n
<1> QED
  BY <1>2, <1>6, <1>7 DEF Awaits, n

-----------------------------------------------------------------------------
(* Both ends of a connection.                                              *)

\* What is expected once everything is answered.
Final == {"turn", "rest", "idle", "crossed", "lost"}

\* What may be expected, by protocol.
Places == IF Rtsp THEN Cmds \cup {"idle", "crossed", "lost"}
          ELSE Ops \cup {"connect", "createStream", "turn", "play", "start", "data", "notify", "lost"}

\* A session sends media of the source it reads.
Sends(s) == IF Rtsp THEN s.send ELSE s.reader # 0 /\ ~s.paused

\* A client will expect y once it has read all that is on its way: it gets that of the session s,
\* which has the requests u to answer, and perhaps one whose answer is awaited.
Due(s, u, y) ==
  IF s.look = "no" THEN \E z \in Final : Awaits(y, u, z)
  ELSE \/ y = "lost" /\ Awaits(y, u, y)
       \/ y = "DESCRIBE" /\ s.asked = s.cseq /\ \E z \in Final : Awaits("idle", u, z)
       \/ y = "play" /\ s.look # "publish" /\ \E z \in Final : Awaits("rest", u, z)

\* It will have heard k by then: a session that sends media has said so.
Owes(s, u, k, y) ==
  s.open =>
    /\ Sends(s) => k = "playing"
    /\ y \in Places /\ Due(s, u, y)
    /\ ~Rtsp /\ s.reader # 0 => y \in Ops \cup {"lost"}

\* A player that expects x sends o and expects w.
Asks(x, o, w) ==
  \/ w = x /\ o = <<>>
  \/ w = x /\ x = "lost" /\ Awaits("lost", o, "lost")
  \/ w = x /\ x \in Ops /\ Awaits("rest", o, "rest")
  \/ Turned(x, w) /\ x # "DESCRIBE" /\ \E z \in Final : Awaits(w, o, z)

\* What it sends is added to what the session owes.
LEMMA AskKeeps ==
  ASSUME NEW h, NEW x, NEW d, NEW k, NEW y, NEW s, NEW u, NEW o, NEW w,
         Runs(h, x, d, k, y), Owes(s, u, k, y), Asks(x, o, w)
  PROVE  \E v : Runs(h, w, d, k, v) /\ Owes(s, u \o o, k, v)
<1>1. CASE w = x /\ o = <<>>
  <2>1. s.open => IsSequence(u)
    BY DEF Owes, Due, Awaits
  <2>2. s.open => u \o o = u
    BY <1>1, <2>1 DEF IsSequence
  <2>3. Owes(s, u \o o, k, y)
    BY <2>2 DEF Owes
  <2> QED
    BY <1>1, <2>3
<1>2. CASE w = x /\ x = "lost" /\ Awaits("lost", o, "lost")
  <2>1. y = "lost"
    BY <1>2, RunsEnds
  <2>2. ASSUME s.open PROVE Due(s, u \o o, y)
    <3>1. Due(s, u, y)
      BY <2>2 DEF Owes
    <3>2. \E z : Awaits("lost", u, z)
      BY <2>1, <3>1 DEF Due
    <3>3. Awaits("lost", u, "lost")
      BY <3>2, AwaitsEnds
    <3>4. Awaits("lost", u \o o, "lost")
      BY <1>2, <3>3, AwaitsMore
    <3> QED
      BY <2>1, <3>4 DEF Due, Final
  <2> QED
    BY <1>2, <2>2 DEF Owes
<1>3. CASE w = x /\ x \in Ops /\ Awaits("rest", o, "rest")
  <2>1. y \in Ops
    BY <1>3, RunsEnds
  <2>2. ASSUME s.open PROVE Due(s, u \o o, y)
    <3>1. s.look = "no" /\ \E z \in Final : Awaits(y, u, z)
      BY <2>1, <2>2 DEF Owes, Due, Ops
    <3>2. PICK z \in Final : Awaits(y, u, z)
      BY <3>1
    <3>3. z \in Ops
      BY <2>1, <3>2, AwaitsEnds
    <3>4. z = "rest"
      BY <3>2, <3>3 DEF Final, Ops
    <3>5. Awaits(y, u \o o, z)
      BY <1>3, <3>2, <3>4, AwaitsMore
    <3> QED
      BY <3>1, <3>2, <3>5 DEF Due
  <2> QED
    BY <1>3, <2>2 DEF Owes
<1>4. CASE Turned(x, w) /\ x # "DESCRIBE" /\ \E z \in Final : Awaits(w, o, z)
  <2>1. Runs(h, w, d, k, w)
    BY <1>4, RunsElse
  <2>2. Turned(y, w) /\ y # "DESCRIBE" /\ y \notin {"lost", "play"} /\ (y = x \/ w = "crossed")
    <3>1. CASE x \in {"turn", "rest", "idle", "crossed"}
      <4>1. y = x
        BY <3>1, RunsEnds
      <4> QED
        BY <1>4, <3>1, <4>1
    <3>2. CASE x \in Cmds
      <4>1. y \in {x, "idle"}
        BY <3>2, RunsEnds
      <4>2. w = "crossed"
        BY <1>4, <3>2 DEF Turned, Cmds
      <4> QED
        BY <1>4, <3>2, <4>1, <4>2 DEF Turned, Cmds
    <3> QED
      BY <1>4, <3>1, <3>2 DEF Turned
  <2>3. ASSUME s.open PROVE Due(s, u \o o, w) /\ w \in Places /\ (~Rtsp /\ s.reader # 0 => w \in Ops \cup {"lost"})
    <3>1. s.look = "no" /\ \E z \in Final : Awaits(y, u, z)
      BY <2>2, <2>3 DEF Owes, Due
    <3>2. Awaits(w, u, w)
      BY <2>2, <3>1, AwaitsElse
    <3>3. PICK z \in Final : Awaits(w, o, z)
      BY <1>4
    <3>4. Awaits(w, u \o o, z)
      BY <3>2, <3>3, AwaitsMore
    <3>5. y \in Places /\ (~Rtsp /\ s.reader # 0 => y \in Ops \cup {"lost"})
      BY <2>3 DEF Owes
    <3>6. w \in Places
      BY <2>2, <3>5 DEF Places, Turned, Cmds, Ops
    <3>7. ~Rtsp /\ s.reader # 0 => w \in Ops \cup {"lost"}
      BY <2>2, <3>5 DEF Turned, Cmds, Ops
    <3> QED
      BY <3>1, <3>3, <3>4, <3>6, <3>7 DEF Due
  <2>4. Owes(s, u \o o, k, w)
    BY <2>3 DEF Owes
  <2> QED
    BY <2>1, <2>4
<1> QED
  BY <1>1, <1>2, <1>3, <1>4 DEF Asks

-----------------------------------------------------------------------------
(* The RTSP session.                                                       *)

RtspServer ==
  {"open", "cseq", "session", "setup", "over", "source", "reader", "send", "push", "own", "look", "asked",
   "late", "idle", "out"}

\* A message to the client, if there is one.
Note(s, code, cmd, to) ==
  [t |-> "reply", code |-> code, cseq |-> s.cseq, session |-> s.session, cmd |-> cmd, to |-> to]

\* sendRtspResponse and shutdown.
LEMMA RtspReplying ==
  ASSUME NEW s, DOMAIN s = RtspServer, s.open, s.out = <<>>, NEW code, NEW cmd, NEW to
  PROVE  LET q == RtspS!Reply(s, code, cmd, to) IN
           /\ DOMAIN q = RtspServer /\ q.out = << Note(s, code, cmd, to) >>
           /\ \A f \in RtspServer \ {"out"} : q[f] = s[f]
<1>m. PICK m : m = Note(s, code, cmd, to)
  OBVIOUS
<1>1. RtspS!Reply(s, code, cmd, to) = [s EXCEPT !.out = Append(@, m)]
  BY <1>m DEF RtspS!Reply, RtspS!Send, Note
<1>2. Append(<<>>, m) = <<m>>
  OBVIOUS
<1> QED
  BY <1>m, <1>1, <1>2 DEF RtspServer

LEMMA RtspShuts ==
  ASSUME NEW s, DOMAIN s = RtspServer
  PROVE  LET q == RtspS!Shutdown(s) IN
           DOMAIN q = RtspServer /\ q.open = FALSE /\ q.look = "no" /\ q.out = s.out
  BY DEF RtspS!Shutdown, RtspServer

\* Media goes on if it did, or starts, and not after a pause.
MaySend(s, q, r, code) == q.send => IF r.cmd = "PLAY" THEN code = "200" ELSE s.send /\ r.cmd # "PAUSE"

\* A request is answered, or waits for its stream, or the session ends.
Replied(s, q, r) ==
  /\ DOMAIN q = RtspServer /\ (q.look # "no" => q.open)
  /\ \/ q.out = <<>> /\ q.open = FALSE
     \/ q.out = <<>> /\ q.look = "wait" /\ r.cmd = "DESCRIBE" /\ q.asked = r.cseq /\ q.cseq = r.cseq /\ q.send = s.send
     \/ \E m : /\ q.out = <<m>> /\ m.t = "reply" /\ m.cmd = r.cmd /\ m.cseq = r.cseq /\ m.to = r.cseq
               /\ q.open => q.look \in {"no", s.look} /\ MaySend(s, q, r, m.code)

\* An answer that changes nothing but what other requests read.
LEMMA RtspAnswered ==
  ASSUME NEW s, s.open, NEW q, DOMAIN q = RtspServer, q.open, q.out = <<>>, NEW r, q.cseq = r.cseq, NEW code,
         q.look \in {"no", s.look},
         MaySend(s, q, r, code)
  PROVE  Replied(s, RtspS!Reply(q, code, r.cmd, r.cseq), r)
<1>p. PICK p : p = RtspS!Reply(q, code, r.cmd, r.cseq)
  OBVIOUS
<1>1. /\ DOMAIN p = RtspServer /\ p.out = << Note(q, code, r.cmd, r.cseq) >>
      /\ \A f \in RtspServer \ {"out"} : p[f] = q[f]
  BY <1>p, RtspReplying
<1>2. PICK m : m = Note(q, code, r.cmd, r.cseq)
  OBVIOUS
<1>3. m.t = "reply" /\ m.cmd = r.cmd /\ m.cseq = r.cseq /\ m.to = r.cseq /\ m.code = code
  BY <1>2 DEF Note
<1>4. p.open /\ p.look = q.look /\ p.send = q.send
  BY <1>1 DEF RtspServer
<1>5. Replied(s, p, r)
  BY <1>1, <1>2, <1>3, <1>4 DEF Replied, MaySend
<1> QED
  BY <1>p, <1>5

\* A refusal, with an answer or without.
LEMMA RtspRefused ==
  ASSUME NEW s, s.open, NEW q, DOMAIN q = RtspServer, q.open, q.out = <<>>, NEW r, q.cseq = r.cseq
  PROVE  /\ \A code : Replied(s, RtspS!Refuse(q, code, r), r)
         /\ Replied(s, RtspS!Shutdown(q), r)
<1>1. ASSUME NEW code PROVE Replied(s, RtspS!Refuse(q, code, r), r)
  <2>p. PICK p : p = RtspS!Reply(q, code, r.cmd, r.cseq)
    OBVIOUS
  <2>t. PICK t : t = RtspS!Shutdown(p)
    OBVIOUS
  <2>1. DOMAIN p = RtspServer /\ p.out = << Note(q, code, r.cmd, r.cseq) >>
    BY <2>p, RtspReplying
  <2>2. PICK m : m = Note(q, code, r.cmd, r.cseq)
    OBVIOUS
  <2>3. m.t = "reply" /\ m.cmd = r.cmd /\ m.cseq = r.cseq /\ m.to = r.cseq
    BY <2>2 DEF Note
  <2>4. DOMAIN t = RtspServer /\ t.open = FALSE /\ t.look = "no" /\ t.out = <<m>>
    BY <2>t, <2>1, <2>2, RtspShuts
  <2>5. Replied(s, t, r)
    BY <2>3, <2>4 DEF Replied
  <2> QED
    BY <2>p, <2>t, <2>5 DEF RtspS!Refuse
<1>2. Replied(s, RtspS!Shutdown(q), r)
  BY RtspShuts DEF Replied
<1> QED
  BY <1>1, <1>2

\* The answer to a description, as soon as there is one.
LEMMA RtspDescribes ==
  ASSUME NEW s, DOMAIN s = RtspServer, s.open, s.out = <<>>, NEW src
  PROVE  LET q == RtspS!Described(s, src) IN
           /\ DOMAIN q = RtspServer /\ q.look = "no" /\ (q.open => q.send = s.send)
           /\ \E m : q.out = <<m>> /\ m.t = "reply" /\ m.cmd = "DESCRIBE" /\ m.cseq = s.cseq /\ m.to = s.asked
<1>q. PICK q : q = RtspS!Described(s, src)
  OBVIOUS
<1>1. ASSUME src = 0
      PROVE  /\ DOMAIN q = RtspServer /\ q.look = "no" /\ (q.open => q.send = s.send)
             /\ \E m : q.out = <<m>> /\ m.t = "reply" /\ m.cmd = "DESCRIBE" /\ m.cseq = s.cseq /\ m.to = s.asked
  <2>p. PICK p : p = RtspS!Reply(s, "404", "DESCRIBE", s.asked)
    OBVIOUS
  <2>1. DOMAIN p = RtspServer /\ p.out = << Note(s, "404", "DESCRIBE", s.asked) >>
    BY <2>p, RtspReplying
  <2>2. q = RtspS!Shutdown(p)
    BY <1>q, <1>1, <2>p DEF RtspS!Described
  <2>3. DOMAIN q = RtspServer /\ q.open = FALSE /\ q.look = "no" /\ q.out = p.out
    BY <2>1, <2>2, RtspShuts
  <2>4. PICK m : m = Note(s, "404", "DESCRIBE", s.asked)
    OBVIOUS
  <2>5. m.t = "reply" /\ m.cmd = "DESCRIBE" /\ m.cseq = s.cseq /\ m.to = s.asked
    BY <2>4 DEF Note
  <2> QED
    BY <2>1, <2>3, <2>4, <2>5
<1>2. ASSUME src # 0
      PROVE  /\ DOMAIN q = RtspServer /\ q.look = "no" /\ (q.open => q.send = s.send)
             /\ \E m : q.out = <<m>> /\ m.t = "reply" /\ m.cmd = "DESCRIBE" /\ m.cseq = s.cseq /\ m.to = s.asked
  <2>no. PICK no : no = [i \in 1 .. Tracks |-> FALSE]
    OBVIOUS
  <2>p. PICK p : p = [s EXCEPT !.look = "no", !.session = @ + 1, !.source = src, !.setup = no]
    OBVIOUS
  <2>1. /\ DOMAIN p = RtspServer /\ p.open /\ p.out = <<>> /\ p.look = "no" /\ p.send = s.send
        /\ p.cseq = s.cseq /\ p.asked = s.asked
    BY <2>p DEF RtspServer
  <2>2. q = RtspS!Reply(p, "200", "DESCRIBE", s.asked)
    BY <1>q, <1>2, <2>no, <2>p DEF RtspS!Described
  <2>3. /\ DOMAIN q = RtspServer /\ q.out = << Note(p, "200", "DESCRIBE", s.asked) >>
        /\ \A f \in RtspServer \ {"out"} : q[f] = p[f]
    BY <2>1, <2>2, RtspReplying
  <2>4. q.look = "no" /\ q.send = s.send
    BY <2>1, <2>3 DEF RtspServer
  <2>5. PICK m : m = Note(p, "200", "DESCRIBE", s.asked)
    OBVIOUS
  <2>6. m.t = "reply" /\ m.cmd = "DESCRIBE" /\ m.cseq = s.cseq /\ m.to = s.asked
    BY <2>1, <2>5 DEF Note
  <2> QED
    BY <2>1, <2>3, <2>4, <2>5, <2>6
<1> QED
  BY <1>q, <1>1, <1>2

\* onWholeRtspPacket
LEMMA RtspServes ==
  ASSUME NEW s, DOMAIN s = RtspServer, s.open, s.out = <<>>, NEW r, NEW src
  PROVE  Replied(s, RtspS!OnRequest(s, r, src), r)
<1>q. PICK q : q = [s EXCEPT !.idle = FALSE, !.cseq = r.cseq]
  OBVIOUS
<1>1. /\ DOMAIN q = RtspServer /\ q.open /\ q.out = <<>> /\ q.cseq = r.cseq /\ q.look = s.look /\ q.send = s.send
  BY <1>q DEF RtspServer
<1>2. /\ \A code : Replied(s, RtspS!Refuse(q, code, r), r)
      /\ Replied(s, RtspS!Shutdown(q), r)
  BY <1>1, RtspRefused
<1>3. ASSUME r.cmd \notin {"PLAY", "PAUSE"}, NEW code PROVE Replied(s, RtspS!Reply(q, code, r.cmd, r.cseq), r)
  <2>1. MaySend(s, q, r, code)
    BY <1>1, <1>3 DEF MaySend
  <2> QED
    BY <1>1, <2>1, RtspAnswered
<1>4. CASE r.cmd = "DESCRIBE"
  <2>p. PICK p : p = [q EXCEPT !.asked = r.cseq]
    OBVIOUS
  <2>1. /\ DOMAIN p = RtspServer /\ p.open /\ p.out = <<>> /\ p.cseq = r.cseq /\ p.asked = r.cseq /\ p.send = s.send
    BY <1>1, <2>p DEF RtspServer
  <2>2. Replied(s, RtspS!Described(p, src), r)
    <3>e. PICK e : e = RtspS!Described(p, src)
      OBVIOUS
    <3>1. /\ DOMAIN e = RtspServer /\ e.look = "no" /\ (e.open => e.send = p.send)
          /\ \E m : e.out = <<m>> /\ m.t = "reply" /\ m.cmd = "DESCRIBE" /\ m.cseq = p.cseq /\ m.to = p.asked
      BY <2>1, <3>e, RtspDescribes
    <3>2. Replied(s, e, r)
      BY <1>4, <2>1, <3>1 DEF Replied, MaySend
    <3> QED
      BY <3>2, <3>e
  <2>3. Replied(s, [p EXCEPT !.look = "wait"], r)
    <3>e. PICK e : e = [p EXCEPT !.look = "wait"]
      OBVIOUS
    <3>1. /\ DOMAIN e = RtspServer /\ e.open /\ e.out = <<>> /\ e.cseq = r.cseq /\ e.asked = r.cseq
          /\ e.send = s.send /\ e.look = "wait"
      BY <2>1, <3>e DEF RtspServer
    <3>2. Replied(s, e, r)
      BY <1>4, <2>1, <3>1 DEF Replied, MaySend
    <3> QED
      BY <3>2, <3>e
  <2>4. RtspS!OnRequest(s, r, src) = IF src # 0 THEN RtspS!Described(p, src) ELSE [p EXCEPT !.look = "wait"]
    BY <1>q, <1>4, <2>p DEF RtspS!OnRequest, RtspS!HandleReqDescribe
  <2> QED
    BY <2>2, <2>3, <2>4
<1>5. CASE r.cmd = "ANNOUNCE"
  <2>no. PICK no : no = [i \in 1 .. Tracks |-> FALSE]
    OBVIOUS
  <2>p. PICK p : p = [q EXCEPT !.session = @ + 1, !.push = TRUE, !.own = 0, !.setup = no]
    OBVIOUS
  <2>1. /\ DOMAIN p = RtspServer /\ p.open /\ p.out = <<>> /\ p.cseq = r.cseq /\ p.look = s.look /\ p.send = s.send
    BY <1>1, <2>p DEF RtspServer
  <2>4. PICK code : code = "200"
    OBVIOUS
  <2>5. MaySend(s, p, r, code)
    BY <1>5, <2>1, <2>4 DEF MaySend
  <2>6. Replied(s, RtspS!Reply(p, code, r.cmd, r.cseq), r)
    BY <2>1, <2>5, RtspAnswered
  <2>2. Replied(s, RtspS!Reply(p, "200", r.cmd, r.cseq), r)
    BY <2>4, <2>6
  <2>3. RtspS!OnRequest(s, r, src) = IF src # 0 THEN RtspS!Refuse(q, "406", r) ELSE RtspS!Reply(p, "200", r.cmd, r.cseq)
    BY <1>q, <1>5, <2>no, <2>p DEF RtspS!OnRequest, RtspS!HandleReqANNOUNCE
  <2> QED
    BY <1>2, <2>2, <2>3
<1>6. CASE r.cmd = "RECORD"
  <2>1. RtspS!OnRequest(s, r, src) \in
          {RtspS!Refuse(q, "454", r), RtspS!Shutdown(q), RtspS!Reply(q, "200", r.cmd, r.cseq)}
    BY <1>q, <1>6 DEF RtspS!OnRequest, RtspS!HandleReqRECORD
  <2> QED
    BY <1>2, <1>3, <1>6, <2>1
<1>7. CASE r.cmd = "SETUP"
  <2>set. PICK set : set = [q.setup EXCEPT ![r.track] = TRUE]
    OBVIOUS
  <2>p. PICK p : p = [q EXCEPT !.setup = set, !.over = r.over]
    OBVIOUS
  <2>1. /\ DOMAIN p = RtspServer /\ p.open /\ p.out = <<>> /\ p.cseq = r.cseq /\ p.look = s.look /\ p.send = s.send
    BY <1>1, <2>p DEF RtspServer
  <2>2. ASSUME NEW code PROVE Replied(s, RtspS!Reply(p, code, r.cmd, r.cseq), r)
    <3>1. MaySend(s, p, r, code)
      BY <1>7, <2>1 DEF MaySend
    <3> QED
      BY <2>1, <3>1, RtspAnswered
  <2>3. RtspS!OnRequest(s, r, src) \in
          {RtspS!Shutdown(q), RtspS!Reply(p, IF r.over = "TCP" THEN "200" ELSE "461", r.cmd, r.cseq)}
    BY <1>q, <1>7, <2>set, <2>p DEF RtspS!OnRequest, RtspS!HandleReqSetup
  <2> QED
    BY <1>2, <2>2, <2>3
<1>8. CASE r.cmd = "PLAY"
  <2>p. PICK p : p = [q EXCEPT !.send = TRUE, !.reader = IF @ = 0 THEN src ELSE @]
    OBVIOUS
  <2>1. /\ DOMAIN p = RtspServer /\ p.open /\ p.out = <<>> /\ p.cseq = r.cseq /\ p.look = s.look
    BY <1>1, <2>p DEF RtspServer
  <2>4. PICK code : code = "200"
    OBVIOUS
  <2>5. MaySend(s, p, r, code)
    BY <1>8, <2>1, <2>4 DEF MaySend
  <2>6. Replied(s, RtspS!Reply(p, code, r.cmd, r.cseq), r)
    BY <2>1, <2>5, RtspAnswered
  <2>2. Replied(s, RtspS!Reply(p, "200", r.cmd, r.cseq), r)
    BY <2>4, <2>6
  <2>3. RtspS!OnRequest(s, r, src) \in
          {RtspS!Refuse(q, "454", r), RtspS!Refuse(q, "404", r), RtspS!Shutdown(q), RtspS!Reply(p, "200", r.cmd, r.cseq)}
    BY <1>q, <1>8, <2>p DEF RtspS!OnRequest, RtspS!HandleReqPlay
  <2> QED
    BY <1>2, <2>2, <2>3
<1>9. CASE r.cmd = "PAUSE"
  <2>p. PICK p : p = RtspS!Reply(q, "200", r.cmd, r.cseq)
    OBVIOUS
  <2>1. /\ DOMAIN p = RtspServer /\ p.out = << Note(q, "200", r.cmd, r.cseq) >>
        /\ \A f \in RtspServer \ {"out"} : p[f] = q[f]
    BY <1>1, <2>p, RtspReplying
  <2>e. PICK e : e = [p EXCEPT !.send = FALSE]
    OBVIOUS
  <2>2. DOMAIN e = RtspServer /\ e.out = p.out /\ e.open /\ e.look = s.look /\ e.send = FALSE
    BY <1>1, <2>1, <2>e DEF RtspServer
  <2>3. PICK m : m = Note(q, "200", r.cmd, r.cseq)
    OBVIOUS
  <2>4. m.t = "reply" /\ m.cmd = r.cmd /\ m.cseq = r.cseq /\ m.to = r.cseq
    BY <1>1, <2>3 DEF Note
  <2>5. Replied(s, e, r)
    BY <2>1, <2>2, <2>3, <2>4 DEF Replied, MaySend
  <2>6. RtspS!OnRequest(s, r, src) \in {RtspS!Refuse(q, "454", r), e}
    BY <1>q, <1>9, <2>p, <2>e DEF RtspS!OnRequest, RtspS!HandleReqPause
  <2> QED
    BY <1>2, <2>5, <2>6
<1>10. CASE r.cmd \notin {"DESCRIBE", "ANNOUNCE", "RECORD", "SETUP", "PLAY", "PAUSE"}
  <2>1. RtspS!OnRequest(s, r, src) \in
          {RtspS!Refuse(q, "200", r), RtspS!Refuse(q, "403", r), RtspS!Reply(q, "200", r.cmd, r.cseq)}
    <3>1. CASE r.cmd = "TEARDOWN"
      BY <1>q, <3>1 DEF RtspS!OnRequest
    <3>2. CASE r.cmd \in {"OPTIONS", "GET_PARAMETER"}
      BY <1>q, <3>2 DEF RtspS!OnRequest
    <3>3. CASE r.cmd \notin {"TEARDOWN", "OPTIONS", "GET_PARAMETER"}
      BY <1>q, <1>10, <3>3 DEF RtspS!OnRequest
    <3> QED
      BY <3>1, <3>2, <3>3
  <2> QED
    BY <1>2, <1>3, <1>10, <2>1
<1> QED
  BY <1>4, <1>5, <1>6, <1>7, <1>8, <1>9, <1>10

\* What a session says agrees with what the client expects, and it owes what is left.
Settles(q, u, k, y) == \E l, v : Runs(k, y, q.out, l, v) /\ Owes(q, u, l, v)

\* A request is read: it is one that is expected.
LEMMA RtspExpected ==
  ASSUME Rtsp, NEW s, NEW u, NEW k, NEW y, Owes(s, u, k, y), s.open, u # <<>>
  PROVE  /\ s.look # "no" => y = "lost"
         /\ y \in Places /\ (s.send => k = "playing")
         /\ \E w : /\ Serves(y, Head(u), w) /\ \E z \in Final : Awaits(w, Tail(u), z)
<1>1. y \in Places /\ Due(s, u, y) /\ (s.send => k = "playing")
  BY DEF Owes, Sends
<1>2. y # "play"
  BY <1>1 DEF Places, Cmds
<1>3. ~ \E z : Awaits("idle", u, z)
  BY AwaitsEnds
<1>4. s.look # "no" => y = "lost"
  BY <1>1, <1>2, <1>3 DEF Due
<1>5. \E z \in Final : Awaits(y, u, z)
  BY <1>1, <1>2, <1>3 DEF Due, Final
<1>6. \E w : Serves(y, Head(u), w) /\ \E z \in Final : Awaits(w, Tail(u), z)
  BY <1>5, AwaitsTail
<1> QED
  BY <1>1, <1>4, <1>6

\* onWholeRtspPacket keeps both ends in step.
LEMMA RtspSettles ==
  ASSUME Rtsp, NEW s, NEW u, NEW k, NEW y, Owes(s, u, k, y), s.open, u # <<>>, NEW q, Replied(s, q, Head(u))
  PROVE  Settles(q, Tail(u), k, y)
<1>r. PICK r : r = Head(u)
  OBVIOUS
<1>t. PICK t : t = Tail(u)
  OBVIOUS
<1>1. /\ s.look # "no" => y = "lost"
      /\ y \in Places /\ (s.send => k = "playing")
  BY RtspExpected
<1>2. PICK w, z : Serves(y, r, w) /\ z \in Final /\ Awaits(w, t, z)
  BY <1>r, <1>t, RtspExpected
<1>3. Replied(s, q, r)
  BY <1>r
<1>4. \/ y = "lost" /\ w = "lost"
      \/ y = "crossed" /\ w = "crossed" /\ r.cmd # "DESCRIBE"
      \/ y \in Cmds /\ y = r.cmd /\ w = "idle"
  BY <1>1, <1>2 DEF Places, Serves, Cmds, Ops, Commands
<1>5. CASE q.out = <<>> /\ q.open = FALSE
  <2>1. Owes(q, t, k, y)
    BY <1>5 DEF Owes
  <2> QED
    BY <1>5, <1>t, <2>1, RunsNone DEF Settles
<1>6. CASE q.out = <<>> /\ q.look = "wait" /\ r.cmd = "DESCRIBE" /\ q.asked = r.cseq /\ q.cseq = r.cseq /\ q.send = s.send
  <2>1. y = "lost" => Awaits(y, t, y)
    <3>1. y = "lost" => z = "lost" /\ w = "lost"
      BY <1>2, <1>4, AwaitsEnds DEF Cmds
    <3> QED
      BY <1>2, <3>1
  <2>2. y # "lost" => y = "DESCRIBE" /\ w = "idle"
    BY <1>4, <1>6
  <2>3. Due(q, t, y)
    BY <1>2, <1>6, <2>1, <2>2 DEF Due
  <2>4. Owes(q, t, k, y)
    BY <1>1, <1>6, <2>3 DEF Owes, Sends
  <2> QED
    BY <1>6, <1>t, <2>4, RunsNone DEF Settles
<1>7. ASSUME NEW m, q.out = <<m>>, m.t = "reply", m.cmd = r.cmd, m.cseq = r.cseq, m.to = r.cseq,
             q.open => q.look \in {"no", s.look} /\ MaySend(s, q, r, m.code)
      PROVE  Settles(q, t, k, y)
  <2>1. Goes(y, m, w) /\ ~IsFrame(m)
    BY <1>4, <1>7 DEF Goes, Right, IsFrame
  <2>2. Runs(k, y, <<m>>, Hear(k, m), w)
    BY <2>1, RunsOne
  <2>3. ASSUME q.open PROVE q.send => Hear(k, m) = "playing"
    <3>1. m.cmd \notin {"PLAY", "PAUSE"} => Hear(k, m) = k
      BY <1>7 DEF Hear
    <3>2. m.cmd = "PLAY" /\ m.code = "200" => Hear(k, m) = "playing"
      BY <1>7 DEF Hear
    <3> QED
      BY <1>1, <1>7, <2>3, <3>1, <3>2 DEF MaySend
  <2>4. w \in Places
    BY <1>1, <1>4 DEF Places
  <2>5. ASSUME q.open PROVE Due(q, t, w)
    <3>1. CASE q.look = "no"
      BY <1>2, <3>1 DEF Due
    <3>2. CASE q.look # "no"
      <4>1. y = "lost" /\ w = "lost"
        BY <1>1, <1>4, <1>7, <2>5, <3>2 DEF Cmds
      <4>2. z = "lost"
        BY <1>2, <4>1, AwaitsEnds
      <4> QED
        BY <1>2, <3>2, <4>1, <4>2 DEF Due
    <3> QED
      BY <3>1, <3>2
  <2>6. Owes(q, t, Hear(k, m), w)
    BY <2>3, <2>4, <2>5 DEF Owes, Sends
  <2> QED
    BY <1>7, <2>2, <2>6 DEF Settles
<1>8. Settles(q, t, k, y)
  BY <1>3, <1>5, <1>6, <1>7, <1>t DEF Replied
<1> QED
  BY <1>8, <1>t

\* The look-up of a description ends.
LEMMA RtspLooks ==
  ASSUME Rtsp, NEW s, DOMAIN s = RtspServer, s.open, s.out = <<>>, s.look # "no", NEW src,
         NEW u, NEW k, NEW y, Owes(s, u, k, y)
  PROVE  Settles(RtspS!Described(s, src), u, k, y)
<1>q. PICK q : q = RtspS!Described(s, src)
  OBVIOUS
<1>1. DOMAIN q = RtspServer /\ q.look = "no" /\ (q.open => q.send = s.send)
  BY <1>q, RtspDescribes
<1>2. PICK m : q.out = <<m>> /\ m.t = "reply" /\ m.cmd = "DESCRIBE" /\ m.cseq = s.cseq /\ m.to = s.asked
  BY <1>q, RtspDescribes
<1>3. y \in Places /\ Due(s, u, y) /\ (s.send => k = "playing")
  BY DEF Owes, Sends
<1>4. y # "play"
  BY <1>3 DEF Places, Cmds
<1>5. \/ y = "lost" /\ Awaits("lost", u, "lost")
      \/ y = "DESCRIBE" /\ s.asked = s.cseq /\ \E z \in Final : Awaits("idle", u, z)
  BY <1>3, <1>4 DEF Due
<1>6. PICK w : w \in {"lost", "idle"} /\ Goes(y, m, w) /\ \E z \in Final : Awaits(w, u, z)
  <2>1. CASE y = "lost" /\ Awaits("lost", u, "lost")
    <3>1. Goes(y, m, "lost")
      BY <1>2, <2>1 DEF Goes
    <3> QED
      BY <2>1, <3>1 DEF Final
  <2>2. CASE y = "DESCRIBE" /\ s.asked = s.cseq /\ \E z \in Final : Awaits("idle", u, z)
    <3>1. Goes(y, m, "idle")
      BY <1>2, <2>2 DEF Goes, Right, Cmds
    <3> QED
      BY <2>2, <3>1
  <2> QED
    BY <1>5, <2>1, <2>2
<1>7. Hear(k, m) = k /\ ~IsFrame(m)
  BY <1>2 DEF Hear, IsFrame
<1>8. Runs(k, y, <<m>>, k, w)
  BY <1>6, <1>7, RunsOne
<1>9. Owes(q, u, k, w)
  BY <1>1, <1>3, <1>6 DEF Owes, Sends, Due, Places
<1> QED
  BY <1>2, <1>8, <1>9, <1>q DEF Settles

\* A session that ends owes nothing.
LEMMA EndSettles ==
  ASSUME NEW q, q.open = FALSE, q.out = <<>>, NEW u, NEW k, NEW y
  PROVE  Settles(q, u, k, y)
<1>1. Owes(q, u, k, y)
  BY DEF Owes
<1> QED
  BY <1>1, RunsNone DEF Settles

\* What the other end does not see changes nothing.
LEMMA OwesSame ==
  ASSUME NEW s, NEW q, NEW u, NEW k, NEW y, Owes(s, u, k, y), q.open => s.open,
         q.look = s.look \/ (s.look = "wait" /\ q.look = "posted"),
         Rtsp => q.asked = s.asked /\ q.cseq = s.cseq /\ q.send = s.send,
         ~Rtsp => q.reader = s.reader /\ q.paused = s.paused
  PROVE  Owes(q, u, k, y)
<1>1. CASE Rtsp
  BY <1>1 DEF Owes, Due, Sends
<1>2. CASE ~Rtsp
  <2>1. y \in Places => y # "DESCRIBE"
    BY <1>2 DEF Places, Ops
  <2>2. ASSUME q.open PROVE y \in Places /\ Due(s, u, y)
    BY <2>2 DEF Owes
  <2>3. q.open => Due(q, u, y)
    BY <2>1, <2>2 DEF Due
  <2> QED
    BY <1>2, <2>3 DEF Owes, Sends
<1> QED
  BY <1>1, <1>2

\* The reader's callback of the RTSP session.
LEMMA RtspWrites ==
  ASSUME Rtsp, NEW s, DOMAIN s = RtspServer, s.open, s.out = <<>>, NEW u, NEW k, NEW y, Owes(s, u, k, y)
  PROVE  Settles(RtspS!OnRead(s), u, k, y)
<1>1. CASE s.send
  <2>1. PICK m : m = [t |-> "media", frame |-> TRUE]
    OBVIOUS
  <2>2. PICK q : q = [s EXCEPT !.out = Append(@, m)]
    OBVIOUS
  <2>3. RtspS!OnRead(s) = q
    BY <1>1, <2>1, <2>2 DEF RtspS!OnRead, RtspS!Send
  <2>4. q.out = Append(<<>>, m) /\ q.open = s.open /\ q.look = s.look /\ q.asked = s.asked /\ q.cseq = s.cseq /\ q.send = s.send
    BY <2>2 DEF RtspServer
  <2>5. q.out = <<m>>
    BY <2>4
  <2>6. Owes(q, u, k, y)
    BY <2>4, OwesSame
  <2>7. k = "playing" /\ y \in Cmds \cup {"idle", "crossed", "lost"}
    BY <1>1 DEF Owes, Sends, Places
  <2>8. m.t = "media" /\ m.frame /\ Right(m) /\ Hear(k, m) = k
    BY <2>1 DEF Right, Hear
  <2>9. Goes(y, m, y)
    BY <2>7, <2>8 DEF Goes
  <2>10. Runs(k, y, <<m>>, k, y)
    BY <2>7, <2>8, <2>9, RunsOne
  <2> QED
    BY <2>3, <2>5, <2>6, <2>10 DEF Settles
<1>2. CASE ~s.send
  <2>1. RtspS!OnRead(s) = s
    BY <1>2 DEF RtspS!OnRead
  <2> QED
    BY <2>1, RunsNone DEF Settles
<1> QED
  BY <1>1, <1>2
-----------------------------------------------------------------------------
(* The RTMP session.                                                       *)

\* A message more.
LEMMA RunsThen ==
  ASSUME NEW h, NEW x, NEW s, NEW k, NEW y, Runs(h, x, s, k, y), NEW m, NEW z, Goes(y, m, z),
         IsFrame(m) => k = "playing"
  PROVE  Runs(h, x, Append(s, m), Hear(k, m), z)
<1>1. Runs(k, y, <<m>>, Hear(k, m), z)
  BY RunsOne
<1>2. Runs(h, x, s \o <<m>>, Hear(k, m), z)
  BY <1>1, RunsMore
<1>3. IsSequence(s)
  BY DEF Runs
<1>4. PICK S : s \in Seq(S)
  BY <1>3 DEF IsSequence
<1>5. s \in Seq(S \cup {m})
  BY <1>4
<1>6. Append(s, m) = s \o <<m>>
  BY <1>5, AppendIsConcat
<1> QED
  BY <1>2, <1>6

\* What a session has said since it was s.
Spoke(s, q, k, y, l, v) ==
  /\ DOMAIN q = SessionMembers /\ q.open
  /\ \A f \in SessionMembers \ {"out"} : q[f] = s[f]
  /\ Runs(k, y, q.out, l, v)

LEMMA SpeaksOn ==
  ASSUME NEW s, NEW q, NEW k, NEW y, NEW l, NEW v, Spoke(s, q, k, y, l, v), NEW m, NEW w,
         Goes(v, m, w), IsFrame(m) => l = "playing"
  PROVE  Spoke(s, RtmpS!Send(q, m), k, y, Hear(l, m), w)
<1>1. PICK p : p = [q EXCEPT !.out = Append(@, m)]
  OBVIOUS
<1>2. RtmpS!Send(q, m) = p
  BY <1>1 DEF RtmpS!Send, Spoke
<1>3. DOMAIN p = SessionMembers /\ p.out = Append(q.out, m) /\ \A f \in SessionMembers \ {"out"} : p[f] = q[f]
  BY <1>1 DEF Spoke, SessionMembers
<1>4. p.open /\ \A f \in SessionMembers \ {"out"} : p[f] = s[f]
  BY <1>3 DEF Spoke, SessionMembers
<1>5. Runs(k, y, p.out, Hear(l, m), w)
  BY <1>3, RunsThen DEF Spoke
<1>6. Spoke(s, p, k, y, Hear(l, m), w)
  BY <1>3, <1>4, <1>5 DEF Spoke
<1> QED
  BY <1>2, <1>6

LEMMA SpeaksFirst ==
  ASSUME NEW s, DOMAIN s = SessionMembers, s.open, s.out = <<>>, NEW k, NEW y
  PROVE  Spoke(s, s, k, y, k, y)
  BY RunsNone DEF Spoke

\* A status, or a result.
LEMMA SpeaksStatus ==
  ASSUME NEW s, NEW q, NEW k, NEW y, NEW l, NEW v, Spoke(s, q, k, y, l, v), NEW code, NEW level, NEW w,
         (v = "lost" /\ w = "lost") \/ <<v, code, level, w>> \in Turns
  PROVE  Spoke(s, RtmpS!Status(q, code, level), k, y,
               IF code \in {"Start", "Unpause"} THEN "playing"
               ELSE IF code = "Pause" /\ level = "status" THEN "paused" ELSE l, w)
<1>1. PICK m : m = [t |-> "status", code |-> code, level |-> level]
  OBVIOUS
<1>2. m.t = "status" /\ m.code = code /\ m.level = level
  BY <1>1
<1>3. Goes(v, m, w) /\ ~IsFrame(m)
  BY <1>2 DEF Goes, Right, IsFrame
<1>4. Hear(l, m) = IF code \in {"Start", "Unpause"} THEN "playing"
                   ELSE IF code = "Pause" /\ level = "status" THEN "paused" ELSE l
  BY <1>2 DEF Hear
<1>5. Spoke(s, RtmpS!Send(q, m), k, y, Hear(l, m), w)
  BY <1>3, SpeaksOn
<1> QED
  BY <1>1, <1>4, <1>5 DEF RtmpS!Status

LEMMA SpeaksResult ==
  ASSUME NEW s, NEW q, NEW k, NEW y, NEW l, NEW v, Spoke(s, q, k, y, l, v), NEW cmd, NEW w,
         (v = "lost" /\ w = "lost") \/ (v \in Commands /\ v = cmd /\ w = "turn")
  PROVE  Spoke(s, RtmpS!Result(q, cmd), k, y, l, w)
<1>1. PICK m : m = [t |-> "result", cmd |-> cmd, level |-> "status"]
  OBVIOUS
<1>2. m.t = "result" /\ m.cmd = cmd /\ m.level = "status"
  BY <1>1
<1>3. Goes(v, m, w) /\ ~IsFrame(m) /\ Hear(l, m) = l
  BY <1>2 DEF Goes, Right, IsFrame, Hear
<1>5. Spoke(s, RtmpS!Send(q, m), k, y, l, w)
  BY <1>3, SpeaksOn
<1> QED
  BY <1>1, <1>5 DEF RtmpS!Result

\* Metadata, or media.
LEMMA SpeaksMedia ==
  ASSUME NEW s, NEW q, NEW k, NEW y, NEW l, NEW v, Spoke(s, q, k, y, l, v), v \in Ops \cup {"lost"}
  PROVE  /\ Spoke(s, RtmpS!Send(q, [t |-> "meta"]), k, y, l, v)
         /\ \A frame \in BOOLEAN : (frame => l = "playing") => Spoke(s, RtmpS!Media(q, frame), k, y, l, v)
<1>1. Spoke(s, RtmpS!Send(q, [t |-> "meta"]), k, y, l, v)
  <2>1. PICK m : m = [t |-> "meta"]
    OBVIOUS
  <2>2. m.t = "meta"
    BY <2>1
  <2>3. Goes(v, m, v) /\ ~IsFrame(m) /\ Hear(l, m) = l
    BY <2>2 DEF Goes, Right, IsFrame, Hear
  <2>4. Spoke(s, RtmpS!Send(q, m), k, y, l, v)
    BY <2>3, SpeaksOn
  <2> QED
    BY <2>1, <2>4
<1>2. ASSUME NEW frame \in BOOLEAN, frame => l = "playing" PROVE Spoke(s, RtmpS!Media(q, frame), k, y, l, v)
  <2>1. PICK m : m = [t |-> "media", frame |-> frame]
    OBVIOUS
  <2>2. m.t = "media" /\ m.frame = frame
    BY <2>1
  <2>3. Goes(v, m, v) /\ Hear(l, m) = l
    BY <2>2 DEF Goes, Right, Hear
  <2>4. IsFrame(m) => l = "playing"
    BY <1>2, <2>2 DEF IsFrame
  <2>5. Spoke(s, RtmpS!Send(q, m), k, y, l, v)
    BY <2>3, <2>4, SpeaksOn
  <2> QED
    BY <2>1, <2>5 DEF RtmpS!Media
<1> QED
  BY <1>1, <1>2

\* shutdown after whatever was said.
LEMMA RtmpShuts ==
  ASSUME NEW s, NEW q, NEW u, NEW k, NEW y, NEW l, NEW v, Spoke(s, q, k, y, l, v)
  PROVE  Settles(RtmpS!Shutdown(q), u, k, y)
<1>1. PICK p : p = RtmpS!Shutdown(q)
  OBVIOUS
<1>2. p.open = FALSE /\ p.out = q.out
  BY <1>1 DEF RtmpS!Shutdown, Spoke, SessionMembers
<1>3. Owes(p, u, l, v)
  BY <1>2 DEF Owes
<1> QED
  BY <1>1, <1>2, <1>3 DEF Settles, Spoke

\* A play is asked for, and these requests after it.
Hopes(u, y) ==
  \/ y = "lost" /\ Awaits(y, u, y)
  \/ y = "play" /\ \E z \in Final : Awaits("rest", u, z)

\* A session in the middle of an answer.
Midst(s, k, y) ==
  /\ DOMAIN s = SessionMembers /\ s.open /\ s.out = <<>>
  /\ s.reader # 0 /\ ~s.paused => k = "playing"
  /\ s.reader # 0 => y = "lost"

\* sendPlayResponse
LEMMA RtmpPlayed ==
  ASSUME ~Rtsp, NEW s, NEW u, NEW k, NEW y, Midst(s, k, y), Hopes(u, y), NEW src
  PROVE  Settles(RtmpS!SendPlayResponse(s, src), u, k, y)
<1>0. y \in {"lost", "play"} /\ Spoke(s, s, k, y, k, y)
  BY SpeaksFirst DEF Hopes, Midst
<1>1. ASSUME src = 0 PROVE Settles(RtmpS!SendPlayResponse(s, src), u, k, y)
  <2>1. PICK w : w = IF y = "lost" THEN "lost" ELSE "turn"
    OBVIOUS
  <2>2. (y = "lost" /\ w = "lost") \/ <<y, "NotFound", "error", w>> \in Turns
    BY <1>0, <2>1 DEF Turns
  <2>3. PICK q : q = RtmpS!Status(s, "NotFound", "error")
    OBVIOUS
  <2>4. \E l : Spoke(s, q, k, y, l, w)
    BY <1>0, <2>2, <2>3, SpeaksStatus
  <2>5. Settles(RtmpS!Shutdown(q), u, k, y)
    BY <2>4, RtmpShuts
  <2> QED
    BY <1>1, <2>3, <2>5 DEF RtmpS!SendPlayResponse
<1>2. ASSUME src # 0 PROVE Settles(RtmpS!SendPlayResponse(s, src), u, k, y)
  <2>1. PICK a, b, c, d : /\ a = IF y = "lost" THEN "lost" ELSE "start"
                          /\ b = IF y = "lost" THEN "lost" ELSE "data"
                          /\ c = IF y = "lost" THEN "lost" ELSE "notify"
                          /\ d = IF y = "lost" THEN "lost" ELSE "rest"
    OBVIOUS
  <2>2. /\ (y = "lost" /\ a = "lost") \/ <<y, "Reset", "status", a>> \in Turns
        /\ (a = "lost" /\ b = "lost") \/ <<a, "Start", "status", b>> \in Turns
        /\ (b = "lost" /\ c = "lost") \/ <<b, "DataStart", "none", c>> \in Turns
        /\ (c = "lost" /\ d = "lost") \/ <<c, "PublishNotify", "status", d>> \in Turns
        /\ d \in Ops \cup {"lost"}
    BY <1>0, <2>1 DEF Turns, Ops
  <2>3. PICK p1 : p1 = RtmpS!Status(s, "Reset", "status")
    OBVIOUS
  <2>4. PICK p2 : p2 = RtmpS!Status(p1, "Start", "status")
    OBVIOUS
  <2>5. PICK p3 : p3 = RtmpS!Status(p2, "DataStart", "none")
    OBVIOUS
  <2>6. PICK p4 : p4 = RtmpS!Status(p3, "PublishNotify", "status")
    OBVIOUS
  <2>7. PICK p5 : p5 = RtmpS!Send(p4, [t |-> "meta"])
    OBVIOUS
  <2>8. PICK no : no = FALSE
    OBVIOUS
  <2>9. PICK p6 : p6 = RtmpS!Media(p5, no)
    OBVIOUS
  <2>10. PICK q : q = [p6 EXCEPT !.look = "no", !.reader = src]
    OBVIOUS
  <2>11. RtmpS!SendPlayResponse(s, src) = q
    BY <1>2, <2>3, <2>4, <2>5, <2>6, <2>7, <2>8, <2>9, <2>10 DEF RtmpS!SendPlayResponse
  <2>12. Spoke(s, p1, k, y, k, a)
    BY <1>0, <2>2, <2>3, SpeaksStatus
  <2>13. Spoke(s, p2, k, y, "playing", b)
    BY <2>2, <2>4, <2>12, SpeaksStatus
  <2>14. Spoke(s, p3, k, y, "playing", c)
    BY <2>2, <2>5, <2>13, SpeaksStatus
  <2>15. Spoke(s, p4, k, y, "playing", d)
    BY <2>2, <2>6, <2>14, SpeaksStatus
  <2>16. Spoke(s, p5, k, y, "playing", d)
    BY <2>2, <2>7, <2>15, SpeaksMedia
  <2>17. Spoke(s, p6, k, y, "playing", d)
    BY <2>2, <2>8, <2>9, <2>16, SpeaksMedia
  <2>18. q.look = "no" /\ q.out = p6.out
    BY <2>10, <2>17 DEF Spoke, SessionMembers
  <2>19. Due(q, u, d)
    BY <1>0, <2>1, <2>18 DEF Due, Hopes, Final
  <2>20. d \in Places
    BY <1>0, <2>1 DEF Places, Ops
  <2>21. Owes(q, u, "playing", d)
    BY <2>2, <2>19, <2>20 DEF Owes
  <2> QED
    BY <2>11, <2>17, <2>18, <2>21 DEF Settles, Spoke
<1> QED
  BY <1>1, <1>2

\* A play whose answer waits, for the listener or for the stream.
LEMMA RtmpWaits ==
  ASSUME ~Rtsp, NEW s, NEW u, NEW k, NEW y, Midst(s, k, y), Hopes(u, y)
  PROVE  \A look \in {"play", "wait", "posted"} : Settles([s EXCEPT !.look = look], u, k, y)
<1>1. SUFFICES ASSUME NEW look \in {"play", "wait", "posted"} PROVE Settles([s EXCEPT !.look = look], u, k, y)
  OBVIOUS
<1>2. PICK q : q = [s EXCEPT !.look = look]
  OBVIOUS
<1>3. q.look = look /\ q.out = <<>> /\ q.reader = s.reader /\ q.paused = s.paused
  BY <1>2 DEF Midst, SessionMembers
<1>4. Due(q, u, y) /\ y \in Places
  BY <1>3 DEF Due, Hopes, Places
<1>5. Owes(q, u, k, y)
  BY <1>3, <1>4 DEF Owes, Sends, Midst
<1> QED
  BY <1>2, <1>3, <1>5, RunsNone DEF Settles

\* doPlay and doPlayResponse
LEMMA RtmpDoesPlay ==
  ASSUME ~Rtsp, NEW s, NEW u, NEW k, NEW y, Midst(s, k, y), Hopes(u, y), NEW src
  PROVE  /\ \A ok \in BOOLEAN : Settles(RtmpS!DoPlayResponse(s, ok, src), u, k, y)
         /\ \A asks \in BOOLEAN : Settles(RtmpS!DoPlay(s, asks, src), u, k, y)
<1>1. /\ \A look \in {"play", "wait", "posted"} : Settles([s EXCEPT !.look = look], u, k, y)
      /\ \A i : Settles(RtmpS!SendPlayResponse(s, i), u, k, y)
  BY RtmpWaits, RtmpPlayed
<1>2. ASSUME NEW ok \in BOOLEAN PROVE Settles(RtmpS!DoPlayResponse(s, ok, src), u, k, y)
  <2>1. PICK i : i = IF ok THEN src ELSE 0
    OBVIOUS
  <2>2. RtmpS!DoPlayResponse(s, ok, src) \in {RtmpS!SendPlayResponse(s, i), [s EXCEPT !.look = "wait"]}
    BY <2>1 DEF RtmpS!DoPlayResponse
  <2> QED
    BY <1>1, <2>2
<1>3. Settles(RtmpS!DoPlayResponse(s, TRUE, src), u, k, y)
  BY <1>2
<1>4. ASSUME NEW asks \in BOOLEAN PROVE Settles(RtmpS!DoPlay(s, asks, src), u, k, y)
  BY <1>1, <1>3 DEF RtmpS!DoPlay
<1> QED
  BY <1>2, <1>4

\* on_res of onCmd_publish, of a client of which nothing is known.
LEMMA RtmpPublishes ==
  ASSUME ~Rtsp, NEW s, NEW u, NEW k, Midst(s, k, "lost"), Awaits("lost", u, "lost"), NEW src
  PROVE  /\ \A ok \in BOOLEAN : Settles(RtmpS!OnPublish(s, ok, src), u, k, "lost")
         /\ \A asks \in BOOLEAN : Settles(RtmpS!OnCmdPublish(s, asks, src), u, k, "lost")
<1>0. PICK lost : lost = "lost"
  OBVIOUS
<1>1. Spoke(s, s, k, lost, k, lost)
  BY SpeaksFirst DEF Midst
<1>2. ASSUME NEW ok \in BOOLEAN PROVE Settles(RtmpS!OnPublish(s, ok, src), u, k, lost)
  <2>1. PICK p : p = RtmpS!Status(s, "PublishStart", "status")
    OBVIOUS
  <2>2. PICK q : q = [p EXCEPT !.look = "no", !.push = TRUE]
    OBVIOUS
  <2>3. Spoke(s, p, k, lost, k, lost)
    BY <1>0, <1>1, <2>1, SpeaksStatus
  <2>4. q.look = "no" /\ q.out = p.out /\ q.reader = s.reader /\ q.paused = s.paused
    BY <2>2, <2>3 DEF Spoke, SessionMembers
  <2>5. Due(q, u, lost) /\ lost \in Places
    BY <1>0, <2>4 DEF Due, Final, Places
  <2>6. Owes(q, u, k, lost)
    BY <1>0, <2>4, <2>5 DEF Owes, Sends, Midst
  <2>7. Settles(q, u, k, lost)
    BY <2>3, <2>4, <2>6 DEF Settles, Spoke
  <2>8. PICK e : e = RtmpS!Status(s, "BadName", "error")
    OBVIOUS
  <2>9. \E l : Spoke(s, e, k, lost, l, lost)
    BY <1>0, <1>1, <2>8, SpeaksStatus
  <2>10. Settles(RtmpS!Shutdown(e), u, k, lost)
    BY <2>9, RtmpShuts
  <2>11. RtmpS!OnPublish(s, ok, src) \in {q, RtmpS!Shutdown(e)}
    BY <2>1, <2>2, <2>8 DEF RtmpS!OnPublish
  <2> QED
    BY <2>7, <2>10, <2>11
<1>3. ASSUME NEW asks \in BOOLEAN PROVE Settles(RtmpS!OnCmdPublish(s, asks, src), u, k, lost)
  <2>1. PICK q : q = [s EXCEPT !.look = "publish"]
    OBVIOUS
  <2>2. q.look = "publish" /\ q.out = <<>> /\ q.reader = s.reader /\ q.paused = s.paused
    BY <2>1 DEF Midst, SessionMembers
  <2>3. Due(q, u, lost) /\ lost \in Places
    BY <1>0, <2>2 DEF Due, Places
  <2>4. Owes(q, u, k, lost)
    BY <1>0, <2>2, <2>3 DEF Owes, Sends, Midst
  <2>5. Settles(q, u, k, lost)
    BY <2>2, <2>4, RunsNone DEF Settles
  <2>6. RtmpS!OnCmdPublish(s, asks, src) \in {q, RtmpS!OnPublish(s, TRUE, src)}
    BY <2>1 DEF RtmpS!OnCmdPublish
  <2>7. Settles(RtmpS!OnPublish(s, TRUE, src), u, k, lost)
    BY <1>2
  <2> QED
    BY <2>5, <2>6, <2>7
<1> QED
  BY <1>0, <1>2, <1>3

\* A session that waits for an answer or for a stream.
LEMMA RtmpWaiting ==
  ASSUME ~Rtsp, NEW s, NEW u, NEW k, NEW y, Owes(s, u, k, y), s.open, s.look # "no",
         DOMAIN s = SessionMembers, s.out = <<>>
  PROVE  Midst(s, k, y) /\ Hopes(u, y) /\ (s.look = "publish" => y = "lost")
<1>1. y \in Places /\ Due(s, u, y) /\ (Sends(s) => k = "playing") /\ (s.reader # 0 => y \in Ops \cup {"lost"})
  BY DEF Owes
<1>2. y # "DESCRIBE"
  BY <1>1 DEF Places, Ops
<1>3. Hopes(u, y) /\ (s.look = "publish" => y = "lost")
  BY <1>1, <1>2 DEF Due, Hopes
<1>4. y \in {"lost", "play"}
  BY <1>3 DEF Hopes
<1>5. Midst(s, k, y)
  BY <1>1, <1>4 DEF Midst, Sends, Ops
<1> QED
  BY <1>3, <1>5

\* The listener answers.
LEMMA RtmpAuthorizes ==
  ASSUME ~Rtsp, NEW s, NEW u, NEW k, NEW y, Owes(s, u, k, y), s.open, s.look \in {"play", "publish"},
         DOMAIN s = SessionMembers, s.out = <<>>, NEW ok \in BOOLEAN, NEW src
  PROVE  Settles(RtmpS!OnAuth(s, ok, src), u, k, y)
<1>1. Midst(s, k, y) /\ Hopes(u, y) /\ (s.look = "publish" => y = "lost")
  BY RtmpWaiting
<1>2. CASE s.look = "play"
  BY <1>1, <1>2, RtmpDoesPlay DEF RtmpS!OnAuth
<1>3. CASE s.look = "publish"
  <2>1. y = "lost" /\ Awaits("lost", u, "lost")
    BY <1>1, <1>3 DEF Hopes
  <2>2. Settles(RtmpS!OnPublish(s, ok, src), u, k, "lost")
    BY <1>1, <2>1, RtmpPublishes
  <2> QED
    BY <1>3, <2>1, <2>2 DEF RtmpS!OnAuth
<1> QED
  BY <1>2, <1>3

\* onRtmpChunk keeps both ends in step.
LEMMA RtmpSettles ==
  ASSUME ~Rtsp, NEW s, NEW u, NEW k, NEW y, Owes(s, u, k, y), s.open, u # <<>>,
         DOMAIN s = SessionMembers, s.out = <<>>, NEW asks \in BOOLEAN, NEW src, NEW fresh
  PROVE  Settles(RtmpS!OnRequest(s, Head(u), asks, src, fresh), Tail(u), k, y)
<1>1. PICK r, t : r = Head(u) /\ t = Tail(u)
  OBVIOUS
<1>2. PICK q : q = [s EXCEPT !.idle = FALSE]
  OBVIOUS
<1>3. PICK n : n = [q EXCEPT !.named = r.named]
  OBVIOUS
<1>4. /\ DOMAIN q = SessionMembers /\ q.open /\ q.out = <<>>
      /\ q.look = s.look /\ q.reader = s.reader /\ q.paused = s.paused
  BY <1>2 DEF SessionMembers
<1>5. /\ DOMAIN n = SessionMembers /\ n.open /\ n.out = <<>>
      /\ n.look = s.look /\ n.reader = s.reader /\ n.paused = s.paused
  BY <1>3, <1>4 DEF SessionMembers
<1>6. PICK e : e = RtmpS!OnRequest(s, r, asks, src, fresh)
  OBVIOUS
<1>7. /\ y \in Places /\ Due(s, u, y) /\ (s.reader # 0 /\ ~s.paused => k = "playing")
      /\ s.reader # 0 => y \in Ops \cup {"lost"}
  BY DEF Owes, Sends
<1>8. /\ Spoke(q, q, k, y, k, y)
      /\ y \in {"lost", "play"} => Midst(q, k, y) /\ Midst(n, k, y)
  <2>1. Spoke(q, q, k, y, k, y)
    BY <1>4, SpeaksFirst
  <2>2. y \in {"lost", "play"} => Midst(q, k, y) /\ Midst(n, k, y)
    BY <1>4, <1>5, <1>7 DEF Midst, Ops
  <2> QED
    BY <2>1, <2>2
<1>9. CASE s.look = "no" \/ y = "lost"
  <2>1. PICK w, z : Serves(y, r, w) /\ z \in Final /\ Awaits(w, t, z)
    <3>1. \E z \in Final : Awaits(y, u, z)
      BY <1>7, <1>9 DEF Due, Final
    <3> QED
      BY <1>1, <3>1, AwaitsTail
  <2>2. /\ w \in Places /\ (s.reader # 0 => w \in Ops \cup {"lost"}) /\ (y = "lost" => w = "lost")
        /\ \/ y = "lost" /\ w = "lost"
           \/ r.cmd \in Commands /\ y = r.cmd /\ w = "turn"
           \/ r.cmd = "play" /\ y = "play" /\ w = "rest"
           \/ r.cmd = "pause" /\ r.flag /\ y = "pause" /\ w = "rest"
           \/ r.cmd = "pause" /\ ~r.flag /\ <<y, w>> \in {<<"resume", "rest">>, <<"both", "seek">>}
           \/ r.cmd = "seek" /\ y = "seek" /\ w = "rest"
           \/ r.cmd = "ping" /\ y \in Ops /\ w = y
    BY <1>7, <2>1 DEF Serves, Places, Ops, Cmds, Commands
  <2>3. \A p : p.look = s.look => Due(p, t, w)
    <3>1. TAKE p
    <3>2. HAVE p.look = s.look
    <3>3. CASE s.look = "no"
      BY <2>1, <3>2, <3>3 DEF Due
    <3>4. CASE y = "lost"
      <4>1. w = "lost" /\ z = "lost"
        BY <2>1, <2>2, <3>4, AwaitsEnds
      <4> QED
        BY <2>1, <4>1 DEF Due, Final
    <3> QED
      BY <1>9, <3>3, <3>4
  <2>4. \A p, l : Runs(k, y, p.out, l, w) /\ p.look = s.look /\ p.reader = s.reader
                  /\ (p.reader # 0 /\ ~p.paused => l = "playing") => Settles(p, t, k, y)
    BY <2>2, <2>3 DEF Owes, Sends, Settles
  <2>5. y = "lost" => Hopes(t, y)
    BY <2>1, <2>2, AwaitsEnds DEF Hopes
  <2>6. CASE r.cmd \in Commands
    <3>1. e = RtmpS!Result(q, r.cmd)
      BY <1>2, <1>6, <2>6 DEF RtmpS!OnRequest, Commands
    <3>2. (y = "lost" /\ w = "lost") \/ (y \in Commands /\ y = r.cmd /\ w = "turn")
      BY <2>2, <2>6 DEF Commands
    <3>3. Spoke(q, e, k, y, k, w)
      BY <1>8, <3>1, <3>2, SpeaksResult
    <3>4. e.look = s.look /\ e.reader = s.reader /\ e.paused = s.paused
      BY <1>4, <3>3 DEF Spoke, SessionMembers
    <3> QED
      BY <1>1, <1>6, <1>7, <2>4, <3>3, <3>4 DEF Spoke
  <2>7. CASE r.cmd \in {"play", "play2"}
    <3>1. Hopes(t, y)
      BY <2>1, <2>2, <2>5, <2>7 DEF Hopes, Commands
    <3>2. y \in {"lost", "play"}
      BY <3>1 DEF Hopes
    <3>3. \A i : Settles(RtmpS!DoPlay(n, asks, i), t, k, y) /\ Settles(RtmpS!DoPlay(q, asks, i), t, k, y)
      BY <1>8, <3>1, <3>2, RtmpDoesPlay
    <3>4. e \in {RtmpS!DoPlay(n, asks, IF r.named THEN src ELSE 0), RtmpS!DoPlay(q, asks, IF q.named THEN src ELSE 0)}
      BY <1>2, <1>3, <1>6, <2>7 DEF RtmpS!OnRequest
    <3> QED
      BY <1>1, <1>6, <3>3, <3>4
  <2>8. CASE r.cmd = "publish"
    <3>1. y = "lost"
      BY <2>2, <2>8 DEF Commands
    <3>2. Awaits("lost", t, "lost")
      BY <2>5, <3>1 DEF Hopes
    <3>3. Settles(RtmpS!OnCmdPublish(n, asks, src), t, k, "lost")
      BY <1>8, <3>1, <3>2, RtmpPublishes
    <3>4. e = RtmpS!OnCmdPublish(n, asks, src)
      BY <1>2, <1>3, <1>6, <2>8 DEF RtmpS!OnRequest
    <3> QED
      BY <1>1, <1>6, <3>1, <3>3, <3>4
  <2>9. CASE r.cmd = "pause"
    <3>1. PICK code : code = IF r.flag THEN "Pause" ELSE "Unpause"
      OBVIOUS
    <3>2. (y = "lost" /\ w = "lost") \/ <<y, code, "status", w>> \in Turns
      BY <2>2, <2>9, <3>1 DEF Turns, Commands
    <3>3. PICK l : l = IF r.flag THEN "paused" ELSE "playing"
      OBVIOUS
    <3>4. PICK p : p = RtmpS!Status(q, code, "status")
      OBVIOUS
    <3>5. Spoke(q, p, k, y, l, w)
      BY <1>8, <3>1, <3>2, <3>3, <3>4, SpeaksStatus
    <3>6. e = [p EXCEPT !.paused = r.flag]
      BY <1>2, <1>6, <2>9, <3>1, <3>4 DEF RtmpS!OnRequest, RtmpS!OnCmdPause
    <3>7. e.out = p.out /\ e.look = s.look /\ e.reader = s.reader /\ e.paused = r.flag
      BY <1>4, <3>5, <3>6 DEF Spoke, SessionMembers
    <3>8. Runs(k, y, e.out, l, w)
      BY <3>5, <3>7 DEF Spoke
    <3> QED
      BY <1>1, <1>6, <2>4, <3>3, <3>7, <3>8
  <2>10. CASE r.cmd = "seek"
    <3>1. (y = "lost" /\ w = "lost") \/ <<y, "Seek", "status", w>> \in Turns
      BY <2>2, <2>10 DEF Turns, Commands
    <3>2. e = RtmpS!Status(q, "Seek", "status")
      BY <1>2, <1>6, <2>10 DEF RtmpS!OnRequest
    <3>3. Spoke(q, e, k, y, k, w)
      BY <1>8, <3>1, <3>2, SpeaksStatus
    <3>4. e.look = s.look /\ e.reader = s.reader /\ e.paused = s.paused
      BY <1>4, <3>3 DEF Spoke, SessionMembers
    <3> QED
      BY <1>1, <1>6, <1>7, <2>4, <3>3, <3>4 DEF Spoke
  <2>11. CASE r.cmd \in {"deleteStream", "setDataFrame", "media"}
    <3>1. y = "lost" /\ w = "lost"
      BY <2>2, <2>11 DEF Commands
    <3>2. PICK p : p = RtmpS!Status(q, "Unpublish", "status")
      OBVIOUS
    <3>3. PICK o : o = [q EXCEPT !.own = fresh]
      OBVIOUS
    <3>4. e \in {RtmpS!Shutdown(p), RtmpS!Shutdown(q), q, o}
      BY <1>2, <1>6, <2>11, <3>2, <3>3 DEF RtmpS!OnRequest
    <3>5. \E l : Spoke(q, p, k, y, l, w)
      BY <1>8, <3>1, <3>2, SpeaksStatus
    <3>6. Settles(RtmpS!Shutdown(p), t, k, y) /\ Settles(RtmpS!Shutdown(q), t, k, y)
      BY <1>8, <3>5, RtmpShuts
    <3>7. o.out = <<>> /\ o.look = s.look /\ o.reader = s.reader /\ o.paused = s.paused
      BY <1>4, <3>3 DEF SessionMembers
    <3>8. Runs(k, y, <<>>, k, w)
      BY <3>1, RunsNone
    <3>9. Settles(o, t, k, y) /\ Settles(q, t, k, y)
      BY <1>4, <1>7, <2>4, <3>7, <3>8
    <3> QED
      BY <1>1, <1>6, <3>4, <3>6, <3>9
  <2>12. CASE r.cmd \notin Commands \cup {"play", "play2", "publish", "pause", "seek", "deleteStream", "setDataFrame", "media"}
    <3>1. w = y
      BY <2>2, <2>12
    <3>2. e = q
      BY <1>2, <1>6, <2>12 DEF RtmpS!OnRequest, Commands
    <3>3. Runs(k, y, <<>>, k, w)
      BY <3>1, RunsNone
    <3> QED
      BY <1>1, <1>4, <1>6, <1>7, <2>4, <3>2, <3>3
  <2> QED
    BY <2>6, <2>7, <2>8, <2>9, <2>10, <2>11, <2>12
<1>10. CASE s.look # "no" /\ y # "lost"
  <2>1. y = "play" /\ s.look # "publish" /\ \E z \in Final : Awaits("rest", u, z)
    BY <1>7, <1>10 DEF Due, Places, Ops
  <2>2. \E w : Serves("rest", r, w) /\ \E z \in Final : Awaits(w, t, z)
    BY <1>1, <2>1, AwaitsTail
  <2>3. r.cmd = "ping" /\ \E z \in Final : Awaits("rest", t, z)
    BY <2>2 DEF Serves, Cmds, Commands
  <2>4. e = q
    BY <1>2, <1>6, <2>3 DEF RtmpS!OnRequest
  <2>5. Due(q, t, y)
    BY <1>4, <1>10, <2>1, <2>3 DEF Due
  <2>6. Owes(q, t, k, y)
    BY <1>4, <1>7, <2>5 DEF Owes, Sends
  <2> QED
    BY <1>1, <1>4, <1>6, <2>4, <2>6, RunsNone DEF Settles
<1> QED
  BY <1>9, <1>10

\* The reader's callback of the RTMP session.
LEMMA RtmpWrites ==
  ASSUME ~Rtsp, NEW s, DOMAIN s = SessionMembers, s.open, s.out = <<>>, s.reader # 0,
         NEW u, NEW k, NEW y, Owes(s, u, k, y)
  PROVE  Settles(RtmpS!OnRead(s), u, k, y)
<1>1. y \in Ops \cup {"lost"} /\ (~s.paused => k = "playing")
  BY DEF Owes, Sends
<1>2. CASE s.paused
  <2>1. RtmpS!OnRead(s) = s
    BY <1>2 DEF RtmpS!OnRead
  <2> QED
    BY <2>1, RunsNone DEF Settles
<1>3. CASE ~s.paused
  <2>1. PICK yes : yes = TRUE
    OBVIOUS
  <2>2. PICK q : q = RtmpS!Media(s, yes)
    OBVIOUS
  <2>3. Spoke(s, s, k, y, k, y)
    BY SpeaksFirst
  <2>4. Spoke(s, q, k, y, k, y)
    BY <1>1, <1>3, <2>1, <2>2, <2>3, SpeaksMedia
  <2>5. q.look = s.look /\ q.reader = s.reader /\ q.paused = s.paused
    BY <2>4 DEF Spoke, SessionMembers
  <2>6. Owes(q, u, k, y)
    BY <2>5, OwesSame
  <2>7. RtmpS!OnRead(s) = q
    BY <1>3, <2>1, <2>2 DEF RtmpS!OnRead
  <2> QED
    BY <2>4, <2>6, <2>7 DEF Settles, Spoke
<1> QED
  BY <1>2, <1>3
-----------------------------------------------------------------------------
(* The player.                                                             *)

\* Its owner is careful, and it was not torn down while the name was resolved.
Minds(p) == Client /\ ~scene.hasty /\ ~p.stray

\* What an RTSP player expects: the slot holds the function for one reply, unless it was overwritten.
CmdOf(h) ==
  CASE h \in {"PLAY", "SEEK"} -> "PLAY" [] h = "KEEP" -> "GET_PARAMETER" [] h = "none" -> "idle" [] OTHER -> h

RtspPlace(p, h, x) ==
  /\ p.handler \in {"none", "OPTIONS", "DESCRIBE", "SETUP", "PLAY", "PAUSE", "SEEK", "KEEP"}
  /\ p.crossed \in BOOLEAN /\ x = IF p.crossed THEN "crossed" ELSE CmdOf(p.handler)
  /\ ~p.crossed => (p.recv <=> h = "playing")
  /\ p.handler \in {"OPTIONS", "DESCRIBE", "SETUP", "PLAY"} => h = "none" /\ ~p.crossed

\* What an RTMP player expects: the functions of results and of statuses.
Statuses(x) ==
  CASE x = "play" -> <<"play", "play">> [] x = "start" -> <<"play">> [] x \in {"pause", "resume", "seek"} -> <<x>>
    [] x = "both" -> <<"resume", "seek">> [] OTHER -> <<>>

RtmpPlace(p, h, x) ==
  /\ x \in Ops \cup {"connect", "createStream", "turn", "play", "start", "data", "notify"}
  /\ p.waiting = {x} \cap Commands /\ p.statuses = Statuses(x)
  /\ p.told # <<>> => x \in Ops /\ (p.recv <=> h = "playing")
  /\ p.beat => p.told # <<>>

Expects(p, h, x) ==
  IF ~Minds(p) THEN x = "lost" ELSE IF Rtsp THEN RtspPlace(p, h, x) ELSE RtmpPlace(p, h, x)

\* A player on its way to a connection has nothing of an earlier one.
Calm(p) ==
  IF Rtsp THEN ~p.recv /\ p.handler = "none" /\ p.crossed = FALSE
  ELSE ~p.recv /\ p.beat = FALSE /\ p.waiting = {} /\ p.statuses = <<>> /\ p.told = <<>>

PlayerMembers  == IF Rtsp THEN RtspMembers ELSE RtmpMembers
ServerMembers  == IF Rtsp THEN RtspServer ELSE SessionMembers

\* What is on its way takes the player from what it expects to what the session owes it.
Linked(p, s, u, d, h) == \E x, k, y : Expects(p, h, x) /\ Runs(h, x, d, k, y) /\ Owes(s, u, k, y)

Joint(p, s, u, d, h) ==
  Server =>
    /\ DOMAIN s = ServerMembers /\ s.out = <<>> /\ (s.look # "no" => s.open)
    /\ Rtsp => s.look \notin {"play", "publish"}
    /\ Client => DOMAIN p = PlayerMembers /\ p.out = <<>>
    /\ p.link # "open" => d = <<>>
    /\ Minds(p) /\ p.link \in {"resolving", "connecting"} => Calm(p)
    /\ p.link = "open" => Linked(p, s, u, d, h)

\* The invariant of both ends.
InStep == Joint(player, session, up, down, heard)

\* The scene does not change.
LEMMA InStepNext ==
  ASSUME scene' = scene, Joint(player', session', up', down', heard')
  PROVE  InStep'
<1>1. Rtsp' = Rtsp /\ Client' = Client /\ Server' = Server
  BY SameScene
<1>2. \A p : (Minds(p))' = Minds(p)
  BY <1>1 DEF Minds
<1> QED
  BY <1>1 DEF InStep, Joint, Linked, Owes, Sends, Places, Expects, Minds, Calm, PlayerMembers, ServerMembers

\* The session does something, and what it said is on its way.
LEMMA SessionKeeps ==
  ASSUME InStep, Server, NEW q, NEW u, SessionDoes(q), up' = u, DOMAIN q = ServerMembers, q.look # "no" => q.open,
         Rtsp => q.look \notin {"play", "publish"}, \A k, y : Owes(session, up, k, y) => Settles(q, u, k, y)
  PROVE  InStep'
<1>1. PICK z : z = [q EXCEPT !.out = <<>>]
  OBVIOUS
<1>2. /\ scene' = scene /\ player' = player /\ heard' = heard /\ session' = z
      /\ down' = IF player.link = "open" THEN down \o q.out ELSE <<>>
  BY <1>1 DEF SessionDoes
<1>3. /\ DOMAIN z = ServerMembers /\ z.out = <<>> /\ z.open = q.open /\ z.look = q.look
      /\ Rtsp => z.asked = q.asked /\ z.cseq = q.cseq /\ z.send = q.send
      /\ ~Rtsp => z.reader = q.reader /\ z.paused = q.paused
  BY <1>1 DEF ServerMembers, RtspServer, SessionMembers
<1>4. Joint(player, session, up, down, heard)
  BY DEF InStep
<1>5. ASSUME player.link = "open" PROVE Linked(player, z, u, down \o q.out, heard)
  <2>1. PICK x, k, y : Expects(player, heard, x) /\ Runs(heard, x, down, k, y) /\ Owes(session, up, k, y)
    BY <1>4, <1>5 DEF Joint, Linked
  <2>2. PICK l, v : Runs(k, y, q.out, l, v) /\ Owes(q, u, l, v)
    BY <2>1 DEF Settles
  <2>3. Runs(heard, x, down \o q.out, l, v)
    BY <2>1, <2>2, RunsMore
  <2>4. Owes(z, u, l, v)
    BY <1>3, <2>2, OwesSame
  <2> QED
    BY <2>1, <2>3, <2>4 DEF Linked
<1>6. Joint(player, z, u, IF player.link = "open" THEN down \o q.out ELSE <<>>, heard)
  BY <1>3, <1>4, <1>5 DEF Joint
<1>7. Joint(player', session', up', down', heard')
  BY <1>2, <1>6
<1> QED
  BY <1>2, <1>7, InStepNext

\* The session changes where the client does not see it.
LEMMA SessionSame ==
  ASSUME InStep, Server => DOMAIN session' = ServerMembers, scene' = scene, player' = player, up' = up, down' = down,
         heard' = heard, NEW z, session' = z, Server => z.open = session.open /\ z.out = <<>>,
         Server => z.look = session.look \/ (session.look = "wait" /\ z.look = "posted"),
         Server /\ Rtsp => z.asked = session.asked /\ z.cseq = session.cseq /\ z.send = session.send,
         Server /\ ~Rtsp => z.reader = session.reader /\ z.paused = session.paused
  PROVE  InStep'
<1>1. Joint(player, session, up, down, heard)
  BY DEF InStep
<1>2. ASSUME Server, player.link = "open" PROVE Linked(player, z, up, down, heard)
  <2>1. PICK x, k, y : Expects(player, heard, x) /\ Runs(heard, x, down, k, y) /\ Owes(session, up, k, y)
    BY <1>1, <1>2 DEF Joint, Linked
  <2>2. Owes(z, up, k, y)
    BY <1>2, <2>1, OwesSame
  <2> QED
    BY <2>1, <2>2 DEF Linked
<1>3. Joint(player, z, up, down, heard)
  BY <1>1, <1>2 DEF Joint
<1>4. Joint(player', session', up', down', heard')
  BY <1>3
<1> QED
  BY <1>4, InStepNext

\* The invariant of the session, by protocol.
LEMMA ServerKnown ==
  ASSUME InStep, Server
  PROVE  /\ DOMAIN session = ServerMembers /\ session.out = <<>> /\ (session.look # "no" => session.open)
         /\ Rtsp => session.look \notin {"play", "publish"}
  BY DEF InStep, Joint

-----------------------------------------------------------------------------
(* What the session does keeps both in step.                               *)

\* Only an open session waits for an answer.
Alert(s) == s.look # "no" => s.open

\* What is sent changes nothing else.
LEMMA RtmpSaid ==
  ASSUME NEW s, DOMAIN s = SessionMembers
  PROVE  /\ \A m : LET q == RtmpS!Send(s, m) IN DOMAIN q = SessionMembers /\ q.open = s.open /\ q.look = s.look
         /\ \A code, level : LET q == RtmpS!Status(s, code, level)
                             IN  DOMAIN q = SessionMembers /\ q.open = s.open /\ q.look = s.look
         /\ RtmpS!Shutdown(s).look = "no"
<1>1. ASSUME NEW m PROVE LET q == RtmpS!Send(s, m) IN DOMAIN q = SessionMembers /\ q.open = s.open /\ q.look = s.look
  BY DEF RtmpS!Send, SessionMembers
<1>2. ASSUME NEW code, NEW level
      PROVE  LET q == RtmpS!Status(s, code, level) IN DOMAIN q = SessionMembers /\ q.open = s.open /\ q.look = s.look
  <2>1. PICK m : m = [t |-> "status", code |-> code, level |-> level]
    OBVIOUS
  <2>2. RtmpS!Status(s, code, level) = RtmpS!Send(s, m)
    BY <2>1 DEF RtmpS!Status
  <2> QED
    BY <1>1, <2>2
<1>3. RtmpS!Shutdown(s).look = "no"
  BY DEF RtmpS!Shutdown, SessionMembers
<1> QED
  BY <1>1, <1>2, <1>3

\* sendPlayResponse
LEMMA RtmpPlayAlert ==
  ASSUME NEW s, DOMAIN s = SessionMembers, NEW src
  PROVE  RtmpS!SendPlayResponse(s, src).look = "no"
<1>1. PICK a : a = RtmpS!Status(s, "Reset", "status")
  OBVIOUS
<1>2. PICK b : b = RtmpS!Status(a, "Start", "status")
  OBVIOUS
<1>3. PICK c : c = RtmpS!Status(b, "DataStart", "none")
  OBVIOUS
<1>4. PICK d : d = RtmpS!Status(c, "PublishNotify", "status")
  OBVIOUS
<1>5. PICK e : e = RtmpS!Send(d, [t |-> "meta"])
  OBVIOUS
<1>6. PICK f : f = RtmpS!Send(e, [t |-> "media", frame |-> FALSE])
  OBVIOUS
<1>7. PICK n : n = RtmpS!Status(s, "NotFound", "error")
  OBVIOUS
<1>8. DOMAIN a = SessionMembers /\ DOMAIN n = SessionMembers
  BY <1>1, <1>7, RtmpSaid
<1>9. DOMAIN b = SessionMembers
  BY <1>2, <1>8, RtmpSaid
<1>10. DOMAIN c = SessionMembers
  BY <1>3, <1>9, RtmpSaid
<1>11. DOMAIN d = SessionMembers
  BY <1>4, <1>10, RtmpSaid
<1>12. DOMAIN e = SessionMembers
  BY <1>5, <1>11, RtmpSaid
<1>13. DOMAIN f = SessionMembers
  BY <1>6, <1>12, RtmpSaid
<1>14. RtmpS!Shutdown(n).look = "no"
  BY <1>8, RtmpSaid
<1>15. PICK g : g = [f EXCEPT !.look = "no", !.reader = src]
  OBVIOUS
<1>16. g.look = "no"
  BY <1>13, <1>15 DEF SessionMembers
<1>17. RtmpS!SendPlayResponse(s, src) = IF src = 0 THEN RtmpS!Shutdown(n) ELSE g
  BY <1>1, <1>2, <1>3, <1>4, <1>5, <1>6, <1>7, <1>15 DEF RtmpS!SendPlayResponse, RtmpS!Media
<1> QED
  BY <1>14, <1>16, <1>17

\* on_res of onCmd_publish, doPlay and the rest of what waits.
LEMMA RtmpAlert ==
  ASSUME NEW s, DOMAIN s = SessionMembers, s.open, NEW src
  PROVE  /\ \A ok \in BOOLEAN : /\ Alert(RtmpS!DoPlayResponse(s, ok, src)) /\ Alert(RtmpS!OnPublish(s, ok, src))
                                /\ Alert(RtmpS!OnAuth(s, ok, src))
         /\ \A asks \in BOOLEAN : Alert(RtmpS!DoPlay(s, asks, src)) /\ Alert(RtmpS!OnCmdPublish(s, asks, src))
<1>1. \A look : Alert([s EXCEPT !.look = look])
  BY DEF Alert, SessionMembers
<1>2. \A i : Alert(RtmpS!SendPlayResponse(s, i))
  BY RtmpPlayAlert DEF Alert
<1>3. ASSUME NEW ok \in BOOLEAN
      PROVE  /\ Alert(RtmpS!DoPlayResponse(s, ok, src)) /\ Alert(RtmpS!OnPublish(s, ok, src))
             /\ Alert(RtmpS!OnAuth(s, ok, src))
  <2>1. Alert(RtmpS!DoPlayResponse(s, ok, src))
    BY <1>1, <1>2 DEF RtmpS!DoPlayResponse
  <2>2. PICK a : a = RtmpS!Status(s, "PublishStart", "status")
    OBVIOUS
  <2>3. PICK b : b = RtmpS!Status(s, "BadName", "error")
    OBVIOUS
  <2>4. DOMAIN a = SessionMembers /\ DOMAIN b = SessionMembers
    BY <2>2, <2>3, RtmpSaid
  <2>5. RtmpS!Shutdown(b).look = "no"
    BY <2>4, RtmpSaid
  <2>6. PICK c : c = [a EXCEPT !.look = "no", !.push = TRUE]
    OBVIOUS
  <2>7. c.look = "no"
    BY <2>4, <2>6 DEF SessionMembers
  <2>8. RtmpS!OnPublish(s, ok, src) \in {c, RtmpS!Shutdown(b)}
    BY <2>2, <2>3, <2>6 DEF RtmpS!OnPublish
  <2>9. Alert(RtmpS!OnPublish(s, ok, src))
    BY <2>5, <2>7, <2>8 DEF Alert
  <2> QED
    BY <2>1, <2>9 DEF RtmpS!OnAuth
<1>4. ASSUME NEW asks \in BOOLEAN PROVE Alert(RtmpS!DoPlay(s, asks, src)) /\ Alert(RtmpS!OnCmdPublish(s, asks, src))
  <2>1. PICK yes : yes = TRUE
    OBVIOUS
  <2>2. Alert(RtmpS!DoPlayResponse(s, yes, src)) /\ Alert(RtmpS!OnPublish(s, yes, src))
    BY <1>3, <2>1
  <2>3. RtmpS!DoPlay(s, asks, src) \in {[s EXCEPT !.look = "play"], RtmpS!DoPlayResponse(s, yes, src)}
    BY <2>1 DEF RtmpS!DoPlay
  <2>4. RtmpS!OnCmdPublish(s, asks, src) \in {[s EXCEPT !.look = "publish"], RtmpS!OnPublish(s, yes, src)}
    BY <2>1 DEF RtmpS!OnCmdPublish
  <2> QED
    BY <1>1, <2>2, <2>3, <2>4
<1> QED
  BY <1>3, <1>4

\* onProcessCmd and onRtmpChunk
LEMMA RtmpServesAlert ==
  ASSUME NEW s, DOMAIN s = SessionMembers, s.open, NEW r, NEW asks \in BOOLEAN, NEW src, NEW fresh
  PROVE  Alert(RtmpS!OnRequest(s, r, asks, src, fresh))
<1>1. PICK q : q = [s EXCEPT !.idle = FALSE]
  OBVIOUS
<1>2. PICK n : n = [q EXCEPT !.named = r.named]
  OBVIOUS
<1>3. DOMAIN q = SessionMembers /\ q.open
  BY <1>1 DEF SessionMembers
<1>4. DOMAIN n = SessionMembers /\ n.open
  BY <1>2, <1>3 DEF SessionMembers
<1>5. PICK o : o = [q EXCEPT !.own = fresh]
  OBVIOUS
<1>6. o.open
  BY <1>3, <1>5 DEF SessionMembers
<1>7. \A m : RtmpS!Send(q, m).open
  BY <1>3, RtmpSaid
<1>8. PICK c : c = RtmpS!Status(q, "Unpublish", "status")
  OBVIOUS
<1>9. PICK d : d = RtmpS!Status(q, IF r.flag THEN "Pause" ELSE "Unpause", "status")
  OBVIOUS
<1>10. DOMAIN c = SessionMembers /\ DOMAIN d = SessionMembers /\ d.open
  BY <1>3, <1>8, <1>9, RtmpSaid
<1>11. PICK e : e = [d EXCEPT !.paused = r.flag]
  OBVIOUS
<1>12. e.open
  BY <1>10, <1>11 DEF SessionMembers
<1>13. RtmpS!Shutdown(c).look = "no" /\ RtmpS!Shutdown(q).look = "no"
  BY <1>3, <1>10, RtmpSaid
<1>14. \A p \in {q, n} : \A i : Alert(RtmpS!DoPlay(p, asks, i)) /\ Alert(RtmpS!OnCmdPublish(p, asks, i))
  BY <1>3, <1>4, RtmpAlert
<1>15. PICK w : w = RtmpS!OnRequest(s, r, asks, src, fresh)
  OBVIOUS
<1>16. CASE r.cmd \in {"play", "play2"}
  <2>1. \E p \in {q, n} : \E i : w = RtmpS!DoPlay(p, asks, i)
    BY <1>1, <1>2, <1>15, <1>16 DEF RtmpS!OnRequest
  <2> QED
    BY <1>14, <1>15, <2>1
<1>17. CASE r.cmd = "publish"
  <2>1. w = RtmpS!OnCmdPublish(n, asks, src)
    BY <1>1, <1>2, <1>15, <1>17 DEF RtmpS!OnRequest
  <2> QED
    BY <1>14, <1>15, <2>1
<1>18. CASE r.cmd = "pause"
  <2>1. w = e
    BY <1>1, <1>9, <1>11, <1>15, <1>18 DEF RtmpS!OnRequest, RtmpS!OnCmdPause
  <2> QED
    BY <1>12, <1>15, <2>1 DEF Alert
<1>19. CASE r.cmd \in {"connect", "createStream", "seek"}
  <2>1. \E m : w = RtmpS!Send(q, m)
    BY <1>1, <1>15, <1>19 DEF RtmpS!OnRequest, RtmpS!Status, RtmpS!Result
  <2> QED
    BY <1>7, <1>15, <2>1 DEF Alert
<1>20. CASE r.cmd \notin {"connect", "createStream", "play", "play2", "publish", "pause", "seek"}
  <2>1. w \in {RtmpS!Shutdown(c), RtmpS!Shutdown(q), q, o}
    BY <1>1, <1>5, <1>8, <1>15, <1>20 DEF RtmpS!OnRequest
  <2> QED
    BY <1>3, <1>6, <1>13, <1>15, <2>1 DEF Alert
<1> QED
  BY <1>16, <1>17, <1>18, <1>19, <1>20

\* A packet of a publisher.
LEMMA RtspPacket ==
  ASSUME Rtsp, NEW s, DOMAIN s = RtspServer, s.open, s.out = <<>>, NEW u, NEW k, NEW y, Owes(s, u, k, y), u # <<>>,
         Head(u).cmd = "media", NEW fresh
  PROVE  Settles(RtspS!OnRtpPacket(s, fresh), Tail(u), k, y)
<1>q. PICK q : q = RtspS!OnRtpPacket(s, fresh)
  OBVIOUS
<1>1. /\ q.open = s.open /\ q.look = s.look /\ q.asked = s.asked /\ q.cseq = s.cseq /\ q.send = s.send /\ q.out = <<>>
  BY <1>q DEF RtspS!OnRtpPacket, RtspServer
<1>2. /\ s.look # "no" => y = "lost"
      /\ y \in Places /\ (s.send => k = "playing")
  BY RtspExpected
<1>3. PICK w, z : Serves(y, Head(u), w) /\ z \in Final /\ Awaits(w, Tail(u), z)
  BY RtspExpected
<1>4. w = y
  BY <1>2, <1>3 DEF Serves, Places, Cmds, Ops, Commands
<1>5. y = "lost" => Awaits(y, Tail(u), y)
  BY <1>3, <1>4, AwaitsEnds
<1>6. Due(q, Tail(u), y)
  BY <1>1, <1>2, <1>3, <1>4, <1>5 DEF Due
<1>7. Owes(q, Tail(u), k, y)
  BY <1>1, <1>2, <1>6 DEF Owes, Sends
<1> QED
  BY <1>q, <1>1, <1>7, RunsNone DEF Settles

LEMMA StepReads ==
  ASSUME PlayInv, InStep, SessionReads
  PROVE  InStep'
<1>1. Server /\ session.open /\ up # <<>> /\ up' = Tail(up)
  BY DEF SessionReads
<1>2. PICK asks \in BOOLEAN :
        SessionDoes(IF ~Rtsp THEN RtmpS!OnRequest(session, Head(up), asks, live, made + 1)
                    ELSE IF Head(up).cmd = "media" THEN RtspS!OnRtpPacket(session, made + 1)
                    ELSE RtspS!OnRequest(session, Head(up), live))
  BY DEF SessionReads
<1>3. DOMAIN session = ServerMembers /\ session.out = <<>> /\ (Rtsp => session.look \notin {"play", "publish"})
  BY <1>1, ServerKnown
<1>4. CASE ~Rtsp
  <2>1. PICK q : q = RtmpS!OnRequest(session, Head(up), asks, live, made + 1)
    OBVIOUS
  <2>2. SessionDoes(q)
    BY <1>2, <1>4, <2>1
  <2>3. DOMAIN session = SessionMembers
    BY <1>3, <1>4 DEF ServerMembers
  <2>4. Clean(session)
    BY <1>4 DEF PlayInv
  <2>5. DOMAIN q = ServerMembers
    BY <1>4, <2>1, <2>4, SessionServes DEF Clean, ServerMembers
  <2>6. q.look # "no" => q.open
    BY <1>1, <2>1, <2>3, RtmpServesAlert DEF Alert
  <2>7. \A k, y : Owes(session, up, k, y) => Settles(q, Tail(up), k, y)
    BY <1>1, <1>3, <1>4, <2>1, <2>3, RtmpSettles
  <2> QED
    BY <1>1, <1>4, <2>2, <2>5, <2>6, <2>7, SessionKeeps
<1>5. CASE Rtsp /\ Head(up).cmd = "media"
  <2>1. PICK q : q = RtspS!OnRtpPacket(session, made + 1)
    OBVIOUS
  <2>2. SessionDoes(q)
    BY <1>2, <1>5, <2>1
  <2>3. DOMAIN session = RtspServer
    BY <1>3, <1>5 DEF ServerMembers
  <2>4. DOMAIN q = RtspServer /\ q.open /\ q.look = session.look
    BY <1>1, <2>1, <2>3 DEF RtspS!OnRtpPacket, RtspServer
  <2>5. \A k, y : Owes(session, up, k, y) => Settles(q, Tail(up), k, y)
    BY <1>1, <1>3, <1>5, <2>1, <2>3, RtspPacket
  <2>6. DOMAIN q = ServerMembers
    BY <1>5, <2>4 DEF ServerMembers
  <2> QED
    BY <1>1, <1>3, <2>2, <2>4, <2>5, <2>6, SessionKeeps
<1>6. CASE Rtsp /\ Head(up).cmd # "media"
  <2>1. PICK q : q = RtspS!OnRequest(session, Head(up), live)
    OBVIOUS
  <2>2. SessionDoes(q)
    BY <1>2, <1>6, <2>1
  <2>3. DOMAIN session = RtspServer
    BY <1>3, <1>6 DEF ServerMembers
  <2>4. Replied(session, q, Head(up))
    BY <1>1, <1>3, <2>1, <2>3, RtspServes
  <2>5. DOMAIN q = ServerMembers /\ (q.look # "no" => q.open) /\ q.look \notin {"play", "publish"}
    BY <1>3, <1>6, <2>4 DEF Replied, ServerMembers
  <2>6. \A k, y : Owes(session, up, k, y) => Settles(q, Tail(up), k, y)
    BY <1>1, <1>6, <2>4, RtspSettles
  <2> QED
    BY <1>1, <2>2, <2>5, <2>6, SessionKeeps
<1> QED
  BY <1>4, <1>5, <1>6

\* The session ends, for one reason or another.
LEMMA StepEnds ==
  ASSUME InStep, Server, SessionDoes(IF Rtsp THEN RtspS!Shutdown(session) ELSE RtmpS!Shutdown(session)), NEW u, up' = u
  PROVE  InStep'
<1>1. PICK q : q = IF Rtsp THEN RtspS!Shutdown(session) ELSE RtmpS!Shutdown(session)
  OBVIOUS
<1>2. SessionDoes(q)
  BY <1>1
<1>3. DOMAIN q = ServerMembers /\ q.open = FALSE /\ q.look = "no" /\ q.out = <<>>
  BY <1>1, ServerKnown DEF RtspS!Shutdown, RtmpS!Shutdown, ServerMembers, RtspServer, SessionMembers
<1>4. \A k, y : Settles(q, u, k, y)
  BY <1>3, EndSettles
<1> QED
  BY <1>2, <1>3, <1>4, SessionKeeps

\* The session looks up its stream, hears of its leave, or its source writes.
LEMMA StepAnswers ==
  ASSUME PlayInv, InStep, Server, LookFound \/ LookTimeOut \/ AuthAnswers \/ SourceWrites
  PROVE  InStep'
<1>1. /\ DOMAIN session = ServerMembers /\ session.out = <<>> /\ (session.look # "no" => session.open)
      /\ Rtsp => session.look \notin {"play", "publish"}
  BY ServerKnown
<1>2. ~Rtsp => Clean(session) /\ DOMAIN session = SessionMembers
  BY DEF PlayInv, Clean
<1>3. Rtsp => DOMAIN session = RtspServer
  BY <1>1 DEF ServerMembers
<1>4. CASE LookFound \/ LookTimeOut
  <2>1. PICK src : SessionDoes(IF Rtsp THEN RtspS!Described(session, src) ELSE RtmpS!SendPlayResponse(session, src))
                   /\ up' = up /\ session.look # "no"
    BY <1>4 DEF LookFound, LookTimeOut, LookedUp
  <2>2. session.open
    BY <1>1, <2>1
  <2>3. CASE Rtsp
    <3>1. PICK q : q = RtspS!Described(session, src)
      OBVIOUS
    <3>2. DOMAIN q = ServerMembers /\ q.look = "no"
      BY <1>1, <1>3, <2>2, <2>3, <3>1, RtspDescribes DEF ServerMembers
    <3>3. \A k, y : Owes(session, up, k, y) => Settles(q, up, k, y)
      BY <1>1, <1>3, <2>1, <2>2, <2>3, <3>1, RtspLooks
    <3> QED
      BY <2>1, <2>3, <3>1, <3>2, <3>3, SessionKeeps
  <2>4. CASE ~Rtsp
    <3>1. PICK q : q = RtmpS!SendPlayResponse(session, src)
      OBVIOUS
    <3>2. DOMAIN q = ServerMembers
      BY <1>2, <2>4, <3>1, SessionPlays DEF Clean, ServerMembers
    <3>3. q.look = "no"
      BY <1>2, <2>4, <3>1, RtmpPlayAlert
    <3>4. ASSUME NEW k, NEW y, Owes(session, up, k, y) PROVE Settles(q, up, k, y)
      <4>1. Midst(session, k, y) /\ Hopes(up, y)
        BY <1>1, <1>2, <2>1, <2>2, <2>4, <3>4, RtmpWaiting
      <4> QED
        BY <2>4, <3>1, <4>1, RtmpPlayed
    <3> QED
      BY <2>1, <2>4, <3>1, <3>2, <3>3, <3>4, SessionKeeps
  <2> QED
    BY <2>3, <2>4
<1>5. CASE SourceWrites
  <2>1. session.open /\ session.reader = live /\ live # 0 /\ up' = up
        /\ SessionDoes(IF Rtsp THEN RtspS!OnRead(session) ELSE RtmpS!OnRead(session))
    BY <1>5 DEF SourceWrites
  <2>2. CASE Rtsp
    <3>1. PICK q : q = RtspS!OnRead(session)
      OBVIOUS
    <3>2. DOMAIN q = ServerMembers /\ q.open /\ q.look = session.look
      BY <1>1, <1>3, <2>1, <2>2, <3>1 DEF RtspS!OnRead, RtspS!Send, ServerMembers, RtspServer
    <3>3. \A k, y : Owes(session, up, k, y) => Settles(q, up, k, y)
      BY <1>1, <1>3, <2>1, <2>2, <3>1, RtspWrites
    <3> QED
      BY <1>1, <2>1, <2>2, <3>1, <3>2, <3>3, SessionKeeps
  <2>3. CASE ~Rtsp
    <3>1. PICK q : q = RtmpS!OnRead(session)
      OBVIOUS
    <3>2. DOMAIN q = ServerMembers
      BY <1>2, <2>3, <3>1, SessionTimes DEF Clean, ServerMembers
    <3>3. PICK m : m = [t |-> "media", frame |-> TRUE]
      OBVIOUS
    <3>4. q \in {session, RtmpS!Send(session, m)}
      BY <3>1, <3>3 DEF RtmpS!OnRead, RtmpS!Media
    <3>5. q.open
      BY <1>2, <2>1, <2>3, <3>4, RtmpSaid
    <3>6. \A k, y : Owes(session, up, k, y) => Settles(q, up, k, y)
      BY <1>1, <1>2, <2>1, <2>3, <3>1, RtmpWrites
    <3> QED
      BY <2>1, <2>3, <3>1, <3>2, <3>5, <3>6, SessionKeeps
  <2> QED
    BY <2>2, <2>3
<1>6. CASE AuthAnswers
  <2>0. session.look \in {"play", "publish"} /\ up' = up
    BY <1>6 DEF AuthAnswers
  <2>1. PICK ok \in BOOLEAN : \E i : SessionDoes(RtmpS!OnAuth(session, ok, i))
    BY <1>6 DEF AuthAnswers
  <2>2. session.open
    BY <1>1, <2>0
  <2>3. ~Rtsp
    BY <1>1, <2>0
  <2>i. PICK i : SessionDoes(RtmpS!OnAuth(session, ok, i))
    BY <2>1
  <2>4. PICK q : q = RtmpS!OnAuth(session, ok, i)
    OBVIOUS
  <2>5. DOMAIN q = ServerMembers
    BY <1>2, <2>3, <2>4, SessionAnswers DEF Clean, ServerMembers
  <2>6. q.look # "no" => q.open
    BY <1>2, <2>2, <2>3, <2>4, RtmpAlert DEF Alert
  <2>7. \A k, y : Owes(session, up, k, y) => Settles(q, up, k, y)
    BY <1>1, <1>2, <2>0, <2>2, <2>3, <2>4, RtmpAuthorizes
  <2> QED
    BY <2>0, <2>i, <2>3, <2>4, <2>5, <2>6, <2>7, SessionKeeps
<1> QED
  BY <1>4, <1>5, <1>6

LEMMA StepSession ==
  ASSUME PlayInv, InStep, SessionReads \/ SessionEof \/ LookFound \/ LookTimeOut \/ AuthAnswers \/ Manager \/ Detach \/ SourceWrites
  PROVE  InStep'
<1>1. CASE ~Server
  <2>1. scene' = scene
    BY DEF SessionReads, SessionEof, LookFound, LookTimeOut, LookedUp, AuthAnswers, Manager, Detach, SourceWrites, SessionDoes
  <2>2. Joint(player', session', up', down', heard')
    BY <1>1 DEF Joint
  <2> QED
    BY <2>1, <2>2, InStepNext
<1>2. CASE Server /\ SessionReads
  BY <1>2, StepReads
<1>3. CASE Server /\ (LookFound \/ LookTimeOut \/ AuthAnswers \/ SourceWrites)
  BY <1>3, StepAnswers
<1>4. CASE Server /\ SessionEof
  <2>1. SessionDoes(IF Rtsp THEN RtspS!Shutdown(session) ELSE RtmpS!Shutdown(session)) /\ up' = <<>>
    BY <1>4 DEF SessionEof
  <2> QED
    BY <1>4, <2>1, StepEnds
<1>5. CASE Server /\ Manager
  <2>1. PICK s : s = (IF Rtsp THEN RtspS!OnManager(session) ELSE RtmpS!OnManager(session)) /\ s # session /\ SessionDoes(s)
    BY <1>5 DEF Manager
  <2>2. s = IF Rtsp THEN RtspS!Shutdown(session) ELSE RtmpS!Shutdown(session)
    BY <2>1 DEF RtspS!OnManager, RtmpS!OnManager
  <2>3. up' = up
    BY <1>5 DEF Manager
  <2> QED
    BY <1>5, <2>1, <2>2, <2>3, StepEnds
<1>6. CASE Server /\ Detach
  <2>1. SessionDoes(IF Rtsp THEN RtspS!Shutdown(session) ELSE RtmpS!Shutdown(session)) /\ up' = up
    BY <1>6 DEF Detach, RtspS!OnDetach, RtmpS!OnDetach
  <2> QED
    BY <1>6, <2>1, StepEnds
<1> QED
  BY <1>1, <1>2, <1>3, <1>4, <1>5, <1>6

\* Time passes, the source comes and goes, and another server does what it likes.
LEMMA StepSource ==
  ASSUME InStep, Ages \/ SourceOn \/ SourceOff \/ OtherAnswers \/ OtherSends \/ OtherCloses
  PROVE  InStep'
<1>1. CASE OtherAnswers \/ OtherSends \/ OtherCloses
  <2>1. scene' = scene /\ ~Server
    BY <1>1 DEF OtherAnswers, OtherSends, OtherCloses
  <2>2. Joint(player', session', up', down', heard')
    BY <2>1 DEF Joint
  <2> QED
    BY <2>1, <2>2, InStepNext
<1>2. CASE Ages \/ SourceOn \/ SourceOff
  <2>1. scene' = scene /\ player' = player /\ up' = up /\ down' = down /\ heard' = heard /\ Server
    BY <1>2 DEF Ages, SourceOn, SourceOff
  <2>2. DOMAIN session = ServerMembers /\ session.out = <<>>
    BY <2>1, ServerKnown
  <2>3. PICK z : z = session'
    OBVIOUS
  <2>4. \/ z = session \/ z = [session EXCEPT !.late = TRUE] \/ z = [session EXCEPT !.idle = TRUE]
        \/ session.look = "wait" /\ z = [session EXCEPT !.look = "posted"]
    BY <1>2, <2>3 DEF Ages, SourceOn, SourceOff
  <2>5. /\ DOMAIN z = ServerMembers /\ z.open = session.open /\ z.out = <<>>
        /\ z.look = session.look \/ (session.look = "wait" /\ z.look = "posted")
        /\ Rtsp => z.asked = session.asked /\ z.cseq = session.cseq /\ z.send = session.send
        /\ ~Rtsp => z.reader = session.reader /\ z.paused = session.paused
    BY <2>2, <2>4 DEF ServerMembers, RtspServer, SessionMembers
  <2> QED
    BY <2>1, <2>3, <2>5, SessionSame
<1> QED
  BY <1>1, <1>2
-----------------------------------------------------------------------------
(* What the client does keeps both in step.                                *)

\* The client has done something, after it read or not.
LEMMA ClientKeeps ==
  ASSUME InStep, scene' = scene, session' = session, NEW p, player' = p, NEW o, up' = up \o o, NEW d, NEW h,
         down' = IF p.link = "open" THEN d ELSE <<>>, heard' = IF p.link = "open" THEN h ELSE "none",
         Server /\ Client => DOMAIN p = PlayerMembers /\ p.out = <<>>,
         Server /\ Minds(p) /\ p.link \in {"resolving", "connecting"} => Calm(p),
         Server /\ p.link = "open" =>
           \E x, k, y, w : Runs(h, x, d, k, y) /\ Owes(session, up, k, y) /\ Asks(x, o, w) /\ Expects(p, h, w)
  PROVE  InStep'
<1>1. Joint(player, session, up, down, heard)
  BY DEF InStep
<1>2. ASSUME Server, p.link = "open" PROVE Linked(p, session, up \o o, d, h)
  <2>1. PICK x, k, y, w : Runs(h, x, d, k, y) /\ Owes(session, up, k, y) /\ Asks(x, o, w) /\ Expects(p, h, w)
    BY <1>2
  <2>2. PICK v : Runs(h, w, d, k, v) /\ Owes(session, up \o o, k, v)
    BY <2>1, AskKeeps
  <2> QED
    BY <2>1, <2>2 DEF Linked
<1>3. Joint(p, session, up \o o, IF p.link = "open" THEN d ELSE <<>>, IF p.link = "open" THEN h ELSE "none")
  BY <1>1, <1>2 DEF Joint
<1>4. Joint(player', session', up', down', heard')
  BY <1>3
<1> QED
  BY <1>4, InStepNext

\* A client that sends what it likes.
LEMMA StepAny ==
  ASSUME PlayInv, InStep, AnySends \/ AnyReads \/ AnyCloses
  PROVE  InStep'
<1>1. scene' = scene /\ session' = session /\ ~Client /\ player.link = "open"
  BY DEF AnySends, AnyReads, AnyCloses
<1>2. \A p, h, x : Expects(p, h, x) <=> x = "lost"
  BY <1>1 DEF Expects, Minds
<1>3. ASSUME Server
      PROVE  \E k, y : Runs(heard, "lost", down, k, y) /\ Owes(session, up, k, y)
  BY <1>1, <1>2, <1>3 DEF InStep, Joint, Linked
<1>4. \A p : ~Minds(p)
  BY <1>1 DEF Minds
<1>5. PICK p : p = player'
  OBVIOUS
<1>6. CASE AnySends
  <2>1. PICK r : up' = Append(up, r)
    BY <1>6 DEF AnySends
  <2>2. player' = player /\ down' = down /\ heard' = heard
    BY <1>6 DEF AnySends
  <2>3. Awaits("lost", <<r>>, "lost")
    BY AwaitsFew DEF Serves
  <2>4. ASSUME Server PROVE Joint(player, session, Append(up, r), down, heard)
    <3>1. PICK k, y : Runs(heard, "lost", down, k, y) /\ Owes(session, up, k, y)
      BY <1>3, <2>4
    <3>2. Asks("lost", <<r>>, "lost")
      BY <2>3 DEF Asks
    <3>3. PICK v : Runs(heard, "lost", down, k, v) /\ Owes(session, up \o <<r>>, k, v)
      BY <3>1, <3>2, AskKeeps
    <3>4. session.open => up \o <<r>> = Append(up, r)
      <4>1. session.open => IsSequence(up)
        BY <3>1 DEF Owes, Due, Awaits
      <4> QED
        BY <4>1 DEF IsSequence
    <3>5. Owes(session, Append(up, r), k, v)
      BY <3>3, <3>4 DEF Owes
    <3>6. Linked(player, session, Append(up, r), down, heard)
      BY <1>2, <3>3, <3>5 DEF Linked
    <3> QED
      BY <3>6 DEF InStep, Joint
  <2>5. Joint(player, session, Append(up, r), down, heard)
    BY <2>4 DEF Joint
  <2>6. Joint(player', session', up', down', heard')
    BY <1>1, <2>1, <2>2, <2>5
  <2> QED
    BY <1>1, <2>6, InStepNext
<1>7. CASE AnyReads
  <2>1. /\ player' = player /\ up' = up /\ down # <<>>
        /\ down' = Tail(down) /\ heard' = Hear(heard, Head(down))
    BY <1>7 DEF AnyReads
  <2>2. ASSUME Server PROVE Joint(player, session, up, Tail(down), Hear(heard, Head(down)))
    <3>1. PICK k, y : Runs(heard, "lost", down, k, y) /\ Owes(session, up, k, y)
      BY <1>3, <2>2
    <3>2. PICK z : Goes("lost", Head(down), z) /\ Runs(Hear(heard, Head(down)), z, Tail(down), k, y)
      BY <2>1, <3>1, RunsTail
    <3>3. z = "lost"
      BY <3>2 DEF Goes, Cmds, Ops, Commands, Turns
    <3>4. Linked(player, session, up, Tail(down), Hear(heard, Head(down)))
      BY <1>2, <3>1, <3>2, <3>3 DEF Linked
    <3> QED
      BY <1>1, <3>4 DEF InStep, Joint
  <2>3. Joint(player', session', up', down', heard')
    BY <1>1, <2>1, <2>2 DEF Joint
  <2> QED
    BY <1>1, <2>3, InStepNext
<1>8. CASE AnyCloses
  <2>1. player' = [player EXCEPT !.link = "closed"] /\ down' = <<>> /\ up' = up
    BY <1>8 DEF AnyCloses
  <2>2. DOMAIN player = BaseMembers
    BY <1>1 DEF PlayInv
  <2>3. p.link = "closed"
    BY <1>5, <2>1, <2>2 DEF BaseMembers
  <2>4. Joint(p, session, up, <<>>, heard')
    BY <1>1, <1>4, <2>3 DEF InStep, Joint
  <2>5. Joint(player', session', up', down', heard')
    BY <1>1, <1>5, <2>1, <2>4
  <2> QED
    BY <1>1, <2>5, InStepNext
<1> QED
  BY <1>6, <1>7, <1>8

\* A player in the middle of a call.
Sound(p) == DOMAIN p = PlayerMembers /\ IsSequence(p.out)

\* It is no longer connected, but for one that is on its way after it was torn down.
Ended(q) == Sound(q) /\ q.link # "open" /\ (q.link \in {"resolving", "connecting"} => q.stray)

\* It is on its way to a connection, with nothing of an earlier one.
Begun(q) == Sound(q) /\ q.link = "resolving" /\ Calm(q)

\* The player has done something.
LEMMA PlayerKeeps ==
  ASSUME InStep, Client, NEW q, NEW d, NEW h, PlayerIs(q, d, h), Server => Sound(q),
         Server /\ Minds(q) /\ q.link \in {"resolving", "connecting"} => Calm(q),
         Server /\ q.link = "open" =>
           \E x, k, y, w : Runs(h, x, d, k, y) /\ Owes(session, up, k, y) /\ Asks(x, q.out, w) /\ Expects(q, h, w)
  PROVE  InStep'
<1>1. PICK p : p = [q EXCEPT !.out = <<>>]
  OBVIOUS
<1>2. ASSUME Server
      PROVE  /\ DOMAIN p = PlayerMembers /\ p.out = <<>> /\ p.link = q.link
             /\ Minds(p) = Minds(q) /\ (Calm(q) => Calm(p)) /\ \A w : Expects(q, h, w) => Expects(p, h, w)
  <2>1. DOMAIN q = PlayerMembers
    BY <1>2 DEF Sound
  <2>2. CASE Rtsp
    <3>1. /\ DOMAIN p = PlayerMembers /\ p.out = <<>> /\ p.link = q.link /\ p.stray = q.stray
          /\ p.handler = q.handler /\ p.crossed = q.crossed /\ p.recv = q.recv
      BY <1>1, <2>1, <2>2 DEF PlayerMembers, RtspMembers, BaseMembers
    <3> QED
      BY <2>2, <3>1 DEF Minds, Calm, Expects, RtspPlace
  <2>3. CASE ~Rtsp
    <3>1. /\ DOMAIN p = PlayerMembers /\ p.out = <<>> /\ p.link = q.link /\ p.stray = q.stray
          /\ p.waiting = q.waiting /\ p.statuses = q.statuses /\ p.recv = q.recv /\ p.told = q.told /\ p.beat = q.beat
      BY <1>1, <2>1, <2>3 DEF PlayerMembers, RtmpMembers, BaseMembers
    <3> QED
      BY <2>3, <3>1 DEF Minds, Calm, Expects, RtmpPlace
  <2> QED
    BY <2>2, <2>3
<1>3. /\ scene' = scene /\ session' = session /\ player' = p /\ up' = up \o q.out
      /\ down' = (IF q.link = "open" THEN d ELSE <<>>) /\ heard' = (IF q.link = "open" THEN h ELSE "none")
  BY <1>1 DEF PlayerIs
<1>4. PICK o : o = q.out
  OBVIOUS
<1>5. CASE ~Server
  <2>1. Joint(player', session', up', down', heard')
    BY <1>5 DEF Joint
  <2> QED
    BY <1>3, <2>1, InStepNext
<1>6. CASE Server
  <2>1. /\ DOMAIN p = PlayerMembers /\ p.out = <<>> /\ p.link = q.link /\ Minds(p) = Minds(q)
        /\ Calm(q) => Calm(p)
    BY <1>2, <1>6
  <2>2. down' = (IF p.link = "open" THEN d ELSE <<>>) /\ heard' = (IF p.link = "open" THEN h ELSE "none")
    BY <1>3, <2>1
  <2>3. Minds(p) /\ p.link \in {"resolving", "connecting"} => Calm(p)
    BY <1>6, <2>1
  <2>4. ASSUME p.link = "open"
        PROVE  \E x, k, y, w : Runs(h, x, d, k, y) /\ Owes(session, up, k, y) /\ Asks(x, o, w) /\ Expects(p, h, w)
    BY <1>2, <1>4, <1>6, <2>1, <2>4
  <2>5. up' = up \o o
    BY <1>3, <1>4
  <2> QED
    BY <1>3, <2>1, <2>2, <2>3, <2>4, <2>5, ClientKeeps
<1> QED
  BY <1>5, <1>6

\* Whatever a player that lost track of its replies sends.
LEMMA LostAsks == ASSUME NEW o, IsSequence(o) PROVE Asks("lost", o, "lost")
<1> DEFINE g == [i \in 0 .. Len(o) |-> "lost"]
<1>1. Len(o) \in Nat
  BY JoinedSequences
<1>2. g[0] = "lost" /\ g[Len(o)] = "lost" /\ \A i \in 1 .. Len(o) : g[i - 1] = "lost" /\ g[i] = "lost"
  BY <1>1
<1> HIDE DEF g
<1>3. \A i \in 1 .. Len(o) : Serves(g[i - 1], o[i], g[i])
  BY <1>2 DEF Serves
<1> QED
  BY <1>2, <1>3 DEF Asks, Awaits
-----------------------------------------------------------------------------
(* The RTSP player.                                                        *)

\* A call that leaves the slot and the connection as they are.
Alike(p, q) ==
  /\ DOMAIN q = RtspMembers /\ q.out = p.out /\ q.link = p.link /\ q.stray = p.stray
  /\ q.handler = p.handler /\ q.crossed = p.crossed

\* sendRtspRequest
LEMMA RtspRequests ==
  ASSUME NEW p, DOMAIN p = RtspMembers, IsSequence(p.out), NEW cmd
  PROVE  LET q == RtspP!Request(p, cmd) IN
           /\ DOMAIN q = RtspMembers /\ IsSequence(q.out) /\ \A m \in RtspMembers \ {"out", "cseq"} : q[m] = p[m]
           /\ p.link = "open" /\ p.out = <<>> => \E m : q.out = <<m>> /\ m.cmd = cmd
<1>1. PICK m : m = [cmd |-> cmd, cseq |-> p.cseq, session |-> p.session, track |-> p.setup, over |-> p.over]
  OBVIOUS
<1>2. PICK r : r = [p EXCEPT !.cseq = @ + 1]
  OBVIOUS
<1>3. PICK q : q = RtspP!Request(p, cmd)
  OBVIOUS
<1>4. DOMAIN r = RtspMembers /\ r.out = p.out /\ r.link = p.link
  BY <1>2 DEF RtspMembers, BaseMembers
<1>5. q = IF r.link = "open" THEN [r EXCEPT !.out = Append(@, m)] ELSE r
  BY <1>1, <1>2, <1>3 DEF RtspP!Request, RtspP!Say
<1>6. q.out = IF p.link = "open" THEN Append(p.out, m) ELSE p.out
  BY <1>4, <1>5 DEF RtspMembers, BaseMembers
<1>7. IsSequence(Append(p.out, m))
  <2>1. PICK S : p.out \in Seq(S)
    BY DEF IsSequence
  <2>2. p.out \in Seq(S \cup {m})
    BY <2>1
  <2>3. Append(p.out, m) \in Seq(S \cup {m})
    BY <2>2
  <2> QED
    BY <2>3 DEF IsSequence
<1>8. Append(<<>>, m) = <<m>> /\ m.cmd = cmd
  BY <1>1
<1>9. DOMAIN q = RtspMembers /\ \A f \in RtspMembers \ {"out", "cseq"} : q[f] = p[f]
  BY <1>3, RtspSays
<1>10. IsSequence(q.out) /\ (p.link = "open" /\ p.out = <<>> => \E c : q.out = <<c>> /\ c.cmd = cmd)
  BY <1>6, <1>7, <1>8
<1> QED
  BY <1>3, <1>9, <1>10

LEMMA RtspTalks ==
  ASSUME NEW p, DOMAIN p = RtspMembers, IsSequence(p.out), NEW handler, NEW cmd
  PROVE  LET q == RtspP!Ask(p, handler, cmd) IN
           /\ DOMAIN q = RtspMembers /\ IsSequence(q.out) /\ q.handler = handler
           /\ q.crossed = (p.crossed \/ p.handler # "none")
           /\ q.link = p.link /\ q.stray = p.stray /\ q.recv = p.recv
           /\ p.link = "open" /\ p.out = <<>> => \E m : q.out = <<m>> /\ m.cmd = cmd
<1>1. PICK r : r = [p EXCEPT !.handler = handler, !.crossed = @ \/ p.handler # "none"]
  OBVIOUS
<1>2. /\ DOMAIN r = RtspMembers /\ r.handler = handler /\ r.crossed = (p.crossed \/ p.handler # "none")
      /\ r.out = p.out /\ r.link = p.link /\ r.stray = p.stray /\ r.recv = p.recv
  BY <1>1 DEF RtspMembers, BaseMembers
<1>3. PICK q : q = RtspP!Request(r, cmd)
  OBVIOUS
<1>4. /\ DOMAIN q = RtspMembers /\ IsSequence(q.out) /\ \A m \in RtspMembers \ {"out", "cseq"} : q[m] = r[m]
      /\ p.link = "open" /\ p.out = <<>> => \E m : q.out = <<m>> /\ m.cmd = cmd
  BY <1>2, <1>3, RtspRequests
<1>5. /\ q.handler = handler /\ q.crossed = (p.crossed \/ p.handler # "none")
      /\ q.link = p.link /\ q.stray = p.stray /\ q.recv = p.recv
  BY <1>2, <1>4 DEF RtspMembers, BaseMembers
<1>6. q = RtspP!Ask(p, handler, cmd)
  BY <1>1, <1>3 DEF RtspP!Ask
<1> QED
  BY <1>4, <1>5, <1>6

\* teardown
LEMMA RtspLeaves ==
  ASSUME Rtsp, NEW p, DOMAIN p = RtspMembers, IsSequence(p.out)
  PROVE  LET q == RtspP!Teardown(p) IN
           /\ Ended(q) /\ DOMAIN q = RtspMembers /\ q.recv = FALSE /\ q.handler = "none" /\ q.crossed = p.crossed
<1>1. PICK r : r = RtspP!Request(p, "TEARDOWN")
  OBVIOUS
<1>2. DOMAIN r = RtspMembers /\ IsSequence(r.out) /\ \A m \in RtspMembers \ {"out", "cseq"} : r[m] = p[m]
  BY <1>1, RtspRequests
<1>3. PICK s : s = IF RtspP!Alive(p) THEN RtspP!Hang(r) ELSE p
  OBVIOUS
<1>4. /\ DOMAIN s = RtspMembers /\ IsSequence(s.out) /\ s.stray = p.stray /\ s.crossed = p.crossed
      /\ s.link = IF p.link \in {"connecting", "open"} THEN "closed" ELSE p.link
  BY <1>2, <1>3 DEF RtspP!Alive, RtspP!Hang, RtspMembers, BaseMembers
<1>5. PICK t : t = RtspP!Stop(s)
  OBVIOUS
<1>6. /\ DOMAIN t = RtspMembers /\ t.out = s.out /\ t.stray = (p.stray \/ s.link = "resolving") /\ t.crossed = p.crossed
      /\ t.link = s.link /\ t.recv = FALSE
  BY <1>4, <1>5 DEF RtspP!Stop, RtspMembers, BaseMembers
<1>7. PICK q : q = [t EXCEPT !.session = 0, !.tracks = 0, !.realm = FALSE, !.cseq = 1, !.handler = "none"]
  OBVIOUS
<1>8. /\ DOMAIN q = RtspMembers /\ q.out = s.out /\ q.stray = (p.stray \/ s.link = "resolving") /\ q.crossed = p.crossed
      /\ q.link = s.link /\ q.recv = FALSE /\ q.handler = "none"
  BY <1>6, <1>7 DEF RtspMembers, BaseMembers
<1>9. RtspP!Teardown(p) = q
  BY <1>1, <1>3, <1>5, <1>7 DEF RtspP!Teardown
<1>10. Ended(q)
  BY <1>4, <1>8 DEF Ended, Sound, PlayerMembers
<1> QED
  BY <1>8, <1>9, <1>10

\* onPlayResult_l
LEMMA RtspOutcome ==
  ASSUME Rtsp, NEW p, DOMAIN p = RtspMembers, IsSequence(p.out), NEW done \in BOOLEAN
  PROVE  /\ \A ex : ex \notin {"ok", "shutdown"} => Ended(RtspP!PlayResult_l(p, ex, done))
         /\ LET q == RtspP!PlayResult_l(p, "ok", done) IN Alike(p, q) /\ q.recv = TRUE
         /\ RtspP!PlayResult_l(p, "shutdown", done) = p
<1>1. ASSUME NEW ex
      PROVE  \E q : /\ Alike(p, q)
                    /\ q = IF ~done THEN RtspP!PlayResult([p EXCEPT !.play = FALSE], ex)
                           ELSE IF ex # "ok" THEN RtspP!OnShutdown(p) ELSE RtspP!OnResume(p)
  BY DEF RtspP!PlayResult, RtspP!OnPlayResult, RtspP!OnShutdown, RtspP!OnResume, Alike, RtspMembers, BaseMembers
<1>2. ASSUME NEW ex, ex \notin {"ok", "shutdown"} PROVE Ended(RtspP!PlayResult_l(p, ex, done))
  <2>1. PICK q : /\ Alike(p, q)
                 /\ q = IF ~done THEN RtspP!PlayResult([p EXCEPT !.play = FALSE], ex)
                        ELSE IF ex # "ok" THEN RtspP!OnShutdown(p) ELSE RtspP!OnResume(p)
    BY <1>1
  <2>2. RtspP!PlayResult_l(p, ex, done) = RtspP!Teardown(q)
    BY <1>2, <2>1 DEF RtspP!PlayResult_l
  <2>3. DOMAIN q = RtspMembers /\ IsSequence(q.out)
    BY <2>1 DEF Alike
  <2> QED
    BY <2>2, <2>3, RtspLeaves
<1>3. LET q == RtspP!PlayResult_l(p, "ok", done) IN Alike(p, q) /\ q.recv = TRUE
  <2>0. PICK ex : ex = "ok"
    OBVIOUS
  <2>1. PICK q : /\ Alike(p, q)
                 /\ q = IF ~done THEN RtspP!PlayResult([p EXCEPT !.play = FALSE], ex)
                        ELSE IF ex # "ok" THEN RtspP!OnShutdown(p) ELSE RtspP!OnResume(p)
    BY <1>1
  <2>2. PICK r : r = [q EXCEPT !.quiet = 0, !.recv = TRUE]
    OBVIOUS
  <2>3. r = RtspP!PlayResult_l(p, "ok", done)
    BY <2>0, <2>1, <2>2 DEF RtspP!PlayResult_l
  <2>4. Alike(p, r) /\ r.recv = TRUE
    BY <2>1, <2>2 DEF Alike, RtspMembers, BaseMembers
  <2> QED
    BY <2>3, <2>4
<1>4. RtspP!PlayResult_l(p, "shutdown", done) = p
  BY DEF RtspP!PlayResult_l
<1> QED
  BY <1>2, <1>3, <1>4

\* play
LEMMA RtspBegins ==
  ASSUME Rtsp, NEW p, DOMAIN p = RtspMembers, IsSequence(p.out)
  PROVE  Begun(RtspP!Play(p, TRUE)) /\ Ended(RtspP!Play(p, FALSE))
<1>1. PICK no : no = FALSE
  OBVIOUS
<1>2. Ended(RtspP!PlayResult_l(p, "other", no))
  BY <1>1, RtspOutcome
<1>3. PICK q : q = RtspP!Teardown(p)
  OBVIOUS
<1>4. DOMAIN q = RtspMembers /\ IsSequence(q.out) /\ q.recv = FALSE /\ q.handler = "none"
  BY <1>3, RtspLeaves DEF Ended, Sound
<1>5. PICK r : r = RtspP!StartConnect([q EXCEPT !.play = TRUE, !.crossed = FALSE])
  OBVIOUS
<1>6. /\ DOMAIN r = RtspMembers /\ r.out = q.out /\ r.recv = FALSE /\ r.handler = "none" /\ r.crossed = FALSE
      /\ r.link = "resolving"
  BY <1>4, <1>5 DEF RtspP!StartConnect, RtspMembers, BaseMembers
<1>7. Begun(r)
  BY <1>4, <1>6 DEF Begun, Sound, Calm, PlayerMembers
<1>8. RtspP!Play(p, TRUE) = r /\ RtspP!Play(p, FALSE) = RtspP!PlayResult_l(p, "other", no)
  BY <1>1, <1>3, <1>5 DEF RtspP!Play
<1> QED
  BY <1>2, <1>7, <1>8

\* A reply sets the play up further, or tells how it goes, or ends it, or sends it elsewhere.
SettingUp == {"OPTIONS", "DESCRIBE", "SETUP"}

Further(p, q, m) ==
  /\ Sound(q) /\ q.link = "open" /\ q.stray = p.stray /\ (p.crossed \in BOOLEAN => q.crossed = p.crossed)
  /\ \/ /\ p.handler \in SettingUp /\ q.recv = p.recv /\ q.handler \in SettingUp \cup {"PLAY"}
        /\ \E c : q.out = <<c>> /\ c.cmd = q.handler
     \/ /\ p.handler \notin SettingUp /\ q.out = <<>> /\ q.handler = "none"
        /\ q.recv = IF m.code = "200" /\ p.handler \in {"PLAY", "SEEK"} THEN TRUE
                    ELSE IF m.code = "200" /\ p.handler = "PAUSE" THEN FALSE ELSE p.recv

Onward(p, q, m) == Ended(q) \/ Begun(q) \/ Further(p, q, m)

\* A request that sets the play up.
LEMMA RtspSetsUp ==
  ASSUME Rtsp, NEW p, NEW m, p.handler \in SettingUp, NEW r, DOMAIN r = RtspMembers, r.out = <<>>, r.link = "open",
         r.stray = p.stray, r.crossed = p.crossed, r.recv = p.recv, r.handler = "none",
         NEW handler \in SettingUp \cup {"PLAY"}
  PROVE  Further(p, RtspP!Ask(r, handler, handler), m)
<1>1. PICK q : q = RtspP!Ask(r, handler, handler)
  OBVIOUS
<1>2. IsSequence(r.out)
  BY Nothing_
<1>3. /\ DOMAIN q = RtspMembers /\ IsSequence(q.out) /\ q.handler = handler
      /\ q.crossed = (r.crossed \/ r.handler # "none")
      /\ q.link = r.link /\ q.stray = r.stray /\ q.recv = r.recv /\ \E c : q.out = <<c>> /\ c.cmd = handler
  BY <1>1, <1>2, RtspTalks
<1>4. p.crossed \in BOOLEAN => q.crossed = p.crossed
  BY <1>3
<1> QED
  BY <1>1, <1>3, <1>4 DEF Further, Sound, PlayerMembers

\* handleResponse
LEMMA RtspHandles ==
  ASSUME Rtsp, NEW p, NEW m, p.handler \in SettingUp, NEW r, DOMAIN r = RtspMembers, r.out = <<>>, r.link = "open",
         r.stray = p.stray, r.crossed = p.crossed, r.recv = p.recv, r.handler = "none",
         NEW good, Onward(p, good, m)
  PROVE  Onward(p, RtspP!HandleResponse(r, m, good), m) /\ Onward(p, RtspP!Throw(r), m)
<1>0. IsSequence(r.out)
  BY Nothing_
<1>1. Begun(RtspP!Play(r, TRUE))
  BY <1>0, RtspBegins
<1>2. Ended(RtspP!Throw(r))
  <2>1. PICK done \in BOOLEAN : RtspP!Throw(r) = RtspP!PlayResult_l(r, "other", done)
    BY DEF RtspP!Throw
  <2> QED
    BY <1>0, <2>1, RtspOutcome
<1>3. Further(p, RtspP!SendOptions([r EXCEPT !.realm = TRUE]), m)
  <2>1. PICK s : s = [r EXCEPT !.realm = TRUE]
    OBVIOUS
  <2>2. /\ DOMAIN s = RtspMembers /\ s.out = <<>> /\ s.link = "open"
        /\ s.stray = p.stray /\ s.crossed = p.crossed /\ s.recv = p.recv /\ s.handler = "none"
    BY <2>1 DEF RtspMembers, BaseMembers
  <2>3. PICK o : o = "OPTIONS"
    OBVIOUS
  <2>4. Further(p, RtspP!Ask(s, o, o), m)
    BY <2>2, <2>3, RtspSetsUp DEF SettingUp
  <2> QED
    BY <2>1, <2>3, <2>4 DEF RtspP!SendOptions
<1> QED
  BY <1>1, <1>2, <1>3 DEF RtspP!HandleResponse, Onward

\* onWholeRtspPacket
LEMMA RtspHears ==
  ASSUME Rtsp, NEW p, DOMAIN p = RtspMembers, p.out = <<>>, p.link = "open", NEW m, NEW sdp
  PROVE  Onward(p, RtspP!OnReply(p, m, sdp), m)
<1>1. PICK r : r = [p EXCEPT !.handler = "none"]
  OBVIOUS
<1>2. /\ DOMAIN r = RtspMembers /\ r.out = <<>> /\ r.link = "open" /\ r.stray = p.stray /\ r.crossed = p.crossed
      /\ r.recv = p.recv /\ r.handler = "none"
  BY <1>1 DEF RtspMembers, BaseMembers
<1>3. IsSequence(<<>>)
  BY Nothing_
<1>4. PICK q : q = RtspP!OnReply(p, m, sdp)
  OBVIOUS
<1>5. CASE p.handler = "OPTIONS"
  <2>1. PICK o : o = "DESCRIBE"
    OBVIOUS
  <2>2. PICK good : good = RtspP!Ask(r, o, o)
    OBVIOUS
  <2>3. Onward(p, good, m)
    BY <1>2, <1>5, <2>1, <2>2, RtspSetsUp DEF SettingUp, Onward
  <2>4. Onward(p, RtspP!HandleResponse(r, m, good), m)
    BY <1>2, <1>5, <2>3, RtspHandles DEF SettingUp
  <2>5. q = RtspP!HandleResponse(r, m, good)
    BY <1>1, <1>4, <1>5, <2>1, <2>2 DEF RtspP!OnReply, RtspP!SendDescribe
  <2> QED
    BY <1>4, <2>4, <2>5
<1>6. CASE p.handler = "DESCRIBE"
  <2>1. PICK s : s = [[r EXCEPT !.tracks = Tracks, !.delegate = sdp] EXCEPT !.setup = 1]
    OBVIOUS
  <2>2. /\ DOMAIN s = RtspMembers /\ s.out = <<>> /\ s.link = "open" /\ s.stray = p.stray /\ s.crossed = p.crossed
        /\ s.recv = p.recv /\ s.handler = "none"
    BY <1>2, <2>1 DEF RtspMembers, BaseMembers
  <2>3. PICK o : o = "SETUP"
    OBVIOUS
  <2>4. PICK good : good = RtspP!Ask(s, o, o)
    OBVIOUS
  <2>5. Onward(p, good, m)
    BY <1>6, <2>2, <2>3, <2>4, RtspSetsUp DEF SettingUp, Onward
  <2>6. Onward(p, RtspP!HandleResponse(r, m, good), m)
    BY <1>2, <1>6, <2>5, RtspHandles DEF SettingUp
  <2>7. q = RtspP!HandleResponse(r, m, good)
    BY <1>1, <1>4, <1>6, <2>1, <2>3, <2>4 DEF RtspP!OnReply, RtspP!HandleResDESCRIBE, RtspP!SendSetup
  <2> QED
    BY <1>4, <2>6, <2>7
<1>7. CASE p.handler = "SETUP"
  <2>1. ASSUME NEW s, s \in {r, [r EXCEPT !.session = m.session]}
        PROVE  Onward(p, RtspP!SendSetup(s, p.setup + 1), m) /\ Onward(p, RtspP!SendPause(s, "PLAY"), m)
    <3>1. PICK t : t = [s EXCEPT !.setup = p.setup + 1]
      OBVIOUS
    <3>2. /\ DOMAIN s = RtspMembers /\ s.out = <<>> /\ s.link = "open" /\ s.stray = p.stray /\ s.crossed = p.crossed
          /\ s.recv = p.recv /\ s.handler = "none"
      BY <1>2, <2>1 DEF RtspMembers, BaseMembers
    <3>3. /\ DOMAIN t = RtspMembers /\ t.out = <<>> /\ t.link = "open" /\ t.stray = p.stray /\ t.crossed = p.crossed
          /\ t.recv = p.recv /\ t.handler = "none"
      BY <3>1, <3>2 DEF RtspMembers, BaseMembers
    <3>4. PICK o, l : o = "SETUP" /\ l = "PLAY"
      OBVIOUS
    <3>5. Further(p, RtspP!Ask(t, o, o), m)
      BY <1>7, <3>3, <3>4, RtspSetsUp DEF SettingUp
    <3>6. Further(p, RtspP!Ask(s, l, l), m)
      BY <1>7, <3>2, <3>4, RtspSetsUp DEF SettingUp
    <3> QED
      BY <3>1, <3>4, <3>5, <3>6 DEF Onward, RtspP!SendSetup, RtspP!SendPause
  <2>2. Onward(p, RtspP!Throw(r), m)
    <3>1. PICK good : good = RtspP!Throw(r)
      OBVIOUS
    <3>2. PICK done \in BOOLEAN : good = RtspP!PlayResult_l(r, "other", done)
      BY <3>1 DEF RtspP!Throw
    <3> QED
      BY <1>2, <1>3, <3>1, <3>2, RtspOutcome DEF Onward
  <2>3. PICK s : s = IF r.setup = 1 THEN [r EXCEPT !.session = m.session] ELSE r
    OBVIOUS
  <2>4. r.setup = p.setup
    BY <1>1 DEF RtspMembers, BaseMembers
  <2>5. q = RtspP!HandleResSETUP(r, m)
    BY <1>1, <1>4, <1>7 DEF RtspP!OnReply
  <2>6. q \in {RtspP!Throw(r), RtspP!SendSetup(s, p.setup + 1), RtspP!SendPause(s, "PLAY")}
    BY <2>3, <2>4, <2>5 DEF RtspP!HandleResSETUP
  <2>7. Onward(p, RtspP!SendSetup(s, p.setup + 1), m) /\ Onward(p, RtspP!SendPause(s, "PLAY"), m)
    BY <2>1, <2>3
  <2> QED
    BY <1>4, <2>2, <2>6, <2>7
<1>8. CASE p.handler \in {"PLAY", "PAUSE", "SEEK"}
  <2>1. q = RtspP!HandleResPAUSE(r, m, p.handler)
    BY <1>1, <1>4, <1>8 DEF RtspP!OnReply
  <2>2. PICK done \in BOOLEAN : done = ~r.play
    OBVIOUS
  <2>3. PICK u : u = RtspP!PlayResult_l(r, "ok", done)
    OBVIOUS
  <2>4. Alike(r, u) /\ u.recv = TRUE /\ RtspP!PlayResult_l(r, "shutdown", done) = r
    BY <1>2, <1>3, <2>3, RtspOutcome
  <2>5. PICK v : v = [r EXCEPT !.recv = FALSE]
    OBVIOUS
  <2>6. Alike(r, v) /\ v.recv = FALSE /\ Alike(r, r)
    BY <1>2, <2>5 DEF Alike, RtspMembers, BaseMembers
  <2>7. CASE m.code # "200"
    <3>1. q = r
      BY <2>1, <2>2, <2>4, <2>7 DEF RtspP!HandleResPAUSE
    <3> QED
      BY <1>2, <1>3, <1>4, <1>8, <2>7, <3>1 DEF Onward, Further, Sound, PlayerMembers, SettingUp
  <2>8. CASE m.code = "200" /\ p.handler = "PAUSE"
    <3>1. q = v
      BY <2>1, <2>5, <2>8 DEF RtspP!HandleResPAUSE
    <3> QED
      BY <1>2, <1>3, <1>4, <1>8, <2>6, <2>8, <3>1 DEF Onward, Further, Sound, PlayerMembers, SettingUp, Alike
  <2>9. CASE m.code = "200" /\ p.handler # "PAUSE"
    <3>1. q = u
      BY <2>1, <2>2, <2>3, <2>9 DEF RtspP!HandleResPAUSE
    <3> QED
      BY <1>2, <1>3, <1>4, <1>8, <2>4, <2>9, <3>1 DEF Onward, Further, Sound, PlayerMembers, SettingUp, Alike
  <2> QED
    BY <2>7, <2>8, <2>9
<1>9. CASE p.handler \notin {"OPTIONS", "DESCRIBE", "SETUP", "PLAY", "PAUSE", "SEEK"}
  <2>1. q = r
    BY <1>1, <1>4, <1>9 DEF RtspP!OnReply
  <2> QED
    BY <1>2, <1>3, <1>4, <1>9, <2>1 DEF Onward, Further, Sound, PlayerMembers, SettingUp
<1> QED
  BY <1>5, <1>6, <1>7, <1>8, <1>9

\* A player that minds its replies gets the one it expects.
LEMMA RtspTakes ==
  ASSUME NEW p, NEW h, NEW x, RtspPlace(p, h, x), NEW m, NEW z, Goes(x, m, z), m.t = "reply",
         NEW q, Further(p, q, m)
  PROVE  \E w : Asks(z, q.out, w) /\ RtspPlace(q, Hear(h, m), w)
<1>1. /\ p.handler \in {"none", "OPTIONS", "DESCRIBE", "SETUP", "PLAY", "PAUSE", "SEEK", "KEEP"}
      /\ p.crossed \in BOOLEAN /\ x = (IF p.crossed THEN "crossed" ELSE CmdOf(p.handler))
      /\ ~p.crossed => (p.recv <=> h = "playing")
      /\ p.handler \in {"OPTIONS", "DESCRIBE", "SETUP", "PLAY"} => h = "none" /\ ~p.crossed
  BY DEF RtspPlace
<1>2. q.crossed = p.crossed
  BY <1>1 DEF Further
<1>3. CASE p.crossed
  <2>1. x = "crossed" /\ z = "crossed"
    BY <1>1, <1>3 DEF Goes, Cmds, Commands, Turns, Ops
  <2>2. p.handler \notin SettingUp
    BY <1>1, <1>3 DEF SettingUp
  <2>3. q.out = <<>> /\ q.handler = "none"
    BY <2>2 DEF Further
  <2> QED
    BY <1>2, <1>3, <2>1, <2>3 DEF RtspPlace, Asks
<1>4. CASE ~p.crossed
  <2>1. x = CmdOf(p.handler) /\ x \in Cmds \cup {"idle"}
    BY <1>1, <1>4 DEF CmdOf, Cmds
  <2>2. x \in Cmds /\ x = m.cmd /\ z = "idle" /\ p.handler # "none"
    BY <1>1, <2>1 DEF Goes, CmdOf, Cmds, Commands, Turns, Ops
  <2>3. CASE p.handler \in SettingUp
    <3>1. m.cmd \in SettingUp /\ h = "none"
      BY <1>1, <2>1, <2>2, <2>3 DEF SettingUp, CmdOf
    <3>2. Hear(h, m) = "none"
      BY <3>1 DEF Hear, SettingUp
    <3>3. PICK c : q.out = <<c>> /\ c.cmd = q.handler
      BY <2>3 DEF Further
    <3>4. q.handler \in SettingUp \cup {"PLAY"} /\ q.recv = p.recv
      BY <2>3 DEF Further
    <3>5. q.handler \in Cmds
      BY <3>4 DEF SettingUp, Cmds
    <3>6. Serves(q.handler, c, "idle")
      BY <3>3, <3>5 DEF Serves
    <3>7. Awaits(q.handler, q.out, "idle")
      BY <3>3, <3>6, AwaitsFew
    <3>8. Asks(z, q.out, q.handler)
      BY <2>2, <3>5, <3>7 DEF Asks, Turned, Final
    <3>9. q.handler = CmdOf(q.handler)
      BY <3>4 DEF CmdOf, SettingUp
    <3>10. RtspPlace(q, Hear(h, m), q.handler)
      BY <1>1, <1>2, <1>4, <3>1, <3>2, <3>4, <3>9 DEF RtspPlace, SettingUp
    <3> QED
      BY <3>8, <3>10
  <2>4. CASE p.handler \notin SettingUp
    <3>1. /\ q.out = <<>> /\ q.handler = "none"
          /\ q.recv = IF m.code = "200" /\ p.handler \in {"PLAY", "SEEK"} THEN TRUE
                      ELSE IF m.code = "200" /\ p.handler = "PAUSE" THEN FALSE ELSE p.recv
      BY <2>4 DEF Further
    <3>2. /\ p.handler \in {"PLAY", "SEEK"} => m.cmd = "PLAY"
          /\ p.handler = "PAUSE" => m.cmd = "PAUSE"
          /\ p.handler = "KEEP" => m.cmd = "GET_PARAMETER"
      BY <2>1, <2>2 DEF CmdOf
    <3>3. q.recv <=> Hear(h, m) = "playing"
      BY <1>1, <1>4, <2>2, <2>4, <3>1, <3>2 DEF Hear, SettingUp
    <3>4. RtspPlace(q, Hear(h, m), "idle")
      BY <1>2, <1>4, <3>1, <3>3 DEF RtspPlace, CmdOf
    <3> QED
      BY <2>2, <3>1, <3>4 DEF Asks
  <2> QED
    BY <2>3, <2>4
<1> QED
  BY <1>3, <1>4

\* A keep-alive, or what the owner asks for, may come while a reply is outstanding.
LEMMA RtspAddresses ==
  ASSUME NEW p, NEW h, NEW x, RtspPlace(p, h, x), p.handler \notin SettingUp \cup {"PLAY"},
         NEW handler \in {"PAUSE", "SEEK", "KEEP"}, NEW q, q.handler = handler,
         q.crossed = (p.crossed \/ p.handler # "none"), q.recv = p.recv,
         \E m : q.out = <<m>> /\ m.cmd = CmdOf(handler)
  PROVE  \E w : Asks(x, q.out, w) /\ RtspPlace(q, h, w)
<1>1. /\ p.handler \in {"none", "PAUSE", "SEEK", "KEEP"}
      /\ p.crossed \in BOOLEAN /\ x = (IF p.crossed THEN "crossed" ELSE CmdOf(p.handler))
      /\ ~p.crossed => (p.recv <=> h = "playing")
  BY DEF RtspPlace, SettingUp
<1>2. PICK m : q.out = <<m>> /\ m.cmd = CmdOf(handler)
  OBVIOUS
<1>3. CmdOf(handler) \in Cmds \ {"DESCRIBE"}
  BY DEF CmdOf, Cmds
<1>4. CASE q.crossed
  <2>1. Serves("crossed", m, "crossed")
    BY <1>2, <1>3 DEF Serves
  <2>2. Awaits("crossed", q.out, "crossed")
    BY <1>2, <2>1, AwaitsFew
  <2>3. x \in Cmds \cup {"idle", "crossed"} /\ x # "DESCRIBE"
    BY <1>1 DEF CmdOf, Cmds
  <2>4. Asks(x, q.out, "crossed")
    BY <2>2, <2>3 DEF Asks, Turned, Final
  <2>5. RtspPlace(q, h, "crossed")
    BY <1>4 DEF RtspPlace
  <2> QED
    BY <2>4, <2>5
<1>5. CASE ~q.crossed
  <2>1. ~p.crossed /\ p.handler = "none" /\ x = "idle" /\ q.crossed = FALSE
    BY <1>1, <1>5 DEF CmdOf
  <2>2. Serves(CmdOf(handler), m, "idle")
    BY <1>2, <1>3 DEF Serves
  <2>3. Awaits(CmdOf(handler), q.out, "idle")
    BY <1>2, <2>2, AwaitsFew
  <2>4. Asks(x, q.out, CmdOf(handler))
    BY <1>3, <2>1, <2>3 DEF Asks, Turned, Final
  <2>5. RtspPlace(q, h, CmdOf(handler))
    BY <1>1, <2>1 DEF RtspPlace
  <2> QED
    BY <2>4, <2>5
<1>6. q.crossed \in BOOLEAN
  OBVIOUS
<1> QED
  BY <1>4, <1>5, <1>6

\* onRtpSorted and onRecvRTP_l
LEMMA RtspReceives ==
  ASSUME Rtsp, NEW p, DOMAIN p = RtspMembers, p.out = <<>>, NEW done \in BOOLEAN, NEW beat \in BOOLEAN
  PROVE  LET q == RtspP!OnRtp(p, done, beat) IN
           /\ Sound(q) /\ q.link = p.link /\ q.stray = p.stray /\ q.recv = p.recv
           /\ ~beat => q.out = <<>> /\ q.handler = p.handler /\ q.crossed = p.crossed
           /\ beat => q.handler = "KEEP" /\ q.crossed = (p.crossed \/ p.handler # "none")
           /\ beat /\ p.link = "open" => \E m : q.out = <<m>> /\ m.cmd = "GET_PARAMETER"
<1>1. PICK s : s = [p EXCEPT !.quiet = 0]
  OBVIOUS
<1>2. Alike(p, s) /\ s.recv = p.recv
  BY <1>1 DEF Alike, RtspMembers, BaseMembers
<1>3. PICK t : t = RtspP!OnPlayResult(s, "ok")
  OBVIOUS
<1>4. Alike(s, t) /\ t.recv = s.recv
  BY <1>2, <1>3 DEF RtspP!OnPlayResult, Alike, RtspMembers, BaseMembers
<1>5. PICK u : u = [t EXCEPT !.analyse = FALSE]
  OBVIOUS
<1>6. Alike(t, u) /\ u.recv = t.recv
  BY <1>4, <1>5 DEF Alike, RtspMembers, BaseMembers
<1>7. PICK r : r = IF s.analyse /\ done THEN u ELSE s
  OBVIOUS
<1>8. /\ DOMAIN r = RtspMembers /\ r.out = <<>> /\ r.link = p.link /\ r.stray = p.stray
      /\ r.handler = p.handler /\ r.crossed = p.crossed /\ r.recv = p.recv
  BY <1>2, <1>4, <1>6, <1>7 DEF Alike
<1>9. PICK handler, cmd : handler = "KEEP" /\ cmd = "GET_PARAMETER"
  OBVIOUS
<1>10. PICK v : v = RtspP!Ask(r, handler, cmd)
  OBVIOUS
<1>11. IsSequence(r.out)
  BY <1>8, Nothing_
<1>12. /\ DOMAIN v = RtspMembers /\ IsSequence(v.out) /\ v.handler = handler
       /\ v.crossed = (r.crossed \/ r.handler # "none")
       /\ v.link = r.link /\ v.stray = r.stray /\ v.recv = r.recv
       /\ r.link = "open" => \E m : v.out = <<m>> /\ m.cmd = cmd
  BY <1>8, <1>10, <1>11, RtspTalks
<1>13. PICK q : q = RtspP!OnRtp(p, done, beat)
  OBVIOUS
<1>14. q = IF beat THEN v ELSE r
  BY <1>1, <1>3, <1>5, <1>7, <1>9, <1>10, <1>13 DEF RtspP!OnRtp, RtspP!SendKeepAlive
<1>15. CASE beat
  BY <1>8, <1>9, <1>12, <1>13, <1>14, <1>15 DEF Sound, PlayerMembers
<1>16. CASE ~beat
  BY <1>8, <1>11, <1>13, <1>14, <1>16 DEF Sound, PlayerMembers
<1> QED
  BY <1>15, <1>16

-----------------------------------------------------------------------------
(* The steps of the player.                                                *)

\* A player that is no longer connected, or on its way again.
LEMMA PlayerLeaves ==
  ASSUME InStep, Client, NEW q, NEW d, NEW h, PlayerIs(q, d, h), Server => Ended(q) \/ Begun(q)
  PROVE  InStep'
<1>1. ASSUME Server
      PROVE  Sound(q) /\ q.link # "open" /\ (Minds(q) /\ q.link \in {"resolving", "connecting"} => Calm(q))
  BY <1>1 DEF Ended, Begun, Minds
<1> QED
  BY <1>1, PlayerKeeps

\* What the player is when it goes on.
Remains(q) ==
  Server =>
    /\ Sound(q) /\ (q.link = "open" => player.link = "open" /\ q.stray = player.stray)
    /\ Minds(q) /\ q.link \in {"resolving", "connecting"} => Calm(q)

\* It does something without reading.
LEMMA PlayerSays ==
  ASSUME InStep, Client, NEW q, PlayerDoes(q), Remains(q),
         Server /\ Minds(player) /\ q.link = "open" =>
           \A x : Expects(player, heard, x) => \E w : Asks(x, q.out, w) /\ Expects(q, heard, w)
  PROVE  InStep'
<1>1. ASSUME Server, q.link = "open"
      PROVE  \E x, k, y, w : /\ Runs(heard, x, down, k, y) /\ Owes(session, up, k, y)
                             /\ Asks(x, q.out, w) /\ Expects(q, heard, w)
  <2>1. player.link = "open" /\ q.stray = player.stray /\ IsSequence(q.out)
    BY <1>1 DEF Remains, Sound
  <2>2. PICK x, k, y : Expects(player, heard, x) /\ Runs(heard, x, down, k, y) /\ Owes(session, up, k, y)
    BY <1>1, <2>1 DEF InStep, Joint, Linked
  <2>3. CASE Minds(player)
    BY <1>1, <2>2, <2>3
  <2>4. CASE ~Minds(player)
    <3>1. x = "lost" /\ ~Minds(q)
      BY <2>1, <2>2, <2>4 DEF Expects, Minds
    <3>2. Asks(x, q.out, "lost") /\ Expects(q, heard, "lost")
      BY <2>1, <3>1, LostAsks DEF Expects
    <3> QED
      BY <2>2, <3>2
  <2> QED
    BY <2>3, <2>4
<1>2. PlayerIs(q, down, heard)
  BY DEF PlayerDoes
<1> QED
  BY <1>1, <1>2, PlayerKeeps DEF Remains

\* It reads.
LEMMA PlayerHears ==
  ASSUME InStep, Client, player.link = "open", down # <<>>, NEW q,
         PlayerIs(q, Tail(down), Hear(heard, Head(down))), Remains(q),
         Server /\ Minds(player) /\ q.link = "open" =>
           \A x, z : Expects(player, heard, x) /\ Goes(x, Head(down), z) /\ (IsFrame(Head(down)) => heard = "playing") =>
                       \E w : Asks(z, q.out, w) /\ Expects(q, Hear(heard, Head(down)), w)
  PROVE  InStep'
<1>h. PICK h : h = Hear(heard, Head(down))
  OBVIOUS
<1>1. ASSUME Server, q.link = "open"
      PROVE  \E x, k, y, w : /\ Runs(h, x, Tail(down), k, y) /\ Owes(session, up, k, y)
                             /\ Asks(x, q.out, w) /\ Expects(q, h, w)
  <2>1. q.stray = player.stray /\ IsSequence(q.out)
    BY <1>1 DEF Remains, Sound
  <2>2. PICK x, k, y : Expects(player, heard, x) /\ Runs(heard, x, down, k, y) /\ Owes(session, up, k, y)
    BY <1>1 DEF InStep, Joint, Linked
  <2>3. IsFrame(Head(down)) => heard = "playing"
    BY <2>2, RunsTail
  <2>4. PICK z : Goes(x, Head(down), z) /\ Runs(h, z, Tail(down), k, y)
    BY <1>h, <2>2, RunsTail
  <2>5. CASE Minds(player)
    <3>1. \E w : Asks(z, q.out, w) /\ Expects(q, h, w)
      BY <1>1, <1>h, <2>2, <2>3, <2>4, <2>5
    <3> QED
      BY <2>2, <2>4, <3>1
  <2>6. CASE ~Minds(player)
    <3>1. x = "lost" /\ ~Minds(q)
      BY <2>1, <2>2, <2>6 DEF Expects, Minds
    <3>2. z = "lost"
      BY <2>4, <3>1 DEF Goes, Cmds, Commands, Turns, Ops
    <3>3. Asks(z, q.out, "lost") /\ Expects(q, h, "lost")
      BY <2>1, <3>1, <3>2, LostAsks DEF Expects
    <3> QED
      BY <2>2, <2>4, <3>3
  <2> QED
    BY <2>5, <2>6
<1>2. PlayerIs(q, Tail(down), h)
  BY <1>h
<1> QED
  BY <1>1, <1>2, PlayerKeeps DEF Remains

\* What the RTSP player reads.
LEMMA RtspReads ==
  ASSUME Rtsp, InStep, PlayerReads
  PROVE  InStep'
<1>1. Client /\ player.link = "open" /\ down # <<>>
  BY DEF PlayerReads
<1>2. ASSUME Server PROVE DOMAIN player = RtspMembers /\ player.out = <<>>
  BY <1>1, <1>2 DEF InStep, Joint, PlayerMembers
<1>3. PICK m : m = Head(down)
  OBVIOUS
<1>4. CASE m.t = "reply" /\ PlayerIs(RtspP!OnReply(player, m, scene.sdp), Tail(down), Hear(heard, m))
  <2>1. PICK q : q = RtspP!OnReply(player, m, scene.sdp)
    OBVIOUS
  <2>2. PlayerIs(q, Tail(down), Hear(heard, Head(down)))
    BY <1>3, <1>4, <2>1
  <2>3. Server => Onward(player, q, m)
    BY <1>1, <1>2, <2>1, RtspHears
  <2>4. CASE Server => Ended(q) \/ Begun(q)
    BY <1>1, <2>2, <2>4, PlayerLeaves
  <2>5. CASE Server /\ Further(player, q, m)
    <3>1. Remains(q)
      BY <1>1, <2>5 DEF Remains, Further
    <3>2. ASSUME Minds(player), NEW x, NEW z, Expects(player, heard, x), Goes(x, m, z)
          PROVE  \E w : Asks(z, q.out, w) /\ Expects(q, Hear(heard, m), w)
      <4>1. RtspPlace(player, heard, x) /\ Minds(q)
        BY <2>5, <3>2 DEF Expects, Minds, Further
      <4>2. PICK w : Asks(z, q.out, w) /\ RtspPlace(q, Hear(heard, m), w)
        BY <1>4, <2>5, <3>2, <4>1, RtspTakes
      <4> QED
        BY <4>1, <4>2 DEF Expects
    <3> QED
      BY <1>1, <1>3, <2>2, <3>1, <3>2, PlayerHears
  <2> QED
    BY <2>3, <2>4, <2>5 DEF Onward
<1>5. CASE m.t = "media" /\ \E done, beat \in BOOLEAN : PlayerIs(RtspP!OnRtp(player, done, beat), Tail(down), heard)
  <2>1. PICK done \in BOOLEAN, beat \in BOOLEAN : PlayerIs(RtspP!OnRtp(player, done, beat), Tail(down), heard)
    BY <1>5
  <2>2. PICK q : q = RtspP!OnRtp(player, done, beat)
    OBVIOUS
  <2>3. Hear(heard, m) = heard
    BY <1>5 DEF Hear
  <2>4. PlayerIs(q, Tail(down), Hear(heard, Head(down)))
    BY <1>3, <2>1, <2>2, <2>3
  <2>5. ASSUME Server
        PROVE  /\ Sound(q) /\ q.link = "open" /\ q.stray = player.stray /\ q.recv = player.recv
               /\ ~beat => q.out = <<>> /\ q.handler = player.handler /\ q.crossed = player.crossed
               /\ beat => q.handler = "KEEP" /\ q.crossed = (player.crossed \/ player.handler # "none")
               /\ beat => \E c : q.out = <<c>> /\ c.cmd = "GET_PARAMETER"
    BY <1>1, <1>2, <2>2, <2>5, RtspReceives
  <2>6. Remains(q)
    BY <1>1, <2>5 DEF Remains
  <2>7. ASSUME Server, Minds(player), NEW x, NEW z, Expects(player, heard, x), Goes(x, m, z), IsFrame(m) => heard = "playing"
        PROVE  \E w : Asks(z, q.out, w) /\ Expects(q, heard, w)
    <3>1. RtspPlace(player, heard, x) /\ Minds(q)
      BY <2>5, <2>7 DEF Expects, Minds
    <3>2. x \in Cmds \cup {"idle", "crossed"}
      BY <3>1 DEF RtspPlace, CmdOf, Cmds
    <3>3. z = x /\ m.frame
      BY <1>5, <2>7, <3>2 DEF Goes, Cmds, Commands, Ops
    <3>4. heard = "playing"
      BY <1>5, <2>7, <3>3 DEF IsFrame
    <3>5. player.handler \notin SettingUp \cup {"PLAY"}
      BY <3>1, <3>4 DEF RtspPlace, SettingUp
    <3>6. CASE beat
      <4>1. CmdOf("KEEP") = "GET_PARAMETER"
        BY DEF CmdOf
      <4>2. \E c : q.out = <<c>> /\ c.cmd = CmdOf("KEEP")
        BY <2>5, <2>7, <3>6, <4>1
      <4>3. PICK keep : keep = "KEEP"
        OBVIOUS
      <4>4. \E w : Asks(x, q.out, w) /\ RtspPlace(q, heard, w)
        BY <2>5, <2>7, <3>1, <3>5, <3>6, <4>2, <4>3, RtspAddresses
      <4> QED
        BY <3>1, <3>3, <4>4 DEF Expects
    <3>7. CASE ~beat
      <4>1. Asks(x, q.out, x)
        BY <2>5, <2>7, <3>7 DEF Asks
      <4>2. RtspPlace(q, heard, x)
        BY <2>5, <2>7, <3>1, <3>7 DEF RtspPlace
      <4> QED
        BY <3>1, <3>3, <4>1, <4>2 DEF Expects
    <3> QED
      BY <3>6, <3>7
  <2> QED
    BY <1>1, <1>3, <2>3, <2>4, <2>6, <2>7, PlayerHears
<1> QED
  BY <1>3, <1>4, <1>5 DEF PlayerReads

-----------------------------------------------------------------------------
(* What the owner of an RTSP player does, and its timers.                  *)

\* What is sent in the middle of a play.
LEMMA RtspOperates ==
  ASSUME Rtsp, InStep, Client, NEW handler \in {"PAUSE", "SEEK"}, MayOperate(TRUE) \/ MayOperate(FALSE),
         PlayerDoes(RtspP!SendPause(player, handler))
  PROVE  InStep'
<1>1. PICK q : q = RtspP!SendPause(player, handler)
  OBVIOUS
<1>2. PICK cmd : cmd = CmdOf(handler)
  OBVIOUS
<1>3. q = RtspP!Ask(player, handler, cmd)
  BY <1>1, <1>2 DEF RtspP!SendPause, CmdOf
<1>4. ASSUME Server
      PROVE  /\ DOMAIN q = RtspMembers /\ IsSequence(q.out) /\ q.handler = handler
             /\ q.crossed = (player.crossed \/ player.handler # "none")
             /\ q.link = player.link /\ q.stray = player.stray /\ q.recv = player.recv
             /\ player.link = "open" => \E m : q.out = <<m>> /\ m.cmd = cmd
  <2>1. DOMAIN player = RtspMembers /\ player.out = <<>>
    BY <1>4 DEF InStep, Joint, PlayerMembers
  <2>2. IsSequence(player.out)
    BY <2>1, Nothing_
  <2> QED
    BY <1>3, <2>1, <2>2, RtspTalks
<1>5. Minds(player) => player.link = "open" /\ player.handler \in {"none", "KEEP"}
  BY DEF MayOperate, Settled, Minds
<1>6. Remains(q)
  <2>1. ASSUME Server PROVE Sound(q)
    BY <1>4, <2>1 DEF Sound, PlayerMembers
  <2>2. ASSUME Server PROVE Minds(q) => Minds(player)
    BY <1>4, <2>2 DEF Minds
  <2> QED
    BY <1>4, <1>5, <2>1, <2>2 DEF Remains
<1>7. ASSUME Server, Minds(player), NEW x, Expects(player, heard, x)
      PROVE  \E w : Asks(x, q.out, w) /\ Expects(q, heard, w)
  <2>1. RtspPlace(player, heard, x) /\ Minds(q)
    BY <1>4, <1>7 DEF Expects, Minds
  <2>2. \E m : q.out = <<m>> /\ m.cmd = CmdOf(handler)
    BY <1>2, <1>4, <1>5, <1>7
  <2>3. player.handler \notin SettingUp \cup {"PLAY"}
    BY <1>5, <1>7 DEF SettingUp
  <2>4. PICK w : Asks(x, q.out, w) /\ RtspPlace(q, heard, w)
    BY <1>4, <1>7, <2>1, <2>2, <2>3, RtspAddresses
  <2> QED
    BY <2>1, <2>4 DEF Expects
<1>8. PlayerDoes(q)
  BY <1>1
<1> QED
  BY <1>6, <1>7, <1>8, PlayerSays

\* What its owner does.
LEMMA RtspOwns ==
  ASSUME Rtsp, InStep, UserPlay \/ UserPause \/ UserSeek \/ UserTeardown
  PROVE  InStep'
<1>1. Client
  BY DEF UserPlay, UserPause, UserSeek, UserTeardown
<1>2. ASSUME Server PROVE DOMAIN player = RtspMembers /\ player.out = <<>>
  BY <1>1, <1>2 DEF InStep, Joint, PlayerMembers
<1>3. IsSequence(<<>>)
  BY Nothing_
<1>4. CASE UserPlay
  <2>1. PICK p : p = RtspP!SetCallbacks(player)
    OBVIOUS
  <2>2. PICK q : PlayerDoes(q) /\ q \in {RtspP!Play(p, TRUE), RtspP!Play(p, FALSE)}
    <3>1. PICK legal \in BOOLEAN : PlayerDoes(RtspP!Play(p, legal))
      BY <1>4, <2>1 DEF UserPlay
    <3> QED
      BY <3>1
  <2>3. ASSUME Server PROVE DOMAIN p = RtspMembers /\ p.out = <<>>
    BY <1>2, <2>1, <2>3 DEF RtspP!SetCallbacks, RtspMembers, BaseMembers
  <2>4. Server => Ended(q) \/ Begun(q)
    BY <1>3, <2>2, <2>3, RtspBegins
  <2> QED
    BY <1>1, <2>2, <2>4, PlayerLeaves DEF PlayerDoes
<1>5. CASE UserPause
  <2>1. PICK flag \in BOOLEAN : MayOperate(~flag) /\ PlayerDoes(RtspP!Pause(player, flag))
    BY <1>5 DEF UserPause
  <2>2. PICK handler \in {"PAUSE", "SEEK"} : handler = IF flag THEN "PAUSE" ELSE "SEEK"
    OBVIOUS
  <2>3. PlayerDoes(RtspP!SendPause(player, handler))
    BY <2>1, <2>2 DEF RtspP!Pause
  <2>4. MayOperate(TRUE) \/ MayOperate(FALSE)
    <3>1. CASE flag = TRUE
      BY <2>1, <3>1 DEF MayOperate
    <3>2. CASE flag = FALSE
      BY <2>1, <3>2 DEF MayOperate
    <3> QED
      BY <3>1, <3>2
  <2> QED
    BY <1>1, <2>3, <2>4, RtspOperates
<1>6. CASE UserSeek
  <2>1. PICK handler \in {"PAUSE", "SEEK"} : handler = "SEEK"
    OBVIOUS
  <2>2. MayOperate(TRUE) /\ PlayerDoes(RtspP!SendPause(player, handler))
    BY <1>6, <2>1 DEF UserSeek, RtspP!Seek
  <2> QED
    BY <1>1, <2>2, RtspOperates
<1>7. CASE UserTeardown
  <2>1. PICK q : q = RtspP!Teardown(player)
    OBVIOUS
  <2>2. Server => Ended(q)
    BY <1>2, <1>3, <2>1, RtspLeaves
  <2>3. PlayerDoes(q)
    BY <1>7, <2>1 DEF UserTeardown
  <2> QED
    BY <1>1, <2>2, <2>3, PlayerLeaves DEF PlayerDoes
<1> QED
  BY <1>4, <1>5, <1>6, <1>7

\* A failure ends the play, whatever was done to the connection or to a timer before.
LEMMA RtspBreaks ==
  ASSUME Rtsp, InStep, Client, NEW p, NEW done \in BOOLEAN, NEW ex, ex \in {"other", "eof", "timeout"},
         Server => DOMAIN p = RtspMembers /\ p.out = <<>>, PlayerDoes(RtspP!PlayResult_l(p, ex, done))
  PROVE  InStep'
<1>1. PICK q : q = RtspP!PlayResult_l(p, ex, done)
  OBVIOUS
<1>2. IsSequence(<<>>)
  BY Nothing_
<1>3. Server => Ended(q)
  BY <1>1, <1>2, RtspOutcome
<1>4. PlayerIs(q, down, heard)
  BY <1>1 DEF PlayerDoes
<1> QED
  BY <1>3, <1>4, PlayerLeaves

\* A play that goes on.
LEMMA RtspWaits ==
  ASSUME Rtsp, InStep, Client, NEW q, PlayerDoes(q),
         Server => /\ DOMAIN q = RtspMembers /\ q.out = <<>> /\ q.stray = player.stray
                   /\ q.handler = player.handler /\ q.crossed = player.crossed /\ q.recv = player.recv
                   /\ q.link = player.link \/ (player.link = "resolving" /\ q.link = "connecting")
  PROVE  InStep'
<1>1. Remains(q)
  <2>1. ASSUME Server PROVE Sound(q)
    BY <2>1, Nothing_ DEF Sound, PlayerMembers
  <2>2. ASSUME Server, Minds(q), q.link \in {"resolving", "connecting"} PROVE Calm(q)
    <3>1. Minds(player) /\ player.link \in {"resolving", "connecting"}
      BY <2>2 DEF Minds
    <3>2. Calm(player)
      BY <2>2, <3>1 DEF InStep, Joint
    <3> QED
      BY <2>2, <3>2 DEF Calm
  <2> QED
    BY <2>1, <2>2 DEF Remains
<1>2. ASSUME Server, Minds(player), NEW x, Expects(player, heard, x)
      PROVE  \E w : Asks(x, q.out, w) /\ Expects(q, heard, w)
  <2>1. RtspPlace(player, heard, x) /\ Minds(q)
    BY <1>2 DEF Expects, Minds
  <2>2. RtspPlace(q, heard, x)
    BY <1>2, <2>1 DEF RtspPlace
  <2>3. Asks(x, q.out, x)
    BY <1>2 DEF Asks
  <2> QED
    BY <2>1, <2>2, <2>3 DEF Expects
<1> QED
  BY <1>1, <1>2, PlayerSays

\* The name is resolved or not, the connection fails or ends, and the timers.
LEMMA RtspMoves ==
  ASSUME Rtsp, PlayInv, InStep, Resolve \/ NotConnected \/ PlayerEof \/ PlayTimer \/ RecvTimer
  PROVE  InStep'
<1>1. Client
  BY DEF PlayInv, Resolve, NotConnected, PlayerEof, PlayTimer, RecvTimer
<1>2. ASSUME Server PROVE DOMAIN player = RtspMembers /\ player.out = <<>>
  BY <1>1, <1>2 DEF InStep, Joint, PlayerMembers
<1>3. PICK p : p = [player EXCEPT !.link = "closed"]
  OBVIOUS
<1>4. PICK no : no = FALSE
  OBVIOUS
<1>5. Server => DOMAIN p = RtspMembers /\ p.out = <<>>
  BY <1>2, <1>3 DEF RtspMembers, BaseMembers
<1>6. ASSUME PlayerDoes(ToldConnect(p, FALSE)) PROVE InStep'
  <2>1. PICK ex : ex = "other"
    OBVIOUS
  <2>2. PlayerDoes(RtspP!PlayResult_l(p, ex, no))
    BY <1>4, <1>6, <2>1 DEF ToldConnect, RtspP!OnConnect
  <2> QED
    BY <1>1, <1>4, <1>5, <2>1, <2>2, RtspBreaks
<1>7. CASE Resolve
  <2>1. PICK q : q = [player EXCEPT !.link = "connecting"]
    OBVIOUS
  <2>2. player.link = "resolving"
    BY <1>7 DEF Resolve
  <2>3. CASE PlayerDoes(q)
    <3>1. ASSUME Server
          PROVE  /\ DOMAIN q = RtspMembers /\ q.out = <<>> /\ q.stray = player.stray
                 /\ q.handler = player.handler /\ q.crossed = player.crossed /\ q.recv = player.recv
                 /\ q.link = "connecting"
      BY <1>2, <2>1, <3>1 DEF RtspMembers, BaseMembers
    <3> QED
      BY <1>1, <2>2, <2>3, <3>1, RtspWaits
  <2> QED
    BY <1>3, <1>6, <1>7, <2>1, <2>3 DEF Resolve
<1>8. CASE NotConnected
  BY <1>3, <1>6, <1>8 DEF NotConnected
<1>9. CASE PlayerEof
  <2>1. PICK ex : ex = "eof"
    OBVIOUS
  <2>2. PICK done \in BOOLEAN : done = ~player.play
    OBVIOUS
  <2>3. PlayerDoes(RtspP!PlayResult_l(p, ex, done))
    BY <1>3, <1>9, <2>1, <2>2 DEF PlayerEof, RtspP!OnErr, RtspP!Hang
  <2> QED
    BY <1>1, <1>5, <2>1, <2>3, RtspBreaks
<1>10. CASE PlayTimer
  <2>1. PICK ex : ex = "timeout"
    OBVIOUS
  <2>2. PICK r : r = [player EXCEPT !.play = FALSE]
    OBVIOUS
  <2>3. Server => DOMAIN r = RtspMembers /\ r.out = <<>>
    BY <1>2, <2>2 DEF RtspMembers, BaseMembers
  <2>4. PlayerDoes(RtspP!PlayResult_l(r, ex, no))
    BY <1>4, <1>10, <2>1, <2>2 DEF PlayTimer, RtspP!PlayTimer
  <2> QED
    BY <1>1, <1>4, <2>1, <2>3, <2>4, RtspBreaks
<1>11. CASE RecvTimer
  <2>1. PICK late : PlayerDoes(RtspP!RecvTimer(player, late))
    BY <1>11 DEF RecvTimer
  <2>2. PICK ex, yes : ex = "timeout" /\ yes = TRUE
    OBVIOUS
  <2>3. CASE late
    <3>1. PlayerDoes(RtspP!PlayResult_l(player, ex, yes))
      BY <2>1, <2>2, <2>3 DEF RtspP!RecvTimer
    <3> QED
      BY <1>1, <1>2, <2>2, <3>1, RtspBreaks
  <2>4. CASE ~late
    <3>1. PICK q : q = [player EXCEPT !.quiet = @ + 1]
      OBVIOUS
    <3>2. PlayerDoes(q)
      BY <2>1, <2>4, <3>1 DEF RtspP!RecvTimer
    <3>3. ASSUME Server
          PROVE  /\ DOMAIN q = RtspMembers /\ q.out = <<>> /\ q.stray = player.stray
                 /\ q.handler = player.handler /\ q.crossed = player.crossed /\ q.recv = player.recv
                 /\ q.link = player.link
      BY <1>2, <3>1, <3>3 DEF RtspMembers, BaseMembers
    <3> QED
      BY <1>1, <3>2, <3>3, RtspWaits
  <2> QED
    BY <2>3, <2>4
<1> QED
  BY <1>7, <1>8, <1>9, <1>10, <1>11

-----------------------------------------------------------------------------
(* The RTMP player.                                                        *)

\* A call that leaves the connection, and what is expected of it, as they are.
Same(p, q) ==
  /\ DOMAIN q = RtmpMembers /\ q.out = p.out /\ q.link = p.link /\ q.stray = p.stray
  /\ q.waiting = p.waiting /\ q.statuses = p.statuses /\ q.beat = p.beat

\* More may have been told.
Told(s, t) == t = s \/ \E x : t = Append(s, x)

LEMMA TellsMore ==
  ASSUME NEW s, IsSequence(s), NEW t, Told(s, t), s # <<>>
  PROVE  t # <<>>
<1>1. ASSUME NEW x, t = Append(s, x) PROVE t # <<>>
  <2>1. PICK S : s \in Seq(S)
    BY DEF IsSequence
  <2>2. s \in Seq(S \cup {x})
    BY <2>1
  <2>3. Len(t) = Len(s) + 1 /\ Len(s) \in Nat
    BY <1>1, <2>2, AppendProperties
  <2> QED
    BY <2>3, Nothing_
<1> QED
  BY <1>1 DEF Told

\* A command is sent.
Adds(o, n, cmd, flag) == \E m : m.cmd = cmd /\ m.flag = flag /\ n = Append(o, m)

LEMMA RtmpTalks ==
  ASSUME NEW p, DOMAIN p = RtmpMembers, IsSequence(p.out), NEW cmd, NEW flag
  PROVE  LET q == RtmpP!Command(p, cmd, flag) IN
           /\ DOMAIN q = RtmpMembers /\ IsSequence(q.out)
           /\ q.link = p.link /\ q.stray = p.stray /\ q.recv = p.recv /\ q.told = p.told
           /\ q.waiting = p.waiting /\ q.statuses = p.statuses /\ q.beat = p.beat
           /\ p.link = "open" => Adds(p.out, q.out, cmd, flag)
<1>1. PICK m : m = [cmd |-> cmd, flag |-> flag, named |-> p.named]
  OBVIOUS
<1>2. PICK q : q = RtmpP!Command(p, cmd, flag)
  OBVIOUS
<1>3. q = IF p.link = "open" THEN [p EXCEPT !.out = Append(@, m)] ELSE p
  BY <1>1, <1>2 DEF RtmpP!Command, RtmpP!Say
<1>4. q.out = IF p.link = "open" THEN Append(p.out, m) ELSE p.out
  BY <1>3 DEF RtmpMembers, BaseMembers
<1>5. IsSequence(Append(p.out, m))
  <2>1. PICK S : p.out \in Seq(S)
    BY DEF IsSequence
  <2>2. p.out \in Seq(S \cup {m})
    BY <2>1
  <2>3. Append(p.out, m) \in Seq(S \cup {m})
    BY <2>2
  <2> QED
    BY <2>3 DEF IsSequence
<1>6. /\ DOMAIN q = RtmpMembers /\ q.link = p.link /\ q.stray = p.stray /\ q.recv = p.recv /\ q.told = p.told
      /\ q.waiting = p.waiting /\ q.statuses = p.statuses /\ q.beat = p.beat
  BY <1>3 DEF RtmpMembers, BaseMembers
<1>7. m.cmd = cmd /\ m.flag = flag
  BY <1>1
<1> QED
  BY <1>2, <1>4, <1>5, <1>6, <1>7 DEF Adds

\* teardown
LEMMA RtmpLeaves ==
  ASSUME ~Rtsp, NEW p, DOMAIN p = RtmpMembers, IsSequence(p.out)
  PROVE  LET q == RtmpP!Teardown(p) IN
           /\ Ended(q) /\ DOMAIN q = RtmpMembers /\ IsSequence(q.out) /\ q.recv = FALSE /\ q.beat = FALSE
           /\ q.waiting = {} /\ q.statuses = <<>> /\ q.told = p.told
<1>1. PICK r : r = IF RtmpP!Alive(p) THEN RtmpP!Hang(p) ELSE p
  OBVIOUS
<1>2. /\ DOMAIN r = RtmpMembers /\ r.out = p.out /\ r.stray = p.stray /\ r.told = p.told
      /\ r.link = IF p.link \in {"connecting", "open"} THEN "closed" ELSE p.link
  BY <1>1 DEF RtmpP!Alive, RtmpP!Hang, RtmpMembers, BaseMembers
<1>3. PICK s : s = RtmpP!Stop(r)
  OBVIOUS
<1>4. /\ DOMAIN s = RtmpMembers /\ s.out = p.out /\ s.stray = (p.stray \/ r.link = "resolving") /\ s.told = p.told
      /\ s.link = r.link /\ s.recv = FALSE
  BY <1>2, <1>3 DEF RtmpP!Stop, RtmpMembers, BaseMembers
<1>5. PICK q : q = [s EXCEPT !.named = FALSE, !.beat = FALSE, !.waiting = {}, !.statuses = <<>>]
  OBVIOUS
<1>6. /\ DOMAIN q = RtmpMembers /\ q.out = p.out /\ q.stray = (p.stray \/ r.link = "resolving") /\ q.told = p.told
      /\ q.link = r.link /\ q.recv = FALSE /\ q.beat = FALSE /\ q.waiting = {} /\ q.statuses = <<>>
  BY <1>4, <1>5 DEF RtmpMembers, BaseMembers
<1>7. RtmpP!Teardown(p) = q
  BY <1>1, <1>3, <1>5 DEF RtmpP!Teardown
<1>8. Ended(q)
  BY <1>2, <1>6 DEF Ended, Sound, PlayerMembers
<1> QED
  BY <1>6, <1>7, <1>8

\* onPlayResult_l
LEMMA RtmpOutcome ==
  ASSUME ~Rtsp, NEW p, DOMAIN p = RtmpMembers, IsSequence(p.out), NEW done \in BOOLEAN
  PROVE  /\ \A ex : ex \notin {"ok", "shutdown"} => Ended(RtmpP!PlayResult_l(p, ex, done))
         /\ LET q == RtmpP!PlayResult_l(p, "ok", done) IN Same(p, q) /\ q.recv = TRUE /\ Told(p.told, q.told)
<1>1. ASSUME NEW ex
      PROVE  \E q : /\ Same(p, q) /\ Told(p.told, q.told)
                    /\ q = IF ~done THEN RtmpP!OnPlayResult([p EXCEPT !.play = FALSE], ex)
                           ELSE IF ex # "ok" THEN RtmpP!OnShutdown(p) ELSE RtmpP!OnResume(p)
  BY DEF RtmpP!OnPlayResult, RtmpP!OnShutdown, RtmpP!OnResume, Same, Told, RtmpMembers, BaseMembers
<1>2. ASSUME NEW ex, ex \notin {"ok", "shutdown"} PROVE Ended(RtmpP!PlayResult_l(p, ex, done))
  <2>1. PICK q : /\ Same(p, q)
                 /\ q = IF ~done THEN RtmpP!OnPlayResult([p EXCEPT !.play = FALSE], ex)
                        ELSE IF ex # "ok" THEN RtmpP!OnShutdown(p) ELSE RtmpP!OnResume(p)
    BY <1>1
  <2>2. RtmpP!PlayResult_l(p, ex, done) = RtmpP!Teardown(q)
    BY <1>2, <2>1 DEF RtmpP!PlayResult_l
  <2>3. DOMAIN q = RtmpMembers /\ IsSequence(q.out)
    BY <2>1 DEF Same
  <2> QED
    BY <2>2, <2>3, RtmpLeaves
<1>3. LET q == RtmpP!PlayResult_l(p, "ok", done) IN Same(p, q) /\ q.recv = TRUE /\ Told(p.told, q.told)
  <2>0. PICK ex : ex = "ok"
    OBVIOUS
  <2>1. PICK q : /\ Same(p, q) /\ Told(p.told, q.told)
                 /\ q = IF ~done THEN RtmpP!OnPlayResult([p EXCEPT !.play = FALSE], ex)
                        ELSE IF ex # "ok" THEN RtmpP!OnShutdown(p) ELSE RtmpP!OnResume(p)
    BY <1>1
  <2>2. PICK r : r = [q EXCEPT !.quiet = 0, !.recv = TRUE]
    OBVIOUS
  <2>3. r = RtmpP!PlayResult_l(p, "ok", done)
    BY <2>0, <2>1, <2>2 DEF RtmpP!PlayResult_l
  <2>4. Same(p, r) /\ r.recv = TRUE /\ r.told = q.told
    BY <2>1, <2>2 DEF Same, RtmpMembers, BaseMembers
  <2> QED
    BY <2>1, <2>3, <2>4
<1> QED
  BY <1>2, <1>3

\* play
LEMMA RtmpBegins ==
  ASSUME ~Rtsp, NEW p, DOMAIN p = RtmpMembers, IsSequence(p.out), p.told = <<>>
  PROVE  Begun(RtmpP!Play(p, TRUE)) /\ Ended(RtmpP!Play(p, FALSE))
<1>1. PICK no : no = FALSE
  OBVIOUS
<1>2. PICK q : q = RtmpP!Teardown(p)
  OBVIOUS
<1>3. /\ DOMAIN q = RtmpMembers /\ IsSequence(q.out) /\ q.recv = FALSE /\ q.beat = FALSE
      /\ q.waiting = {} /\ q.statuses = <<>> /\ q.told = <<>>
  BY <1>2, RtmpLeaves
<1>4. Ended(RtmpP!PlayResult_l(q, "other", no))
  BY <1>1, <1>3, RtmpOutcome
<1>5. PICK r : r = RtmpP!StartConnect([q EXCEPT !.named = TRUE, !.play = TRUE, !.metadata = FALSE])
  OBVIOUS
<1>6. /\ DOMAIN r = RtmpMembers /\ r.out = q.out /\ r.recv = FALSE /\ r.beat = FALSE /\ r.link = "resolving"
      /\ r.waiting = {} /\ r.statuses = <<>> /\ r.told = <<>>
  BY <1>3, <1>5 DEF RtmpP!StartConnect, RtmpMembers, BaseMembers
<1>7. Begun(r)
  BY <1>3, <1>6 DEF Begun, Sound, Calm, PlayerMembers
<1>8. RtmpP!Play(p, TRUE) = r /\ RtmpP!Play(p, FALSE) = RtmpP!PlayResult_l(q, "other", no)
  BY <1>1, <1>2, <1>5 DEF RtmpP!Play
<1> QED
  BY <1>4, <1>7, <1>8

\* The connection ends, or it stays as it is.
Stays(p, q) == Ended(q) \/ (Sound(q) /\ q.link = "open" /\ q.stray = p.stray)

\* The player that has read m expects w once it has read what the session will send of z.
Takes(q, h, m, z) == \E w : Asks(z, q.out, w) /\ RtmpPlace(q, Hear(h, m), w)

\* The request after the one that was answered.
Advances(p, q, m) ==
  /\ q.recv = p.recv /\ q.told = p.told /\ q.beat = p.beat
  /\ q.waiting = (p.waiting \ {m.cmd}) \cup (IF m.cmd = "connect" THEN {"createStream"} ELSE {})
  /\ q.statuses = IF m.cmd = "connect" THEN p.statuses ELSE p.statuses \o <<"play", "play">>
  /\ \E c : q.out = <<c>> /\ c.cmd = IF m.cmd = "connect" THEN "createStream" ELSE "play"

\* onCmd_result
LEMMA RtmpGets ==
  ASSUME ~Rtsp, NEW p, DOMAIN p = RtmpMembers, p.out = <<>>, p.link = "open", NEW m, m.cmd \in Commands,
         NEW q, q = RtmpP!OnResult(p, m)
  PROVE  /\ Stays(p, q)
         /\ m.cmd \in p.waiting /\ m.level = "status" => Advances(p, q, m)
<1>0. IsSequence(<<>>) /\ \A c : Append(<<>>, c) = <<c>>
  BY Nothing_
<1>1. CASE m.cmd \notin p.waiting
  <2>1. q = p
    BY <1>1 DEF RtmpP!OnResult
  <2> QED
    BY <1>0, <1>1, <2>1 DEF Stays, Sound, PlayerMembers, Advances
<1>2. PICK r : r = [p EXCEPT !.waiting = @ \ {m.cmd}]
  OBVIOUS
<1>3. /\ DOMAIN r = RtmpMembers /\ r.out = <<>> /\ r.link = "open" /\ r.stray = p.stray /\ r.recv = p.recv
      /\ r.told = p.told /\ r.beat = p.beat /\ r.waiting = p.waiting \ {m.cmd} /\ r.statuses = p.statuses
  BY <1>2 DEF RtmpMembers, BaseMembers
<1>4. PICK no : no = FALSE
  OBVIOUS
<1>5. CASE m.cmd \in p.waiting /\ m.cmd = "connect" /\ m.level = "status"
  <2>1. PICK cmd : cmd = "createStream"
    OBVIOUS
  <2>2. PICK s : s = [r EXCEPT !.waiting = @ \cup {cmd}]
    OBVIOUS
  <2>3. /\ DOMAIN s = RtmpMembers /\ s.out = <<>> /\ s.link = "open" /\ s.stray = p.stray /\ s.recv = p.recv
        /\ s.told = p.told /\ s.beat = p.beat /\ s.waiting = (p.waiting \ {m.cmd}) \cup {cmd} /\ s.statuses = p.statuses
    BY <1>3, <2>2 DEF RtmpMembers, BaseMembers
  <2>4. q = RtmpP!Command(s, cmd, no)
    BY <1>2, <1>4, <1>5, <2>1, <2>2 DEF RtmpP!OnResult, RtmpP!SendInvoke
  <2>s. IsSequence(s.out)
    BY <1>0, <2>3
  <2>5. /\ DOMAIN q = RtmpMembers /\ IsSequence(q.out)
        /\ q.link = s.link /\ q.stray = s.stray /\ q.recv = s.recv /\ q.told = s.told
        /\ q.waiting = s.waiting /\ q.statuses = s.statuses /\ q.beat = s.beat
        /\ Adds(s.out, q.out, cmd, no)
    BY <2>s, <2>3, <2>4, RtmpTalks
  <2>6. /\ q.link = "open" /\ q.stray = p.stray /\ q.recv = p.recv
        /\ q.told = p.told /\ q.beat = p.beat /\ q.waiting = (p.waiting \ {m.cmd}) \cup {cmd} /\ q.statuses = p.statuses
    BY <2>3, <2>5
  <2>7. \E c : c.cmd = cmd /\ q.out = <<c>>
    BY <1>0, <2>3, <2>5 DEF Adds
  <2> QED
    BY <1>5, <2>1, <2>5, <2>6, <2>7 DEF Stays, Sound, PlayerMembers, Advances
<1>6. CASE m.cmd \in p.waiting /\ m.level # "status" /\ (m.cmd = "connect" \/ (m.cmd = "createStream" /\ m.level = "error"))
  <2>1. q = RtmpP!Throw(p)
    BY <1>6 DEF RtmpP!OnResult
  <2>2. PICK done \in BOOLEAN : RtmpP!Throw(p) = RtmpP!PlayResult_l(p, "other", done)
    BY DEF RtmpP!Throw
  <2>3. IsSequence(p.out) /\ Ended(RtmpP!PlayResult_l(p, "other", done))
    BY <1>0, RtmpOutcome
  <2> QED
    BY <1>6, <2>1, <2>2, <2>3 DEF Stays
<1>7. CASE m.cmd \in p.waiting /\ m.cmd = "createStream" /\ m.level # "error"
  <2>1. PICK cmd : cmd = "play"
    OBVIOUS
  <2>2. PICK s : s = [r EXCEPT !.statuses = @ \o <<"play", "play">>]
    OBVIOUS
  <2>3. /\ DOMAIN s = RtmpMembers /\ s.out = <<>> /\ s.link = "open" /\ s.stray = p.stray /\ s.recv = p.recv
        /\ s.told = p.told /\ s.beat = p.beat /\ s.waiting = p.waiting \ {m.cmd}
        /\ s.statuses = p.statuses \o <<"play", "play">>
    BY <1>3, <2>2 DEF RtmpMembers, BaseMembers
  <2>4. q = RtmpP!Command(s, cmd, no)
    BY <1>2, <1>4, <1>7, <2>1, <2>2 DEF RtmpP!OnResult, RtmpP!SendPlay
  <2>s. IsSequence(s.out)
    BY <1>0, <2>3
  <2>5. /\ DOMAIN q = RtmpMembers /\ IsSequence(q.out)
        /\ q.link = s.link /\ q.stray = s.stray /\ q.recv = s.recv /\ q.told = s.told
        /\ q.waiting = s.waiting /\ q.statuses = s.statuses /\ q.beat = s.beat
        /\ Adds(s.out, q.out, cmd, no)
    BY <2>s, <2>3, <2>4, RtmpTalks
  <2>6. /\ q.link = "open" /\ q.stray = p.stray /\ q.recv = p.recv
        /\ q.told = p.told /\ q.beat = p.beat /\ q.waiting = p.waiting \ {m.cmd}
        /\ q.statuses = p.statuses \o <<"play", "play">>
    BY <2>3, <2>5
  <2>7. \E c : c.cmd = cmd /\ q.out = <<c>>
    BY <1>0, <2>3, <2>5 DEF Adds
  <2> QED
    BY <1>7, <2>1, <2>5, <2>6, <2>7 DEF Stays, Sound, PlayerMembers, Advances
<1> QED
  BY <1>1, <1>5, <1>6, <1>7 DEF Commands

\* onCmd_onStatus
LEMMA RtmpReckons ==
  ASSUME ~Rtsp, NEW p, DOMAIN p = RtmpMembers, p.out = <<>>, p.link = "open", NEW m,
         NEW q, q = RtmpP!OnStatus(p, m)
  PROVE  /\ Stays(p, q)
         /\ m.level # "error" =>
              /\ p.statuses = <<>> => q = p
              /\ p.statuses # <<>> /\ m.level = "status" /\ Head(p.statuses) \in Expected =>
                   /\ q.out = <<>> /\ q.waiting = p.waiting /\ q.beat = p.beat /\ q.statuses = Tail(p.statuses)
                   /\ Told(p.told, q.told) /\ (Head(p.statuses) # "resume" => q.told = p.told)
                   /\ q.recv = CASE Head(p.statuses) = "pause" -> FALSE
                                 [] Head(p.statuses) = "resume" -> TRUE
                                 [] OTHER -> p.recv
<1>0. IsSequence(<<>>)
  BY Nothing_
<1>1. CASE p.statuses = <<>>
  <2>1. CASE m.level = "error"
    <3>1. PICK done \in BOOLEAN : q = RtmpP!PlayResult_l(p, "other", done)
      BY <1>1, <2>1 DEF RtmpP!OnStatus, RtmpP!Throw
    <3>2. Ended(q)
      BY <1>0, <3>1, RtmpOutcome
    <3> QED
      BY <2>1, <3>2 DEF Stays
  <2>2. CASE m.level # "error"
    <3>1. q = p
      BY <1>1, <2>2 DEF RtmpP!OnStatus
    <3> QED
      BY <1>0, <1>1, <3>1 DEF Stays, Sound, PlayerMembers
  <2> QED
    BY <2>1, <2>2
<1>2. CASE p.statuses # <<>>
  <2>1. PICK r : r = [p EXCEPT !.statuses = Tail(@)]
    OBVIOUS
  <2>2. /\ DOMAIN r = RtmpMembers /\ r.out = <<>> /\ r.link = "open" /\ r.stray = p.stray /\ r.recv = p.recv
        /\ r.told = p.told /\ r.beat = p.beat /\ r.waiting = p.waiting /\ r.statuses = Tail(p.statuses)
    BY <2>1 DEF RtmpMembers, BaseMembers
  <2>3. PICK h : h = Head(p.statuses)
    OBVIOUS
  <2>4. q = RtmpP!Status(r, m, h)
    BY <1>2, <2>1, <2>3 DEF RtmpP!OnStatus
  <2>5. Stays(p, r)
    BY <1>0, <2>2 DEF Stays, Sound, PlayerMembers
  <2>6. PICK done \in BOOLEAN : done = ~r.play
    OBVIOUS
  <2>7. Stays(p, RtmpP!PlayResult_l(r, "other", done))
    BY <1>0, <2>2, RtmpOutcome DEF Stays
  <2>8. CASE h = "pause" /\ m.level = "status"
    <3>1. PICK s : s = [r EXCEPT !.paused = TRUE, !.recv = FALSE]
      OBVIOUS
    <3>2. q = s
      BY <2>4, <2>8, <3>1 DEF RtmpP!Status
    <3>3. /\ DOMAIN s = RtmpMembers /\ s.out = <<>> /\ s.link = "open" /\ s.stray = p.stray /\ s.recv = FALSE
          /\ s.told = p.told /\ s.beat = p.beat /\ s.waiting = p.waiting /\ s.statuses = Tail(p.statuses)
      BY <2>2, <3>1 DEF RtmpMembers, BaseMembers
    <3> QED
      BY <1>0, <1>2, <2>3, <2>8, <3>2, <3>3 DEF Stays, Sound, PlayerMembers, Told
  <2>9. CASE h = "resume" /\ m.level = "status"
    <3>1. PICK s : s = [r EXCEPT !.paused = FALSE]
      OBVIOUS
    <3>2. PICK yes \in BOOLEAN : yes = TRUE
      OBVIOUS
    <3>3. q = RtmpP!PlayResult_l(s, "ok", yes)
      BY <2>4, <2>9, <3>1, <3>2 DEF RtmpP!Status
    <3>4. /\ DOMAIN s = RtmpMembers /\ s.out = <<>> /\ s.link = "open" /\ s.stray = p.stray
          /\ s.told = p.told /\ s.beat = p.beat /\ s.waiting = p.waiting /\ s.statuses = Tail(p.statuses)
      BY <2>2, <3>1 DEF RtmpMembers, BaseMembers
    <3>5. Same(s, q) /\ q.recv = TRUE /\ Told(s.told, q.told)
      BY <1>0, <3>3, <3>4, RtmpOutcome
    <3> QED
      BY <1>0, <1>2, <2>3, <2>9, <3>4, <3>5 DEF Stays, Sound, PlayerMembers, Same
  <2>10. CASE h \in {"play", "seek"} /\ m.level = "status"
    <3>1. q = r
      BY <2>4, <2>10 DEF RtmpP!Status
    <3> QED
      BY <1>2, <2>2, <2>3, <2>5, <2>10, <3>1 DEF Told
  <2>11. CASE ~(h \in Expected /\ m.level = "status")
    <3>1. q = r \/ q = RtmpP!PlayResult_l(r, "other", done)
      BY <2>4, <2>6, <2>11 DEF RtmpP!Status, RtmpP!Throw, Expected
    <3> QED
      BY <1>2, <2>3, <2>5, <2>7, <2>11, <3>1
  <2> QED
    BY <2>8, <2>9, <2>10, <2>11 DEF Expected
<1> QED
  BY <1>1, <1>2

\* Media is received, of which a frame may start the check of received packets.
Receives(p, q, m) ==
  /\ q.out = <<>> /\ q.waiting = p.waiting /\ q.beat = p.beat /\ q.statuses = p.statuses
  /\ Told(p.told, q.told)
  /\ (q.recv = p.recv /\ q.told = p.told) \/ (q.recv = TRUE /\ m.frame)

\* onMediaData_l
LEMMA RtmpWatches ==
  ASSUME ~Rtsp, NEW p, DOMAIN p = RtmpMembers, p.out = <<>>, p.link = "open", NEW m,
         NEW q, q = RtmpP!OnMedia(p, m)
  PROVE  /\ Stays(p, q)
         /\ Receives(p, q, m)
<1>0. IsSequence(<<>>)
  BY Nothing_
<1>1. PICK r : r = [p EXCEPT !.quiet = 0, !.metadata = TRUE]
  OBVIOUS
<1>2. Same(p, r) /\ r.recv = p.recv /\ r.told = p.told
  BY <1>1 DEF Same, RtmpMembers, BaseMembers
<1>3. PICK no \in BOOLEAN : no = FALSE
  OBVIOUS
<1>4. PICK s : s = RtmpP!PlayResult_l(r, "ok", no)
  OBVIOUS
<1>5. Same(r, s) /\ s.recv = TRUE /\ Told(r.told, s.told)
  BY <1>0, <1>2, <1>4, RtmpOutcome DEF Same
<1>6. q = IF r.play /\ m.frame THEN s ELSE r
  BY <1>1, <1>3, <1>4 DEF RtmpP!OnMedia
<1>7. CASE r.play /\ m.frame
  BY <1>0, <1>2, <1>5, <1>6, <1>7 DEF Stays, Sound, PlayerMembers, Same, Receives
<1>8. CASE ~(r.play /\ m.frame)
  BY <1>0, <1>2, <1>6, <1>8 DEF Stays, Sound, PlayerMembers, Same, Told, Receives
<1> QED
  BY <1>7, <1>8

\* onRtmpChunk and the control messages
LEMMA RtmpHears ==
  ASSUME ~Rtsp, NEW p, DOMAIN p = RtmpMembers, p.out = <<>>, p.link = "open", NEW m \in Messages,
         NEW q, q = RtmpP!OnMessage(p, m)
  PROVE  Stays(p, q)
<1>0. IsSequence(<<>>)
  BY Nothing_
<1>1. m.t \in {"result", "status", "meta", "media", "dry"} /\ (m.t = "result" => m.cmd \in Commands)
  BY DEF Messages, Answers
<1>2. CASE m.t = "result"
  <2>1. q = RtmpP!OnResult(p, m)
    BY <1>2 DEF RtmpP!OnMessage
  <2> QED
    BY <1>1, <1>2, <2>1, RtmpGets
<1>3. CASE m.t = "status"
  <2>1. q = RtmpP!OnStatus(p, m)
    BY <1>3 DEF RtmpP!OnMessage
  <2> QED
    BY <2>1, RtmpReckons
<1>4. CASE m.t = "media"
  <2>1. q = RtmpP!OnMedia(p, m)
    BY <1>4 DEF RtmpP!OnMessage
  <2> QED
    BY <2>1, RtmpWatches
<1>5. CASE m.t = "meta"
  <2>1. PICK r : r = [p EXCEPT !.metadata = TRUE]
    OBVIOUS
  <2>2. q = r
    BY <1>5, <2>1 DEF RtmpP!OnMessage
  <2>3. Same(p, r)
    BY <2>1 DEF Same, RtmpMembers, BaseMembers
  <2> QED
    BY <1>0, <2>2, <2>3 DEF Same, Stays, Sound, PlayerMembers
<1>6. CASE m.t = "dry"
  <2>1. PICK yes \in BOOLEAN : q = RtmpP!PlayResult_l(p, "other", yes)
    BY <1>6 DEF RtmpP!OnMessage
  <2> QED
    BY <1>0, <2>1, RtmpOutcome DEF Stays
<1> QED
  BY <1>1, <1>2, <1>3, <1>4, <1>5, <1>6

\* A player that minds its answers gets the one it expects.
LEMMA RtmpTakes ==
  ASSUME ~Rtsp, NEW p, DOMAIN p = RtmpMembers, p.out = <<>>, p.link = "open", IsSequence(p.told),
         NEW h, NEW x, RtmpPlace(p, h, x), NEW m \in Messages, NEW z, Goes(x, m, z), IsFrame(m) => h = "playing",
         NEW q, q = RtmpP!OnMessage(p, m)
  PROVE  Ended(q) \/ Takes(q, h, m, z)
<1>1. /\ x \in Ops \cup {"connect", "createStream", "turn", "play", "start", "data", "notify"}
      /\ p.waiting = {x} \cap Commands /\ p.statuses = Statuses(x)
      /\ p.told # <<>> => x \in Ops /\ (p.recv <=> h = "playing")
      /\ p.beat => p.told # <<>>
  BY DEF RtmpPlace
<1>2. x \notin {"lost", "crossed", "idle"} /\ x \notin Cmds
  BY <1>1 DEF Ops, Cmds
<1>3. m.t \in {"result", "status", "meta", "media", "dry"} /\ (m.t = "result" => m.cmd \in Commands)
  BY DEF Messages, Answers
<1>4. CASE m.t = "result"
  <2>1. x \in Commands /\ m.level = "status" /\ x = m.cmd /\ z = "turn"
    BY <1>2, <1>4 DEF Goes
  <2>2. m.cmd \in p.waiting /\ p.waiting = {x} /\ p.told = <<>> /\ ~p.beat /\ p.statuses = <<>>
    BY <1>1, <2>1 DEF Commands, Ops, Statuses
  <2>3. q = RtmpP!OnResult(p, m)
    BY <1>4 DEF RtmpP!OnMessage
  <2>g. Advances(p, q, m)
    BY <1>3, <1>4, <2>1, <2>2, <2>3, RtmpGets
  <2>4. /\ q.recv = p.recv /\ q.told = p.told /\ q.beat = p.beat
        /\ q.waiting = (p.waiting \ {m.cmd}) \cup (IF m.cmd = "connect" THEN {"createStream"} ELSE {})
        /\ q.statuses = IF m.cmd = "connect" THEN p.statuses ELSE p.statuses \o <<"play", "play">>
        /\ \E c : q.out = <<c>> /\ c.cmd = IF m.cmd = "connect" THEN "createStream" ELSE "play"
    BY <2>g DEF Advances
  <2>5. CASE m.cmd = "connect"
    <3>1. PICK c : q.out = <<c>> /\ c.cmd = "createStream"
      BY <2>4, <2>5
    <3>2. Serves("createStream", c, "turn")
      BY <3>1 DEF Serves, Commands
    <3>3. Awaits("createStream", q.out, "turn")
      BY <3>1, <3>2, AwaitsFew
    <3>4. Asks(z, q.out, "createStream")
      BY <2>1, <3>3 DEF Asks, Turned, Final
    <3>5. q.waiting = {"createStream"} /\ q.statuses = <<>> /\ q.told = <<>> /\ ~q.beat
      BY <2>1, <2>2, <2>4, <2>5
    <3>6. RtmpPlace(q, Hear(h, m), "createStream")
      BY <3>5 DEF RtmpPlace, Statuses, Commands
    <3> QED
      BY <3>4, <3>6 DEF Takes
  <2>6. CASE m.cmd = "createStream"
    <3>1. PICK c : q.out = <<c>> /\ c.cmd = "play"
      BY <2>4, <2>6
    <3>2. Serves("play", c, "rest")
      BY <3>1 DEF Serves
    <3>3. Awaits("play", q.out, "rest")
      BY <3>1, <3>2, AwaitsFew
    <3>4. Asks(z, q.out, "play")
      BY <2>1, <3>3 DEF Asks, Turned, Final
    <3>5. <<>> \o <<"play", "play">> = <<"play", "play">>
      OBVIOUS
    <3>6. q.waiting = {} /\ q.statuses = <<"play", "play">> /\ q.told = <<>> /\ ~q.beat
      BY <2>1, <2>2, <2>4, <2>6, <3>5
    <3>7. RtmpPlace(q, Hear(h, m), "play")
      BY <3>6 DEF RtmpPlace, Statuses, Commands
    <3> QED
      BY <3>4, <3>7 DEF Takes
  <2> QED
    BY <2>1, <2>5, <2>6 DEF Commands
<1>5. CASE m.t = "status"
  <2>1. <<x, m.code, m.level, z>> \in Turns
    BY <1>2, <1>5 DEF Goes
  <2>2. PICK e : e = RtmpP!OnStatus(p, m)
    OBVIOUS
  <2>3. q = e
    BY <1>5, <2>2 DEF RtmpP!OnMessage
  <2>4. /\ m.level # "error" /\ p.statuses = <<>> => q = p
        /\ p.statuses # <<>> /\ m.level = "status" /\ Head(p.statuses) \in Expected =>
             /\ q.out = <<>> /\ q.waiting = p.waiting /\ q.beat = p.beat /\ q.statuses = Tail(p.statuses)
             /\ Told(p.told, q.told) /\ (Head(p.statuses) # "resume" => q.told = p.told)
             /\ q.recv = CASE Head(p.statuses) = "pause" -> FALSE
                           [] Head(p.statuses) = "resume" -> TRUE
                           [] OTHER -> p.recv
    BY <2>2, <2>3, RtmpReckons
  <2>5. CASE x = "play" /\ m.level = "error"
    <3>1. p.statuses # <<>> /\ Head(p.statuses) = "play"
      BY <1>1, <2>5 DEF Statuses
    <3>2. PICK r : r = [p EXCEPT !.statuses = Tail(@)]
      OBVIOUS
    <3>3. DOMAIN r = RtmpMembers /\ IsSequence(r.out)
      BY <3>2, Nothing_ DEF RtmpMembers, BaseMembers
    <3>4. e = RtmpP!Status(r, m, Head(p.statuses))
      BY <2>2, <3>1, <3>2 DEF RtmpP!OnStatus
    <3>5. e = RtmpP!Throw(r)
      BY <2>5, <3>1, <3>4 DEF RtmpP!Status
    <3>6. PICK done \in BOOLEAN : RtmpP!Throw(r) = RtmpP!PlayResult_l(r, "other", done)
      BY DEF RtmpP!Throw
    <3>7. Ended(RtmpP!PlayResult_l(r, "other", done))
      BY <3>3, RtmpOutcome
    <3> QED
      BY <2>3, <3>5, <3>6, <3>7
  <2>6. ASSUME x \in {"play", "start"}, m.level = "status", q.recv = p.recv, q.told = p.told, q.beat = p.beat,
               q.out = <<>>, q.waiting = p.waiting, q.statuses = Tail(p.statuses)
        PROVE  Takes(q, h, m, z)
    <3>1. z = IF x = "play" THEN "start" ELSE "data"
      BY <2>1, <2>6 DEF Turns
    <3>2. p.told = <<>> /\ p.waiting = {}
      BY <1>1, <2>6 DEF Ops, Commands
    <3>3. Tail(Statuses(x)) = Statuses(z)
      BY <2>6, <3>1 DEF Statuses
    <3>4. RtmpPlace(q, Hear(h, m), z)
      BY <1>1, <2>6, <3>1, <3>2, <3>3 DEF RtmpPlace, Commands
    <3> QED
      BY <2>6, <3>4 DEF Takes, Asks
  <2>7. CASE x \in {"play", "start"} /\ m.level = "status"
    <3>1. p.statuses # <<>> /\ Head(p.statuses) = "play"
      BY <1>1, <2>7 DEF Statuses
    <3>2. /\ q.recv = p.recv /\ q.told = p.told /\ q.beat = p.beat
          /\ q.out = <<>> /\ q.waiting = p.waiting /\ q.statuses = Tail(p.statuses)
      BY <2>4, <2>7, <3>1 DEF Expected
    <3> QED
      BY <2>6, <2>7, <3>2
  <2>8. CASE x \in {"data", "notify"}
    <3>1. m.level # "error" /\ z = IF x = "data" THEN "notify" ELSE "rest"
      BY <2>1, <2>8 DEF Turns
    <3>2. p.told = <<>> /\ p.waiting = {} /\ p.statuses = <<>>
      BY <1>1, <2>8 DEF Ops, Commands, Statuses
    <3>3. q = p
      BY <2>4, <3>1, <3>2
    <3>4. RtmpPlace(q, Hear(h, m), z)
      BY <1>1, <3>1, <3>2, <3>3 DEF RtmpPlace, Commands, Statuses, Ops
    <3> QED
      BY <3>3, <3>4 DEF Takes, Asks
  <2>9. CASE x \in {"pause", "resume", "seek", "both"}
    <3>1. /\ m.level = "status" /\ z = (IF x = "both" THEN "seek" ELSE "rest")
          /\ m.code = CASE x = "pause" -> "Pause" [] x = "seek" -> "Seek" [] OTHER -> "Unpause"
      BY <2>1, <2>9 DEF Turns
    <3>2. p.statuses # <<>> /\ Head(p.statuses) = IF x = "both" THEN "resume" ELSE x
      BY <1>1, <2>9 DEF Statuses
    <3>3. Tail(Statuses(x)) = Statuses(z) /\ p.waiting = {}
      BY <1>1, <2>9, <3>1 DEF Statuses, Commands
    <3>4. /\ q.out = <<>> /\ q.waiting = p.waiting /\ q.beat = p.beat /\ q.statuses = Tail(p.statuses)
          /\ Told(p.told, q.told) /\ (x \in {"pause", "seek"} => q.told = p.told)
          /\ q.recv = CASE x = "pause" -> FALSE [] x \in {"resume", "both"} -> TRUE [] OTHER -> p.recv
      BY <2>4, <2>9, <3>1, <3>2 DEF Expected
    <3>5. Hear(h, m) = CASE x = "pause" -> "paused" [] x = "seek" -> h [] OTHER -> "playing"
      BY <1>5, <2>9, <3>1 DEF Hear
    <3>6. q.told # <<>> => (q.recv <=> Hear(h, m) = "playing")
      <4>1. CASE x = "seek"
        BY <1>1, <3>4, <3>5, <4>1
      <4>2. CASE x = "pause"
        BY <3>4, <3>5, <4>2
      <4>3. CASE x \in {"resume", "both"}
        BY <3>4, <3>5, <4>3
      <4> QED
        BY <2>9, <4>1, <4>2, <4>3
    <3>7. q.beat => q.told # <<>>
      BY <1>1, <3>4, TellsMore
    <3>8. RtmpPlace(q, Hear(h, m), z)
      BY <1>1, <3>1, <3>3, <3>4, <3>6, <3>7 DEF RtmpPlace, Commands, Ops
    <3> QED
      BY <3>4, <3>8 DEF Takes, Asks
  <2> QED
    BY <2>1, <2>5, <2>7, <2>8, <2>9 DEF Turns
<1>6. CASE m.t = "meta"
  <2>1. z = x
    BY <1>2, <1>6 DEF Goes, Commands
  <2>2. PICK r : r = [p EXCEPT !.metadata = TRUE]
    OBVIOUS
  <2>3. Same(p, r) /\ r.recv = p.recv /\ r.told = p.told
    BY <2>2 DEF Same, RtmpMembers, BaseMembers
  <2>4. q = r
    BY <1>6, <2>2 DEF RtmpP!OnMessage
  <2>5. Hear(h, m) = h
    BY <1>6 DEF Hear
  <2>6. RtmpPlace(q, h, z)
    BY <2>1, <2>3, <2>4 DEF RtmpPlace, Same
  <2> QED
    BY <2>3, <2>4, <2>5, <2>6 DEF Takes, Asks, Same
<1>7. CASE m.t = "media"
  <2>1. z = x /\ x \in Ops
    BY <1>2, <1>7 DEF Goes, Commands
  <2>2. q = RtmpP!OnMedia(p, m)
    BY <1>7 DEF RtmpP!OnMessage
  <2>w. Receives(p, q, m)
    BY <2>2, RtmpWatches
  <2>3. /\ q.out = <<>> /\ q.waiting = p.waiting /\ q.beat = p.beat /\ q.statuses = p.statuses
        /\ Told(p.told, q.told)
        /\ (q.recv = p.recv /\ q.told = p.told) \/ (q.recv = TRUE /\ m.frame)
    BY <2>w DEF Receives
  <2>4. Hear(h, m) = h
    BY <1>7 DEF Hear
  <2>5. q.told # <<>> => (q.recv <=> h = "playing")
    BY <1>1, <1>7, <2>3 DEF IsFrame
  <2>6. q.beat => q.told # <<>>
    BY <1>1, <2>3, TellsMore
  <2>7. RtmpPlace(q, h, z)
    BY <1>1, <2>1, <2>3, <2>5, <2>6 DEF RtmpPlace
  <2> QED
    BY <2>3, <2>4, <2>7 DEF Takes, Asks
<1>8. m.t # "dry"
  BY <1>2 DEF Goes
<1> QED
  BY <1>3, <1>4, <1>5, <1>6, <1>7, <1>8

\* What was told is a sequence.
LEMMA ToldSequence ==
  ASSUME PlayInv, Minds(player)
  PROVE  IsSequence(player.told)
<1>1. player.told \in Ongoing \cup Over
  BY DEF PlayInv, Good, RtspGood, RtmpGood, Core, Minds
<1>2. /\ <<>> \in Seq(Outcomes) /\ <<"ok">> \in Seq(Outcomes) /\ <<"ok", "resume">> \in Seq(Outcomes)
      /\ <<"fail">> \in Seq(Outcomes) /\ <<"down">> \in Seq(Outcomes) /\ <<"ok", "down">> \in Seq(Outcomes)
      /\ <<"ok", "resume", "down">> \in Seq(Outcomes)
  BY DEF Outcomes
<1> QED
  BY <1>1, <1>2 DEF Ongoing, Over, IsSequence

\* What the RTMP player reads.
LEMMA RtmpReadsOn ==
  ASSUME ~Rtsp, PlayInv, InStep, PlayerReads
  PROVE  InStep'
<1>1. Client /\ player.link = "open" /\ down # <<>>
  BY DEF PlayerReads
<1>2. PICK m, q : m = Head(down) /\ q = RtmpP!OnMessage(player, m)
  OBVIOUS
<1>3. PlayerIs(q, Tail(down), Hear(heard, Head(down)))
  BY <1>2 DEF PlayerReads
<1>4. down \in Seq(Messages)
  BY DEF PlayInv
<1>5. m \in Messages
  BY <1>1, <1>2, <1>4, HeadTailProperties
<1>6. ASSUME Server PROVE DOMAIN player = RtmpMembers /\ player.out = <<>>
  BY <1>1, <1>6 DEF InStep, Joint, PlayerMembers
<1>7. Server => Stays(player, q)
  BY <1>1, <1>2, <1>5, <1>6, RtmpHears
<1>8. CASE Server => Ended(q)
  BY <1>1, <1>3, <1>8, PlayerLeaves
<1>9. CASE Server /\ ~Ended(q)
  <2>1. Remains(q)
    BY <1>1, <1>7, <1>9 DEF Remains, Stays
  <2>2. ASSUME Minds(player), NEW x, NEW z, Expects(player, heard, x), Goes(x, m, z), IsFrame(m) => heard = "playing"
        PROVE  \E w : Asks(z, q.out, w) /\ Expects(q, Hear(heard, m), w)
    <3>1. RtmpPlace(player, heard, x) /\ Minds(q)
      BY <1>7, <1>9, <2>2 DEF Expects, Minds, Stays
    <3>2. IsSequence(player.told)
      BY <1>1, <2>2, ToldSequence
    <3>3. Takes(q, heard, m, z)
      BY <1>1, <1>2, <1>5, <1>6, <1>9, <2>2, <3>1, <3>2, RtmpTakes
    <3> QED
      BY <3>1, <3>3 DEF Expects, Takes
  <2> QED
    BY <1>1, <1>2, <1>3, <2>1, <2>2, PlayerHears
<1> QED
  BY <1>8, <1>9
-----------------------------------------------------------------------------
(* What the owner of an RTMP player does, and its timers.                  *)

\* What is sent in the middle of a play.
LEMMA RtmpSpeaks ==
  ASSUME ~Rtsp, InStep, Client, NEW q, PlayerDoes(q),
         Server => Sound(q) /\ q.link = player.link /\ q.stray = player.stray,
         Server /\ Minds(player) =>
           /\ player.link \notin {"resolving", "connecting"}
           /\ \A x : RtmpPlace(player, heard, x) /\ player.link = "open" =>
                       \E w : Asks(x, q.out, w) /\ RtmpPlace(q, heard, w)
  PROVE  InStep'
<1>1. Remains(q)
  BY DEF Remains, Minds
<1>2. ASSUME Server, Minds(player), q.link = "open", NEW x, Expects(player, heard, x)
      PROVE  \E w : Asks(x, q.out, w) /\ Expects(q, heard, w)
  <2>1. RtmpPlace(player, heard, x) /\ Minds(q)
    BY <1>2 DEF Expects, Minds
  <2>2. PICK w : Asks(x, q.out, w) /\ RtmpPlace(q, heard, w)
    BY <1>2, <2>1
  <2> QED
    BY <2>1, <2>2 DEF Expects
<1> QED
  BY <1>1, <1>2, PlayerSays

\* A pause or its end.
LEMMA RtmpPauses ==
  ASSUME NEW p, DOMAIN p = RtmpMembers, p.out = <<>>, NEW flag \in BOOLEAN, NEW q, q = RtmpP!SendPause(p, flag)
  PROVE  /\ DOMAIN q = RtmpMembers /\ IsSequence(q.out)
         /\ q.link = p.link /\ q.stray = p.stray /\ q.recv = p.recv /\ q.told = p.told
         /\ q.waiting = p.waiting /\ q.statuses = Append(p.statuses, IF flag THEN "pause" ELSE "resume") /\ q.beat = flag
         /\ p.link = "open" => \E c : q.out = <<c>> /\ c.cmd = "pause" /\ c.flag = flag
<1>1. PICK s : s = [p EXCEPT !.statuses = Append(@, IF flag THEN "pause" ELSE "resume"), !.beat = flag]
  OBVIOUS
<1>2. PICK t : t = Append(p.statuses, IF flag THEN "pause" ELSE "resume")
  OBVIOUS
<1>3. /\ DOMAIN s = RtmpMembers /\ s.out = <<>> /\ s.link = p.link /\ s.stray = p.stray /\ s.recv = p.recv
      /\ s.told = p.told /\ s.waiting = p.waiting /\ s.statuses = t /\ s.beat = flag
  BY <1>1, <1>2 DEF RtmpMembers, BaseMembers
<1>4. PICK cmd : cmd = "pause"
  OBVIOUS
<1>5. PICK b : b = flag
  OBVIOUS
<1>6. q = RtmpP!Command(s, cmd, b)
  BY <1>1, <1>4, <1>5 DEF RtmpP!SendPause
<1>7. IsSequence(s.out)
  BY <1>3, Nothing_
<1>8. /\ DOMAIN q = RtmpMembers /\ IsSequence(q.out)
      /\ q.link = s.link /\ q.stray = s.stray /\ q.recv = s.recv /\ q.told = s.told
      /\ q.waiting = s.waiting /\ q.statuses = s.statuses /\ q.beat = s.beat
      /\ s.link = "open" => Adds(s.out, q.out, cmd, b)
  BY <1>3, <1>6, <1>7, RtmpTalks
<1>9. \A c : Append(<<>>, c) = <<c>>
  OBVIOUS
<1>10. p.link = "open" => \E c : q.out = <<c>> /\ c.cmd = "pause" /\ c.flag = flag
  BY <1>3, <1>4, <1>5, <1>8, <1>9 DEF Adds
<1> QED
  BY <1>2, <1>3, <1>8, <1>10

\* seek
Seeks(p, q) ==
  /\ DOMAIN q = RtmpMembers /\ IsSequence(q.out)
  /\ q.link = p.link /\ q.stray = p.stray /\ q.recv = p.recv /\ q.told = p.told
  /\ q.waiting = p.waiting /\ q.statuses = Append(p.statuses, "seek") /\ q.beat = p.beat
  /\ p.link = "open" => \E c : q.out = Append(p.out, c) /\ c.cmd = "seek"

LEMMA RtmpSeeks ==
  ASSUME NEW p, DOMAIN p = RtmpMembers, IsSequence(p.out), NEW no
  PROVE  Seeks(p, RtmpP!Command([p EXCEPT !.statuses = Append(@, "seek")], "seek", no))
<1>1. PICK s : s = [p EXCEPT !.statuses = Append(@, "seek")]
  OBVIOUS
<1>2. PICK t : t = Append(p.statuses, "seek")
  OBVIOUS
<1>3. /\ DOMAIN s = RtmpMembers /\ s.out = p.out /\ s.link = p.link /\ s.stray = p.stray /\ s.recv = p.recv
      /\ s.told = p.told /\ s.waiting = p.waiting /\ s.statuses = t /\ s.beat = p.beat
  BY <1>1, <1>2 DEF RtmpMembers, BaseMembers
<1>4. PICK cmd : cmd = "seek"
  OBVIOUS
<1>5. PICK q : q = RtmpP!Command(s, cmd, no)
  OBVIOUS
<1>6. IsSequence(s.out)
  BY <1>3
<1>7. /\ DOMAIN q = RtmpMembers /\ IsSequence(q.out)
      /\ q.link = s.link /\ q.stray = s.stray /\ q.recv = s.recv /\ q.told = s.told
      /\ q.waiting = s.waiting /\ q.statuses = s.statuses /\ q.beat = s.beat
      /\ s.link = "open" => Adds(s.out, q.out, cmd, no)
  BY <1>3, <1>5, <1>6, RtmpTalks
<1>8. p.link = "open" => \E c : q.out = Append(p.out, c) /\ c.cmd = "seek"
  BY <1>3, <1>4, <1>7 DEF Adds
<1>9. Seeks(p, q)
  BY <1>2, <1>3, <1>7, <1>8 DEF Seeks
<1> QED
  BY <1>1, <1>4, <1>5, <1>9

\* What a careful owner finds.
LEMMA RtmpSettled ==
  ASSUME ~Rtsp, Settled, NEW x, RtmpPlace(player, heard, x)
  PROVE  /\ x = "rest" /\ player.told # <<>> /\ player.statuses = <<>> /\ player.waiting = {}
         /\ (player.recv <=> heard = "playing")
<1>1. player.told # <<>> /\ player.statuses = <<>>
  BY DEF Settled
<1>2. x \in Ops /\ (player.recv <=> heard = "playing") /\ Statuses(x) = <<>> /\ player.waiting = {x} \cap Commands
  BY <1>1 DEF RtmpPlace
<1>3. x = "rest"
  BY <1>2 DEF Statuses, Ops
<1> QED
  BY <1>1, <1>2, <1>3 DEF Commands

\* What its owner does.
LEMMA RtmpOwns ==
  ASSUME ~Rtsp, InStep, UserPlay \/ UserPause \/ UserSeek \/ UserTeardown
  PROVE  InStep'
<1>1. Client
  BY DEF UserPlay, UserPause, UserSeek, UserTeardown
<1>2. ASSUME Server PROVE DOMAIN player = RtmpMembers /\ player.out = <<>>
  BY <1>1, <1>2 DEF InStep, Joint, PlayerMembers
<1>3. IsSequence(<<>>)
  BY Nothing_
<1>4. \A resume : MayOperate(resume) /\ Minds(player) => Settled
  BY DEF MayOperate, Minds
<1>5. Settled => player.link = "open"
  BY DEF Settled
<1>6. CASE UserPlay
  <2>1. PICK p : p = RtmpP!SetCallbacks(player)
    OBVIOUS
  <2>0. RtspP!SetCallbacks(player) = RtmpP!SetCallbacks(player)
    BY DEF RtspP!SetCallbacks, RtmpP!SetCallbacks
  <2>2. PICK q : PlayerDoes(q) /\ q \in {RtmpP!Play(p, TRUE), RtmpP!Play(p, FALSE)}
    <3>1. PICK legal \in BOOLEAN : PlayerDoes(RtmpP!Play(p, legal))
      BY <1>6, <2>0, <2>1 DEF UserPlay
    <3> QED
      BY <3>1
  <2>3. ASSUME Server PROVE DOMAIN p = RtmpMembers /\ p.out = <<>> /\ p.told = <<>>
    BY <1>2, <2>1, <2>3 DEF RtmpP!SetCallbacks, RtmpMembers, BaseMembers
  <2>4. Server => Ended(q) \/ Begun(q)
    BY <1>3, <2>2, <2>3, RtmpBegins
  <2> QED
    BY <1>1, <2>2, <2>4, PlayerLeaves DEF PlayerDoes
<1>7. CASE UserPause
  <2>1. PICK flag \in BOOLEAN : MayOperate(~flag) /\ PlayerDoes(RtmpP!Pause(player, flag))
    BY <1>7 DEF UserPause
  <2>2. PICK q : q = RtmpP!SendPause(player, flag)
    OBVIOUS
  <2>3. PlayerDoes(q)
    BY <2>1, <2>2 DEF RtmpP!Pause
  <2>4. PICK f : f = IF flag THEN "pause" ELSE "resume"
    OBVIOUS
  <2>5. ASSUME Server
        PROVE  /\ DOMAIN q = RtmpMembers /\ IsSequence(q.out)
               /\ q.link = player.link /\ q.stray = player.stray /\ q.recv = player.recv /\ q.told = player.told
               /\ q.waiting = player.waiting /\ q.statuses = Append(player.statuses, f) /\ q.beat = flag
               /\ player.link = "open" => \E c : q.out = <<c>> /\ c.cmd = "pause" /\ c.flag = flag
    BY <1>2, <2>2, <2>4, <2>5, RtmpPauses
  <2>6. Server => Sound(q) /\ q.link = player.link /\ q.stray = player.stray
    BY <2>5 DEF Sound, PlayerMembers
  <2>7. ASSUME Server, Minds(player), NEW x, RtmpPlace(player, heard, x), player.link = "open"
        PROVE  \E w : Asks(x, q.out, w) /\ RtmpPlace(q, heard, w)
    <3>1. Settled
      <4>1. PICK resume : MayOperate(resume)
        BY <2>1
      <4> QED
        BY <1>4, <2>7, <4>1
    <3>2. /\ x = "rest" /\ player.told # <<>> /\ player.statuses = <<>> /\ player.waiting = {}
          /\ (player.recv <=> heard = "playing")
      BY <2>7, <3>1, RtmpSettled
    <3>3. PICK c : q.out = <<c>> /\ c.cmd = "pause" /\ c.flag = flag
      BY <2>5, <2>7
    <3>4. f \in Ops \ {"rest"} /\ f = IF flag THEN "pause" ELSE "resume"
      BY <2>4 DEF Ops
    <3>5. Serves(f, c, "rest")
      BY <3>3, <3>4 DEF Serves
    <3>6. Awaits(f, q.out, "rest")
      BY <3>3, <3>5, AwaitsFew
    <3>7. Asks(x, q.out, f)
      BY <3>2, <3>4, <3>6 DEF Asks, Turned, Final
    <3>8. Append(<<>>, f) = <<f>> /\ Statuses(f) = <<f>>
      BY <3>4 DEF Statuses
    <3>9. q.told # <<>> /\ q.statuses = Statuses(f) /\ q.waiting = {f} \cap Commands /\ (q.recv <=> heard = "playing")
      BY <2>5, <2>7, <3>2, <3>4, <3>8 DEF Commands
    <3>10. RtmpPlace(q, heard, f)
      BY <3>4, <3>9 DEF RtmpPlace
    <3> QED
      BY <3>7, <3>10
  <2>8. Minds(player) => player.link \notin {"resolving", "connecting"}
    <3>1. PICK resume : MayOperate(resume)
      BY <2>1
    <3> QED
      BY <1>4, <1>5, <3>1
  <2> QED
    BY <1>1, <2>3, <2>6, <2>7, <2>8, RtmpSpeaks
<1>8. CASE UserSeek
  <2>1. PICK q, no : q = RtmpP!Seek(player) /\ no = FALSE
    OBVIOUS
  <2>2. PlayerDoes(q) /\ MayOperate(TRUE)
    BY <1>8, <2>1 DEF UserSeek
  <2>3. PICK p : p = IF player.paused THEN RtmpP!SendPause(player, no) ELSE player
    OBVIOUS
  <2>4. q = RtmpP!Command([p EXCEPT !.statuses = Append(@, "seek")], "seek", no)
    BY <2>1, <2>3 DEF RtmpP!Seek
  <2>5. ASSUME Server
        PROVE  /\ DOMAIN p = RtmpMembers /\ IsSequence(p.out)
               /\ p.link = player.link /\ p.stray = player.stray /\ p.recv = player.recv /\ p.told = player.told
               /\ p.waiting = player.waiting
               /\ \/ p.statuses = player.statuses /\ p.out = <<>>
                  \/ /\ p.statuses = Append(player.statuses, "resume")
                     /\ player.link = "open" => \E c : p.out = <<c>> /\ c.cmd = "pause" /\ c.flag = FALSE
    <3>1. PICK r : r = RtmpP!SendPause(player, no)
      OBVIOUS
    <3>2. no \in BOOLEAN
      BY <2>1
    <3>3. /\ DOMAIN r = RtmpMembers /\ IsSequence(r.out)
          /\ r.link = player.link /\ r.stray = player.stray /\ r.recv = player.recv /\ r.told = player.told
          /\ r.waiting = player.waiting /\ r.statuses = Append(player.statuses, IF no THEN "pause" ELSE "resume")
          /\ player.link = "open" => \E c : r.out = <<c>> /\ c.cmd = "pause" /\ c.flag = no
      BY <1>2, <2>5, <3>1, <3>2, RtmpPauses
    <3>4. CASE player.paused
      BY <2>1, <2>3, <3>1, <3>3, <3>4
    <3>5. CASE ~player.paused
      BY <1>2, <1>3, <2>3, <2>5, <3>5
    <3> QED
      BY <3>4, <3>5
  <2>6. ASSUME Server
        PROVE  /\ DOMAIN q = RtmpMembers /\ IsSequence(q.out)
               /\ q.link = p.link /\ q.stray = p.stray /\ q.recv = p.recv /\ q.told = p.told
               /\ q.waiting = p.waiting /\ q.statuses = Append(p.statuses, "seek") /\ q.beat = p.beat
               /\ p.link = "open" => \E c : q.out = Append(p.out, c) /\ c.cmd = "seek"
    <3>1. Seeks(p, RtmpP!Command([p EXCEPT !.statuses = Append(@, "seek")], "seek", no))
      BY <2>5, <2>6, RtmpSeeks
    <3>2. Seeks(p, q)
      BY <2>4, <3>1
    <3> QED
      BY <3>2 DEF Seeks
  <2>7. Server => Sound(q) /\ q.link = player.link /\ q.stray = player.stray
    BY <2>5, <2>6 DEF Sound, PlayerMembers
  <2>8. ASSUME Server, Minds(player), NEW x, RtmpPlace(player, heard, x), player.link = "open"
        PROVE  \E w : Asks(x, q.out, w) /\ RtmpPlace(q, heard, w)
    <3>1. Settled
      BY <1>4, <2>2, <2>8
    <3>2. /\ x = "rest" /\ player.told # <<>> /\ player.statuses = <<>> /\ player.waiting = {}
          /\ (player.recv <=> heard = "playing")
      BY <2>8, <3>1, RtmpSettled
    <3>3. PICK d : q.out = Append(p.out, d) /\ d.cmd = "seek"
      BY <2>5, <2>6, <2>8
    <3>4. Serves("seek", d, "rest")
      BY <3>3 DEF Serves
    <3>5. Awaits("seek", <<d>>, "rest")
      BY <3>4, AwaitsFew
    <3>6. CASE p.statuses = <<>> /\ p.out = <<>>
      <4>1. Append(<<>>, d) = <<d>> /\ Append(<<>>, "seek") = <<"seek">>
        OBVIOUS
      <4>2. Asks(x, q.out, "seek")
        BY <3>2, <3>3, <3>5, <3>6, <4>1 DEF Asks, Turned, Final, Ops
      <4>3. RtmpPlace(q, heard, "seek")
        BY <2>5, <2>6, <2>8, <3>2, <3>6, <4>1 DEF RtmpPlace, Statuses, Ops, Commands
      <4> QED
        BY <4>2, <4>3
    <3>7. CASE p.statuses = Append(<<>>, "resume") /\ \E c : p.out = <<c>> /\ c.cmd = "pause" /\ c.flag = FALSE
      <4>1. PICK c : p.out = <<c>> /\ c.cmd = "pause" /\ c.flag = FALSE
        BY <3>7
      <4>2. q.out = <<c>> \o <<d>> /\ q.statuses = <<"resume", "seek">>
        <5>1. Append(<<c>>, d) = <<c>> \o <<d>>
          OBVIOUS
        <5>2. Append(<<>>, "resume") = <<"resume">>
          OBVIOUS
        <5>3. Append(<<"resume">>, "seek") = <<"resume", "seek">>
          <6>1. "resume" \in Expected /\ "seek" \in Expected
            BY DEF Expected
          <6> QED
            BY <6>1, AppendSecond
        <5> QED
          BY <2>6, <2>8, <3>3, <3>7, <4>1, <5>1, <5>2, <5>3
      <4>3. Serves("both", c, "seek")
        BY <4>1 DEF Serves
      <4>4. Awaits("both", <<c>>, "seek")
        BY <4>3, AwaitsFew
      <4>5. Awaits("both", q.out, "rest")
        BY <3>5, <4>2, <4>4, AwaitsMore
      <4>6. Asks(x, q.out, "both")
        BY <3>2, <4>5 DEF Asks, Turned, Final, Ops
      <4>7. RtmpPlace(q, heard, "both")
        BY <2>5, <2>6, <2>8, <3>2, <4>2 DEF RtmpPlace, Statuses, Ops, Commands
      <4> QED
        BY <4>6, <4>7
    <3> QED
      BY <2>5, <2>8, <3>2, <3>6, <3>7
  <2>9. Minds(player) => player.link \notin {"resolving", "connecting"}
    BY <1>4, <1>5, <2>2
  <2> QED
    BY <1>1, <2>2, <2>7, <2>8, <2>9, RtmpSpeaks
<1>9. CASE UserTeardown
  <2>1. PICK q : q = RtmpP!Teardown(player)
    OBVIOUS
  <2>2. Server => Ended(q)
    BY <1>2, <1>3, <2>1, RtmpLeaves
  <2>3. PlayerDoes(q)
    BY <1>9, <2>1 DEF UserTeardown
  <2> QED
    BY <1>1, <2>2, <2>3, PlayerLeaves DEF PlayerDoes
<1> QED
  BY <1>6, <1>7, <1>8, <1>9

\* A failure ends the play, whatever was done to the connection or to a timer before.
LEMMA RtmpBreaks ==
  ASSUME ~Rtsp, InStep, Client, NEW p, NEW done \in BOOLEAN, NEW ex, ex \in {"other", "eof", "timeout"},
         Server => DOMAIN p = RtmpMembers /\ p.out = <<>>, PlayerDoes(RtmpP!PlayResult_l(p, ex, done))
  PROVE  InStep'
<1>1. PICK q : q = RtmpP!PlayResult_l(p, ex, done)
  OBVIOUS
<1>2. IsSequence(<<>>)
  BY Nothing_
<1>3. Server => Ended(q)
  BY <1>1, <1>2, RtmpOutcome
<1>4. PlayerIs(q, down, heard)
  BY <1>1 DEF PlayerDoes
<1> QED
  BY <1>3, <1>4, PlayerLeaves

\* A play that goes on.
LEMMA RtmpStands ==
  ASSUME ~Rtsp, InStep, Client, NEW q, PlayerDoes(q),
         Server => /\ DOMAIN q = RtmpMembers /\ q.out = <<>> /\ q.stray = player.stray
                   /\ q.waiting = player.waiting /\ q.statuses = player.statuses /\ q.beat = player.beat
                   /\ q.recv = player.recv /\ q.told = player.told
                   /\ q.link = player.link \/ (player.link = "resolving" /\ q.link = "connecting")
  PROVE  InStep'
<1>1. Remains(q)
  <2>1. ASSUME Server PROVE Sound(q)
    BY <2>1, Nothing_ DEF Sound, PlayerMembers
  <2>2. ASSUME Server, Minds(q), q.link \in {"resolving", "connecting"} PROVE Calm(q)
    <3>1. Minds(player) /\ player.link \in {"resolving", "connecting"}
      BY <2>2 DEF Minds
    <3>2. Calm(player)
      BY <2>2, <3>1 DEF InStep, Joint
    <3> QED
      BY <2>2, <3>2 DEF Calm
  <2> QED
    BY <2>1, <2>2 DEF Remains
<1>2. ASSUME Server, Minds(player), NEW x, Expects(player, heard, x)
      PROVE  \E w : Asks(x, q.out, w) /\ Expects(q, heard, w)
  <2>1. RtmpPlace(player, heard, x) /\ Minds(q)
    BY <1>2 DEF Expects, Minds
  <2>2. RtmpPlace(q, heard, x)
    BY <1>2, <2>1 DEF RtmpPlace
  <2>3. Asks(x, q.out, x)
    BY <1>2 DEF Asks
  <2> QED
    BY <2>1, <2>2, <2>3 DEF Expects
<1> QED
  BY <1>1, <1>2, PlayerSays

\* Its keep-alive.
LEMMA RtmpPings ==
  ASSUME ~Rtsp, InStep, BeatTimer
  PROVE  InStep'
<1>1. Client /\ player.beat
  BY DEF BeatTimer
<1>2. ASSUME Server PROVE DOMAIN player = RtmpMembers /\ player.out = <<>>
  BY <1>1, <1>2 DEF InStep, Joint, PlayerMembers
<1>3. PICK q, cmd, no : q = RtmpP!Command(player, cmd, no) /\ cmd = "ping" /\ no = FALSE
  OBVIOUS
<1>4. PlayerDoes(q)
  BY <1>3 DEF BeatTimer, RtmpP!BeatTimer
<1>5. IsSequence(<<>>) /\ \A c : Append(<<>>, c) = <<c>>
  BY Nothing_
<1>6. ASSUME Server
      PROVE  /\ DOMAIN q = RtmpMembers /\ IsSequence(q.out)
             /\ q.link = player.link /\ q.stray = player.stray /\ q.recv = player.recv /\ q.told = player.told
             /\ q.waiting = player.waiting /\ q.statuses = player.statuses /\ q.beat = player.beat
             /\ player.link = "open" => Adds(player.out, q.out, cmd, no)
  <2>1. DOMAIN player = RtmpMembers /\ IsSequence(player.out)
    BY <1>2, <1>5, <1>6
  <2>2. PICK v : v = RtmpP!Command(player, cmd, no)
    OBVIOUS
  <2>3. /\ DOMAIN v = RtmpMembers /\ IsSequence(v.out)
        /\ v.link = player.link /\ v.stray = player.stray /\ v.recv = player.recv /\ v.told = player.told
        /\ v.waiting = player.waiting /\ v.statuses = player.statuses /\ v.beat = player.beat
        /\ player.link = "open" => Adds(player.out, v.out, cmd, no)
    BY <2>1, <2>2, RtmpTalks
  <2> QED
    BY <1>3, <2>2, <2>3
<1>7. Server => Sound(q) /\ q.link = player.link /\ q.stray = player.stray
  BY <1>6 DEF Sound, PlayerMembers
<1>8. ASSUME Server, Minds(player) PROVE player.link \notin {"resolving", "connecting"}
  <2>1. ASSUME player.link \in {"resolving", "connecting"} PROVE FALSE
    <3>1. Calm(player)
      BY <1>8, <2>1 DEF InStep, Joint
    <3>2. player.beat = FALSE
      BY <3>1 DEF Calm
    <3> QED
      BY <1>1, <3>2
  <2> QED
    BY <2>1
<1>9. ASSUME Server, Minds(player), NEW x, RtmpPlace(player, heard, x), player.link = "open"
      PROVE  \E w : Asks(x, q.out, w) /\ RtmpPlace(q, heard, w)
  <2>1. player.told # <<>> /\ x \in Ops
    BY <1>1, <1>9 DEF RtmpPlace
  <2>2. PICK c : c.cmd = "ping" /\ q.out = <<c>>
    BY <1>2, <1>3, <1>5, <1>6, <1>9 DEF Adds
  <2>3. Serves("rest", c, "rest")
    BY <2>2 DEF Serves, Ops
  <2>4. Awaits("rest", q.out, "rest")
    BY <2>2, <2>3, AwaitsFew
  <2>5. Asks(x, q.out, x)
    BY <2>1, <2>4 DEF Asks
  <2>6. RtmpPlace(q, heard, x)
    BY <1>6, <1>9 DEF RtmpPlace
  <2> QED
    BY <2>5, <2>6
<1> QED
  BY <1>1, <1>4, <1>7, <1>8, <1>9, RtmpSpeaks

\* The name is resolved or not, the connection fails or ends, and the timers.
LEMMA RtmpMoves ==
  ASSUME ~Rtsp, PlayInv, InStep, Resolve \/ NotConnected \/ PlayerEof \/ PlayTimer \/ RecvTimer
  PROVE  InStep'
<1>1. Client
  BY DEF PlayInv, Resolve, NotConnected, PlayerEof, PlayTimer, RecvTimer
<1>2. ASSUME Server PROVE DOMAIN player = RtmpMembers /\ player.out = <<>>
  BY <1>1, <1>2 DEF InStep, Joint, PlayerMembers
<1>3. PICK p : p = [player EXCEPT !.link = "closed"]
  OBVIOUS
<1>4. PICK no : no = FALSE
  OBVIOUS
<1>5. Server => DOMAIN p = RtmpMembers /\ p.out = <<>>
  BY <1>2, <1>3 DEF RtmpMembers, BaseMembers
<1>6. ASSUME PlayerDoes(ToldConnect(p, FALSE)) PROVE InStep'
  <2>1. PICK ex : ex = "other"
    OBVIOUS
  <2>2. PlayerDoes(RtmpP!PlayResult_l(p, ex, no))
    BY <1>4, <1>6, <2>1 DEF ToldConnect, RtmpP!OnConnect
  <2> QED
    BY <1>1, <1>4, <1>5, <2>1, <2>2, RtmpBreaks
<1>7. CASE Resolve
  <2>1. PICK q : q = [player EXCEPT !.link = "connecting"]
    OBVIOUS
  <2>2. player.link = "resolving"
    BY <1>7 DEF Resolve
  <2>3. CASE PlayerDoes(q)
    <3>1. ASSUME Server
          PROVE  /\ DOMAIN q = RtmpMembers /\ q.out = <<>> /\ q.stray = player.stray
                 /\ q.waiting = player.waiting /\ q.statuses = player.statuses /\ q.beat = player.beat
                 /\ q.recv = player.recv /\ q.told = player.told /\ q.link = "connecting"
      BY <1>2, <2>1, <3>1 DEF RtmpMembers, BaseMembers
    <3> QED
      BY <1>1, <2>2, <2>3, <3>1, RtmpStands
  <2> QED
    BY <1>3, <1>6, <1>7, <2>1, <2>3 DEF Resolve
<1>8. CASE NotConnected
  BY <1>3, <1>6, <1>8 DEF NotConnected
<1>9. CASE PlayerEof
  <2>1. PICK ex : ex = "eof"
    OBVIOUS
  <2>2. PICK done \in BOOLEAN : done = ~player.play
    OBVIOUS
  <2>3. PlayerDoes(RtmpP!PlayResult_l(p, ex, done))
    BY <1>3, <1>9, <2>1, <2>2 DEF PlayerEof, RtmpP!OnErr, RtmpP!Hang
  <2> QED
    BY <1>1, <1>5, <2>1, <2>3, RtmpBreaks
<1>10. CASE PlayTimer
  <2>1. PICK ex : ex = "timeout"
    OBVIOUS
  <2>2. PICK r : r = [player EXCEPT !.play = FALSE]
    OBVIOUS
  <2>3. Server => DOMAIN r = RtmpMembers /\ r.out = <<>>
    BY <1>2, <2>2 DEF RtmpMembers, BaseMembers
  <2>4. PlayerDoes(RtmpP!PlayResult_l(r, ex, no))
    BY <1>4, <1>10, <2>1, <2>2 DEF PlayTimer, RtmpP!PlayTimer
  <2> QED
    BY <1>1, <1>4, <2>1, <2>3, <2>4, RtmpBreaks
<1>11. CASE RecvTimer
  <2>1. PICK late : PlayerDoes(RtmpP!RecvTimer(player, late))
    BY <1>11 DEF RecvTimer
  <2>2. PICK ex, yes : ex = "timeout" /\ yes = TRUE
    OBVIOUS
  <2>3. CASE late
    <3>1. PlayerDoes(RtmpP!PlayResult_l(player, ex, yes))
      BY <2>1, <2>2, <2>3 DEF RtmpP!RecvTimer
    <3> QED
      BY <1>1, <1>2, <2>2, <3>1, RtmpBreaks
  <2>4. CASE ~late
    <3>1. PICK q : q = [player EXCEPT !.quiet = @ + 1]
      OBVIOUS
    <3>2. PlayerDoes(q)
      BY <2>1, <2>4, <3>1 DEF RtmpP!RecvTimer
    <3>3. ASSUME Server
          PROVE  /\ DOMAIN q = RtmpMembers /\ q.out = <<>> /\ q.stray = player.stray
                 /\ q.waiting = player.waiting /\ q.statuses = player.statuses /\ q.beat = player.beat
                 /\ q.recv = player.recv /\ q.told = player.told /\ q.link = player.link
      BY <1>2, <3>1, <3>3 DEF RtmpMembers, BaseMembers
    <3> QED
      BY <1>1, <3>2, <3>3, RtmpStands
  <2> QED
    BY <2>3, <2>4
<1> QED
  BY <1>7, <1>8, <1>9, <1>10, <1>11

-----------------------------------------------------------------------------
(* A new connection.                                                       *)

\* The session of a new connection owes nothing but the answer to the first request.
First == IF Rtsp THEN "OPTIONS" ELSE "connect"

LEMMA FreshOwes ==
  ASSUME NEW u
  PROVE  /\ Server => DOMAIN Fresh = ServerMembers /\ Fresh.out = <<>> /\ Fresh.look = "no"
         /\ \A z \in Final, y \in Places : Awaits(y, u, z) => Owes(Fresh, u, "none", y)
<1>1. CASE Rtsp
  <2>1. Fresh = RtspS!NewRtspSession
    BY <1>1 DEF Fresh
  <2>2. DOMAIN Fresh = RtspServer /\ Fresh.out = <<>> /\ Fresh.look = "no" /\ Fresh.send = FALSE
    BY <2>1 DEF RtspS!NewRtspSession, RtspServer
  <2>3. ~Sends(Fresh)
    BY <1>1, <2>2 DEF Sends
  <2> QED
    BY <1>1, <2>2, <2>3 DEF ServerMembers, Owes, Due
<1>2. CASE ~Rtsp
  <2>1. Fresh = RtmpS!NewRtmpSession
    BY <1>2 DEF Fresh
  <2>2. DOMAIN Fresh = SessionMembers /\ Fresh.out = <<>> /\ Fresh.look = "no" /\ Fresh.reader = 0
    BY <2>1 DEF RtmpS!NewRtmpSession, SessionMembers
  <2>3. ~Sends(Fresh)
    BY <1>2, <2>2 DEF Sends
  <2> QED
    BY <1>2, <2>2, <2>3 DEF ServerMembers, Owes, Due
<1> QED
  BY <1>1, <1>2

\* What the player sends first, and what it expects then.
Greets(p, q) ==
  /\ Sound(q) /\ q.link = "open" /\ q.stray = p.stray
  /\ \E m : q.out = <<m>> /\ m.cmd = First
  /\ Calm(p) => IF Rtsp THEN RtspPlace(q, "none", "OPTIONS") ELSE RtmpPlace(q, "none", "connect")

LEMMA RtspGreets ==
  ASSUME Rtsp, NEW p, DOMAIN p = RtspMembers, p.out = <<>>
  PROVE  Greets(p, ToldConnect([p EXCEPT !.link = "open"], TRUE))
<1>1. PICK r : r = [p EXCEPT !.link = "open"]
  OBVIOUS
<1>2. /\ DOMAIN r = RtspMembers /\ r.out = <<>> /\ r.link = "open" /\ r.stray = p.stray /\ r.recv = p.recv
      /\ r.handler = p.handler /\ r.crossed = p.crossed
  BY <1>1 DEF RtspMembers, BaseMembers
<1>3. PICK o : o = "OPTIONS"
  OBVIOUS
<1>4. PICK q : q = RtspP!Ask(r, o, o)
  OBVIOUS
<1>5. IsSequence(r.out)
  BY <1>2, Nothing_
<1>6. /\ DOMAIN q = RtspMembers /\ IsSequence(q.out) /\ q.handler = o
      /\ q.crossed = (r.crossed \/ r.handler # "none")
      /\ q.link = r.link /\ q.stray = r.stray /\ q.recv = r.recv /\ \E m : q.out = <<m>> /\ m.cmd = o
  BY <1>2, <1>4, <1>5, RtspTalks
<1>7. ToldConnect(r, TRUE) = q
  BY <1>3, <1>4 DEF ToldConnect, RtspP!OnConnect, RtspP!SendOptions
<1>8. ASSUME Calm(p) PROVE RtspPlace(q, "none", "OPTIONS")
  <2>1. ~p.recv /\ p.handler = "none" /\ p.crossed = FALSE
    BY <1>8 DEF Calm
  <2>2. q.crossed = FALSE /\ ~q.recv /\ q.handler = "OPTIONS"
    BY <1>2, <1>3, <1>6, <2>1
  <2> QED
    BY <2>2 DEF RtspPlace, CmdOf
<1>9. Greets(p, q)
  BY <1>2, <1>3, <1>6, <1>8 DEF Greets, Sound, PlayerMembers, First
<1> QED
  BY <1>1, <1>7, <1>9

LEMMA RtmpGreets ==
  ASSUME ~Rtsp, NEW p, DOMAIN p = RtmpMembers, p.out = <<>>
  PROVE  Greets(p, ToldConnect([p EXCEPT !.link = "open"], TRUE))
<1>1. PICK r : r = [p EXCEPT !.link = "open"]
  OBVIOUS
<1>2. PICK cmd, no : cmd = "connect" /\ no = FALSE
  OBVIOUS
<1>3. PICK s : s = [r EXCEPT !.waiting = @ \cup {cmd}]
  OBVIOUS
<1>4. /\ DOMAIN s = RtmpMembers /\ s.out = <<>> /\ s.link = "open" /\ s.stray = p.stray /\ s.recv = p.recv
      /\ s.told = p.told /\ s.beat = p.beat /\ s.waiting = p.waiting \cup {cmd} /\ s.statuses = p.statuses
  <2>1. /\ DOMAIN r = RtmpMembers /\ r.out = <<>> /\ r.link = "open" /\ r.stray = p.stray /\ r.recv = p.recv
        /\ r.told = p.told /\ r.beat = p.beat /\ r.waiting = p.waiting /\ r.statuses = p.statuses
    BY <1>1 DEF RtmpMembers, BaseMembers
  <2> QED
    BY <1>3, <2>1 DEF RtmpMembers, BaseMembers
<1>5. PICK q : q = RtmpP!Command(s, cmd, no)
  OBVIOUS
<1>6. IsSequence(s.out) /\ \A c : Append(<<>>, c) = <<c>>
  BY <1>4, Nothing_
<1>7. /\ DOMAIN q = RtmpMembers /\ IsSequence(q.out)
      /\ q.link = s.link /\ q.stray = s.stray /\ q.recv = s.recv /\ q.told = s.told
      /\ q.waiting = s.waiting /\ q.statuses = s.statuses /\ q.beat = s.beat
      /\ s.link = "open" => Adds(s.out, q.out, cmd, no)
  BY <1>4, <1>5, <1>6, RtmpTalks
<1>8. ToldConnect(r, TRUE) = q
  BY <1>2, <1>3, <1>5 DEF ToldConnect, RtmpP!OnConnect, RtmpP!SendInvoke
<1>9. ASSUME Calm(p) PROVE RtmpPlace(q, "none", "connect")
  <2>1. ~p.recv /\ p.beat = FALSE /\ p.waiting = {} /\ p.statuses = <<>> /\ p.told = <<>>
    BY <1>9 DEF Calm
  <2>2. q.told = <<>> /\ q.beat = FALSE /\ q.waiting = {"connect"} /\ q.statuses = <<>>
    BY <1>2, <1>4, <1>7, <2>1
  <2> QED
    BY <2>2 DEF RtmpPlace, Statuses, Commands
<1>10. \E m : q.out = <<m>> /\ m.cmd = cmd
  BY <1>4, <1>6, <1>7 DEF Adds
<1>11. Greets(p, q)
  BY <1>2, <1>4, <1>7, <1>9, <1>10 DEF Greets, Sound, PlayerMembers, First
<1> QED
  BY <1>1, <1>8, <1>11

\* The server accepts.
LEMMA StepConnects ==
  ASSUME PlayInv, InStep, Connect
  PROVE  InStep'
<1>1. player.link = "connecting"
  BY DEF Connect
<1>2. Client
  BY <1>1 DEF PlayInv
<1>3. PICK q : q = ToldConnect([player EXCEPT !.link = "open"], TRUE)
  OBVIOUS
<1>4. /\ player' = [q EXCEPT !.out = <<>>] /\ up' = q.out /\ session' = Fresh /\ down' = <<>> /\ heard' = "none"
      /\ scene' = scene
  BY <1>3 DEF Connect
<1>5. CASE ~Server
  BY <1>4, <1>5, InStepNext DEF Joint
<1>6. CASE Server
  <2>1. DOMAIN player = PlayerMembers /\ player.out = <<>>
    BY <1>2, <1>6 DEF InStep, Joint
  <2>2. Greets(player, q)
    BY <1>3, <2>1, RtspGreets, RtmpGreets DEF PlayerMembers
  <2>3. PICK p : p = [q EXCEPT !.out = <<>>]
    OBVIOUS
  <2>4. /\ DOMAIN p = PlayerMembers /\ p.out = <<>> /\ p.link = "open" /\ p.stray = q.stray
        /\ Rtsp => p.handler = q.handler /\ p.crossed = q.crossed /\ p.recv = q.recv
        /\ ~Rtsp => /\ p.waiting = q.waiting /\ p.statuses = q.statuses /\ p.recv = q.recv
                    /\ p.told = q.told /\ p.beat = q.beat
    BY <2>2, <2>3 DEF Greets, Sound, PlayerMembers, RtspMembers, RtmpMembers, BaseMembers
  <2>5. PICK x : x = IF Minds(p) THEN First ELSE "lost"
    OBVIOUS
  <2>6. Expects(p, "none", x)
    <3>1. CASE Minds(p)
      <4>1. Minds(player)
        BY <2>2, <2>4, <3>1 DEF Minds, Greets
      <4>2. Calm(player)
        BY <1>1, <1>6, <4>1 DEF InStep, Joint
      <4>3. IF Rtsp THEN RtspPlace(q, "none", "OPTIONS") ELSE RtmpPlace(q, "none", "connect")
        BY <2>2, <4>2 DEF Greets
      <4>4. CASE Rtsp
        BY <2>4, <2>5, <3>1, <4>3, <4>4 DEF Expects, RtspPlace, First
      <4>5. CASE ~Rtsp
        BY <2>4, <2>5, <3>1, <4>3, <4>5 DEF Expects, RtmpPlace, First
      <4> QED
        BY <4>4, <4>5
    <3>2. CASE ~Minds(p)
      BY <2>5, <3>2 DEF Expects
    <3> QED
      BY <3>1, <3>2
  <2>7. PICK m : q.out = <<m>> /\ m.cmd = First
    BY <2>2 DEF Greets
  <2>8. \E z \in Final : Serves(x, m, z)
    BY <2>5, <2>7 DEF First, Serves, Cmds, Commands, Final
  <2>9. PICK z \in Final : Awaits(x, q.out, z)
    BY <2>7, <2>8, AwaitsFew
  <2>10. x \in Places
    BY <2>5 DEF First, Places, Cmds
  <2>11. Owes(Fresh, q.out, "none", x) /\ DOMAIN Fresh = ServerMembers /\ Fresh.out = <<>> /\ Fresh.look = "no"
    BY <1>6, <2>9, <2>10, FreshOwes
  <2>12. Runs("none", x, <<>>, "none", x)
    BY RunsNone
  <2>13. Linked(p, Fresh, q.out, <<>>, "none")
    BY <2>6, <2>11, <2>12 DEF Linked
  <2>14. Joint(p, Fresh, q.out, <<>>, "none")
    BY <2>4, <2>11, <2>13 DEF Joint
  <2>15. Joint(player', session', up', down', heard')
    BY <1>4, <2>3, <2>14
  <2> QED
    BY <1>4, <2>15, InStepNext
<1> QED
  BY <1>5, <1>6
-----------------------------------------------------------------------------
(* The invariant.                                                          *)

LEMMA InStepInit == Init => InStep
<1> SUFFICES ASSUME Init, Server PROVE InStep
  BY DEF InStep, Joint
<1>1. /\ session = [Fresh EXCEPT !.open = ~Client] /\ up = <<>> /\ down = <<>> /\ heard = "none"
      /\ player = IF ~Client THEN [RtspP!NewPlayer EXCEPT !.link = "open"]
                  ELSE IF Rtsp THEN RtspP!NewRtspPlayer(scene.over) ELSE RtmpP!NewRtmpPlayer
  BY DEF Init
<1>2. /\ DOMAIN Fresh = ServerMembers /\ Fresh.out = <<>> /\ Fresh.look = "no"
      /\ \A z \in Final, y \in Places : Awaits(y, <<>>, z) => Owes(Fresh, <<>>, "none", y)
  BY FreshOwes
<1>3. DOMAIN session = ServerMembers /\ session.out = <<>> /\ session.look = "no"
  BY <1>1, <1>2 DEF ServerMembers, RtspServer, SessionMembers
<1>4. CASE Client
  <2>1. player.link = "none" /\ player.out = <<>> /\ DOMAIN player = PlayerMembers
    <3>1. CASE Rtsp
      BY <1>1, <1>4, <3>1 DEF RtspP!NewRtspPlayer, RtspP!Derived, RtspP!NewPlayer, RtspMembers, BaseMembers, PlayerMembers
    <3>2. CASE ~Rtsp
      BY <1>1, <1>4, <3>2 DEF RtmpP!NewRtmpPlayer, RtmpP!Derived, RtmpP!NewPlayer, RtmpMembers, BaseMembers, PlayerMembers
    <3> QED
      BY <3>1, <3>2
  <2> QED
    BY <1>1, <1>3, <2>1 DEF InStep, Joint
<1>5. CASE ~Client
  <2>1. session.open = FALSE \/ session.open = TRUE
    BY <1>1, <1>2, <1>5 DEF ServerMembers, RtspServer, SessionMembers
  <2>2. \A p : ~Minds(p)
    BY <1>5 DEF Minds
  <2>3. player.link = "open"
    BY <1>1, <1>5 DEF RtspP!NewPlayer
  <2>4. Awaits("lost", <<>>, "lost")
    <3>1. IsSequence(<<>>)
      BY Nothing_
    <3> DEFINE g == [i \in {0} |-> "lost"]
    <3>2. g[0] = "lost" /\ Len(<<>>) = 0 /\ 1 .. 0 = {}
      BY Nothing_
    <3> HIDE DEF g
    <3> QED
      BY <3>1, <3>2 DEF Awaits
  <2>5. Owes(Fresh, <<>>, "none", "lost")
    BY <1>2, <2>4 DEF Final, Places
  <2>6. /\ Rtsp => session.asked = Fresh.asked /\ session.cseq = Fresh.cseq /\ session.send = Fresh.send
        /\ ~Rtsp => session.reader = Fresh.reader /\ session.paused = Fresh.paused
        /\ session.look = Fresh.look /\ Fresh.open
    <3>1. CASE Rtsp
      BY <1>1, <3>1 DEF Fresh, RtspS!NewRtspSession
    <3>2. CASE ~Rtsp
      BY <1>1, <3>2 DEF Fresh, RtmpS!NewRtmpSession
    <3> QED
      BY <3>1, <3>2
  <2>7. Owes(session, <<>>, "none", "lost")
    BY <2>5, <2>6 DEF Owes, Due, Sends
  <2>8. Runs("none", "lost", <<>>, "none", "lost")
    BY RunsNone
  <2>9. Linked(player, session, up, down, heard)
    BY <1>1, <2>2, <2>7, <2>8 DEF Linked, Expects
  <2> QED
    BY <1>3, <1>5, <2>2, <2>3, <2>9 DEF InStep, Joint
<1> QED
  BY <1>4, <1>5

\* Every step keeps it.
LEMMA InStepStep == PlayInv /\ InStep /\ [Next]_vars => InStep'
<1> SUFFICES ASSUME PlayInv, InStep, [Next]_vars PROVE InStep'
  OBVIOUS
<1>1. CASE UNCHANGED vars
  <2>1. /\ scene' = scene /\ player' = player /\ session' = session /\ up' = up /\ down' = down /\ heard' = heard
    BY <1>1 DEF vars
  <2>2. Joint(player', session', up', down', heard')
    BY <2>1 DEF InStep
  <2> QED
    BY <2>1, <2>2, InStepNext
<1>2. CASE UserPlay \/ UserPause \/ UserSeek \/ UserTeardown
  BY <1>2, RtspOwns, RtmpOwns
<1>3. CASE Resolve \/ NotConnected \/ PlayerEof \/ PlayTimer \/ RecvTimer
  BY <1>3, RtspMoves, RtmpMoves
<1>4. CASE Connect
  BY <1>4, StepConnects
<1>5. CASE PlayerReads
  BY <1>5, RtspReads, RtmpReadsOn
<1>6. CASE BeatTimer
  BY <1>6, RtmpPings DEF BeatTimer
<1>7. CASE SessionReads \/ SessionEof \/ LookFound \/ LookTimeOut \/ AuthAnswers \/ Manager \/ Detach \/ SourceWrites
  BY <1>7, StepSession
<1>8. CASE Ages \/ SourceOn \/ SourceOff \/ OtherAnswers \/ OtherSends \/ OtherCloses
  BY <1>8, StepSource
<1>9. CASE AnySends \/ AnyReads \/ AnyCloses
  BY <1>9, StepAny
<1> QED
  BY <1>1, <1>2, <1>3, <1>4, <1>5, <1>6, <1>7, <1>8, <1>9 DEF Next, PlayerLoop, PlayerTimes, SessionLoop

-----------------------------------------------------------------------------
(* What follows from it.                                                   *)

\* The check of packets follows the play.
LEMMA WatchKept == InStep => WatchFollowsPlay
<1> SUFFICES ASSUME InStep, Careful, Server, player.link = "open", Says("ok"), Rtsp => ~player.crossed
             PROVE  player.recv <=> heard = "playing"
  BY DEF WatchFollowsPlay
<1>1. PICK x : Expects(player, heard, x)
  BY DEF InStep, Joint, Linked
<1>2. Minds(player)
  BY DEF Careful, Minds
<1>3. CASE Rtsp
  <2>1. RtspPlace(player, heard, x)
    BY <1>1, <1>2, <1>3 DEF Expects
  <2> QED
    BY <1>3, <2>1 DEF RtspPlace
<1>4. CASE ~Rtsp
  <2>1. RtmpPlace(player, heard, x)
    BY <1>1, <1>2, <1>4 DEF Expects
  <2>2. player.told # <<>>
    BY DEF Says
  <2> QED
    BY <2>1, <2>2 DEF RtmpPlace
<1> QED
  BY <1>3, <1>4

\* Every message is one the client may expect, from what it expects then.
LEMMA RunsAt ==
  ASSUME NEW h, NEW x, NEW s, NEW k, NEW y, Runs(h, x, s, k, y), NEW i \in DOMAIN s
  PROVE  \E v, w : Goes(v, s[i], w) /\ (x # "lost" => v # "lost")
<1>1. PICK f, g : /\ g[0] = x /\ \A j \in 1 .. Len(s) : Goes(g[j - 1], s[j], g[j])
  BY DEF Runs
<1>2. Len(s) \in Nat /\ i \in 1 .. Len(s)
  <2>1. PICK S : s \in Seq(S)
    BY DEF Runs, IsSequence
  <2> QED
    BY <2>1, LenProperties
<1>3. ASSUME x # "lost" PROVE g[i - 1] # "lost"
  <2>1. \A v, m, w : Goes(v, m, w) /\ v # "lost" => w # "lost"
    BY DEF Goes, Ops, Cmds, Commands, Turns
  <2> DEFINE T == {j \in 0 .. Len(s) : g[j] # "lost"}
  <2>2. 0 \in T /\ \A j \in 1 .. Len(s) : j - 1 \in T => j \in T
    BY <1>1, <1>2, <1>3, <2>1
  <2> HIDE DEF T
  <2>3. \A j \in 0 .. Len(s) : j \in T
    BY <1>2, <2>2, Along
  <2>4. i - 1 \in 0 .. Len(s)
    BY <1>2
  <2> QED
    BY <2>3, <2>4 DEF T
<1> QED
  BY <1>1, <1>2, <1>3

\* The replies of this server carry the numbers of their requests.
LEMMA ServerNumbers == InStep /\ Server => RepliesAreNumbered
<1> SUFFICES ASSUME InStep, Server, NEW i \in DOMAIN down, down[i].t = "reply", down[i].cseq # down[i].to
             PROVE  down[i].cmd = "DESCRIBE" /\ ~Careful
  BY DEF RepliesAreNumbered
<1>1. player.link = "open"
  BY DEF InStep, Joint
<1>2. PICK x, k, y : Expects(player, heard, x) /\ Runs(heard, x, down, k, y)
  BY <1>1 DEF InStep, Joint, Linked
<1>3. PICK v, w : Goes(v, down[i], w) /\ (x # "lost" => v # "lost")
  BY <1>2, RunsAt
<1>4. v = "lost" /\ down[i].cmd = "DESCRIBE"
  BY <1>3 DEF Goes, Right
<1>5. x = "lost"
  BY <1>3, <1>4
<1>6. ~Minds(player)
  <2>1. ASSUME Minds(player), Rtsp PROVE FALSE
    BY <1>2, <1>5, <2>1 DEF Expects, RtspPlace, CmdOf
  <2>2. ASSUME Minds(player), ~Rtsp PROVE FALSE
    BY <1>2, <1>5, <2>2 DEF Expects, RtmpPlace, Ops
  <2> QED
    BY <2>1, <2>2
<1> QED
  BY <1>4, <1>6 DEF Minds, Careful

\* What another server answers carries the number of its request as well, and no stream is looked for.
AllRight(d) == IsSequence(d) /\ \A i \in DOMAIN d : Right(d[i])

Elsewhere == ~Server => "look" \in DOMAIN session /\ session.look = "no" /\ AllRight(down)

LEMMA AllRightNone == AllRight(<<>>)
<1>1. DOMAIN <<>> = {}
  OBVIOUS
<1> QED
  BY <1>1, Nothing_ DEF AllRight

LEMMA AllRightTail == ASSUME NEW d, AllRight(d), d # <<>> PROVE AllRight(Tail(d))
<1>1. PICK S : d \in Seq(S)
  BY DEF AllRight, IsSequence
<1>2. /\ IsSequence(Tail(d)) /\ Len(d) \in Nat \ {0} /\ Len(Tail(d)) = Len(d) - 1
      /\ \A i \in 1 .. Len(d) - 1 : Tail(d)[i] = d[i + 1]
  BY Tailed DEF AllRight
<1>3. Tail(d) \in Seq(S)
  BY <1>1, HeadTailProperties
<1>4. DOMAIN d = 1 .. Len(d) /\ DOMAIN Tail(d) = 1 .. Len(d) - 1
  BY <1>1, <1>2, <1>3, LenProperties
<1>5. ASSUME NEW i \in 1 .. Len(d) - 1 PROVE Right(Tail(d)[i])
  <2>1. i + 1 \in DOMAIN d /\ Tail(d)[i] = d[i + 1]
    BY <1>2, <1>4
  <2> QED
    BY <2>1 DEF AllRight
<1> QED
  BY <1>2, <1>4, <1>5 DEF AllRight

LEMMA AllRightMore == ASSUME NEW d, AllRight(d), NEW m, Right(m) PROVE AllRight(d \o <<m>>) /\ AllRight(Append(d, m))
<1>1. PICK S : d \in Seq(S)
  BY DEF AllRight, IsSequence
<1> DEFINE U == S \cup {m}
           e == Append(d, m)
<1>2. d \in Seq(U) /\ m \in U
  BY <1>1
<1>3. d \o <<m>> = e
  BY <1>2
<1> HIDE DEF U
<1>4. /\ e \in Seq(U) /\ Len(e) = Len(d) + 1 /\ Len(d) \in Nat /\ DOMAIN d = 1 .. Len(d) /\ DOMAIN e = 1 .. Len(d) + 1
      /\ \A i \in 1 .. Len(d) : e[i] = d[i]
      /\ e[Len(d) + 1] = m
  BY <1>2
<1> HIDE DEF e
<1>5. ASSUME NEW i \in DOMAIN e PROVE Right(e[i])
  <2>1. CASE i \in 1 .. Len(d)
    BY <1>4, <2>1 DEF AllRight
  <2>2. CASE i \notin 1 .. Len(d)
    BY <1>4, <2>2
  <2> QED
    BY <2>1, <2>2
<1>6. AllRight(e)
  BY <1>4, <1>5 DEF AllRight, IsSequence
<1> QED
  BY <1>3, <1>6 DEF e

LEMMA FreshLooks == "look" \in DOMAIN Fresh /\ Fresh.look = "no"
<1>1. CASE Rtsp
  BY <1>1 DEF Fresh, RtspS!NewRtspSession
<1>2. CASE ~Rtsp
  BY <1>2 DEF Fresh, RtmpS!NewRtmpSession
<1> QED
  BY <1>1, <1>2

LEMMA ElsewhereInit == Init => Elsewhere
<1> SUFFICES ASSUME Init PROVE Elsewhere
  OBVIOUS
<1>1. session = [Fresh EXCEPT !.open = ~Client] /\ down = <<>>
  BY DEF Init
<1>2. "look" \in DOMAIN session /\ session.look = "no"
  BY <1>1, FreshLooks
<1> QED
  BY <1>1, <1>2, AllRightNone DEF Elsewhere

\* The session stays as it is, and some of what was on its way is read or lost.
LEMMA ElsewhereNext ==
  ASSUME Elsewhere, scene' = scene,
         ~Server => /\ session' = session \/ ("look" \in DOMAIN session' /\ session'.look = "no")
                    /\ \/ down' = down \/ down' = <<>> \/ (down # <<>> /\ down' = Tail(down)) \/ AllRight(down')
  PROVE  Elsewhere'
<1>1. Server' = Server
  BY SameScene
<1>2. ASSUME ~Server PROVE "look" \in DOMAIN session' /\ session'.look = "no"
  BY <1>2 DEF Elsewhere
<1>3. ASSUME ~Server PROVE AllRight(down')
  BY <1>3, AllRightNone, AllRightTail DEF Elsewhere
<1>4. (AllRight(down))' = AllRight(down')
  BY DEF AllRight, Right, IsSequence
<1> QED
  BY <1>1, <1>2, <1>3, <1>4 DEF Elsewhere

\* Another server answers.
LEMMA ElsewhereAnswers == ASSUME Elsewhere, OtherAnswers PROVE Elsewhere'
<1>1. /\ ~Server /\ scene' = scene /\ session' = session
      /\ \E a \in OtherReply(Head(up)) : down' = down \o a
  BY DEF OtherAnswers
<1>2. PICK a \in OtherReply(Head(up)) : down' = down \o a
  BY <1>1
<1>3. AllRight(down)
  BY <1>1 DEF Elsewhere
<1>4. a = <<>> \/ \E m : a = <<m>> /\ Right(m)
  <2>1. CASE Rtsp
    <3>1. PICK code, r : a = <<[t |-> "reply", code |-> code, cseq |-> r.cseq, session |-> 1, cmd |-> r.cmd, to |-> r.cseq]>>
      BY <2>1 DEF OtherReply
    <3>2. PICK m : m = [t |-> "reply", code |-> code, cseq |-> r.cseq, session |-> 1, cmd |-> r.cmd, to |-> r.cseq]
      OBVIOUS
    <3>3. Right(m)
      BY <3>2 DEF Right
    <3> QED
      BY <3>1, <3>2, <3>3
  <2>2. CASE ~Rtsp
    <3>1. PICK c : c = Head(up).cmd
      OBVIOUS
    <3>2. \/ a = <<>> \/ a = <<[t |-> "dry"]>>
          \/ \E l : a = <<[t |-> "result", cmd |-> c, level |-> l]>> \/ a = <<[t |-> "status", code |-> "Other", level |-> l]>>
      BY <2>2, <3>1 DEF OtherReply
    <3>3. \A l : Right([t |-> "result", cmd |-> c, level |-> l]) /\ Right([t |-> "status", code |-> "Other", level |-> l])
      BY DEF Right
    <3>4. Right([t |-> "dry"])
      BY DEF Right
    <3> QED
      BY <3>2, <3>3, <3>4
  <2> QED
    BY <2>1, <2>2
<1>5. AllRight(down \o a)
  <2>1. CASE a = <<>>
    <3>1. PICK S : down \in Seq(S)
      BY <1>3 DEF AllRight, IsSequence
    <3>2. down \o a = down
      BY <2>1, <3>1
    <3> QED
      BY <1>3, <3>2
  <2>2. CASE \E m : a = <<m>> /\ Right(m)
    BY <1>3, <2>2, AllRightMore
  <2> QED
    BY <1>4, <2>1, <2>2
<1> QED
  BY <1>1, <1>2, <1>5, ElsewhereNext

LEMMA ElsewhereStep == Elsewhere /\ [Next]_vars => Elsewhere'
<1> SUFFICES ASSUME Elsewhere, [Next]_vars PROVE Elsewhere'
  OBVIOUS
<1>1. CASE UNCHANGED vars
  <2>1. scene' = scene /\ session' = session /\ down' = down
    BY <1>1 DEF vars
  <2> QED
    BY <2>1, ElsewhereNext
<1>2. ASSUME NEW q, NEW d, NEW h, PlayerIs(q, d, h), d = down \/ (down # <<>> /\ d = Tail(down)) PROVE Elsewhere'
  <2>1. scene' = scene /\ session' = session /\ down' = IF q.link = "open" THEN d ELSE <<>>
    BY <1>2 DEF PlayerIs
  <2> QED
    BY <1>2, <2>1, ElsewhereNext
<1>3. ASSUME NEW q, PlayerDoes(q) PROVE Elsewhere'
  BY <1>2, <1>3 DEF PlayerDoes
<1>4. CASE UserPlay \/ UserPause \/ UserSeek \/ UserTeardown
  BY <1>3, <1>4 DEF UserPlay, UserPause, UserSeek, UserTeardown
<1>5. CASE Resolve \/ NotConnected \/ PlayerEof \/ PlayTimer \/ RecvTimer \/ BeatTimer
  BY <1>3, <1>5 DEF Resolve, NotConnected, PlayerEof, PlayTimer, RecvTimer, BeatTimer
<1>6. CASE Connect
  <2>1. scene' = scene /\ session' = Fresh /\ down' = <<>>
    BY <1>6 DEF Connect
  <2> QED
    BY <2>1, FreshLooks, ElsewhereNext
<1>7. CASE PlayerReads
  BY <1>2, <1>7 DEF PlayerReads
<1>8. CASE SessionEof
  <2>1. PICK s : /\ SessionDoes(s) /\ s \in {RtspS!Shutdown(session), RtmpS!Shutdown(session)}
    BY <1>8 DEF SessionEof
  <2>2. scene' = scene /\ session' = [s EXCEPT !.out = <<>>] /\ down' = <<>>
    BY <1>8, <2>1 DEF SessionEof, SessionDoes
  <2>3. ~Server => "look" \in DOMAIN session' /\ session'.look = "no"
    BY <2>1, <2>2 DEF Elsewhere, RtspS!Shutdown, RtmpS!Shutdown
  <2> QED
    BY <2>2, <2>3, ElsewhereNext
<1>9. CASE OtherCloses
  <2>1. scene' = scene /\ session' = [session EXCEPT !.open = FALSE] /\ down' = down
    BY <1>9 DEF OtherCloses
  <2>2. ~Server => "look" \in DOMAIN session' /\ session'.look = "no"
    BY <2>1 DEF Elsewhere
  <2> QED
    BY <2>1, <2>2, ElsewhereNext
<1>10. CASE OtherSends
  <2>1. PICK f : down' = Append(down, [t |-> "media", frame |-> f])
    BY <1>10 DEF OtherSends
  <2>2. Right([t |-> "media", frame |-> f])
    BY DEF Right
  <2>3. ~Server /\ scene' = scene /\ session' = session
    BY <1>10 DEF OtherSends
  <2>4. AllRight(down')
    BY <2>1, <2>2, <2>3, AllRightMore DEF Elsewhere
  <2> QED
    BY <2>3, <2>4, ElsewhereNext
<1>11. CASE AnySends \/ AnyReads \/ AnyCloses
  <2>1. scene' = scene /\ session' = session /\ (down' = down \/ down' = <<>> \/ (down # <<>> /\ down' = Tail(down)))
    BY <1>11 DEF AnySends, AnyReads, AnyCloses
  <2> QED
    BY <2>1, ElsewhereNext
<1>12. ASSUME Server, scene' = scene PROVE Elsewhere'
  BY <1>12, ElsewhereNext
<1>13. CASE SessionReads \/ Manager \/ Detach \/ Ages \/ SourceOn \/ SourceOff \/ SourceWrites
  <2>1. Server /\ scene' = scene
    BY <1>13 DEF SessionReads, Manager, Detach, Ages, SourceOn, SourceOff, SourceWrites, SessionDoes
  <2> QED
    BY <2>1, <1>12
<1>14. CASE LookFound \/ LookTimeOut \/ AuthAnswers
  <2>1. scene' = scene
    BY <1>14 DEF LookFound, LookTimeOut, AuthAnswers, LookedUp, SessionDoes
  <2>2. Server
    BY <1>14 DEF LookFound, LookTimeOut, AuthAnswers, Elsewhere
  <2> QED
    BY <2>1, <2>2, <1>12
<1>15. CASE OtherAnswers
  BY <1>15, ElsewhereAnswers
<1> QED
  BY <1>1, <1>4, <1>5, <1>6, <1>7, <1>8, <1>9, <1>10, <1>11, <1>13, <1>14, <1>15 DEF Next, PlayerLoop, PlayerTimes, SessionLoop

\* Every reply carries the number of its request.
LEMMA NumbersKept == InStep /\ Elsewhere => RepliesAreNumbered
<1>1. CASE Server
  BY <1>1, ServerNumbers
<1>2. CASE ~Server
  BY <1>2 DEF Elsewhere, AllRight, Right, RepliesAreNumbered
<1> QED
  BY <1>1, <1>2

\* What a client has heard after some messages: the fold is a function on the sets of their places.
IsFold(e, h, s, n) ==
  e = [t \in SUBSET (1 .. n) |-> IF t = {} THEN h ELSE Hear(e[t \ {Max(t)}], s[Max(t)])]

HeardOf(h, s) == FoldLeft(Hear, h, s)

LEMMA FoldIs ==
  ASSUME NEW h, NEW s, NEW n, DOMAIN s = 1 .. n
  PROVE  HeardOf(h, s) = (CHOOSE e : IsFold(e, h, s, n))[1 .. n]
<1>1. FoldLeft(Hear, h, s) =
        (CHOOSE e : e = [t \in SUBSET (DOMAIN s) |-> IF t = {} THEN h ELSE Hear(e[t \ {Max(t)}], s[Max(t)])])[DOMAIN s]
  BY DEF FoldLeft, MapThenFoldSet
<1> QED
  BY <1>1 DEF IsFold, HeardOf

LEMMA FoldGrows ==
  ASSUME NEW h, NEW s, NEW n \in Nat \ {0}, NEW e, IsFold(e, h, s, n - 1)
  PROVE  IsFold([t \in SUBSET (1 .. n) |-> IF n \in t THEN Hear(e[t \ {n}], s[n]) ELSE e[t]], h, s, n)
<1> DEFINE F(t) == IF n \in t THEN Hear(e[t \ {n}], s[n]) ELSE e[t]
           f == [t \in SUBSET (1 .. n) |-> F(t)]
           G(t) == IF t = {} THEN h ELSE Hear(f[t \ {Max(t)}], s[Max(t)])
<1>1. \A t \in SUBSET (1 .. n - 1) : e[t] = IF t = {} THEN h ELSE Hear(e[t \ {Max(t)}], s[Max(t)])
  BY DEF IsFold
<1>2. \A t \in SUBSET (1 .. n) : f[t] = F(t)
  OBVIOUS
<1>3. ASSUME NEW t \in SUBSET (1 .. n) PROVE f[t] = G(t)
  <2>1. \A r \in SUBSET (1 .. n) : n \notin r => r \in SUBSET (1 .. n - 1)
    OBVIOUS
  <2>2. CASE n \in t
    <3>1. Max(t) = n /\ t # {}
      BY <2>2, LastOf
    <3>2. PICK r : r = t \ {n}
      OBVIOUS
    <3>3. r \in SUBSET (1 .. n) /\ n \notin r
      BY <3>2
    <3>4. f[r] = e[r]
      BY <1>2, <3>3
    <3>5. f[t] = Hear(e[r], s[n])
      BY <1>2, <2>2, <3>2
    <3> HIDE DEF f
    <3> QED
      BY <3>1, <3>2, <3>4, <3>5
  <2>3. CASE n \notin t
    <3>1. PICK r : r = t \ {Max(t)}
      OBVIOUS
    <3>2. r \in SUBSET (1 .. n) /\ n \notin r /\ t \in SUBSET (1 .. n - 1)
      BY <2>1, <2>3, <3>1
    <3>3. f[r] = e[r] /\ f[t] = e[t]
      BY <1>2, <2>3, <3>2
    <3> HIDE DEF f
    <3> QED
      BY <1>1, <3>1, <3>2, <3>3
  <2> QED
    BY <2>2, <2>3
<1>4. f = [t \in SUBSET (1 .. n) |-> G(t)]
  <2> HIDE DEF G
  <2>1. \A t \in SUBSET (1 .. n) : F(t) = G(t)
    BY <1>2, <1>3
  <2> HIDE DEF F
  <2> QED
    BY <2>1
<1>5. IsFold(f, h, s, n)
  <2> HIDE DEF f
  <2> QED
    BY <1>4 DEF IsFold
<1> QED
  BY <1>5

LEMMA FoldExists == ASSUME NEW h, NEW s, NEW n \in Nat PROVE \E e : IsFold(e, h, s, n)
<1> DEFINE T == {k \in 0 .. n : \E e : IsFold(e, h, s, k)}
<1>1. 0 \in T
  <2> DEFINE e == [t \in SUBSET (1 .. 0) |-> h]
  <2>1. SUBSET (1 .. 0) = {{}}
    OBVIOUS
  <2>2. e = [t \in SUBSET (1 .. 0) |-> IF t = {} THEN h ELSE Hear(e[t \ {Max(t)}], s[Max(t)])]
    BY <2>1
  <2>3. IsFold(e, h, s, 0)
    BY <2>2 DEF IsFold
  <2> QED
    BY <2>3
<1>2. ASSUME NEW k \in 1 .. n, k - 1 \in T PROVE k \in T
  <2>1. PICK e : IsFold(e, h, s, k - 1)
    BY <1>2
  <2>2. k \in Nat \ {0} /\ k \in 0 .. n
    OBVIOUS
  <2>3. \E f : IsFold(f, h, s, k)
    BY <2>1, <2>2, FoldGrows
  <2> QED
    BY <2>2, <2>3
<1> HIDE DEF T
<1>3. \A k \in 0 .. n : k \in T
  BY <1>1, <1>2, Along
<1> QED
  BY <1>3 DEF T

\* It is what is heard step by step.
LEMMA HeardSoFar ==
  ASSUME NEW h, NEW s, NEW n \in Nat, DOMAIN s = 1 .. n, NEW f, f[0] = h,
         \A i \in 1 .. n : f[i] = Hear(f[i - 1], s[i])
  PROVE  HeardOf(h, s) = f[n]
<1>1. PICK e : e = CHOOSE d : IsFold(d, h, s, n)
  OBVIOUS
<1>2. IsFold(e, h, s, n)
  BY <1>1, FoldExists
<1>3. \A t \in SUBSET (1 .. n) : e[t] = IF t = {} THEN h ELSE Hear(e[t \ {Max(t)}], s[Max(t)])
  BY <1>2 DEF IsFold
<1> DEFINE T == {k \in 0 .. n : e[1 .. k] = f[k]}
<1>4. 0 \in T
  <2>1. 1 .. 0 = {} /\ 1 .. 0 \in SUBSET (1 .. n)
    OBVIOUS
  <2>2. e[1 .. 0] = h
    BY <1>3, <2>1
  <2> QED
    BY <2>2
<1>5. ASSUME NEW k \in 1 .. n, k - 1 \in T PROVE k \in T
  <2>0. k \in Nat \ {0} /\ k <= n
    OBVIOUS
  <2>r. k \in 1 .. k /\ \A i \in 1 .. k : i \in 1 .. n
    BY <2>0
  <2>1. 1 .. k \in SUBSET (1 .. n) /\ 1 .. k # {} /\ k \in Nat \ {0} /\ k \in 1 .. k
    BY <2>0, <2>r
  <2>2. Max(1 .. k) = k
    BY <2>1, LastOf
  <2>3. (1 .. k) \ {k} = 1 .. k - 1
    OBVIOUS
  <2>4. e[1 .. k] = Hear(e[1 .. k - 1], s[k])
    BY <1>3, <2>1, <2>2, <2>3
  <2>5. e[1 .. k - 1] = f[k - 1]
    BY <1>5
  <2> QED
    BY <2>4, <2>5
<1> HIDE DEF T
<1>6. \A k \in 0 .. n : k \in T
  BY <1>4, <1>5, Along
<1>7. e[1 .. n] = f[n]
  BY <1>6 DEF T
<1> QED
  BY <1>1, <1>7, FoldIs

\* Media is sent only while the client has heard of playing.
LEMMA MediaKept == InStep => MediaWhenPlaying
<1> SUFFICES ASSUME InStep, Server, NEW i \in DOMAIN down, down[i].t = "media", down[i].frame
             PROVE  FoldLeft(Hear, heard, SubSeq(down, 1, i - 1)) = "playing"
  BY DEF MediaWhenPlaying
<1>1. player.link = "open"
  BY DEF InStep, Joint
<1>2. PICK x, k, y : Runs(heard, x, down, k, y)
  BY <1>1 DEF InStep, Joint, Linked
<1>3. PICK f, g : /\ f[0] = heard
                  /\ \A j \in 1 .. Len(down) : /\ f[j] = Hear(f[j - 1], down[j]) /\ Goes(g[j - 1], down[j], g[j])
                                               /\ IsFrame(down[j]) => f[j - 1] = "playing"
  BY <1>2 DEF Runs
<1>4. PICK S : down \in Seq(S)
  BY <1>2 DEF Runs, IsSequence
<1>5. Len(down) \in Nat /\ i \in 1 .. Len(down)
  BY <1>4, LenProperties
<1> DEFINE s == SubSeq(down, 1, i - 1)
<1>6. s \in Seq(S) /\ Len(s) = i - 1 /\ \A j \in 1 .. i - 1 : s[j] = down[j]
  <2>1. 1 \in Int /\ i - 1 \in Int /\ (\A j \in 1 .. i - 1 : down[j] \in S)
    BY <1>4, <1>5
  <2>2. \A j \in 1 .. (i - 1) - 1 + 1 : 1 + j - 1 = j
    OBVIOUS
  <2> QED
    BY <1>4, <1>5, <2>1, <2>2, SubSeqProperties
<1>7. DOMAIN s = 1 .. i - 1 /\ i - 1 \in Nat
  BY <1>5, <1>6, LenProperties
<1> HIDE DEF s
<1>8. \A j \in 1 .. i - 1 : f[j] = Hear(f[j - 1], s[j])
  BY <1>3, <1>5, <1>6
<1>9. FoldLeft(Hear, heard, s) = f[i - 1]
  <2>1. PICK n : n = i - 1
    OBVIOUS
  <2>2. n \in Nat /\ DOMAIN s = 1 .. n /\ f[0] = heard /\ \A j \in 1 .. n : f[j] = Hear(f[j - 1], s[j])
    BY <1>3, <1>7, <1>8, <2>1
  <2>3. HeardOf(heard, s) = f[n]
    BY <2>2, HeardSoFar
  <2> QED
    BY <2>1, <2>3 DEF HeardOf
<1>10. f[i - 1] = "playing"
  BY <1>3, <1>5 DEF IsFrame
<1> QED
  BY <1>9, <1>10 DEF s

\* Player, owner and session agree on what is played, while requests, answers and media overtake each other: the
\* owner is told once and in order (onPlayResult_l), the check of packets follows the play (handleResPAUSE), media is sent only after a play was answered and not after a
\* pause was (handleReq_Play, handleReq_Pause, onCmd_pause), and replies carry the numbers of their requests
\* (sendRtspResponse).
THEOREM AgreeOnPlaying == Spec => []PlayInStep
<1>1. Spec => [](PlayInv /\ InStep)
  <2>1. Init => PlayInv /\ InStep
    BY PlayInvInit, InStepInit
  <2>2. PlayInv /\ InStep /\ [Next]_vars => (PlayInv /\ InStep)'
    BY PlayInvStep, InStepStep
  <2> QED
    BY <2>1, <2>2, PTL DEF Spec
<1>2. Spec => []Elsewhere
  BY ElsewhereInit, ElsewhereStep, PTL DEF Spec
<1>3. PlayInv /\ InStep /\ Elsewhere => PlayInStep
  BY PlayInvTells, WatchKept, MediaKept, NumbersKept DEF PlayInStep
<1> QED
  BY <1>1, <1>2, <1>3, PTL

-----------------------------------------------------------------------------
(* What the owner is told.                                                 *)

\* A success, or an end.
Rises(s, t) == t = Append(s, "ok") \/ t = Append(s, "resume")
Falls(s, t) == t = Append(s, "fail") \/ t = Append(s, "down")

\* What a message that leaves the client with h makes a player tell.
Truthful(p, q, m, h) ==
  \/ q.told = p.told
  \/ Rises(p.told, q.told) /\ q.link = "open" /\ h = "playing"
  \/ Falls(p.told, q.told) /\ ~Granted(m)

\* The RTSP player hangs up, or plays anew, without telling anything.
LEMMA RtspLeavesQuietly ==
  ASSUME NEW p, DOMAIN p = RtspMembers
  PROVE  LET q == RtspP!Teardown(p) IN DOMAIN q = RtspMembers /\ q.told = p.told
<1>1. PICK r : r = RtspP!Request(p, "TEARDOWN")
  OBVIOUS
<1>2. DOMAIN r = RtspMembers /\ \A m \in RtspMembers \ {"out", "cseq"} : r[m] = p[m]
  BY <1>1, RtspSays
<1>3. PICK s : s = IF RtspP!Alive(p) THEN RtspP!Hang(r) ELSE p
  OBVIOUS
<1>4. DOMAIN s = RtspMembers /\ s.told = p.told
  BY <1>2, <1>3 DEF RtspP!Hang, RtspMembers, BaseMembers
<1>5. PICK t : t = RtspP!Stop(s)
  OBVIOUS
<1>6. DOMAIN t = RtspMembers /\ t.told = s.told
  BY <1>4, <1>5 DEF RtspP!Stop, RtspMembers, BaseMembers
<1>7. PICK q : q = [t EXCEPT !.session = 0, !.tracks = 0, !.realm = FALSE, !.cseq = 1, !.handler = "none"]
  OBVIOUS
<1>8. DOMAIN q = RtspMembers /\ q.told = p.told
  BY <1>4, <1>6, <1>7 DEF RtspMembers, BaseMembers
<1>9. RtspP!Teardown(p) = q
  BY <1>1, <1>3, <1>5, <1>7 DEF RtspP!Teardown
<1> QED
  BY <1>8, <1>9

LEMMA RtspPlaysQuietly == ASSUME NEW p, DOMAIN p = RtspMembers PROVE RtspP!Play(p, TRUE).told = p.told
<1>1. PICK q : q = RtspP!Teardown(p)
  OBVIOUS
<1>2. DOMAIN q = RtspMembers /\ q.told = p.told
  BY <1>1, RtspLeavesQuietly
<1>3. PICK r : r = RtspP!StartConnect([q EXCEPT !.play = TRUE, !.crossed = FALSE])
  OBVIOUS
<1>4. r.told = q.told
  BY <1>2, <1>3 DEF RtspP!StartConnect, RtspMembers, BaseMembers
<1>5. RtspP!Play(p, TRUE) = r
  BY <1>1, <1>3 DEF RtspP!Play
<1> QED
  BY <1>2, <1>4, <1>5

\* onPlayResult_l
LEMMA RtspTells ==
  ASSUME NEW p, DOMAIN p = RtspMembers, NEW done \in BOOLEAN
  PROVE  /\ LET q == RtspP!PlayResult_l(p, "ok", done)
            IN  (q.told = p.told \/ Rises(p.told, q.told)) /\ q.link = p.link
         /\ LET q == RtspP!PlayResult_l(p, "other", done) IN q.told = p.told \/ Falls(p.told, q.told)
<1>0. PICK r : r = [p EXCEPT !.play = FALSE]
  OBVIOUS
<1>1. DOMAIN r = RtspMembers /\ r.told = p.told /\ r.link = p.link
  BY <1>0 DEF RtspMembers, BaseMembers
<1>2. ASSUME NEW ex, NEW q, q = IF ~done THEN RtspP!PlayResult(r, ex)
                                ELSE IF ex # "ok" THEN RtspP!OnShutdown(p) ELSE RtspP!OnResume(p)
      PROVE  /\ DOMAIN q = RtspMembers /\ q.link = p.link
             /\ ex = "ok" => q.told = p.told \/ Rises(p.told, q.told)
             /\ ex # "ok" => q.told = p.told \/ Falls(p.told, q.told)
  <2>1. CASE ~done
    <3>1. q \in {RtspP!OnPlayResult(r, ex), [r EXCEPT !.analyse = TRUE]}
      BY <1>2, <2>1 DEF RtspP!PlayResult
    <3>2. CASE q = [r EXCEPT !.analyse = TRUE]
      BY <1>1, <3>2 DEF RtspMembers, BaseMembers
    <3>3. CASE q = RtspP!OnPlayResult(r, ex)
      BY <1>1, <3>3 DEF RtspP!OnPlayResult, Rises, Falls, RtspMembers, BaseMembers
    <3> QED
      BY <3>1, <3>2, <3>3
  <2>2. CASE done
    <3>1. CASE ex # "ok"
      BY <1>2, <2>2, <3>1 DEF RtspP!OnShutdown, Falls, RtspMembers, BaseMembers
    <3>2. CASE ex = "ok"
      BY <1>2, <2>2, <3>2 DEF RtspP!OnResume, Rises, RtspMembers, BaseMembers
    <3> QED
      BY <3>1, <3>2
  <2> QED
    BY <2>1, <2>2
<1>3. LET q == RtspP!PlayResult_l(p, "ok", done) IN (q.told = p.told \/ Rises(p.told, q.told)) /\ q.link = p.link
  <2>1. PICK ex : ex = "ok"
    OBVIOUS
  <2>2. PICK q : q = IF ~done THEN RtspP!PlayResult(r, ex)
                     ELSE IF ex # "ok" THEN RtspP!OnShutdown(p) ELSE RtspP!OnResume(p)
    OBVIOUS
  <2>3. DOMAIN q = RtspMembers /\ q.link = p.link /\ (q.told = p.told \/ Rises(p.told, q.told))
    BY <1>2, <2>1, <2>2
  <2>4. PICK t : t = [q EXCEPT !.quiet = 0, !.recv = TRUE]
    OBVIOUS
  <2>5. t.link = q.link /\ t.told = q.told
    BY <2>3, <2>4 DEF RtspMembers, BaseMembers
  <2>6. RtspP!PlayResult_l(p, "ok", done) = t
    BY <1>0, <2>1, <2>2, <2>4 DEF RtspP!PlayResult_l
  <2> QED
    BY <2>3, <2>5, <2>6
<1>4. LET q == RtspP!PlayResult_l(p, "other", done) IN q.told = p.told \/ Falls(p.told, q.told)
  <2>1. PICK ex : ex = "other"
    OBVIOUS
  <2>2. PICK q : q = IF ~done THEN RtspP!PlayResult(r, ex)
                     ELSE IF ex # "ok" THEN RtspP!OnShutdown(p) ELSE RtspP!OnResume(p)
    OBVIOUS
  <2>3. DOMAIN q = RtspMembers /\ (q.told = p.told \/ Falls(p.told, q.told))
    BY <1>2, <2>1, <2>2
  <2>4. RtspP!PlayResult_l(p, "other", done) = RtspP!Teardown(q)
    BY <1>0, <2>1, <2>2 DEF RtspP!PlayResult_l
  <2>5. RtspP!Teardown(q).told = q.told
    BY <2>3, RtspLeavesQuietly
  <2> QED
    BY <2>3, <2>4, <2>5
<1> QED
  BY <1>3, <1>4

\* What a reply makes the RTSP player tell.
LEMMA RtspThrowsTruly ==
  ASSUME NEW p, NEW r, DOMAIN r = RtspMembers, r.told = p.told, NEW m, ~Granted(m), NEW h
  PROVE  Truthful(p, RtspP!Throw(r), m, h)
<1>1. PICK done \in BOOLEAN : RtspP!Throw(r) = RtspP!PlayResult_l(r, "other", done)
  BY DEF RtspP!Throw
<1>2. PICK q : q = RtspP!PlayResult_l(r, "other", done)
  OBVIOUS
<1>3. q.told = r.told \/ Falls(r.told, q.told)
  BY <1>2, RtspTells
<1> QED
  BY <1>1, <1>2, <1>3 DEF Truthful

LEMMA RtspHandlesTruly ==
  ASSUME NEW p, NEW r, DOMAIN r = RtspMembers, r.told = p.told, NEW m, m.t = "reply", NEW h,
         NEW good, good.told = p.told
  PROVE  Truthful(p, RtspP!HandleResponse(r, m, good), m, h)
<1>1. PICK s, o : s = [r EXCEPT !.realm = TRUE] /\ o = "OPTIONS"
  OBVIOUS
<1>2. DOMAIN s = RtspMembers /\ s.told = p.told
  BY <1>1 DEF RtspMembers, BaseMembers
<1>3. PICK q : q = RtspP!Ask(s, o, o)
  OBVIOUS
<1>4. q.told = p.told /\ q = RtspP!SendOptions(s)
  <2>1. q.told = p.told
    BY <1>2, <1>3, RtspAsks
  <2>2. q = RtspP!SendOptions(s)
    BY <1>1, <1>3 DEF RtspP!SendOptions
  <2> QED
    BY <2>1, <2>2
<1>5. RtspP!Play(r, TRUE).told = p.told
  BY RtspPlaysQuietly
<1>6. PICK t : t = RtspP!HandleResponse(r, m, good)
  OBVIOUS
<1>7. CASE m.code = "200" \/ t.told = p.told
  BY <1>6, <1>7 DEF RtspP!HandleResponse, Truthful
<1>8. CASE m.code # "200" /\ t.told # p.told
  <2>1. ~Granted(m)
    BY <1>8 DEF Granted
  <2>2. Truthful(p, RtspP!Throw(r), m, h)
    BY <2>1, RtspThrowsTruly
  <2>3. t = RtspP!Throw(r)
    BY <1>1, <1>4, <1>5, <1>6, <1>8 DEF RtspP!HandleResponse
  <2> QED
    BY <1>6, <2>2, <2>3
<1> QED
  BY <1>7, <1>8

LEMMA RtspAnswersTruly ==
  ASSUME NEW p, DOMAIN p = RtspMembers, p.link = "open", NEW m, m.t = "reply", NEW h, NEW sdp,
         m.code = "200" /\ p.handler \in {"PLAY", "SEEK"} => h = "playing"
  PROVE  Truthful(p, RtspP!OnReply(p, m, sdp), m, h)
<1>1. PICK r : r = [p EXCEPT !.handler = "none"]
  OBVIOUS
<1>2. DOMAIN r = RtspMembers /\ r.link = "open" /\ r.told = p.told /\ r.setup = p.setup
  BY <1>1 DEF RtspMembers, BaseMembers
<1>3. PICK q : q = RtspP!OnReply(p, m, sdp)
  OBVIOUS
<1>4. CASE p.handler = "OPTIONS"
  <2>1. PICK o, good : o = "DESCRIBE" /\ good = RtspP!Ask(r, o, o)
    OBVIOUS
  <2>2. good.told = p.told
    BY <1>2, <2>1, RtspAsks
  <2>3. q = RtspP!HandleResponse(r, m, good)
    BY <1>1, <1>3, <1>4, <2>1 DEF RtspP!OnReply, RtspP!SendDescribe
  <2> QED
    BY <1>2, <1>3, <2>2, <2>3, RtspHandlesTruly
<1>5. CASE p.handler = "DESCRIBE"
  <2>1. PICK s, o : s = [[r EXCEPT !.tracks = Tracks, !.delegate = sdp] EXCEPT !.setup = 1] /\ o = "SETUP"
    OBVIOUS
  <2>2. DOMAIN s = RtspMembers /\ s.told = p.told
    BY <1>2, <2>1 DEF RtspMembers, BaseMembers
  <2>3. PICK good : good = RtspP!Ask(s, o, o)
    OBVIOUS
  <2>4. good.told = p.told
    BY <2>2, <2>3, RtspAsks
  <2>5. q = RtspP!HandleResponse(r, m, good)
    BY <1>1, <1>3, <1>5, <2>1, <2>3 DEF RtspP!OnReply, RtspP!HandleResDESCRIBE, RtspP!SendSetup
  <2> QED
    BY <1>2, <1>3, <2>4, <2>5, RtspHandlesTruly
<1>6. CASE p.handler = "SETUP"
  <2>1. q = RtspP!HandleResSETUP(r, m)
    BY <1>1, <1>3, <1>6 DEF RtspP!OnReply
  <2>2. CASE m.code # "200"
    <3>1. ~Granted(m)
      BY <2>2 DEF Granted
    <3>2. q = RtspP!Throw(r)
      BY <2>1, <2>2 DEF RtspP!HandleResSETUP
    <3> QED
      BY <1>2, <1>3, <3>1, <3>2, RtspThrowsTruly
  <2>3. CASE m.code = "200"
    <3>1. PICK s : s = IF r.setup = 1 THEN [r EXCEPT !.session = m.session] ELSE r
      OBVIOUS
    <3>2. DOMAIN s = RtspMembers /\ s.told = p.told
      BY <1>2, <3>1 DEF RtspMembers, BaseMembers
    <3>3. PICK t : t = [s EXCEPT !.setup = r.setup + 1]
      OBVIOUS
    <3>4. DOMAIN t = RtspMembers /\ t.told = p.told
      BY <3>2, <3>3 DEF RtspMembers, BaseMembers
    <3>5. PICK o, l : o = "SETUP" /\ l = "PLAY"
      OBVIOUS
    <3>6. RtspP!Ask(t, o, o).told = p.told /\ RtspP!Ask(s, l, l).told = p.told
      BY <3>2, <3>4, RtspAsks
    <3>7. q \in {RtspP!Ask(t, o, o), RtspP!Ask(s, l, l)}
      BY <2>1, <2>3, <3>1, <3>3, <3>5 DEF RtspP!HandleResSETUP, RtspP!SendSetup, RtspP!SendPause
    <3> QED
      BY <1>3, <3>6, <3>7 DEF Truthful
  <2> QED
    BY <2>2, <2>3
<1>7. CASE p.handler \in {"PLAY", "PAUSE", "SEEK"}
  <2>1. q = RtspP!HandleResPAUSE(r, m, p.handler)
    BY <1>1, <1>3, <1>7 DEF RtspP!OnReply
  <2>2. PICK done \in BOOLEAN : done = ~r.play
    OBVIOUS
  <2>3. PICK u : u = RtspP!PlayResult_l(r, "ok", done)
    OBVIOUS
  <2>4. (u.told = p.told \/ Rises(p.told, u.told)) /\ u.link = "open"
    BY <1>2, <2>3, RtspTells
  <2>5. RtspP!PlayResult_l(r, "shutdown", done) = r
    BY DEF RtspP!PlayResult_l
  <2>6. PICK v : v = [r EXCEPT !.recv = FALSE]
    OBVIOUS
  <2>7. v.told = p.told
    BY <1>2, <2>6 DEF RtspMembers, BaseMembers
  <2>8. q \in {r, v} \/ (q = u /\ m.code = "200" /\ p.handler \in {"PLAY", "SEEK"})
    BY <1>7, <2>1, <2>2, <2>3, <2>5, <2>6 DEF RtspP!HandleResPAUSE
  <2> QED
    BY <1>2, <1>3, <2>4, <2>7, <2>8 DEF Truthful
<1>8. CASE p.handler \notin {"OPTIONS", "DESCRIBE", "SETUP", "PLAY", "PAUSE", "SEEK"}
  <2>1. q = r
    BY <1>1, <1>3, <1>8 DEF RtspP!OnReply
  <2> QED
    BY <1>2, <1>3, <2>1 DEF Truthful
<1> QED
  BY <1>4, <1>5, <1>6, <1>7, <1>8

\* Media: the tracks are known at last.
LEMMA RtspFramesTruly ==
  ASSUME NEW p, DOMAIN p = RtspMembers, p.link = "open", NEW m, NEW h, h = "playing",
         NEW done \in BOOLEAN, NEW beat \in BOOLEAN
  PROVE  Truthful(p, RtspP!OnRtp(p, done, beat), m, h)
<1>1. PICK s : s = [p EXCEPT !.quiet = 0]
  OBVIOUS
<1>2. DOMAIN s = RtspMembers /\ s.told = p.told /\ s.link = "open"
  BY <1>1 DEF RtspMembers, BaseMembers
<1>3. PICK ok : ok = "ok"
  OBVIOUS
<1>4. PICK t : t = RtspP!OnPlayResult(s, ok)
  OBVIOUS
<1>5. DOMAIN t = RtspMembers /\ t.link = "open" /\ (t.told = p.told \/ Rises(p.told, t.told))
  BY <1>2, <1>3, <1>4 DEF RtspP!OnPlayResult, Rises, RtspMembers, BaseMembers
<1>6. PICK u : u = [t EXCEPT !.analyse = FALSE]
  OBVIOUS
<1>7. DOMAIN u = RtspMembers /\ u.link = "open" /\ u.told = t.told
  BY <1>5, <1>6 DEF RtspMembers, BaseMembers
<1>8. PICK r : r = IF s.analyse /\ done THEN u ELSE s
  OBVIOUS
<1>9. DOMAIN r = RtspMembers /\ r.link = "open" /\ (r.told = p.told \/ Rises(p.told, r.told))
  BY <1>2, <1>5, <1>7, <1>8
<1>10. PICK handler, cmd : handler = "KEEP" /\ cmd = "GET_PARAMETER"
  OBVIOUS
<1>11. PICK v : v = RtspP!Ask(r, handler, cmd)
  OBVIOUS
<1>12. v.link = "open" /\ v.told = r.told
  BY <1>9, <1>11, RtspAsks
<1>13. PICK q : q = RtspP!OnRtp(p, done, beat)
  OBVIOUS
<1>14. q = IF beat THEN v ELSE r
  BY <1>1, <1>3, <1>4, <1>6, <1>8, <1>10, <1>11, <1>13 DEF RtspP!OnRtp, RtspP!SendKeepAlive
<1> QED
  BY <1>9, <1>12, <1>13, <1>14 DEF Truthful

\* The RTMP player: onPlayResult_l
LEMMA RtmpTells ==
  ASSUME ~Rtsp, NEW p, DOMAIN p = RtmpMembers, IsSequence(p.out), NEW done \in BOOLEAN
  PROVE  /\ LET q == RtmpP!PlayResult_l(p, "ok", done)
            IN  (q.told = p.told \/ Rises(p.told, q.told)) /\ q.link = p.link
         /\ LET q == RtmpP!PlayResult_l(p, "other", done) IN q.told = p.told \/ Falls(p.told, q.told)
<1>0. PICK r : r = [p EXCEPT !.play = FALSE]
  OBVIOUS
<1>1. DOMAIN r = RtmpMembers /\ r.told = p.told /\ r.link = p.link /\ r.out = p.out
  BY <1>0 DEF RtmpMembers, BaseMembers
<1>2. ASSUME NEW ex, NEW q, q = IF ~done THEN RtmpP!OnPlayResult(r, ex)
                                ELSE IF ex # "ok" THEN RtmpP!OnShutdown(p) ELSE RtmpP!OnResume(p)
      PROVE  /\ DOMAIN q = RtmpMembers /\ q.link = p.link /\ q.out = p.out
             /\ ex = "ok" => q.told = p.told \/ Rises(p.told, q.told)
             /\ ex # "ok" => q.told = p.told \/ Falls(p.told, q.told)
  <2>1. CASE ~done
    BY <1>1, <1>2, <2>1 DEF RtmpP!OnPlayResult, Rises, Falls, RtmpMembers, BaseMembers
  <2>2. CASE done
    <3>1. CASE ex # "ok"
      BY <1>2, <2>2, <3>1 DEF RtmpP!OnShutdown, Falls, RtmpMembers, BaseMembers
    <3>2. CASE ex = "ok"
      BY <1>2, <2>2, <3>2 DEF RtmpP!OnResume, Rises, RtmpMembers, BaseMembers
    <3> QED
      BY <3>1, <3>2
  <2> QED
    BY <2>1, <2>2
<1>3. LET q == RtmpP!PlayResult_l(p, "ok", done) IN (q.told = p.told \/ Rises(p.told, q.told)) /\ q.link = p.link
  <2>1. PICK ex : ex = "ok"
    OBVIOUS
  <2>2. PICK q : q = IF ~done THEN RtmpP!OnPlayResult(r, ex)
                     ELSE IF ex # "ok" THEN RtmpP!OnShutdown(p) ELSE RtmpP!OnResume(p)
    OBVIOUS
  <2>3. DOMAIN q = RtmpMembers /\ q.link = p.link /\ (q.told = p.told \/ Rises(p.told, q.told))
    BY <1>2, <2>1, <2>2
  <2>4. PICK t : t = [q EXCEPT !.quiet = 0, !.recv = TRUE]
    OBVIOUS
  <2>5. t.link = q.link /\ t.told = q.told
    BY <2>3, <2>4 DEF RtmpMembers, BaseMembers
  <2>6. RtmpP!PlayResult_l(p, "ok", done) = t
    BY <1>0, <2>1, <2>2, <2>4 DEF RtmpP!PlayResult_l
  <2> QED
    BY <2>3, <2>5, <2>6
<1>4. LET q == RtmpP!PlayResult_l(p, "other", done) IN q.told = p.told \/ Falls(p.told, q.told)
  <2>1. PICK ex : ex = "other"
    OBVIOUS
  <2>2. PICK q : q = IF ~done THEN RtmpP!OnPlayResult(r, ex)
                     ELSE IF ex # "ok" THEN RtmpP!OnShutdown(p) ELSE RtmpP!OnResume(p)
    OBVIOUS
  <2>3. DOMAIN q = RtmpMembers /\ q.out = p.out /\ (q.told = p.told \/ Falls(p.told, q.told))
    BY <1>2, <2>1, <2>2
  <2>4. RtmpP!PlayResult_l(p, "other", done) = RtmpP!Teardown(q)
    BY <1>0, <2>1, <2>2 DEF RtmpP!PlayResult_l
  <2>5. RtmpP!Teardown(q).told = q.told
    BY <2>3, RtmpLeaves
  <2> QED
    BY <2>3, <2>4, <2>5
<1> QED
  BY <1>3, <1>4

LEMMA RtmpThrowsTruly ==
  ASSUME ~Rtsp, NEW p, NEW r, DOMAIN r = RtmpMembers, IsSequence(r.out), r.told = p.told, NEW m, ~Granted(m), NEW h
  PROVE  Truthful(p, RtmpP!Throw(r), m, h)
<1>1. PICK done \in BOOLEAN : RtmpP!Throw(r) = RtmpP!PlayResult_l(r, "other", done)
  BY DEF RtmpP!Throw
<1>2. PICK q : q = RtmpP!PlayResult_l(r, "other", done)
  OBVIOUS
<1>3. q.told = r.told \/ Falls(r.told, q.told)
  BY <1>2, RtmpTells
<1> QED
  BY <1>1, <1>2, <1>3 DEF Truthful

\* onCmd_result
LEMMA RtmpResultsTruly ==
  ASSUME ~Rtsp, NEW p, DOMAIN p = RtmpMembers, p.out = <<>>, NEW m, m.level = "status", m.cmd \in Commands, NEW h
  PROVE  Truthful(p, RtmpP!OnResult(p, m), m, h)
<1>0. PICK cmd, no : cmd = "createStream" /\ no = FALSE
  OBVIOUS
<1>1. PICK r : r = [p EXCEPT !.waiting = @ \ {m.cmd}]
  OBVIOUS
<1>2. DOMAIN r = RtmpMembers /\ r.told = p.told /\ r.out = <<>>
  BY <1>1 DEF RtmpMembers, BaseMembers
<1>3. PICK s : s = [r EXCEPT !.waiting = @ \cup {cmd}]
  OBVIOUS
<1>4. DOMAIN s = RtmpMembers /\ s.told = p.told /\ s.out = <<>>
  BY <1>2, <1>3 DEF RtmpMembers, BaseMembers
<1>5. PICK t : t = [r EXCEPT !.statuses = @ \o <<"play", "play">>]
  OBVIOUS
<1>6. DOMAIN t = RtmpMembers /\ t.told = p.told /\ t.out = <<>>
  BY <1>2, <1>5 DEF RtmpMembers, BaseMembers
<1>7. PICK play : play = "play"
  OBVIOUS
<1>8. IsSequence(s.out) /\ IsSequence(t.out)
  BY <1>4, <1>6, Nothing_
<1>9. RtmpP!Command(s, cmd, no).told = p.told
  BY <1>4, <1>8, RtmpTalks
<1>10. RtmpP!Command(t, play, no).told = p.told
  BY <1>6, <1>8, RtmpTalks
<1>11. PICK q : q = RtmpP!OnResult(p, m)
  OBVIOUS
<1>12. q \in {p, RtmpP!Command(s, cmd, no), RtmpP!Command(t, play, no)}
  BY <1>0, <1>1, <1>3, <1>5, <1>7, <1>11 DEF RtmpP!OnResult, RtmpP!SendInvoke, RtmpP!SendPlay, Commands
<1> QED
  BY <1>9, <1>10, <1>11, <1>12 DEF Truthful

\* onCmd_onStatus, of a status the player expects.
LEMMA RtmpStatusesTruly ==
  ASSUME ~Rtsp, NEW p, DOMAIN p = RtmpMembers, p.out = <<>>, p.link = "open",
         NEW g, NEW x, RtmpPlace(p, g, x), NEW m, m.t = "status", NEW z, <<x, m.code, m.level, z>> \in Turns
  PROVE  Truthful(p, RtmpP!OnStatus(p, m), m, Hear(g, m))
<1>1. PICK q : q = RtmpP!OnStatus(p, m)
  OBVIOUS
<1>2. p.statuses = Statuses(x)
  BY DEF RtmpPlace
<1>3. CASE x \in {"data", "notify"}
  <2>1. p.statuses = <<>> /\ m.level # "error"
    BY <1>2, <1>3 DEF Statuses, Turns
  <2>2. q = p
    BY <1>1, <2>1 DEF RtmpP!OnStatus
  <2> QED
    BY <1>1, <2>2 DEF Truthful
<1>4. CASE x \notin {"data", "notify"}
  <2>1. PICK r : r = [p EXCEPT !.statuses = Tail(@)]
    OBVIOUS
  <2>2. DOMAIN r = RtmpMembers /\ r.told = p.told /\ r.link = "open" /\ r.out = <<>>
    BY <2>1 DEF RtmpMembers, BaseMembers
  <2>3. x \in {"play", "start", "pause", "resume", "seek", "both"}
    BY <1>4 DEF Turns
  <2>4. /\ p.statuses # <<>>
        /\ Head(p.statuses) = IF x \in {"play", "start"} THEN "play" ELSE IF x = "both" THEN "resume" ELSE x
    BY <1>2, <2>3 DEF Statuses
  <2>5. PICK f : f = Head(p.statuses)
    OBVIOUS
  <2>6. q = RtmpP!Status(r, m, f)
    BY <1>1, <2>1, <2>4, <2>5 DEF RtmpP!OnStatus
  <2>7. CASE x \in {"play", "start"}
    <3>1. f = "play" /\ m.level \in {"status", "error"}
      BY <2>4, <2>5, <2>7 DEF Turns
    <3>2. CASE m.level = "status"
      BY <1>1, <2>2, <2>6, <3>1, <3>2 DEF RtmpP!Status, Truthful
    <3>3. CASE m.level = "error"
      <4>1. ~Granted(m)
        BY <3>3 DEF Granted
      <4>2. IsSequence(r.out)
        BY <2>2, Nothing_
      <4>3. \A h : Truthful(p, RtmpP!Throw(r), m, h)
        BY <2>2, <4>1, <4>2, RtmpThrowsTruly
      <4>4. q = RtmpP!Throw(r)
        BY <2>6, <3>1, <3>3 DEF RtmpP!Status
      <4> QED
        BY <1>1, <4>3, <4>4
    <3> QED
      BY <3>1, <3>2, <3>3
  <2>8. CASE x = "pause"
    <3>1. f = "pause" /\ m.level = "status"
      BY <2>4, <2>5, <2>8 DEF Turns
    <3>2. q = [r EXCEPT !.paused = TRUE, !.recv = FALSE]
      BY <2>6, <3>1 DEF RtmpP!Status
    <3>3. q.told = r.told
      BY <2>2, <3>2 DEF RtmpMembers, BaseMembers
    <3> QED
      BY <1>1, <2>2, <3>3 DEF Truthful
  <2>9. CASE x \in {"resume", "both"}
    <3>1. f = "resume" /\ m.level = "status" /\ m.code = "Unpause"
      BY <2>4, <2>5, <2>9 DEF Turns
    <3>2. PICK s, yes : s = [r EXCEPT !.paused = FALSE] /\ yes = TRUE
      OBVIOUS
    <3>3. DOMAIN s = RtmpMembers /\ s.told = p.told /\ s.link = "open" /\ s.out = <<>> /\ yes \in BOOLEAN
      BY <2>2, <3>2 DEF RtmpMembers, BaseMembers
    <3>4. IsSequence(s.out)
      BY <3>3, Nothing_
    <3>5. PICK u : u = RtmpP!PlayResult_l(s, "ok", yes)
      OBVIOUS
    <3>6. (u.told = p.told \/ Rises(p.told, u.told)) /\ u.link = "open"
      BY <3>3, <3>4, <3>5, RtmpTells
    <3>7. q = u
      BY <2>6, <3>1, <3>2, <3>5 DEF RtmpP!Status
    <3>8. Hear(g, m) = "playing"
      BY <3>1 DEF Hear
    <3> QED
      BY <1>1, <3>6, <3>7, <3>8 DEF Truthful
  <2>10. CASE x = "seek"
    <3>1. f = "seek"
      BY <2>4, <2>5, <2>10
    <3>2. q = r
      BY <2>6, <3>1 DEF RtmpP!Status
    <3> QED
      BY <1>1, <2>2, <3>2 DEF Truthful
  <2> QED
    BY <2>3, <2>7, <2>8, <2>9, <2>10
<1> QED
  BY <1>3, <1>4

\* onRtmpChunk, of a message the player expects.
LEMMA RtmpMessagesTruly ==
  ASSUME ~Rtsp, NEW p, DOMAIN p = RtmpMembers, p.out = <<>>, p.link = "open",
         NEW g, NEW x, RtmpPlace(p, g, x), NEW m, NEW z, Goes(x, m, z), IsFrame(m) => g = "playing",
         m \in Messages, Server
  PROVE  Truthful(p, RtmpP!OnMessage(p, m), m, Hear(g, m))
<1>1. PICK q : q = RtmpP!OnMessage(p, m)
  OBVIOUS
<1>2. m.t \in {"result", "status", "meta", "media"}
  BY DEF Messages, Answers
<1>3. x \notin {"lost", "crossed"} /\ x \notin Cmds
  BY DEF RtmpPlace, Ops, Cmds
<1>4. CASE m.t = "result"
  <2>1. m.level = "status" /\ m.cmd \in Commands
    BY <1>3, <1>4 DEF Goes
  <2>2. q = RtmpP!OnResult(p, m)
    BY <1>1, <1>4 DEF RtmpP!OnMessage
  <2> QED
    BY <1>1, <2>1, <2>2, RtmpResultsTruly
<1>5. CASE m.t = "status"
  <2>1. <<x, m.code, m.level, z>> \in Turns
    BY <1>3, <1>5 DEF Goes
  <2>2. q = RtmpP!OnStatus(p, m)
    BY <1>1, <1>5 DEF RtmpP!OnMessage
  <2> QED
    BY <1>1, <1>5, <2>1, <2>2, RtmpStatusesTruly
<1>6. CASE m.t = "meta"
  <2>1. q = [p EXCEPT !.metadata = TRUE]
    BY <1>1, <1>6 DEF RtmpP!OnMessage
  <2>2. q.told = p.told
    BY <2>1 DEF RtmpMembers, BaseMembers
  <2> QED
    BY <1>1, <2>2 DEF Truthful
<1>7. CASE m.t = "media"
  <2>1. PICK r, no : r = [p EXCEPT !.quiet = 0, !.metadata = TRUE] /\ no = FALSE
    OBVIOUS
  <2>2. DOMAIN r = RtmpMembers /\ r.told = p.told /\ r.link = "open" /\ r.out = <<>> /\ no \in BOOLEAN
    BY <2>1 DEF RtmpMembers, BaseMembers
  <2>3. IsSequence(r.out)
    BY <2>2, Nothing_
  <2>4. PICK u : u = RtmpP!PlayResult_l(r, "ok", no)
    OBVIOUS
  <2>5. (u.told = p.told \/ Rises(p.told, u.told)) /\ u.link = "open"
    BY <2>2, <2>3, <2>4, RtmpTells
  <2>6. q = IF r.play /\ m.frame THEN u ELSE r
    BY <1>1, <1>7, <2>1, <2>4 DEF RtmpP!OnMessage, RtmpP!OnMedia
  <2>7. m.frame => Hear(g, m) = "playing"
    BY <1>7 DEF IsFrame, Hear
  <2> QED
    BY <1>1, <2>2, <2>5, <2>6, <2>7 DEF Truthful
<1> QED
  BY <1>2, <1>4, <1>5, <1>6, <1>7

\* What was told last.
LEMMA ToldLast == ASSUME NEW s, IsSequence(s), NEW x PROVE Last(Append(s, x)) = x
<1>1. PICK S : s \in Seq(S)
  BY DEF IsSequence
<1>2. s \in Seq(S \cup {x}) /\ x \in S \cup {x}
  BY <1>1
<1>3. Len(Append(s, x)) = Len(s) + 1 /\ Append(s, x)[Len(s) + 1] = x
  BY <1>2, AppendProperties
<1> QED
  BY <1>3 DEF Last

\* A player that reads tells the truth.
LEMMA ReadsTruly ==
  ASSUME PlayInv, InStep, Careful, Server, Rtsp => ~player.crossed, PlayerReads
  PROVE  \E q : Sound(q) /\ PlayerIs(q, Tail(down), Hear(heard, Head(down)))
                /\ Truthful(player, q, Head(down), Hear(heard, Head(down)))
<1>1. Client /\ player.link = "open" /\ down # <<>>
  BY DEF PlayerReads
<1>2. DOMAIN player = PlayerMembers /\ player.out = <<>>
  BY <1>1 DEF InStep, Joint
<1>3. PICK x, k, y : Expects(player, heard, x) /\ Runs(heard, x, down, k, y)
  BY <1>1 DEF InStep, Joint, Linked
<1>4. PICK m, h : m = Head(down) /\ h = Hear(heard, m)
  OBVIOUS
<1>5. (IsFrame(m) => heard = "playing") /\ \E z : Goes(x, m, z)
  BY <1>1, <1>3, <1>4, RunsTail
<1>6. PICK z : Goes(x, m, z)
  BY <1>5
<1>7. Minds(player)
  BY DEF Minds, Careful
<1>8. CASE ~Rtsp
  <2>1. PICK q : q = RtmpP!OnMessage(player, m)
    OBVIOUS
  <2>2. PlayerIs(q, Tail(down), Hear(heard, Head(down)))
    BY <1>4, <1>8, <2>1 DEF PlayerReads
  <2>3. DOMAIN player = RtmpMembers /\ RtmpPlace(player, heard, x)
    BY <1>2, <1>3, <1>7, <1>8 DEF PlayerMembers, Expects
  <2>4. down \in Seq(Messages)
    BY <1>8 DEF PlayInv
  <2>5. m \in Messages
    BY <1>1, <1>4, <2>4, HeadTailProperties
  <2>6. Stays(player, q)
    BY <1>1, <1>2, <1>8, <2>1, <2>3, <2>5, RtmpHears
  <2>7. Sound(q)
    BY <2>6 DEF Stays, Ended
  <2>8. Truthful(player, q, m, Hear(heard, m))
    BY <1>1, <1>2, <1>5, <1>6, <1>8, <2>1, <2>3, <2>5, RtmpMessagesTruly
  <2> QED
    BY <1>4, <2>2, <2>7, <2>8
<1>9. CASE Rtsp
  <2>1. DOMAIN player = RtspMembers /\ RtspPlace(player, heard, x)
    BY <1>2, <1>3, <1>7, <1>9 DEF PlayerMembers, Expects
  <2>2. x = CmdOf(player.handler) /\ player.handler \in {"none", "OPTIONS", "DESCRIBE", "SETUP", "PLAY", "PAUSE", "SEEK", "KEEP"}
    BY <1>9, <2>1 DEF RtspPlace
  <2>3. x \in Cmds \cup {"idle"}
    BY <2>2 DEF CmdOf, Cmds
  <2>4. CASE m.t = "reply" /\ PlayerIs(RtspP!OnReply(player, m, scene.sdp), Tail(down), Hear(heard, m))
    <3>1. PICK q : q = RtspP!OnReply(player, m, scene.sdp)
      OBVIOUS
    <3>2. x \in Cmds /\ x = m.cmd
      BY <2>3, <2>4, <1>6 DEF Goes, Cmds, Commands, Ops
    <3>3. m.code = "200" /\ player.handler \in {"PLAY", "SEEK"} => h = "playing"
      BY <1>4, <2>2, <2>4, <3>2 DEF CmdOf, Hear
    <3>4. Truthful(player, q, m, h)
      BY <1>1, <2>1, <2>4, <3>1, <3>3, RtspAnswersTruly
    <3>5. Onward(player, q, m)
      BY <1>1, <1>2, <1>9, <2>1, <3>1, RtspHears
    <3>6. Sound(q)
      BY <3>5 DEF Onward, Ended, Begun, Further
    <3> QED
      BY <1>4, <2>4, <3>1, <3>4, <3>6
  <2>5. CASE m.t = "media" /\ \E done, beat \in BOOLEAN : PlayerIs(RtspP!OnRtp(player, done, beat), Tail(down), heard)
    <3>1. PICK done \in BOOLEAN, beat \in BOOLEAN : PlayerIs(RtspP!OnRtp(player, done, beat), Tail(down), heard)
      BY <2>5
    <3>2. PICK q : q = RtspP!OnRtp(player, done, beat)
      OBVIOUS
    <3>3. h = heard
      BY <1>4, <2>5 DEF Hear
    <3>4. m.frame
      BY <1>6, <2>3, <2>5 DEF Goes, Cmds, Commands, Ops
    <3>5. h = "playing"
      BY <1>5, <2>5, <3>3, <3>4 DEF IsFrame
    <3>6. Truthful(player, q, m, h)
      BY <1>1, <2>1, <3>2, <3>5, RtspFramesTruly
    <3>7. Sound(q)
      BY <1>2, <1>9, <2>1, <3>2, RtspReceives
    <3> QED
      BY <1>4, <3>1, <3>2, <3>3, <3>6, <3>7
  <2> QED
    BY <1>4, <1>9, <2>4, <2>5 DEF PlayerReads
<1> QED
  BY <1>8, <1>9

LEMMA TruthStep ==
  ASSUME PlayInv, InStep, Careful, Server, Rtsp => ~player.crossed, PlayerReads, player'.told # player.told
  PROVE  IF Last(player'.told) \in {"ok", "resume"} THEN heard' = "playing" ELSE ~Granted(Head(down))
<1>1. PICK m, h : m = Head(down) /\ h = Hear(heard, m)
  OBVIOUS
<1>2. PICK q : Sound(q) /\ PlayerIs(q, Tail(down), h) /\ Truthful(player, q, m, h)
  BY <1>1, ReadsTruly
<1>3. player' = [q EXCEPT !.out = <<>>] /\ heard' = IF q.link = "open" THEN h ELSE "none"
  BY <1>2 DEF PlayerIs
<1>4. DOMAIN q = PlayerMembers
  BY <1>2 DEF Sound
<1>5. player'.told = q.told
  BY <1>3, <1>4 DEF PlayerMembers, RtspMembers, RtmpMembers, BaseMembers
<1>6. \A x : Last(Append(player.told, x)) = x
  BY ToldSequence, ToldLast DEF Minds, Careful
<1>7. CASE Rises(player.told, q.told) /\ q.link = "open" /\ h = "playing"
  <2>1. Last(q.told) \in {"ok", "resume"}
    BY <1>6, <1>7 DEF Rises
  <2> QED
    BY <1>3, <1>5, <1>7, <2>1
<1>8. CASE Falls(player.told, q.told) /\ ~Granted(m)
  <2>1. Last(q.told) \in {"fail", "down"}
    BY <1>6, <1>8 DEF Falls
  <2>2. Last(q.told) \notin {"ok", "resume"}
    BY <2>1
  <2> QED
    BY <1>1, <1>5, <1>8, <2>2
<1> QED
  BY <1>2, <1>5, <1>7, <1>8 DEF Truthful

\* An owner is told of a success only of a play the server has granted, and of a failure, while a message is read,
\* only if that message is one: no good answer makes a play fail (onPlayResult_l of both players).
THEOREM TruthTold == Spec => TruthIsTold
<1> DEFINE A == Careful /\ Server /\ (Rtsp => ~player.crossed) /\ PlayerReads /\ player'.told # player.told =>
                  IF Last(player'.told) \in {"ok", "resume"} THEN heard' = "playing" ELSE ~Granted(Head(down))
<1>1. Spec => [](PlayInv /\ InStep)
  <2>1. Init => PlayInv /\ InStep
    BY PlayInvInit, InStepInit
  <2>2. PlayInv /\ InStep /\ [Next]_vars => (PlayInv /\ InStep)'
    BY PlayInvStep, InStepStep
  <2> QED
    BY <2>1, <2>2, PTL DEF Spec
<1>2. PlayInv /\ InStep /\ [Next]_vars => [A]_vars
  BY TruthStep
<1>3. Spec => [][A]_vars
  BY <1>1, <1>2, PTL DEF Spec
<1> QED
  BY <1>3 DEF TruthIsTold
=============================================================================
