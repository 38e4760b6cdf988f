---------------------------- MODULE RtspSession -----------------------------
(***************************************************************************)
(* RtspSession: the server's side of an RTSP connection, of a player or of *)
(* a publisher.  A session is a record; "live" is the instance of the      *)
(* stream's source that is registered, 0 for none.  Sent messages are in   *)
(* "out".  A session that shut down sends nothing more and is destroyed,   *)
(* and its reader and its published source with it.                        *)
(***************************************************************************)
EXTENDS Naturals, Sequences

CONSTANT Tracks

NewRtspSession ==
  [ open    |-> TRUE,
    cseq    |-> 0,        \* _cseq
    session |-> 0,        \* _sessionid: 0 is empty, a new one is drawn by counting
    setup   |-> <<>>,     \* _sdp_track: the _inited of each track
    over    |-> "none",   \* _rtp_type
    source  |-> 0,        \* _play_src
    reader  |-> 0,        \* _play_reader: the source it reads, 0 for null
    send    |-> FALSE,    \* _enable_send_rtp
    push    |-> FALSE,    \* _push_src
    own     |-> 0,        \* the instance _push_src is registered as
    look    |-> "no",     \* the look-up: no, wait, posted
    asked   |-> 0,        \* the CSeq the look-up was asked with
    late    |-> FALSE,    \* older than handshake_sec
    idle    |-> FALSE,    \* nothing received for keep_alive_sec
    out     |-> <<>> ]

Send(s, m) == IF s.open THEN [s EXCEPT !.out = Append(@, m)] ELSE s

Shutdown(s) == [s EXCEPT !.open = FALSE, !.look = "no", !.reader = 0, !.own = 0, !.push = FALSE]

\* sendRtspResponse; "to" and "cmd" are the request it really answers.
Reply(s, code, cmd, to) ==
  Send(s, [t |-> "reply", code |-> code, cseq |-> s.cseq, session |-> s.session,
           cmd |-> cmd, to |-> to])

Refuse(s, code, r) == Shutdown(Reply(s, code, r.cmd, r.cseq))

OtherSession(s, r) == r.session # s.session
-----------------------------------------------------------------------------
\* The second half of DESCRIBE, when the look-up has ended with the source.
Described(s, src) ==
  IF src = 0 THEN Shutdown(Reply(s, "404", "DESCRIBE", s.asked))
  ELSE LET q == [s EXCEPT !.look = "no", !.session = @ + 1, !.source = src,
                          !.setup = [i \in 1 .. Tracks |-> FALSE]]
       IN  Reply(q, "200", "DESCRIBE", s.asked)

\* handleReq_Describe with findAsync: at once, or when it is registered.
HandleReqDescribe(s, r, live) ==
  LET q == [s EXCEPT !.asked = r.cseq]
  IN  IF live # 0 THEN Described(q, live) ELSE [q EXCEPT !.look = "wait"]

HandleReqANNOUNCE(s, r, live) ==
  IF live # 0 THEN Refuse(s, "406", r)
  ELSE Reply([s EXCEPT !.session = @ + 1, !.push = TRUE, !.own = 0,
                       !.setup = [i \in 1 .. Tracks |-> FALSE]], "200", r.cmd, r.cseq)

HandleReqRECORD(s, r) ==
  IF s.setup = <<>> \/ OtherSession(s, r) THEN Refuse(s, "454", r)
  ELSE IF \E i \in DOMAIN s.setup : ~s.setup[i] THEN Shutdown(s)
  ELSE Reply(s, "200", r.cmd, r.cseq)

\* A track that is refused for its transport stays set up.
HandleReqSetup(s, r) ==
  IF r.track \notin DOMAIN s.setup THEN Shutdown(s)
  ELSE IF s.setup[r.track] /\ s.over # "UDP" THEN Shutdown(s)
  ELSE LET q == [s EXCEPT !.setup[r.track] = TRUE, !.over = r.over]
       IN  Reply(q, IF r.over = "TCP" THEN "200" ELSE "461", r.cmd, r.cseq)

\* The reader is attached by the first PLAY and kept by the ones that resume.
HandleReqPlay(s, r, live) ==
  IF s.setup = <<>> \/ OtherSession(s, r) THEN Refuse(s, "454", r)
  ELSE IF s.source = 0 \/ s.source # live THEN Refuse(s, "404", r)
  ELSE IF \E i \in DOMAIN s.setup : ~s.setup[i] THEN Shutdown(s)
  ELSE Reply([s EXCEPT !.send = TRUE, !.reader = IF @ = 0 THEN live ELSE @], "200", r.cmd, r.cseq)

\* Faulty form: the request is answered and media goes on.
HandleReqPauseNot(s, r) ==
  IF OtherSession(s, r) THEN Refuse(s, "454", r) ELSE Reply(s, "200", r.cmd, r.cseq)

HandleReqPause(s, r) ==
  IF OtherSession(s, r) THEN Refuse(s, "454", r)
  ELSE [Reply(s, "200", r.cmd, r.cseq) EXCEPT !.send = FALSE]

\* Faulty form: the sequence number of the request before is repeated.
OnRequestStale(s, r, live) ==
  LET q == [s EXCEPT !.idle = FALSE]
  IN  CASE r.cmd = "DESCRIBE" -> [HandleReqDescribe(q, r, live) EXCEPT !.cseq = r.cseq]
        [] r.cmd = "SETUP"    -> [HandleReqSetup(q, r) EXCEPT !.cseq = r.cseq]
        [] r.cmd = "PLAY"     -> [HandleReqPlay(q, r, live) EXCEPT !.cseq = r.cseq]
        [] r.cmd = "PAUSE"    -> [HandleReqPause(q, r) EXCEPT !.cseq = r.cseq]
        [] OTHER              -> [Reply(q, "200", r.cmd, r.cseq) EXCEPT !.cseq = r.cseq]

\* onRecv and onWholeRtspPacket
OnRequest(s, r, live) ==
  LET q == [s EXCEPT !.idle = FALSE, !.cseq = r.cseq]
  IN  CASE r.cmd = "DESCRIBE" -> HandleReqDescribe(q, r, live)
        [] r.cmd = "ANNOUNCE" -> HandleReqANNOUNCE(q, r, live)
        [] r.cmd = "RECORD"   -> HandleReqRECORD(q, r)
        [] r.cmd = "SETUP"    -> HandleReqSetup(q, r)
        [] r.cmd = "PLAY"     -> HandleReqPlay(q, r, live)
        [] r.cmd = "PAUSE"    -> HandleReqPause(q, r)
        [] r.cmd = "TEARDOWN" -> Refuse(q, "200", r)
        [] r.cmd \in {"OPTIONS", "GET_PARAMETER"} -> Reply(q, "200", r.cmd, r.cseq)
        [] OTHER              -> Refuse(q, "403", r)

\* A packet of a publisher: the first one registers its source, "fresh".
OnRtpPacket(s, fresh) ==
  LET q == [s EXCEPT !.idle = FALSE]
  IN  IF q.push /\ q.own = 0 THEN [q EXCEPT !.own = fresh] ELSE q
-----------------------------------------------------------------------------
\* The reader's callback: a packet of the source.
OnRead(s) == IF s.send THEN Send(s, [t |-> "media", frame |-> TRUE]) ELSE s

\* The source is gone: the reader was detached.
OnDetach(s) == Shutdown(s)

OnManager(s) ==
  IF s.late /\ s.session = 0 THEN Shutdown(s)
  ELSE IF s.push /\ s.idle THEN Shutdown(s) ELSE s
=============================================================================
