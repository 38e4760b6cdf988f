------------------------------- MODULE MCPlay -------------------------------
(***************************************************************************)
(* The scenes of the players of RTSP and RTMP (Play): careful and hasty    *)
(* owners, streams whose description tells all of their tracks or some, a  *)
(* transport the server refuses, a server that is another, and clients     *)
(* that send what they like; and those of a viewer over HTTP (HttpSession):*)
(* streams found at once, later or never, over a WebSocket or not, whose   *)
(* stamps are steady, jump, or start far apart, and requests before.  In a *)
(* scene of one kind the other rests, and has nothing to do.               *)
(***************************************************************************)
EXTENDS Play, HttpSession

Left(plays, ops, media, keeps, requests) ==
  [plays |-> plays, ops |-> ops, media |-> media, keeps |-> keeps, requests |-> requests]

Usual == [kind |-> "rtsp", client |-> "player", server |-> "session", over |-> "TCP", sdp |-> "all",
          hasty |-> FALSE, auth |-> FALSE, left |-> Left(1, 2, 2, 1, 0)]

PlayScenes ==
  { Usual,
    [Usual EXCEPT !.left = Left(2, 1, 1, 0, 0)],
    [Usual EXCEPT !.sdp = "some", !.left = Left(1, 1, 2, 1, 0)],
    [Usual EXCEPT !.over = "UDP", !.left = Left(1, 1, 1, 0, 0)],
    [Usual EXCEPT !.hasty = TRUE, !.left = Left(1, 2, 1, 0, 0)],
    [Usual EXCEPT !.server = "other", !.left = Left(1, 0, 6, 0, 0)],
    [Usual EXCEPT !.kind = "rtmp", !.left = Left(2, 2, 1, 1, 0)],
    [Usual EXCEPT !.kind = "rtmp", !.auth = TRUE, !.left = Left(1, 1, 1, 0, 0)],
    [Usual EXCEPT !.kind = "rtmp", !.hasty = TRUE, !.left = Left(1, 2, 0, 0, 0)],
    [Usual EXCEPT !.kind = "rtmp", !.server = "other", !.left = Left(1, 1, 5, 0, 0)],
    [Usual EXCEPT !.client = "any", !.left = Left(0, 0, 1, 0, 4)],
    [Usual EXCEPT !.kind = "rtmp", !.client = "any", !.auth = TRUE, !.left = Left(0, 0, 0, 0, 3)],
    [Usual EXCEPT !.kind = "rtmp", !.client = "any", !.left = Left(0, 0, 1, 0, 3)] }

Get(url, ws, close) == [get |-> TRUE, url |-> url, ws |-> ws, close |-> close, length |-> 1]
Post  == [Get("other", FALSE, FALSE) EXCEPT !.get = FALSE]
Vid(s) == [video |-> TRUE, stamp |-> s]
Aud(s) == [video |-> FALSE, stamp |-> s]
Steady == << Vid(5), Aud(7), Vid(9), Aud(10), Vid(13), Aud(13) >>
Jumpy  == << Vid(5), Aud(1), Vid(30), Aud(3), Vid(2), Aud(5), Vid(4), Aud(2), Vid(5) >>
Zero   == << Vid(0), Aud(0), Vid(4), Aud(3), Vid(7), Aud(7), Vid(0), Vid(2) >>
Apart  == << Aud(90), Vid(5), Aud(92), Vid(7), Aud(94), Vid(9) >>

Web(rs, tracks, media, key) ==
  [requests |-> rs, tracks |-> tracks, media |-> media, key |-> key, more |-> [closes |-> 1]]
HttpScenes ==
  { Web(<<Get("flv", w, FALSE)>>, {TRUE, FALSE}, m, k) : w \in BOOLEAN, m \in {Steady, Jumpy}, k \in {0, 2} }
  \cup { Web(<<Get("flv", FALSE, FALSE)>>, {TRUE, FALSE}, Zero, 0),
         Web(<<Get("other", FALSE, FALSE), Get("flv", TRUE, FALSE)>>, {TRUE}, Steady, 2) }
  \cup { Web(<<Get("mp4", w, c)>>, {TRUE}, Steady, 0) : w, c \in BOOLEAN }
  \cup { Web(<<r, Get("flv", FALSE, FALSE)>>, {TRUE}, Apart, 0) :
           r \in {Post, Get("other", TRUE, FALSE), Get("other", FALSE, FALSE), Get("mp4", FALSE, FALSE)} }

\* Nothing happens in these.
NoPlay == [Usual EXCEPT !.left = Left(0, 0, 0, 0, 0)]
NoWeb  == Web(<<>>, {}, <<>>, 0)
AllPlays == PlayScenes \cup {NoPlay}
AllHttps == HttpScenes \cup {NoWeb}

AllInit == Init /\ HInit /\ (scene = NoPlay) # (case = NoWeb)
AllNext == (case = NoWeb /\ Next /\ UNCHANGED hvars) \/ (scene = NoPlay /\ HNext /\ UNCHANGED vars)
AllSpec == AllInit /\ [][AllNext]_<<vars, hvars>> /\ Fair /\ HFair

\* What a viewer over HTTP is sent is in step with the clock of its source
\* (Stamp::revise), and players and sessions hold what they may.
ViewersInStep == TypeOK /\ StampsKeepPace

\* Nobody waits for ever: plays are decided (the play timers); a session without a
\* use, over any of the three protocols, is closed; and an HTTP request is answered
\* though its stream may never come (setDetachCB, onManager, findAsync).
Idles == Useless \/ HttpWaits
ViewersServed == PlayIsDecided /\ (Idles ~> ~Idles)
=============================================================================
