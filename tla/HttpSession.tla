---------------------------- MODULE HttpSession ----------------------------
(***************************************************************************)
(* HttpSession: one connection of a client that sends a request when the   *)
(* one before was answered, for a live stream (FLV or MP4, plain or over a *)
(* WebSocket) or for anything else, which the server's hook answers with a *)
(* body.  The session runs on one poller; the look-up of the stream, the   *)
(* sender of a body and the readiness of the socket are later events.      *)
(***************************************************************************)
EXTENDS Integers, Sequences, SequencesExt, FiniteSets

CONSTANTS Https,      \* the scenes: requests, the media of the stream, how much happens
          MaxBody,    \* bound of how often a body is looked at
          MaxDelta,   \* a larger step of a stamp is a jump (1000)
          SyncSpan    \* tracks further apart are not aligned (5000)

\* What a request asks for: "flv" and "mp4" are live streams.
Requests == [get : BOOLEAN, url : {"flv", "mp4", "other"}, ws : BOOLEAN, close : BOOLEAN, length : Nat]

ASSUME HttpsAssumption == \A c \in Https : c.requests \in Seq(Requests) /\ c.tracks \in SUBSET BOOLEAN
ASSUME StampAssumption == MaxDelta \in Nat \ {0} /\ SyncSpan \in Nat

VARIABLES
  case,      \* the scene
  http,      \* the session
  source,    \* the stream: "none", "on" or "gone", and the packets written to its ring
  sent,      \* what the session has sent
  asked,     \* how many requests it has sent
  more       \* how much may still happen
hvars == <<case, http, source, sent, asked, more>>

-----------------------------------------------------------------------------
\* What an HTTP player gets of an RTMP stream: Stamp revises the stamps of each track
\* to start at 0 (a stamp of 0 counts as none yet) and never go back, with audio aligned to video once, and FlvMuxer
\* writes the header, the metadata and the packets.  A packet is [video, stamp];
\* config packets have stamp 0.

\* delta: DeltaStamp's _last_stamp; sync: _sync_master is set.
NewStamp == [delta |-> 0, relative |-> 0, in |-> 0, out |-> 0, sync |-> FALSE]

\* Faulty form: a step back is taken as it is.
DeltaStampBack(s, dts) ==
  IF s.delta # 0 /\ dts - s.delta < MaxDelta THEN dts - s.delta ELSE 0

\* The step since the last stamp; 0 stands for "none yet", and a jump counts as no step.
DeltaStamp(s, dts) ==
  IF s.delta # 0 /\ dts >= s.delta /\ dts - s.delta < MaxDelta THEN dts - s.delta ELSE 0

\* revise_l2: the relative stamp moves with each new stamp.
Relative(s, dts) ==
  IF dts = s.in THEN s
  ELSE [s EXCEPT !.relative = @ + DeltaStamp(s, dts), !.delta = dts, !.in = dts]

\* revise_l: aligned with the master, once the master has a stamp.
AlignNever(s, master) == s
Align(s, master) ==
  IF ~s.sync \/ master.in = 0 THEN s
  ELSE LET diff == s.in - master.in
       IN  [s EXCEPT !.sync = FALSE,
                     !.relative = IF diff < SyncSpan /\ -diff < SyncSpan THEN master.relative + diff ELSE @]

\* revise: the stamp that goes out was taken before the alignment, and does not go back.
Revise(s, master, dts) ==
  LET r == Relative(s, dts)
  IN  [Align(r, master) EXCEPT !.out = IF r.relative < @ THEN @ ELSE r.relative]

\* The stamps of both tracks, audio (FALSE) and video (TRUE).
NewStamps == [v \in BOOLEAN |-> NewStamp]

\* syncTo, in start
SyncTo(st) == [st EXCEPT ![FALSE].sync = TRUE]

\* What is sent, as it is before onWrite frames it.
Plainly(what) == [what |-> what, frame |-> "none"]

\* onWriteRtmp, onWriteFlvTag: a tag with its revised stamp.
WriteRtmp(st, p) == [st EXCEPT ![p.video] = Revise(@, st[TRUE], p.stamp)]
Tag(st, p) == [what |-> "media", p |-> p, stamp |-> st[p.video].out, frame |-> "none"]

\* onWriteFlvHeader: the header tells the tracks that have a config packet.
FlvHeader(tracks, meta) ==
  << [what |-> "header", tracks |-> tracks, frame |-> "none"] >>
  \o (IF meta THEN << Plainly("meta") >> ELSE <<>>)
  \o SetToSeq({[what |-> "config", video |-> v, frame |-> "none"] : v \in tracks})
-----------------------------------------------------------------------------
NewHttp ==
  [open |-> TRUE, silent |-> FALSE, busy |-> FALSE, look |-> <<>>, content |-> FALSE, overWs |-> FALSE,
   fmp4Ws |-> FALSE, first |-> TRUE, reader |-> "none", read |-> 0, stamps |-> NewStamps,
   senders |-> <<>>, flush |-> 0, tasks |-> <<>>, out |-> <<>>]

HInit ==
  /\ case \in Https
  /\ http = [NewHttp EXCEPT !.open = case.requests # <<>>] /\ source = [state |-> "none", n |-> 0]
  /\ sent = <<>> /\ asked = 0 /\ more = case.more

HSpend(what) == more[what] > 0 /\ more' = [more EXCEPT ![what] = @ - 1]
-----------------------------------------------------------------------------
HeadOf(code, length) == [what |-> "head", code |-> code, length |-> length, frame |-> "none"]
Emit(h, item) == [h EXCEPT !.out = Append(@, item), !.silent = FALSE]
HShutdown(h) == [h EXCEPT !.open = FALSE, !.reader = "none", !.look = <<>>, !.tasks = <<>>, !.flush = 0, !.busy = FALSE]

\* onWrite: over a WebSocket a frame, text for the description of an MP4 stream, which comes first.
\* No item here begins with a brace and a quote, which onWrite drops or sends as text.
Write(h, item) ==
  IF ~h.overWs THEN Emit(h, item)
  ELSE [Emit(h, [item EXCEPT !.frame = IF h.fmp4Ws /\ h.first THEN "text" ELSE "binary"])
          EXCEPT !.first = @ /\ ~h.fmp4Ws]
WriteAll(h, items) == FoldLeft(Write, h, items)

\* HttpStringBody::readData: the whole body, each time.
HasMore(sender) == TRUE

\* AsyncSender::onSocketFlushed of sender i: the rest is read and sent in a task.
OnSocketFlushed(h, i) ==
  IF ~h.senders[i].done THEN [h EXCEPT !.tasks = Append(@, i)]
  ELSE IF h.senders[i].close THEN HShutdown(h) ELSE [h EXCEPT !.flush = 0]

\* sendResponse: the head, then the body, if any; without one the session may close.
SendHead(h, code, close, length) ==
  IF length <= 0 THEN Emit(h, HeadOf(code, length))
  ELSE OnSocketFlushed([Emit(h, HeadOf(code, length))
                          EXCEPT !.senders = Append(@, [close |-> close, done |-> FALSE, parts |-> 0]),
                                 !.flush = Len(h.senders) + 1], Len(h.senders) + 1)
SendResponse(h, code, close, length) ==
  LET r == SendHead(h, code, close, length)
  IN  IF length = 0 /\ close THEN HShutdown(r) ELSE r

\* onRequestData, in a task: unless the socket is busy, on to the next part.
OnRequestData(h, i, busy) ==
  IF HasMore(h.senders[i])
  THEN LET s == [Emit(h, Plainly("body")) EXCEPT !.senders[i].parts = @ + 1, !.busy = busy]
       IN  IF busy THEN s ELSE OnSocketFlushed(s, i)
  ELSE LET s == [h EXCEPT !.senders[i].done = TRUE, !.silent = FALSE]
       IN  IF ~h.busy /\ s.senders[i].close THEN HShutdown(s) ELSE s
-----------------------------------------------------------------------------
\* Faulty form: the media alone, without what describes them.
StartBare(h, kind) == [h EXCEPT !.reader = kind, !.read = case.key]

\* start, and the reader of an FMP4 ring: what comes before the media, then the reader.
Start(h, kind) ==
  LET before == IF kind = "flv" THEN FlvHeader(case.tracks, TRUE)
                ELSE (IF h.fmp4Ws THEN << Plainly("mime") >> ELSE <<>>) \o << Plainly("init") >>
  IN  [WriteAll(h, before) EXCEPT !.reader = kind, !.read = case.key,
                                  !.stamps = IF kind = "flv" THEN SyncTo(@) ELSE @]

\* Faulty form: a WebSocket is not upgraded.
FoundPlain(h, l) == Start(SendResponse(h, "200", FALSE, -1), l.kind)
\* The answer to a look-up: the head of a stream that does not end, or 404.
Found(h, l) ==
  IF l.ws THEN Start(SendResponse([h EXCEPT !.overWs = TRUE], "101", FALSE, -1), l.kind)
  ELSE Start(SendResponse(h, "200", FALSE, -1), l.kind)

NotFound(h, l) == SendResponse(h, "404", l.close, 1)

CheckLiveStream(h, r) ==
  LET l == [kind |-> r.url, ws |-> r.ws, close |-> r.close]
  IN  IF source.state = "on" THEN Found(h, l) ELSE [h EXCEPT !.look = <<l>>]

\* Handle_Req_GET, checkWebSocket: after an upgrade the rest is content.
HandleReqGET(h, r) ==
  LET w == [h EXCEPT !.content = @ \/ r.ws, !.fmp4Ws = @ \/ (r.ws /\ r.url # "flv")]
  IN  CASE r.url # "other"         -> CheckLiveStream(w, r)
        [] r.url = "other" /\ r.ws -> SendResponse(w, "501", TRUE, 0)
        [] OTHER                   -> SendResponse(w, "hook", TRUE, r.length)

OnRecvHeader(h, r) ==
  IF ~r.get THEN SendResponse(h, "405", TRUE, 0) ELSE HandleReqGET(h, r)
-----------------------------------------------------------------------------
\* The session has done something.
HttpDoes(h) ==
  /\ http' = [h EXCEPT !.out = <<>>]
  /\ sent' = sent \o h.out
  /\ UNCHANGED case

Heads == Cardinality({i \in DOMAIN sent : sent[i].what = "head"})

\* The client has the answer and its body, and is not watching a stream.
Answered ==
  /\ Heads = asked /\ http.reader = "none"
  /\ \A i \in DOMAIN http.senders : http.senders[i].parts > 0

Asks ==
  /\ http.open /\ asked < Len(case.requests) /\ Answered /\ ~http.content
  /\ asked' = asked + 1
  /\ HttpDoes(OnRecvHeader([http EXCEPT !.silent = FALSE], case.requests[asked + 1]))
  /\ UNCHANGED <<source, more>>

\* The stream is found, or the time-out passes (findAsync).
LookEnds ==
  /\ http.look # <<>>
  /\ \/ source.state = "on" /\ HttpDoes(Found([http EXCEPT !.look = <<>>], Head(http.look)))
     \/ HttpDoes(NotFound([http EXCEPT !.look = <<>>], Head(http.look)))
  /\ UNCHANGED <<source, asked, more>>

SenderTask ==
  /\ http.tasks # <<>> /\ http.senders[Head(http.tasks)].parts < MaxBody
  /\ \E busy \in BOOLEAN : HttpDoes(OnRequestData([http EXCEPT !.tasks = Tail(@)], Head(http.tasks), busy))
  /\ UNCHANGED <<source, asked, more>>

\* The kernel has taken everything: Socket::onFlushed.
Flushed ==
  /\ http.busy
  /\ LET h == [http EXCEPT !.busy = FALSE] IN HttpDoes(IF h.flush = 0 THEN h ELSE OnSocketFlushed(h, h.flush))
  /\ UNCHANGED <<source, asked, more>>

\* The reader is given the next group of the ring, from the last key packet on.
Reads ==
  /\ http.reader # "none" /\ http.read < source.n
  /\ LET p == case.media[http.read + 1]
         h == [http EXCEPT !.read = @ + 1, !.stamps = IF http.reader = "flv" THEN WriteRtmp(@, p) ELSE @]
     IN  HttpDoes(Write(h, Tag(h.stamps, p)))
  /\ UNCHANGED <<source, asked, more>>

\* setDetachCB of either reader: its ring is gone.
Detached ==
  /\ http.reader # "none" /\ source.state = "gone" /\ http.read = source.n
  /\ HttpDoes(HShutdown(http)) /\ UNCHANGED <<source, asked, more>>

HOnManager ==
  /\ http.open /\ http.silent
  /\ HttpDoes(HShutdown(http)) /\ UNCHANGED <<source, asked, more>>

\* onWebSocketDecodeComplete: the close frame is echoed; others are ignored.
ClosesWebSocket ==
  /\ http.open /\ http.overWs /\ HSpend("closes")
  /\ HttpDoes(HShutdown(Emit(http, [what |-> "close", frame |-> "close"])))
  /\ UNCHANGED <<source, asked>>

PeerCloses ==
  /\ http.open /\ HSpend("closes")
  /\ HttpDoes(HShutdown(http)) /\ UNCHANGED <<source, asked>>
-----------------------------------------------------------------------------
\* Fifteen seconds without a byte either way.
FallsSilent ==
  /\ http.open /\ ~http.silent /\ http.tasks = <<>> /\ http' = [http EXCEPT !.silent = TRUE]
  /\ UNCHANGED <<case, source, sent, asked, more>>

SourceStarts ==
  /\ source.state = "none" /\ case.media # <<>>
  /\ \E n \in case.key .. Len(case.media) : source' = [state |-> "on", n |-> n]
  /\ UNCHANGED <<case, http, sent, asked, more>>
SourceWritesMore ==
  /\ source.state = "on" /\ source.n < Len(case.media) /\ source' = [source EXCEPT !.n = @ + 1]
  /\ UNCHANGED <<case, http, sent, asked, more>>
SourceEnds ==
  /\ source.state = "on" /\ source' = [source EXCEPT !.state = "gone"]
  /\ UNCHANGED <<case, http, sent, asked, more>>

HttpLoop == SenderTask \/ Flushed \/ Reads \/ Detached \/ HOnManager
HNext ==
  \/ Asks \/ LookEnds \/ HttpLoop \/ ClosesWebSocket \/ PeerCloses
  \/ FallsSilent \/ SourceStarts \/ SourceWritesMore \/ SourceEnds

HFair == WF_hvars(HttpLoop) /\ WF_hvars(LookEnds) /\ WF_hvars(FallsSilent)
HSpec == HInit /\ [][HNext]_hvars /\ HFair
-----------------------------------------------------------------------------
Stream == [header |-> 1, mime |-> 1, meta |-> 2, init |-> 2, config |-> 3, media |-> 4]
InStream == {i \in DOMAIN sent : sent[i].what \in DOMAIN Stream}
Upgraded(i) == \E j \in 1 .. i - 1 : sent[j].what = "head" /\ sent[j].code = "101"

\* What a client receives makes sense whatever it asked before and whenever the stream
\* is found: a stream follows its own head (checkLiveStream), and its description and
\* configuration come once and before the media (start, checkLiveStreamFMP4).
HeadsFirst ==
  /\ Heads <= asked
  /\ \A i \in InStream : \E j \in 1 .. i - 1 :
       /\ sent[j].what = "head" /\ sent[j].code \in {"200", "101"}
       /\ \A k \in j + 1 .. i : sent[k].what # "head"
  /\ \A i \in InStream : sent[i].what = "media" =>
       \E j \in 1 .. i - 1 : sent[j].what \in {"header", "init"}
  /\ \A i, j \in InStream : i < j =>
       LET a == Stream[sent[i].what]  b == Stream[sent[j].what]
       IN  a <= b /\ (a = b => a \in {3, 4})

\* After an upgrade everything but a body is a WebSocket frame, and nothing before it is;
\* the one text frame is the description of an MP4 stream (onWrite).  The body of an
\* earlier answer goes past onWrite and is never at its end (HttpBody.cpp:13): it goes
\* on, raw, among the frames.
FramesFollowUpgrade ==
  \A i \in DOMAIN sent :
    /\ (sent[i].frame # "none") = (Upgraded(i) /\ sent[i].what # "body")
    /\ (sent[i].frame = "text") = (sent[i].what = "mime")

\* The stamps of an FLV stream: video keeps the pace of its source and stands still at
\* a jump, and behind a stamp of 0; no track goes back; and once audio was aligned, both are as far apart as
\* they are in the source (Stamp::revise, revise_l, deltaStamp).
Pace(d) == IF d >= 0 /\ d < MaxDelta THEN d ELSE 0
Tags(v) == SelectSeq(sent, LAMBDA x : x.what = "media" /\ x.p.video = v)
Uneven(ps) == \E i, j \in DOMAIN ps : i < j /\ ps[j].stamp - ps[i].stamp # 0 /\ ps[i].video = ps[j].video /\
                (\A k \in i + 1 .. j - 1 : ps[k].video # ps[i].video) /\ Pace(ps[j].stamp - ps[i].stamp) = 0
StampsKeepPace ==
  http.reader = "flv" =>
    LET vs == Tags(TRUE)  as == Tags(FALSE)  st == http.stamps
        late == \E i, j \in DOMAIN sent : i < j /\ sent[i] \in Range(vs) /\ sent[j] \in Range(as)
    IN  /\ \A i \in 1 .. Len(vs) - 1 : vs[i + 1].stamp - vs[i].stamp = IF vs[i].p.stamp = 0 THEN 0 ELSE Pace(vs[i + 1].p.stamp - vs[i].p.stamp)
        /\ \A i \in 1 .. Len(as) - 1 : as[i + 1].stamp >= as[i].stamp
        /\ late /\ ~Uneven(case.media) /\ (\A v \in BOOLEAN : st[v].out = st[v].relative) =>
             LET diff == st[FALSE].in - st[TRUE].in
             IN  diff < SyncSpan /\ -diff < SyncSpan => st[FALSE].out - st[TRUE].out = diff

\* A request without its answer, or a session whose stream is gone.
HttpWaits ==
  \/ http.open /\ Heads < asked
  \/ http.reader # "none" /\ source.state = "gone"

\* What a client is sent is in step with what it asked for: heads and frames
\* (checkLiveStream, sendResponse, onWrite).
HttpInStep == HeadsFirst /\ FramesFollowUpgrade

\* A body is sent once and has the length its head announces: the file is read to its
\* end, its sender is told to send on while there is more, and the length is fixed
\* (the comments of AsyncSender and sendResponse).
BodyIsLength == \A i \in DOMAIN http.senders : http.senders[i].parts <= 1
=============================================================================
