----------------------------- MODULE RtmpMuxer -----------------------------
(***************************************************************************)
(* The way of a frame from the sink to the ring of an RTMP source, as      *)
(* operators on a record: RtmpMediaSourceMuxer.h (muxing on demand),       *)
(* H264Rtmp.cpp (frames of one time stamp are one packet),                 *)
(* RtmpMediaSource.h (the ring is made by the first packet).               *)
(***************************************************************************)
EXTENDS PacketCache

NoPacket == [stamp |-> -1]

MuxerInit(demand) ==
    SourceOf([demand |-> demand, enabled |-> TRUE, clear |-> FALSE, encoders |-> {}, last |-> NoPacket,
              meta |-> FALSE, config |-> {}])

Packet(f) == [video |-> f.track = "video", key |-> f.kind \in {"cfg", "idr"}, stamp |-> f.stamp,
              frames |-> IF f.kind = "cfg" THEN <<>> ELSE << f.n >>]

\* A muxer that stays off once it was told that nobody watches.
ReaderChangedLate(m, size) ==
    [m EXCEPT !.enabled = ~m.demand \/ (@ /\ size > 0), !.clear = @ \/ (m.demand /\ size = 0), !.nobody = size = 0]

\* The number of readers a muxer on demand is told; "nobody" asks for the close timer.
ReaderChanged(m, size) ==
    [m EXCEPT !.enabled = ~m.demand \/ size > 0, !.clear = @ \/ (m.demand /\ size = 0), !.nobody = size = 0]

OnWrite(m, p) ==
    LET m1 == [m EXCEPT !.haveVideo = @ \/ p.video]
    IN  InputPacket(IF m1.ring THEN m1 ELSE [ReaderChanged([m1 EXCEPT !.ring = TRUE], 0) EXCEPT !.registered = m1.meta], p)

Joined(p, q) == [p EXCEPT !.frames = @ \o q.frames]

\* Frames of a video track that have one time stamp are one packet, written when the next stamp begins.
EncodeVideo(m, f) ==
    LET done == m.last # NoPacket /\ m.last.stamp # f.stamp
        m1 == IF done THEN [OnWrite(m, m.last) EXCEPT !.last = NoPacket] ELSE m
    IN  [m1 EXCEPT !.last = IF m1.last = NoPacket THEN Packet(f) ELSE Joined(m1.last, Packet(f))]

MuxFrame(m, f) ==
    LET m1 == IF m.clear /\ m.demand THEN [m EXCEPT !.clear = FALSE, !.cache = <<>>] ELSE m
    IN  IF f.track \notin m1.encoders \/ (m1.demand /\ ~m1.enabled) THEN m1
        ELSE IF f.track = "video" THEN EncodeVideo(m1, f) ELSE OnWrite(m1, Packet(f))

MuxAddTrack(m, t) == [m EXCEPT !.encoders = @ \cup {t}]

\* A stream that is found before it has its configuration.
MuxAllTrackReadyEarly(m) == [m EXCEPT !.meta = TRUE, !.registered = m.ring]

MuxAllTrackReady(m) == [m EXCEPT !.config = m.encoders, !.meta = TRUE, !.registered = m.ring]

\* What the muxer does with an event of the sink.
MuxEvent(m, event) ==
    CASE event[1] = "ready" -> MuxAddTrack(m, event[2])
      [] event[1] = "all"   -> MuxAllTrackReady(m)
      [] event[1] = "frame" -> MuxFrame(m, event[2])
=============================================================================
