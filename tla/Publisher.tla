----------------------------- MODULE Publisher -----------------------------
(***************************************************************************)
(* A stream that comes over RTMP or RTSP instead of from a device: what is *)
(* received goes into the source of its own protocol as it is, and through *)
(* a demuxer (RtmpDemuxer.cpp, RtspDemuxer.cpp) and the tracks it makes    *)
(* into the sink, for the other protocols.  The operators take and give a  *)
(* record k of the publisher, the sink and the frames that passed to it.   *)
(* A published packet is like a frame, of kind "cfg" (a configuration      *)
(* packet, or SPS and PPS), "idr", "p" or "a"; over RTSP a key frame comes *)
(* in two fragments, "idr" and "rest".                                     *)
(***************************************************************************)
EXTENDS MediaSink, RtmpMuxer, RtspMuxer

\* The demuxer's tracks, whether its audio decoder has a configuration, the key frame of which one fragment came
\* (0 for none), whether the session and the source have metadata, and which tracks the metadata describes.
PublisherInit(origin) ==
    [origin |-> origin, own |-> <<>>, aac |-> FALSE, open |-> 0, setMeta |-> FALSE, recreate |-> FALSE, described |-> {}]

\* Tracks and their decoders are made anew, and added to the sink again.
MakeTracks(k, ready, now) ==
    LET aac == IF "audio" \in DOMAIN ready THEN ready["audio"] ELSE k.pub.aac
    IN  [k EXCEPT !.pub = [k.pub EXCEPT !.own = Remade(@, ready), !.aac = aac],
                  !.sink = AddTracks(@, ready, now)]

MakeTrack(k, t, ready, now) == MakeTracks(k, [u \in {t} |-> ready], now)

\* What a decoder gives passes the demuxer's track, then the sink's.
Decoded(k, f, now) ==
    LET tr == k.pub.own[f.track]
        frames == TrackOutput(tr, f)
    IN  [k EXCEPT !.pub.own[f.track] = TrackAfter(tr, f), !.passed = @ \o frames, !.sink = SinkFrames(@, frames, now)]

-----------------------------------------------------------------------------
\* Metadata without a codec is made again when the tracks are ready.
LoadMetaData(k, tracks, now) ==
    LET m == MakeTracks(k, [t \in tracks |-> FALSE], now)
    IN  [m EXCEPT !.pub = [m.pub EXCEPT !.setMeta = TRUE, !.recreate = @ \/ tracks = {}, !.described = tracks]]

\* Audio without a configuration is dropped.
AACRtmpDecode(k, p, now) ==
    LET k1 == [k EXCEPT !.pub.aac = k.pub.aac \/ p.kind = "cfg"]
    IN  IF k1.pub.aac THEN Decoded(k1, p, now) ELSE k1

RtmpDecode(k, p, now) == IF p.track = "audio" THEN AACRtmpDecode(k, p, now) ELSE Decoded(k, p, now)

\* A demuxer that makes a track for every configuration packet.
InputRtmpAnew(k0, p, now) ==
    LET k == RtmpDecode(IF p.track \in DOMAIN k0.pub.own THEN k0 ELSE MakeTrack(k0, p.track, FALSE, now), p, now)
    IN  IF p.kind = "cfg" THEN MakeTrack(k, p.track, FALSE, now) ELSE k

\* The first packet makes the track if no metadata did.
InputRtmp(k0, p, now) ==
    RtmpDecode(IF p.track \in DOMAIN k0.pub.own THEN k0 ELSE MakeTrack(k0, p.track, FALSE, now), p, now)

\* The first packet with media sets metadata if the publisher did not.
OnRtmpChunk(k, p, now) ==
    InputRtmp(IF k.pub.setMeta \/ p.kind = "cfg" THEN k ELSE LoadMetaData(k, {}, now), p, now)

SetMetaData(m) == [m EXCEPT !.meta = TRUE, !.registered = m.ring]

\* Configuration packets are kept, the others go to the ring.
PublishRtmp(m, p) ==
    IF p.kind = "cfg" THEN [m EXCEPT !.config = @ \cup {p.track}, !.haveVideo = @ \/ p.track = "video"]
    ELSE OnWrite(m, Packet(p))

-----------------------------------------------------------------------------
\* The tracks of an SDP, each with whether it has its parameter sets or configuration there.
LoadSdp(k, tracks, now) == MakeTracks(k, tracks, now)

\* A key frame comes out of the decoder with its last fragment.
InputRtp(k, p, now) ==
    CASE p.track \notin DOMAIN k.pub.own -> k
      [] p.track \in DOMAIN k.pub.own /\ p.kind = "idr" -> [k EXCEPT !.pub.open = p.n]
      [] p.track \in DOMAIN k.pub.own /\ p.kind = "rest" ->
            [Decoded(k, [p EXCEPT !.kind = "idr", !.n = k.pub.open], now) EXCEPT !.pub.open = 0]
      [] OTHER -> Decoded(k, p, now)

\* A source that takes every packet of a key frame for its start.
PublishRtpMarked(m, p) ==
    LET what == IF p.kind = "cfg" THEN "sps" ELSE p.kind
    IN  RtspWrite(m, [RtpPacket(p, what, p.kind \in {"cfg", "idr", "rest"}) EXCEPT !.video = p.track = "video",
                                    !.frames = IF p.kind \in {"idr", "p", "a"} THEN << p.n >> ELSE <<>>])

\* The demuxer tells whether a packet is the start of a key frame or of parameter sets.
PublishRtp(m, p) ==
    LET what == IF p.kind = "cfg" THEN "sps" ELSE p.kind
    IN  RtspWrite(m, [RtpPacket(p, what, p.kind \in {"cfg", "idr"}) EXCEPT !.video = p.track = "video",
                                    !.frames = IF p.kind \in {"idr", "p", "a"} THEN << p.n >> ELSE <<>>])
=============================================================================
