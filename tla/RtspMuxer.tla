----------------------------- MODULE RtspMuxer -----------------------------
(***************************************************************************)
(* The way of a frame from the sink to the ring of an RTSP source, as      *)
(* operators on a record: RtspMuxer.cpp (an encoder and a part of the SDP  *)
(* per track), H264Rtp.cpp and AACRtp.cpp (the packets of a frame) and     *)
(* RtspMediaSource.h.  A key frame exceeds the MTU and is sent in two      *)
(* fragments; the other frames are single packets.                         *)
(***************************************************************************)
EXTENDS PacketCache

RtspInit == SourceOf([encoders |-> {}, parts |-> <<>>, sdp |-> <<>>])

RtspAddTrack(m, t) == [m EXCEPT !.encoders = @ \cup {t}, !.parts = Append(@, t)]

\* An SDP is a sequence of tracks.
SetSdp(m, parts) == [m EXCEPT !.sdp = parts, !.haveVideo = \E i \in DOMAIN parts : parts[i] = "video", !.registered = m.ring]

RtspAllTrackReady(m) == SetSdp(m, m.parts)

RtpPacket(f, what, key) ==
    [video |-> TRUE, key |-> key, stamp |-> f.stamp, what |-> what, frames |-> IF what \in {"idr", "p"} THEN << f.n >> ELSE <<>>]

\* An encoder for which only a key frame's first fragment is the start of a group of pictures.
RtpPacketsBare(f) ==
    CASE f.kind = "cfg" -> << RtpPacket(f, "sps", FALSE), RtpPacket(f, "pps", FALSE) >>
      [] f.kind = "idr" -> << RtpPacket(f, "idr", TRUE), RtpPacket(f, "rest", FALSE) >>
      [] f.kind = "p"   -> << RtpPacket(f, "p", FALSE) >>
      [] f.kind = "a"   -> <<>>

\* The parameter sets and a key frame's first fragment start a group of pictures.  AACRtpEncoder sends nothing.
RtpPackets(f) ==
    CASE f.kind = "cfg" -> << RtpPacket(f, "sps", TRUE), RtpPacket(f, "pps", TRUE) >>
      [] f.kind = "idr" -> << RtpPacket(f, "idr", TRUE), RtpPacket(f, "rest", FALSE) >>
      [] f.kind = "p"   -> << RtpPacket(f, "p", FALSE) >>
      [] f.kind = "a"   -> <<>>

RtspWrite(m, p) ==
    InputPacket(IF m.ring THEN m ELSE [m EXCEPT !.ring = TRUE, !.nobody = TRUE, !.registered = m.sdp # <<>>], p)

\* One packet after the other.
RtspWrites(m, ps) ==
    LET after[i \in 0 .. Len(ps)] == IF i = 0 THEN m ELSE RtspWrite(after[i - 1], ps[i])
    IN  after[Len(ps)]

RtspFrame(m, f) == IF f.track \in m.encoders THEN RtspWrites(m, RtpPackets(f)) ELSE m

\* What the muxer does with an event of the sink.
RtspEvent(m, event) ==
    CASE event[1] = "ready" -> RtspAddTrack(m, event[2])
      [] event[1] = "all"   -> RtspAllTrackReady(m)
      [] event[1] = "frame" -> RtspFrame(m, event[2])
=============================================================================
