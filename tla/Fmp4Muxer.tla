----------------------------- MODULE Fmp4Muxer -----------------------------
(***************************************************************************)
(* The way of a frame from the sink to the ring of an fMP4 source, as      *)
(* operators on a record: MP4Muxer.cpp (video frames of one time stamp are *)
(* one sample, written when the next stamp begins, and each sample is a    *)
(* segment; audio is no track) and FMP4MediaSource.h.                      *)
(***************************************************************************)
EXTENDS PacketCache

Fmp4Init == SourceOf([tracks |-> {}, init |-> FALSE, cached |-> <<>>, lastKey |-> FALSE])

Fmp4AddTrack(m, t) == [m EXCEPT !.tracks = @ \cup ({t} \cap {"video"})]

\* The first segment, which describes the tracks, is there.
Fmp4AllTrackReady(m) == [m EXCEPT !.init = TRUE, !.registered = m.ring]

\* A sample's frames, whether it is marked as the start of a group of pictures, and whether its last frame is a key
\* frame; it has the stamp of the frame that comes after it.
Segment(sample, marked, f) ==
    [video |-> TRUE, key |-> marked, stamp |-> f.stamp, idr |-> sample # <<>> /\ Last(sample).kind = "idr",
     frames |-> LET real == SelectSeq(sample, LAMBDA g : g.kind # "cfg") IN [i \in DOMAIN real |-> real[i].n]]

Fmp4Write(m, p) ==
    LET m1 == IF m.ring THEN m ELSE [m EXCEPT !.ring = TRUE, !.nobody = TRUE, !.registered = m.init]
    IN  InputPacket([m1 EXCEPT !.haveVideo = @ \/ p.key], p)

\* The frames that are left to be written, and those that are written, when f comes in.
Cut(m, f) ==
    CASE f.track \notin m.tracks -> [cached |-> m.cached, sample |-> <<>>]
      [] f.track \in m.tracks /\ m.cached # <<>> /\ Last(m.cached).stamp # f.stamp -> [cached |-> << f >>, sample |-> m.cached]
      [] OTHER -> [cached |-> Append(m.cached, f), sample |-> <<>>]

\* A segment that is marked by the frame that comes in.
Fmp4FrameEager(m, f) ==
    LET cut == Cut(m, f)
        m1 == [m EXCEPT !.cached = cut.cached, !.lastKey = f.kind = "idr"]
    IN  IF m.init /\ cut.sample # <<>> THEN Fmp4Write(m1, Segment(cut.sample, f.kind = "idr", f)) ELSE m1

\* A segment is marked by the frame that came in before.
Fmp4Frame(m, f) ==
    LET cut == Cut(m, f)
        m1 == [m EXCEPT !.cached = cut.cached, !.lastKey = f.kind = "idr"]
    IN  IF ~m.init THEN m
        ELSE IF cut.sample = <<>> THEN m1
        ELSE Fmp4Write(m1, Segment(cut.sample, m.lastKey, f))

\* What the muxer does with an event of the sink.
Fmp4Event(m, event) ==
    CASE event[1] = "ready" -> Fmp4AddTrack(m, event[2])
      [] event[1] = "all"   -> Fmp4AllTrackReady(m)
      [] event[1] = "frame" -> Fmp4Frame(m, event[2])
=============================================================================
