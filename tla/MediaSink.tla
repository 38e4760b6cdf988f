----------------------------- MODULE MediaSink -----------------------------
(***************************************************************************)
(* The sink of Common/MediaSink.cpp as operators on a record: it keeps the *)
(* frames of a stream until each track has what a player needs to start    *)
(* (the parameter sets of a video track, the configuration of an audio     *)
(* track), and tells the protocols of MultiMediaSourceMuxer.cpp with the   *)
(* events of "out".  The parameter sets of H.264 are one frame "cfg" here. *)
(* A sink's time is the number of ticks since it began.                    *)
(***************************************************************************)
EXTENDS Integers, FiniteSets, Functions, SequencesExt

CONSTANTS WaitReady, WaitAdd

TrackNames == {"video", "audio"}
Kinds == {"cfg", "idr", "p", "a"}

\* A track a frame passes through: what it knows, and what it adds.
NewTrack(ready) == [ready |-> ready, lastIdr |-> FALSE]

TrackOutput(tr, f) ==
    IF f.kind = "cfg" THEN <<>>
    ELSE IF f.kind = "idr" /\ tr.ready /\ ~tr.lastIdr THEN << [f EXCEPT !.kind = "cfg"], f >>
    ELSE << f >>

TrackAfter(tr, f) == [ready |-> tr.ready \/ f.kind \in {"cfg", "a"}, lastIdr |-> f.kind = "idr"]

SinkInit == [tracks |-> <<>>, callback |-> {}, unread |-> [t \in TrackNames |-> <<>>], allReady |-> FALSE,
             since |-> 0, max |-> 1, out |-> <<>>]

ReadyTracks(s) == { t \in DOMAIN s.tracks : s.tracks[t].ready }

Events(what, items) == [i \in 1 .. Len(items) |-> << what, items[i] >>]

\* Tracks that did not get ready are dropped; what the others brought so far goes out, track by track.
EmitAllTrackReady(s) ==
    LET left == IF s.callback = {} THEN s.tracks ELSE Restrict(s.tracks, ReadyTracks(s))
        Unread(t) == IF t \in DOMAIN left THEN s.unread[t] ELSE <<>>
        waiting == Unread("audio") \o Unread("video")
        kept == [s EXCEPT !.tracks = left, !.callback = {}]
    IN  IF DOMAIN left = {} THEN kept
        ELSE [kept EXCEPT !.allReady = TRUE, !.unread = [t \in TrackNames |-> <<>>],
                          !.out = @ \o << << "all", "" >> >> \o Events("frame", waiting)]

\* A sink that tells of a ready track at every check.
NotifiedAgain(s) ==
    LET new == s.callback \cap ReadyTracks(s)
    IN  IF s.allReady THEN s ELSE [s EXCEPT !.out = @ \o Events("ready", SetToSeq(new))]

Notified(s) ==
    LET new == s.callback \cap ReadyTracks(s)
    IN  IF s.allReady THEN s ELSE [s EXCEPT !.callback = @ \ new, !.out = @ \o Events("ready", SetToSeq(new))]

\* A check without the time-outs.
CheckTrackIfReadyPatient(s0, now) ==
    LET s == Notified(s0)
        size == Cardinality(DOMAIN s.tracks)
    IN  IF ~s.allReady /\ s.callback = {} /\ size = s.max THEN EmitAllTrackReady(s) ELSE s

CheckTrackIfReady(s0, now) ==
    LET s == Notified(s0)
        size == Cardinality(DOMAIN s.tracks)
        waited == now - s.since
    IN  IF /\ ~s.allReady
           /\ \/ waited > WaitReady
              \/ s.callback = {} /\ size = s.max
              \/ s.callback = {} /\ size = 1 /\ waited > WaitAdd
        THEN EmitAllTrackReady(s) ELSE s

\* Tracks made anew, each with whether it is ready, beside those there are.
Remade(tracks, ready) ==
    [t \in DOMAIN tracks \cup DOMAIN ready |-> IF t \in DOMAIN ready THEN NewTrack(ready[t]) ELSE tracks[t]]

\* addTrack, once for each.
AddTracks(s, ready, now) ==
    IF s.allReady \/ DOMAIN ready = {} THEN s
    ELSE [s EXCEPT !.tracks = Remade(@, ready), !.callback = @ \cup DOMAIN ready, !.since = now]

AddTrack(s, t, ready, now) == AddTracks(s, [u \in {t} |-> ready], now)

AddTrackCompleted(s, now) == CheckTrackIfReady([s EXCEPT !.max = Cardinality(DOMAIN s.tracks)], now)

\* A frame of a track that is not (or no longer) there is dropped.
SinkFrame(s, f, now) ==
    IF f.track \notin DOMAIN s.tracks THEN s
    ELSE LET tr == s.tracks[f.track]
             frames == TrackOutput(tr, f)
             put == [s EXCEPT !.tracks[f.track] = TrackAfter(tr, f)]
         IN  CheckTrackIfReady(IF s.allReady THEN [put EXCEPT !.out = @ \o Events("frame", frames)]
                               ELSE [put EXCEPT !.unread[f.track] = @ \o frames], now)

\* One frame after the other.
SinkFrames(s, frames, now) ==
    LET after[i \in 0 .. Len(frames)] == IF i = 0 THEN s ELSE SinkFrame(after[i - 1], frames[i], now)
    IN  after[Len(frames)]
=============================================================================
