------------------------------- MODULE Muxer -------------------------------
(***************************************************************************)
(* One live stream: the thread of a device adds tracks and inputs the      *)
(* frames of a scene, or that of a publisher's session receives metadata,  *)
(* an SDP and packets.  The sink and the muxers of the protocols (all      *)
(* three, or those the stream does not come by) work in that thread,       *)
(* players come and go on the pollers of their sessions, and the timer of  *)
(* MediaSourceEvent::onReaderChanged tells the server that nobody watches. *)
(* Only RTMP is muxed on demand.  A change of a ring's readers takes three *)
(* steps of its poller: it counts, it reads the count, and it reports it.  *)
(***************************************************************************)
EXTENDS Publisher, Fmp4Muxer

CONSTANTS
    Scenes,         \* the sequences of calls a device or a publisher makes, each with the muxer's configuration
    Homes,          \* the pollers that readers of a ring are on
    NoneReader,     \* the time nobody has to watch, in ticks
    MaxTime         \* bound of the time

ASSUME MuxerAssumption ==
    /\ MaxTime \in Nat
    /\ NoneReader \in Nat \ {0} /\ WaitReady \in Nat /\ WaitAdd \in Nat
    /\ DOMAIN Homes \subseteq {"rtmp", "rtsp", "fmp4"} /\ \A r \in DOMAIN Homes : IsFiniteSet(Homes[r])

\* What a device calls, and what a publisher sends, by the protocol a stream comes by; an SDP has tracks.
Calls(origin) ==
    CASE origin = "none" -> [call : {"add"}, track : TrackNames, ready : BOOLEAN] \cup [call : {"completed"}]
                            \cup [call : {"frame"}, track : TrackNames, kind : Kinds, ahead : Int]
      [] origin = "rtmp" -> [call : {"metadata"}, tracks : SUBSET TrackNames]
                            \cup [call : {"packet"}, track : TrackNames, kind : Kinds]
      [] origin = "rtsp" -> [call : {"sdp"}, tracks : UNION {[T -> BOOLEAN] : T \in (SUBSET TrackNames) \ {{}}}]
                            \cup [call : {"packet"}, track : TrackNames, kind : Kinds \cup {"rest"}]

ASSUME SceneAssumption ==
    \A s \in Scenes : /\ s.origin \in {"none", "rtmp", "rtsp"} /\ s.demand \in BOOLEAN /\ s.changes \in Nat
                      /\ s.calls \in Seq(Calls(s.origin))

VARIABLES
    sink, rtmp, rtsp, fmp4,
    pub,            \* the demuxer and the session of a publisher
    rest,           \* what the device or the publisher still does
    now,
    readers,        \* the pairs of a ring and a poller that have a reader
    pending,        \* what a poller is in the middle of reporting
    timer,          \* when _async_close_timer fires
    changes,        \* how often players still come or go: bounded by the scene
    \* what the properties look back at
    sent,           \* what a publisher sent, by track: frames, 0 for a configuration, -1 for a track made anew without one
    taken,          \* the frames the sink took, by track
    checked,        \* the last time the sink looked at its tracks after one was added
    completed,      \* addTrackCompleted was called
    quiet,          \* since when nothing happened to the readers
    noticed         \* the server was told since then

sources == << rtmp, rtsp, fmp4 >>
device == << sink, sources, pub, rest, sent, taken, checked, completed >>
vars == << device, now, readers, pending, timer, changes, quiet, noticed >>

Rings == DOMAIN Homes
Pollers == UNION { Homes[r] : r \in Rings }
Nothing == [ring |-> "none", size |-> -1]
Count(r) == Cardinality({ p \in Pollers : << r, p >> \in readers })
Nobody == readers = {}
Idle == \A p \in Pollers : pending[p] = Nothing

Init ==
    \E scene \in Scenes :
        /\ sink = SinkInit /\ rtmp = MuxerInit(scene.demand) /\ rtsp = RtspInit /\ fmp4 = Fmp4Init
        /\ pub = PublisherInit(scene.origin) /\ rest = scene.calls
        /\ now = 0 /\ changes = scene.changes
        /\ readers = {} /\ pending = [p \in Pollers |-> Nothing]
        /\ timer = -1
        /\ sent = [t \in TrackNames |-> <<>>] /\ taken = sent /\ checked = -1 /\ completed = FALSE
        /\ quiet = 0 /\ noticed = FALSE

\* An event of the sink goes to the muxers; a stream is not muxed for the protocol it comes by.
Forward(ms, event) ==
    << IF pub.origin = "rtmp" THEN ms[1] ELSE MuxEvent(ms[1], event),
       IF pub.origin = "rtsp" THEN ms[2] ELSE RtspEvent(ms[2], event),
       Fmp4Event(ms[3], event) >>

\* A timer that is not set again once the ring is there.
ArmOnce(size) == IF size = 0 /\ Nobody /\ timer = -1 /\ ~rtmp.ring THEN now + NoneReader ELSE timer

\* MediaSourceEvent::onReaderChanged: the timer that was there is replaced.
Arm(size) == IF size = 0 /\ Nobody THEN now + NoneReader ELSE timer

\* A source that describes the tracks of its demuxer.
AllTrackReadyOrNot(k) ==
    IF k.pub.recreate /\ \E i \in DOMAIN k.sink.out : k.sink.out[i][1] = "all"
    THEN [k.pub EXCEPT !.described = DOMAIN k.pub.own] ELSE k.pub

\* The source whose metadata was without a codec gets it from the tracks.
AllTrackReady(k) ==
    IF k.pub.recreate /\ \E i \in DOMAIN k.sink.out : k.sink.out[i][1] = "all"
    THEN [k.pub EXCEPT !.described = DOMAIN k.sink.tracks] ELSE k.pub

\* What the sink has to tell goes to the muxers; then a packet may go to the source of its own protocol.
Forwarded(k) ==
    LET after[i \in 0 .. Len(k.sink.out)] == IF i = 0 THEN sources ELSE Forward(after[i - 1], k.sink.out[i])
    IN  after[Len(k.sink.out)]

Handled(k, ms) ==
    /\ sink' = [k.sink EXCEPT !.out = <<>>]
    /\ pub' = AllTrackReady(k)
    /\ rtmp' = [ms[1] EXCEPT !.nobody = FALSE]
    /\ rtsp' = [ms[2] EXCEPT !.nobody = FALSE]
    /\ fmp4' = [ms[3] EXCEPT !.nobody = FALSE]
    /\ rest' = Tail(rest)
    /\ IF \E i \in 1 .. 3 : ms[i].nobody THEN timer' = Arm(0) /\ quiet' = now ELSE UNCHANGED << timer, quiet >>
    /\ UNCHANGED << now, readers, pending, changes, noticed >>

Received == [pub |-> pub, sink |-> sink, passed |-> <<>>]

DeviceCalls(s) ==
    LET k == [Received EXCEPT !.sink = s] IN Handled(k, Forwarded(k)) /\ UNCHANGED sent

AddsTrack ==
    /\ rest # <<>> /\ Head(rest).call = "add"
    /\ DeviceCalls(AddTrack(sink, Head(rest).track, Head(rest).ready, now))
    /\ checked' = IF sink.allReady THEN checked ELSE -1
    /\ UNCHANGED << taken, completed >>

CompletesTracks ==
    /\ rest # <<>> /\ Head(rest).call = "completed"
    /\ DeviceCalls(AddTrackCompleted(sink, now))
    /\ completed' = TRUE /\ checked' = now
    /\ UNCHANGED taken

\* A frame gets the time of the device's clock; it may be one of several frames of its time stamp.
InputsFrame ==
    /\ rest # <<>> /\ Head(rest).call = "frame"
    /\ LET f == [track |-> Head(rest).track, kind |-> Head(rest).kind, stamp |-> now + Head(rest).ahead, n |-> Len(rest)]
           known == f.track \in DOMAIN sink.tracks
       IN  /\ DeviceCalls(SinkFrame(sink, f, now))
           /\ taken' = IF known /\ f.kind # "cfg" THEN [taken EXCEPT ![f.track] = Append(@, f.n)] ELSE taken
           /\ checked' = IF known THEN now ELSE checked
           /\ UNCHANGED completed

SentAnew(tracks) == [t \in TrackNames |-> IF t \in DOMAIN tracks THEN Append(sent[t], IF tracks[t] THEN 0 ELSE -1) ELSE sent[t]]

\* RtmpSession::setMetaData
PublishesMetadata ==
    /\ rest # <<>> /\ Head(rest).call = "metadata"
    /\ LET tracks == Head(rest).tracks
           k == LoadMetaData(Received, tracks, now)
           ms == Forwarded(k)
       IN  /\ Handled(k, << SetMetaData(ms[1]), ms[2], ms[3] >>)
           /\ sent' = SentAnew([t \in tracks |-> FALSE])
           /\ checked' = IF sink.allReady \/ tracks = {} THEN checked ELSE -1
    /\ UNCHANGED << taken, completed >>

\* RtspSession::handleReq_ANNOUNCE
PublishesSdp ==
    /\ rest # <<>> /\ Head(rest).call = "sdp"
    /\ LET tracks == Head(rest).tracks
           k == LoadSdp(Received, tracks, now)
           ms == Forwarded(k)
       IN  /\ Handled(k, << ms[1], SetSdp(ms[2], SetToSeq(DOMAIN tracks)), ms[3] >>)
           /\ sent' = SentAnew(tracks)
           /\ checked' = -1
    /\ UNCHANGED << taken, completed >>

\* A packet of media, with what the sink got of it.
PublishesPacket ==
    /\ rest # <<>> /\ Head(rest).call = "packet"
    /\ LET p == [track |-> Head(rest).track, kind |-> Head(rest).kind, stamp |-> now, n |-> Len(rest)]
           k == IF pub.origin = "rtmp" THEN OnRtmpChunk(Received, p, now) ELSE InputRtp(Received, p, now)
           made == ~sink.allReady /\ p.track \in DOMAIN k.pub.own \ DOMAIN pub.own
           known == made \/ p.track \in DOMAIN sink.tracks
           frames == SelectSeq(k.passed, LAMBDA f : f.kind # "cfg")
           ms == Forwarded(k)
       IN  /\ Handled(k, IF pub.origin = "rtsp" THEN << ms[1], PublishRtp(ms[2], p), ms[3] >>
                         ELSE << PublishRtmp(IF k.pub.setMeta THEN SetMetaData(ms[1]) ELSE ms[1], p), ms[2], ms[3] >>)
           /\ sent' = CASE p.kind = "cfg"  -> [sent EXCEPT ![p.track] = Append(@, 0)]
                        [] p.kind = "rest" -> sent
                        [] OTHER           -> [sent EXCEPT ![p.track] = Append(@, p.n)]
           /\ taken' = IF known THEN [taken EXCEPT ![p.track] = @ \o [i \in DOMAIN frames |-> frames[i].n]] ELSE taken
           /\ checked' = CASE known /\ k.passed # <<>> -> now
                           [] known /\ k.passed = <<>> -> IF made THEN -1 ELSE checked
                           [] ~known -> checked
    /\ UNCHANGED completed

Tick ==
    /\ now < MaxTime
    /\ timer # -1 => now < timer
    /\ now' = now + 1
    /\ UNCHANGED << device, readers, pending, timer, changes, quiet, noticed >>

Source(r) == CASE r = "rtmp" -> rtmp [] r = "rtsp" -> rtsp [] r = "fmp4" -> fmp4

\* A player finds the registered stream, or leaves.
Changes(r, p) ==
    /\ Source(r).registered
    /\ changes > 0 /\ changes' = changes - 1
    /\ pending[p] = Nothing
    /\ readers' = IF << r, p >> \in readers THEN readers \ {<< r, p >>} ELSE readers \cup {<< r, p >>}
    /\ pending' = [pending EXCEPT ![p] = [ring |-> r, size |-> -1]]
    /\ quiet' = now /\ noticed' = FALSE
    /\ UNCHANGED << device, now, timer >>

ReadsCount(p) ==
    /\ pending[p] # Nothing /\ pending[p].size = -1
    /\ pending' = [pending EXCEPT ![p].size = Count(pending[p].ring)]
    /\ UNCHANGED << device, now, readers, timer, changes, quiet, noticed >>

ReportsCount(p) ==
    /\ pending[p] # Nothing /\ pending[p].size # -1
    /\ LET size == pending[p].size
       IN  /\ rtmp' = IF pending[p].ring = "rtmp" THEN [ReaderChanged(rtmp, size) EXCEPT !.nobody = FALSE] ELSE rtmp
           /\ timer' = Arm(size)
    /\ pending' = [pending EXCEPT ![p] = Nothing]
    /\ quiet' = now /\ noticed' = FALSE
    /\ UNCHANGED << sink, rtsp, fmp4, pub, rest, now, readers, changes, sent, taken, checked, completed >>

\* none_stream_reader asks to be called again.
TimerFires ==
    /\ timer # -1 /\ now >= timer
    /\ IF Nobody THEN timer' = now + NoneReader /\ noticed' = TRUE
       ELSE timer' = -1 /\ UNCHANGED noticed
    /\ UNCHANGED << device, now, readers, pending, changes, quiet >>

Next ==
    \/ AddsTrack \/ CompletesTracks \/ InputsFrame
    \/ PublishesMetadata \/ PublishesSdp \/ PublishesPacket
    \/ Tick \/ TimerFires
    \/ \E r \in Rings : \E p \in Homes[r] : Changes(r, p)
    \/ \E p \in Pollers : ReadsCount(p) \/ ReportsCount(p)

Spec == Init /\ [][Next]_vars

-----------------------------------------------------------------------------
\* The frames of a track that a source has, in the ring, the cache or ("open") a packet that is not finished.
Packets(m) == FlattenSeq([i \in 1 .. Len(m.groups) |-> m.groups[i].packets]) \o m.cache
Carried(m, t, open) ==
    LET mine == SelectSeq(Packets(m) \o open, LAMBDA p : p.video = (t = "video"))
    IN  FlattenSeq([i \in 1 .. Len(mine) |-> mine[i].frames])
OpenRtmp == IF rtmp.last = NoPacket THEN <<>> ELSE << rtmp.last >>
OpenFmp4 == << Segment(fmp4.cached, FALSE, [stamp |-> 0]) >>
Silent == ~\E i \in DOMAIN taken : i = "audio" /\ taken[i] # <<>>

\* The state is of the shape the code's members allow.
TypeOK ==
    /\ DOMAIN sink.tracks \subseteq TrackNames /\ sink.callback \subseteq DOMAIN sink.tracks
    /\ sink.max \in 0 .. 2 /\ sink.since \in 0 .. now /\ sink.out = <<>>
    /\ DOMAIN pub.own \subseteq TrackNames /\ pub.described \subseteq TrackNames
    /\ rtmp.encoders \subseteq TrackNames /\ \A i \in 1 .. 3 : Len(sources[i].cache) <= CacheLimit
    /\ now \in 0 .. MaxTime /\ timer \in {-1} \cup 0 .. MaxTime + NoneReader
    /\ readers \subseteq Rings \X Pollers
    /\ \A p \in Pollers : pending[p].size \in -1 .. Cardinality(Pollers)

\* Frames the sink took before its tracks were ready, and all it took since, are muxed once and in order per track,
\* in each protocol that carries the track and is not on demand, also when the device's clock is set back.
EveryFrameMuxed ==
    sink.allReady => \A t \in DOMAIN sink.tracks :
        /\ ~rtmp.demand /\ pub.origin # "rtmp" => Carried(rtmp, t, OpenRtmp) = taken[t]
        /\ t = "video" => /\ Carried(fmp4, t, OpenFmp4) = taken[t]
                          /\ pub.origin # "rtsp" => Carried(rtsp, t, <<>>) = taken[t]

\* A sink with tracks does not wait longer than its time-outs, and not at all once it was told there are no more tracks.
StartsInTime ==
    ~sink.allReady /\ DOMAIN sink.tracks # {} /\ checked # -1
        => /\ checked - sink.since <= WaitReady
           /\ completed => \E t \in DOMAIN sink.tracks : ~sink.tracks[t].ready

\* A group the ring takes for the start of a group of pictures begins with a key frame: a new player starts there.
KeyGroups == \A i \in 1 .. Len(rtmp.groups) :
                rtmp.groups[i].video /\ rtmp.groups[i].key => rtmp.groups[i].packets[1].key

\* The same for a muxer that is not on demand, whose cache is never cleared.
KeyGroupsStart == rtmp.demand \/ KeyGroups

\* The ring keeps key groups that follow each other: the first of them begins with the parameter sets, if there are any yet,
\* so that a new RTSP player gets them before the key frame.
RtspStartsWithConfig == \A i \in 1 .. Len(rtsp.groups) :
    rtsp.groups[i].key /\ (i = 1 \/ ~rtsp.groups[i - 1].key)
        => \/ rtsp.groups[i].packets[1].what = "sps"
           \/ pub.origin = "rtsp" /\ sent["video"][1] = 0
           \/ \A j \in 1 .. i : rtsp.groups[j].packets[1].what # "sps"

\* A segment marked as the start of a group of pictures is a key frame; without audio each key frame's is marked.
SegmentsMarked == \A i \in 1 .. Len(Packets(fmp4)) :
    LET p == Packets(fmp4)[i] IN (p.key => p.idr) /\ (Silent /\ p.idr => p.key)

\* A stream that players find has its ring, and what describes it: the metadata and the configuration of each track
\* (RTMP), each track's part of the SDP (RTSP), the first segment with a track in it (fMP4).
FoundIsPlayable ==
    /\ rtmp.registered => rtmp.ring /\ rtmp.meta /\ rtmp.encoders \subseteq rtmp.config
    /\ rtsp.registered => rtsp.ring /\ rtsp.sdp # <<>> /\ rtsp.encoders \subseteq Range(rtsp.sdp)
    /\ fmp4.registered => fmp4.ring /\ fmp4.init /\ fmp4.tracks # {}

\* What a publisher sent of a track.
Sent(t) == SelectSeq(sent[t], LAMBDA n : n > 0)

\* A track of which the configuration came first, and that was not made anew after it.
Steady(t) ==
    \E i \in DOMAIN sent[t] : /\ sent[t][i] = 0
                            /\ \A j \in DOMAIN sent[t] : (sent[t][j] = -1 => j < i) /\ (sent[t][j] > 0 => j > i)

\* What a publisher sends is in the ring of its own protocol, once and in order.
PublishedIsCarried ==
    pub.origin # "none" => \A t \in TrackNames : Carried(IF pub.origin = "rtmp" THEN rtmp ELSE rtsp, t, <<>>) = Sent(t)

\* What it sends of the tracks the sink has is what the sink gets, but for a key frame of which a part is to come.
PublishedIsTaken ==
    pub.origin # "none" => \A t \in DOMAIN sink.tracks :
        t = "video" \/ Steady(t) => Sent(t) = taken[t] \o (IF t = "video" /\ pub.open # 0 THEN << pub.open >> ELSE <<>>)

\* A steady track of which the sink had frames in time is not dropped, and the SDP describes it once.
SteadyIsKept ==
    pub.origin # "none" /\ sink.allReady =>
        \A t \in { u \in TrackNames : Steady(u) /\ taken[u] # <<>> } :
            /\ t \in DOMAIN sink.tracks
            /\ rtsp.sdp = <<>> \/ Cardinality({ i \in DOMAIN rtsp.sdp : rtsp.sdp[i] = t }) = 1

\* Metadata that named no codec describes the tracks once they are ready.
MetadataDescribes == sink.allReady /\ pub.recreate => pub.described = DOMAIN sink.tracks

\* A muxer on demand muxes while somebody watches, once all pollers have reported what they counted.
WatchedIsMuxed == Idle /\ Count("rtmp") > 0 => rtmp.enabled

\* When nobody came or left for longer than the time-out and nobody watches, the server was told.
NobodyIsNoticed == Nobody /\ Idle /\ rtmp.ring /\ now > quiet + NoneReader => noticed

\* What a device or a publisher sends goes out: all of it, and in time (MediaSink, PacketCache, RtmpDemuxer, RtspDemuxer).
FramesGoOut == TypeOK /\ EveryFrameMuxed /\ StartsInTime /\ PublishedIsCarried /\ PublishedIsTaken

\* A player that finds the stream can start on it (emitAllTrackReady, onWrite, isFlushAble, H264RtpEncoder, MP4MuxerMemory,
\* RtmpMediaSourceImp::onAllTrackReady).
PlayersCanStart ==
    FoundIsPlayable /\ KeyGroupsStart /\ RtspStartsWithConfig /\ SegmentsMarked /\ SteadyIsKept /\ MetadataDescribes

\* The muxer and the server follow the count of readers, whichever poller reports it (onReaderChanged).
DemandFollows == WatchedIsMuxed /\ NobodyIsNoticed
=============================================================================
