---------------------------- MODULE MuxerProofs ----------------------------
(***************************************************************************)
(* Theorems about Muxer for any scenes, pollers and times: a muxer on      *)
(* demand and the server's close timer follow the count of readers, and a  *)
(* stream that players find has its ring and what describes it.            *)
(* First the sink, of which the proofs need that what it tells the muxers  *)
(* is a sequence of events in an order (Says): the ready tracks, that all  *)
(* are ready, and then frames.                                             *)
(***************************************************************************)
EXTENDS Muxer, FiniteSetTheorems, SequenceFacts

\* A set's elements, one after the other: as many as it has.
LEMMA SetToSeqIs ==
  ASSUME NEW S, IsFiniteSet(S)
  PROVE  SetToSeq(S) \in Seq(S) /\ Len(SetToSeq(S)) = Cardinality(S)
<1> DEFINE n == Cardinality(S)
           f == SetToSeq(S)
<1>1. n \in Nat /\ ExistsBijection(1 .. n, S)
  BY FS_CardinalityType
<1>2. PICK g : g \in Bijection(1 .. n, S)
  BY <1>1 DEF ExistsBijection
<1>3. g \in [1 .. n -> S] /\ IsInjective(g)
  BY <1>2 DEF Bijection, Injection, IsInjective
<1>4. f \in [1 .. n -> S] /\ IsInjective(f)
  BY <1>3 DEF SetToSeq
<1> QED
  BY <1>1, <1>4

-----------------------------------------------------------------------------
(* What the sink tells. *)

\* A frame as the sink and the muxers know it; what the sink may tell; its members.
Frames == [track : TrackNames, kind : Kinds, stamp : Int, n : Nat]
EventSet == ({"ready"} \X TrackNames) \cup ({"all"} \X {""}) \cup ({"frame"} \X Frames)
SinkMembers == {"tracks", "callback", "unread", "allReady", "since", "max", "out"}

\* Once "a" said that all tracks are ready, or an event did, there are frames only, and before there are none;
\* "b" is whether it is said in the end.
Says(a, o, b) ==
    /\ o \in Seq(EventSet)
    /\ b <=> a \/ \E j \in DOMAIN o : o[j][1] = "all"
    /\ \A i \in DOMAIN o : o[i][1] = "frame" <=> a \/ \E j \in 1 .. i - 1 : o[j][1] = "all"

\* The sink's members are of their types.
SinkTyped(s) ==
    /\ DOMAIN s = SinkMembers
    /\ DOMAIN s.tracks \subseteq TrackNames /\ s.callback \subseteq TrackNames
    /\ s.unread \in [TrackNames -> Seq(Frames)]
    /\ s.allReady \in BOOLEAN

\* A sink that was asked when its tracks were ready ("was") or not, and what it has to tell.
SinkGood(s, was) == SinkTyped(s) /\ Says(was, s.out, s.allReady)

\* One sequence of events after the other.
LEMMA SaysMore ==
  ASSUME NEW a \in BOOLEAN, NEW b \in BOOLEAN, NEW c \in BOOLEAN, NEW o, NEW p, Says(a, o, b), Says(b, p, c)
  PROVE  Says(a, o \o p, c)
<1>1. o \in Seq(EventSet) /\ p \in Seq(EventSet)
  BY DEF Says
<1>2. /\ o \o p \in Seq(EventSet) /\ Len(o \o p) = Len(o) + Len(p)
      /\ \A i \in 1 .. Len(o) + Len(p) : (o \o p)[i] = IF i <= Len(o) THEN o[i] ELSE p[i - Len(o)]
  BY <1>1, ConcatProperties
<1>3. Len(o) \in Nat /\ Len(p) \in Nat /\ DOMAIN o = 1 .. Len(o) /\ DOMAIN p = 1 .. Len(p)
      /\ DOMAIN (o \o p) = 1 .. Len(o) + Len(p)
  BY <1>1, <1>2, LenProperties
<1> DEFINE q == o \o p
           AllIn(s, n) == \E j \in 1 .. n : s[j][1] = "all"
<1>4. (b <=> a \/ AllIn(o, Len(o))) /\ (c <=> b \/ AllIn(p, Len(p)))
  BY <1>3 DEF Says
<1>5. /\ \A i \in 1 .. Len(o) : o[i][1] = "frame" <=> a \/ AllIn(o, i - 1)
      /\ \A i \in 1 .. Len(p) : p[i][1] = "frame" <=> b \/ AllIn(p, i - 1)
  BY <1>3 DEF Says
<1>6. ASSUME NEW n \in 0 .. Len(o) PROVE AllIn(q, n) <=> AllIn(o, n)
  BY <1>2, <1>3
<1>7. ASSUME NEW n \in 0 .. Len(p) PROVE AllIn(q, Len(o) + n) <=> AllIn(o, Len(o)) \/ AllIn(p, n)
  <2>1. ASSUME AllIn(q, Len(o) + n) PROVE AllIn(o, Len(o)) \/ AllIn(p, n)
    <3>1. PICK j \in 1 .. Len(o) + n : q[j][1] = "all"
      BY <2>1
    <3>2. CASE j <= Len(o)
      BY <1>2, <1>3, <3>1, <3>2
    <3>3. CASE ~(j <= Len(o))
      <4>1. j - Len(o) \in 1 .. n /\ q[j] = p[j - Len(o)]
        BY <1>2, <1>3, <3>1, <3>3
      <4> QED
        BY <3>1, <4>1
    <3> QED
      BY <3>2, <3>3
  <2>2. ASSUME AllIn(o, Len(o)) PROVE AllIn(q, Len(o) + n)
    BY <1>2, <1>3, <2>2
  <2>3. ASSUME AllIn(p, n) PROVE AllIn(q, Len(o) + n)
    <3>1. PICK j \in 1 .. n : p[j][1] = "all"
      BY <2>3
    <3>2. Len(o) + j \in 1 .. Len(o) + n /\ q[Len(o) + j] = p[j]
      BY <1>2, <1>3, <3>1
    <3> QED
      BY <3>1, <3>2
  <2> QED
    BY <2>1, <2>2, <2>3
<1>8. c <=> a \/ AllIn(q, Len(o) + Len(p))
  BY <1>3, <1>4, <1>7
<1>9. ASSUME NEW i \in 1 .. Len(o) + Len(p) PROVE q[i][1] = "frame" <=> a \/ AllIn(q, i - 1)
  <2>1. CASE i <= Len(o)
    <3>1. i \in 1 .. Len(o) /\ i - 1 \in 0 .. Len(o) /\ q[i] = o[i]
      BY <1>2, <1>3, <2>1
    <3> QED
      BY <3>1, <1>5, <1>6
  <2>2. CASE ~(i <= Len(o))
    <3>1. i - Len(o) \in 1 .. Len(p) /\ i - Len(o) - 1 \in 0 .. Len(p) /\ q[i] = p[i - Len(o)]
          /\ i - 1 = Len(o) + (i - Len(o) - 1)
      BY <1>2, <1>3, <2>2
    <3>2. AllIn(q, i - 1) <=> AllIn(o, Len(o)) \/ AllIn(p, i - Len(o) - 1)
      BY <3>1, <1>7
    <3> QED
      BY <3>1, <3>2, <1>4, <1>5
  <2> QED
    BY <2>1, <2>2
<1> QED
  BY <1>2, <1>3, <1>8, <1>9 DEF Says

\* What an event is.
LEMMA EventOf ==
  ASSUME NEW what, NEW items, Len(items) \in Nat, \A i \in 1 .. Len(items) : <<what, items[i]>> \in EventSet
  PROVE  LET e == Events(what, items)
         IN  e \in Seq(EventSet) /\ DOMAIN e = 1 .. Len(items) /\ \A i \in DOMAIN e : e[i][1] = what
<1> DEFINE e == Events(what, items)
<1>1. DOMAIN e = 1 .. Len(items) /\ \A i \in DOMAIN e : e[i] = <<what, items[i]>>
  BY DEF Events
<1>2. e \in [1 .. Len(items) -> EventSet]
  <2>1. e = [i \in 1 .. Len(items) |-> <<what, items[i]>>]
    BY DEF Events
  <2> QED
    BY <2>1
<1>3. e \in Seq(EventSet)
  BY <1>2
<1>4. \A i \in DOMAIN e : e[i][1] = what
  BY <1>1
<1> QED
  BY <1>1, <1>3, <1>4

\* Frames only, once the tracks are ready; ready tracks only, before; and between them that all are ready.
LEMMA SaysFrames ==
  ASSUME NEW fs \in Seq(Frames)
  PROVE  Says(TRUE, Events("frame", fs), TRUE)
<1>1. Len(fs) \in Nat /\ \A i \in 1 .. Len(fs) : fs[i] \in Frames
  BY LenProperties, ElementOfSeq
<1>2. \A i \in 1 .. Len(fs) : <<"frame", fs[i]>> \in EventSet
  BY <1>1 DEF EventSet
<1> QED
  BY <1>1, <1>2, EventOf DEF Says

LEMMA SaysReady ==
  ASSUME NEW ts \in Seq(TrackNames)
  PROVE  Says(FALSE, Events("ready", ts), FALSE)
<1>1. Len(ts) \in Nat /\ \A i \in 1 .. Len(ts) : ts[i] \in TrackNames
  BY LenProperties, ElementOfSeq
<1>2. \A i \in 1 .. Len(ts) : <<"ready", ts[i]>> \in EventSet
  BY <1>1 DEF EventSet
<1>3. \A i \in DOMAIN Events("ready", ts) : Events("ready", ts)[i][1] = "ready"
  BY <1>1, <1>2, EventOf
<1>4. Events("ready", ts) \in Seq(EventSet) /\ DOMAIN Events("ready", ts) = 1 .. Len(ts)
  BY <1>1, <1>2, EventOf
<1> HIDE DEF Events
<1> QED
  BY <1>1, <1>3, <1>4 DEF Says

LEMMA SaysAll == Says(FALSE, << << "all", "" >> >>, TRUE)
<1> DEFINE o == << << "all", "" >> >>
<1>1. <<"all", "">> \in EventSet
  BY DEF EventSet
<1>2. o \in Seq(EventSet) /\ DOMAIN o = {1} /\ o[1][1] = "all"
  <2>1. \A x \in EventSet : <<x>> \in Seq(EventSet) /\ DOMAIN <<x>> = {1} /\ <<x>>[1] = x
    OBVIOUS
  <2> QED
    BY <1>1, <2>1
<1> HIDE DEF o
<1>3. ~ \E j \in 1 .. 0 : o[j][1] = "all"
  OBVIOUS
<1>4. Says(FALSE, o, TRUE)
  BY <1>2, <1>3 DEF Says
<1> QED
  BY <1>4 DEF o

\* Nothing said.
LEMMA SaysNothing == ASSUME NEW a \in BOOLEAN PROVE Says(a, <<>>, a)
  BY DEF Says
-----------------------------------------------------------------------------
(* The sink's operations keep SinkGood. *)

\* A sequence of ready tracks, and sets of tracks, are finite.
LEMMA TracksFinite == \A S \in SUBSET TrackNames : IsFiniteSet(S) /\ SetToSeq(S) \in Seq(S) /\ SetToSeq(S) \in Seq(TrackNames)
<1>1. IsFiniteSet(TrackNames)
  <2>1. IsFiniteSet({} \cup {"video"})
    BY FS_EmptySet, FS_AddElement
  <2>2. IsFiniteSet(({} \cup {"video"}) \cup {"audio"})
    BY <2>1, FS_AddElement
  <2>3. TrackNames = ({} \cup {"video"}) \cup {"audio"}
    BY DEF TrackNames
  <2> QED
    BY <2>2, <2>3
<1>2. ASSUME NEW S \in SUBSET TrackNames PROVE IsFiniteSet(S) /\ SetToSeq(S) \in Seq(S)
  BY <1>1, FS_Subset, SetToSeqIs
<1>3. ASSUME NEW S \in SUBSET TrackNames, NEW s \in Seq(S) PROVE s \in Seq(TrackNames)
  BY <1>3
<1> QED
  BY <1>2, <1>3

\* A check tells of the tracks that got ready.
LEMMA NotifiedGood ==
  ASSUME NEW s, NEW was \in BOOLEAN, SinkGood(s, was)
  PROVE  SinkGood(Notified(s), was) /\ Notified(s).allReady = s.allReady
<1> DEFINE new == s.callback \cap ReadyTracks(s)
           o == Events("ready", SetToSeq(new))
           r == [s EXCEPT !.callback = @ \ new, !.out = @ \o o]
<1>1. CASE s.allReady
  BY <1>1 DEF Notified
<1>2. CASE ~s.allReady
  <2>1. s.allReady = FALSE /\ SinkTyped(s) /\ Says(was, s.out, FALSE)
    BY <1>2 DEF SinkGood, SinkTyped
  <2>2. new \in SUBSET TrackNames
    BY <2>1 DEF SinkTyped
  <2>3. Says(FALSE, o, FALSE)
    BY <2>2, TracksFinite, SaysReady
  <2>4. Says(was, s.out \o o, FALSE)
    BY <2>1, <2>3, SaysMore
  <2>5. Notified(s) = r
    BY <1>2 DEF Notified
  <2>6. /\ DOMAIN r = DOMAIN s /\ r.tracks = s.tracks /\ r.unread = s.unread /\ r.allReady = s.allReady
        /\ r.callback = s.callback \ new /\ r.out = s.out \o o
    BY <2>1 DEF SinkTyped, SinkMembers
  <2> HIDE DEF o, new, r
  <2>7. SinkTyped(r)
    BY <2>1, <2>6 DEF SinkTyped
  <2>8. Says(was, r.out, r.allReady)
    BY <2>1, <2>4, <2>6
  <2> QED
    BY <2>5, <2>6, <2>7, <2>8 DEF SinkGood
<1> QED
  BY <1>1, <1>2

\* The sink tells that all tracks are ready, then what it kept.
LEMMA EmitGood ==
  ASSUME NEW s, NEW was \in BOOLEAN, SinkGood(s, was), ~s.allReady
  PROVE  SinkGood(EmitAllTrackReady(s), was)
<1> DEFINE left == IF s.callback = {} THEN s.tracks ELSE Restrict(s.tracks, ReadyTracks(s))
           Unread(t) == IF t \in DOMAIN left THEN s.unread[t] ELSE <<>>
           waiting == Unread("audio") \o Unread("video")
           kept == [s EXCEPT !.tracks = left, !.callback = {}]
           o == << << "all", "" >> >>
           p == Events("frame", waiting)
           r == [kept EXCEPT !.allReady = TRUE, !.unread = [t \in TrackNames |-> <<>>], !.out = @ \o o \o p]
<1>1. s.allReady = FALSE /\ SinkTyped(s) /\ Says(was, s.out, FALSE)
  BY DEF SinkGood, SinkTyped
<1>2. DOMAIN left \subseteq TrackNames
  BY <1>1 DEF Restrict, ReadyTracks, SinkTyped
<1>3. waiting \in Seq(Frames)
  <2>1. \A t \in TrackNames : Unread(t) \in Seq(Frames)
    BY <1>1 DEF SinkTyped
  <2>2. Unread("audio") \in Seq(Frames) /\ Unread("video") \in Seq(Frames)
    BY <2>1 DEF TrackNames
  <2> HIDE DEF Unread
  <2> QED
    BY <2>2, ConcatProperties
<1>4. Says(TRUE, p, TRUE) /\ Says(FALSE, o, TRUE)
  BY <1>3, SaysFrames, SaysAll
<1>5. Says(was, (s.out \o o) \o p, TRUE)
  <2> HIDE DEF o, p
  <2>1. Says(was, s.out \o o, TRUE)
    BY <1>1, <1>4, SaysMore
  <2> QED
    BY <2>1, <1>4, SaysMore
<1>6. EmitAllTrackReady(s) = IF DOMAIN left = {} THEN kept ELSE r
  BY DEF EmitAllTrackReady
<1>7. /\ DOMAIN kept = SinkMembers /\ kept.tracks = left /\ kept.unread = s.unread /\ kept.allReady = s.allReady
      /\ kept.callback = {} /\ kept.out = s.out
  BY <1>1 DEF SinkTyped, SinkMembers
<1>8. /\ DOMAIN r = SinkMembers /\ r.tracks = left /\ r.unread = [t \in TrackNames |-> <<>>] /\ r.allReady = TRUE
      /\ r.callback = {} /\ r.out = (s.out \o o) \o p
  <2> HIDE DEF o, p, left
  <2> QED
    BY <1>7 DEF SinkMembers
<1> HIDE DEF left, kept, r, o, p, waiting
<1>9. SinkGood(kept, was)
  BY <1>1, <1>2, <1>7 DEF SinkGood, SinkTyped
<1>10. SinkGood(r, was)
  <2>1. r.unread \in [TrackNames -> Seq(Frames)]
    <3>1. <<>> \in Seq(Frames)
      OBVIOUS
    <3> QED
      BY <3>1, <1>8
  <2> QED
    BY <1>2, <1>5, <1>8, <2>1 DEF SinkGood, SinkTyped
<1> QED
  BY <1>6, <1>9, <1>10

\* A check, with what comes of it.
LEMMA CheckGood ==
  ASSUME NEW s, NEW was \in BOOLEAN, NEW t, SinkGood(s, was)
  PROVE  SinkGood(CheckTrackIfReady(s, t), was)
  BY NotifiedGood, EmitGood DEF CheckTrackIfReady

\* Tracks made anew, which are none for a sink that has all.
LEMMA AddTracksGood ==
  ASSUME NEW s, NEW was \in BOOLEAN, NEW t, NEW ready, DOMAIN ready \subseteq TrackNames, SinkGood(s, was)
  PROVE  SinkGood(AddTracks(s, ready, t), was)
<1> DEFINE r == [s EXCEPT !.tracks = Remade(@, ready), !.callback = @ \cup DOMAIN ready, !.since = t]
<1>1. SinkTyped(s) /\ Says(was, s.out, s.allReady)
  BY DEF SinkGood
<1>2. /\ DOMAIN r = SinkMembers /\ r.tracks = Remade(s.tracks, ready) /\ r.unread = s.unread
      /\ r.allReady = s.allReady /\ r.callback = s.callback \cup DOMAIN ready /\ r.out = s.out
  BY <1>1 DEF SinkTyped, SinkMembers
<1>3. DOMAIN Remade(s.tracks, ready) \subseteq TrackNames
  BY <1>1 DEF Remade, SinkTyped
<1>4. AddTracks(s, ready, t) = IF s.allReady \/ DOMAIN ready = {} THEN s ELSE r
  BY DEF AddTracks
<1> HIDE DEF r
<1>5. SinkGood(r, was)
  BY <1>1, <1>2, <1>3 DEF SinkGood, SinkTyped
<1> QED
  BY <1>4, <1>5

LEMMA AddTrackGood ==
  ASSUME NEW s, NEW was \in BOOLEAN, NEW t, NEW u \in TrackNames, NEW ready, SinkGood(s, was)
  PROVE  SinkGood(AddTrack(s, u, ready, t), was)
  BY AddTracksGood DEF AddTrack

LEMMA AddTrackCompletedGood ==
  ASSUME NEW s, NEW was \in BOOLEAN, NEW t, SinkGood(s, was)
  PROVE  SinkGood(AddTrackCompleted(s, t), was)
<1> DEFINE r == [s EXCEPT !.max = Cardinality(DOMAIN s.tracks)]
<1>1. /\ DOMAIN r = DOMAIN s /\ r.tracks = s.tracks /\ r.unread = s.unread /\ r.allReady = s.allReady
      /\ r.callback = s.callback /\ r.out = s.out
  BY DEF SinkGood, SinkTyped, SinkMembers
<1> HIDE DEF r
<1>2. SinkGood(r, was)
  BY <1>1 DEF SinkGood, SinkTyped
<1> QED
  BY <1>2, CheckGood DEF AddTrackCompleted, r

\* What comes out of a track is frames.
LEMMA TrackOutputType ==
  ASSUME NEW tr, NEW f \in Frames
  PROVE  TrackOutput(tr, f) \in Seq(Frames)
<1> DEFINE g == [f EXCEPT !.kind = "cfg"]
<1>1. g \in Frames
  BY DEF Frames, Kinds
<1>2. \A a, b \in Frames : <<>> \in Seq(Frames) /\ <<a>> \in Seq(Frames) /\ <<a, b>> \in Seq(Frames)
  OBVIOUS
<1>3. <<>> \in Seq(Frames) /\ <<f>> \in Seq(Frames) /\ <<g, f>> \in Seq(Frames)
  BY <1>1, <1>2
<1>4. TrackOutput(tr, f) \in {<<>>, <<f>>, <<g, f>>}
  BY DEF TrackOutput
<1> HIDE DEF g
<1> QED
  BY <1>3, <1>4

\* A frame that comes in: it goes out, or is kept.
LEMMA SinkFrameGood ==
  ASSUME NEW s, NEW was \in BOOLEAN, NEW t, NEW f \in Frames, SinkGood(s, was)
  PROVE  SinkGood(SinkFrame(s, f, t), was)
<1> DEFINE tr == s.tracks[f.track]
           frames == TrackOutput(tr, f)
           put == [s EXCEPT !.tracks[f.track] = TrackAfter(tr, f)]
           told == [put EXCEPT !.out = @ \o Events("frame", frames)]
           kept == [put EXCEPT !.unread[f.track] = @ \o frames]
<1>1. SinkTyped(s) /\ Says(was, s.out, s.allReady) /\ f.track \in TrackNames
  BY DEF SinkGood, Frames
<1>2. frames \in Seq(Frames)
  BY TrackOutputType
<1>3. /\ DOMAIN put = SinkMembers /\ DOMAIN put.tracks = DOMAIN s.tracks /\ put.unread = s.unread
      /\ put.allReady = s.allReady /\ put.callback = s.callback /\ put.out = s.out
  BY <1>1 DEF SinkTyped, SinkMembers
<1>4. SinkFrame(s, f, t) = IF f.track \notin DOMAIN s.tracks THEN s
                           ELSE CheckTrackIfReady(IF s.allReady THEN told ELSE kept, t)
  BY DEF SinkFrame
<1>5. ASSUME s.allReady PROVE SinkGood(told, was)
  <2>1. /\ DOMAIN told = SinkMembers /\ told.tracks = put.tracks /\ told.unread = put.unread
        /\ told.allReady = put.allReady /\ told.callback = put.callback /\ told.out = put.out \o Events("frame", frames)
    <3> HIDE DEF put, frames
    <3> QED
      BY <1>3 DEF SinkMembers
  <2>2. s.allReady = TRUE
    BY <1>1, <1>5 DEF SinkTyped
  <2>3. Says(was, s.out \o Events("frame", frames), TRUE)
    BY <1>1, <1>2, <2>2, SaysFrames, SaysMore
  <2> HIDE DEF told, put, frames
  <2> QED
    BY <1>1, <1>3, <2>1, <2>2, <2>3 DEF SinkGood, SinkTyped
<1>6. SinkGood(kept, was)
  <2>1. /\ DOMAIN kept = SinkMembers /\ kept.tracks = put.tracks
        /\ kept.unread = [put.unread EXCEPT ![f.track] = @ \o frames]
        /\ kept.allReady = put.allReady /\ kept.callback = put.callback /\ kept.out = put.out
    <3> HIDE DEF put, frames
    <3> QED
      BY <1>3 DEF SinkMembers
  <2>2. \A x \in Seq(Frames) : x \o frames \in Seq(Frames)
    BY <1>2, ConcatProperties
  <2> HIDE DEF kept, put, frames
  <2>3. kept.unread \in [TrackNames -> Seq(Frames)]
    BY <1>1, <1>3, <2>1, <2>2 DEF SinkTyped
  <2> QED
    BY <1>1, <1>3, <2>1, <2>3 DEF SinkGood, SinkTyped
<1> HIDE DEF kept, told, put, frames
<1> QED
  BY <1>4, <1>5, <1>6, CheckGood
\* The function that SinkFrames computes.
FramesAfter(f, s, fs, t) == f = [i \in 0 .. Len(fs) |-> IF i = 0 THEN s ELSE SinkFrame(f[i - 1], fs[i], t)]

\* There is one such function, and the operator is its last value.
LEMMA FramesExists ==
  ASSUME NEW s, NEW fs, NEW t, Len(fs) \in Nat
  PROVE  \E f : FramesAfter(f, s, fs, t)
<1> DEFINE G(n, f) == f = [i \in 0 .. n |-> IF i = 0 THEN s ELSE SinkFrame(f[i - 1], fs[i], t)]
           T == {n \in Nat : ~ \E f : G(n, f)}
<1>1. CASE T = {}
  BY <1>1 DEF FramesAfter
<1>2. CASE T # {}
  <2>1. PICK n \in T : \A m \in T : n <= m
    BY <1>2, LeastOf
  <2>2. G(0, [i \in 0 .. 0 |-> s])
    OBVIOUS
  <2>3. n \in Nat /\ n # 0
    BY <2>1, <2>2
  <2>4. n - 1 \in Nat /\ ~(n <= n - 1)
    BY <2>3
  <2>5. n - 1 \notin T
    <3> HIDE DEF T
    <3> QED
      BY <2>1, <2>4
  <2>6. PICK g : G(n - 1, g)
    BY <2>4, <2>5
  <2> DEFINE h == [i \in 0 .. n |-> IF i < n THEN g[i] ELSE SinkFrame(g[i - 1], fs[i], t)]
  <2>7. \A i \in 0 .. n : h[i] = IF i = 0 THEN s ELSE SinkFrame(h[i - 1], fs[i], t)
    <3> TAKE i \in 0 .. n
    <3>1. CASE i = n
      BY <3>1, <2>3
    <3>2. CASE i < n
      <4>1. i \in 0 .. n - 1 /\ (i # 0 => i - 1 \in 0 .. n - 1)
        BY <3>2, <2>3
      <4>2. g[i] = IF i = 0 THEN s ELSE SinkFrame(g[i - 1], fs[i], t)
        BY <4>1, <2>6
      <4> QED
        BY <4>1, <4>2, <3>2
    <3> QED
      BY <3>1, <3>2
  <2>8. G(n, h)
    BY <2>7
  <2> QED
    BY <2>1, <2>8
<1> QED
  BY <1>1, <1>2

\* What it is, position by position.
LEMMA FramesAt ==
  ASSUME NEW s, NEW fs, NEW t, NEW f, FramesAfter(f, s, fs, t)
  PROVE  \A i \in 0 .. Len(fs) : f[i] = IF i = 0 THEN s ELSE SinkFrame(f[i - 1], fs[i], t)
<1> DEFINE g == [i \in 0 .. Len(fs) |-> IF i = 0 THEN s ELSE SinkFrame(f[i - 1], fs[i], t)]
<1>1. \A i \in 0 .. Len(fs) : g[i] = IF i = 0 THEN s ELSE SinkFrame(f[i - 1], fs[i], t)
  OBVIOUS
<1>2. f = g
  BY DEF FramesAfter
<1> HIDE DEF g
<1> QED
  BY <1>1, <1>2

\* SinkFrames is its last value.
LEMMA FramesIs ==
  ASSUME NEW s, NEW fs, NEW t, Len(fs) \in Nat
  PROVE  \E f : FramesAfter(f, s, fs, t) /\ SinkFrames(s, fs, t) = f[Len(fs)]
<1>1. PICK f : f = CHOOSE g : FramesAfter(g, s, fs, t)
  OBVIOUS
<1>2. FramesAfter(f, s, fs, t)
  BY <1>1, FramesExists
<1>3. SinkFrames(s, fs, t) = (CHOOSE g : FramesAfter(g, s, fs, t))[Len(fs)]
  BY DEF SinkFrames, FramesAfter
<1> QED
  BY <1>1, <1>2, <1>3

\* Frames that come in, one after the other.
LEMMA SinkFramesGood ==
  ASSUME NEW s, NEW was \in BOOLEAN, NEW t, NEW fs \in Seq(Frames), SinkGood(s, was)
  PROVE  SinkGood(SinkFrames(s, fs, t), was)
<1>1. Len(fs) \in Nat /\ \A i \in 1 .. Len(fs) : fs[i] \in Frames
  BY LenProperties, ElementOfSeq
<1>2. PICK f : FramesAfter(f, s, fs, t) /\ SinkFrames(s, fs, t) = f[Len(fs)]
  BY <1>1, FramesIs
<1>3. \A i \in 0 .. Len(fs) : f[i] = IF i = 0 THEN s ELSE SinkFrame(f[i - 1], fs[i], t)
  BY <1>2, FramesAt
<1> DEFINE T == {n \in 0 .. Len(fs) : ~SinkGood(f[n], was)}
<1>4. CASE T = {}
  BY <1>1, <1>2, <1>4
<1>5. CASE T # {}
  <2>1. T \in SUBSET Nat
    BY <1>1
  <2>2. PICK n \in T : \A m \in T : n <= m
    BY <1>5, <2>1, LeastOf
  <2>3. n # 0
    BY <2>2, <1>3
  <2>4. n \in 1 .. Len(fs) /\ n - 1 \in 0 .. Len(fs) /\ ~(n <= n - 1)
    BY <1>1, <2>2, <2>3
  <2>5. SinkGood(f[n - 1], was)
    BY <2>2, <2>4
  <2>6. f[n] = SinkFrame(f[n - 1], fs[n], t)
    BY <1>3, <2>3, <2>4
  <2>7. SinkGood(f[n], was)
    BY <1>1, <2>4, <2>5, <2>6, SinkFrameGood
  <2> QED
    BY <2>2, <2>7
<1> QED
  BY <1>4, <1>5

-----------------------------------------------------------------------------
(* The publisher: its demuxer and what it hands to the sink. *)

\* The publisher's members are of their types, and the sink is good with which it shares a thread.
PubMembers == {"origin", "own", "aac", "open", "setMeta", "recreate", "described"}
PubTyped(u, origin) ==
    DOMAIN u = PubMembers /\ u.origin = origin /\ DOMAIN u.own \subseteq TrackNames /\ u.open \in Nat
    /\ u.aac \in BOOLEAN /\ u.setMeta \in BOOLEAN
PublisherGood(k, was, origin) ==
    DOMAIN k = {"pub", "sink", "passed"} /\ PubTyped(k.pub, origin) /\ SinkGood(k.sink, was)

\* Tracks of a demuxer that are made anew.
LEMMA MakeTracksGood ==
  ASSUME NEW k, NEW was \in BOOLEAN, NEW origin, NEW t, NEW ready, DOMAIN ready \subseteq TrackNames,
         \A u \in DOMAIN ready : ready[u] \in BOOLEAN, PublisherGood(k, was, origin)
  PROVE  PublisherGood(MakeTracks(k, ready, t), was, origin) /\ MakeTracks(k, ready, t).pub.setMeta = k.pub.setMeta
<1> DEFINE aac == IF "audio" \in DOMAIN ready THEN ready["audio"] ELSE k.pub.aac
           u == [k.pub EXCEPT !.own = Remade(@, ready), !.aac = aac]
           s == AddTracks(k.sink, ready, t)
           r == MakeTracks(k, ready, t)
<1>1. DOMAIN k = {"pub", "sink", "passed"} /\ PubTyped(k.pub, origin) /\ SinkGood(k.sink, was)
  BY DEF PublisherGood
<1>2. SinkGood(s, was)
  BY <1>1, AddTracksGood
<1>3. aac \in BOOLEAN
  BY <1>1 DEF PubTyped
<1>4. /\ DOMAIN u = PubMembers /\ u.origin = k.pub.origin /\ u.own = Remade(k.pub.own, ready) /\ u.open = k.pub.open
      /\ u.aac = aac /\ u.setMeta = k.pub.setMeta
  BY <1>1 DEF PubTyped, PubMembers
<1>5. DOMAIN Remade(k.pub.own, ready) \subseteq TrackNames
  BY <1>1 DEF Remade, PubTyped
<1>6. r = [k EXCEPT !.pub = u, !.sink = s]
  BY DEF MakeTracks
<1>7. DOMAIN r = DOMAIN k /\ r.pub = u /\ r.sink = s
  <2> HIDE DEF u, s, r
  <2> QED
    BY <1>1, <1>6
<1> HIDE DEF u, s, r, aac
<1>8. PubTyped(u, origin)
  BY <1>1, <1>3, <1>4, <1>5 DEF PubTyped
<1>9. PublisherGood(r, was, origin) /\ r.pub.setMeta = k.pub.setMeta
  BY <1>1, <1>2, <1>4, <1>7, <1>8 DEF PublisherGood
<1> QED
  BY <1>9 DEF r

LEMMA MakeTrackGood ==
  ASSUME NEW k, NEW was \in BOOLEAN, NEW origin, NEW t, NEW u \in TrackNames, NEW ready \in BOOLEAN,
         PublisherGood(k, was, origin)
  PROVE  PublisherGood(MakeTrack(k, u, ready, t), was, origin)
<1> DEFINE r == [v \in {u} |-> ready]
<1>1. DOMAIN r \subseteq TrackNames /\ \A v \in DOMAIN r : r[v] \in BOOLEAN
  OBVIOUS
<1>2. MakeTrack(k, u, ready, t) = MakeTracks(k, r, t)
  BY DEF MakeTrack
<1> HIDE DEF r
<1> QED
  BY <1>1, <1>2, MakeTracksGood

\* What a decoder gives.
LEMMA DecodedGood ==
  ASSUME NEW k, NEW was \in BOOLEAN, NEW origin, NEW t, NEW f \in Frames, PublisherGood(k, was, origin)
  PROVE  PublisherGood(Decoded(k, f, t), was, origin)
<1> DEFINE tr == k.pub.own[f.track]
           frames == TrackOutput(tr, f)
           own == [k.pub.own EXCEPT ![f.track] = TrackAfter(tr, f)]
           u == [k.pub EXCEPT !.own = own]
           s == SinkFrames(k.sink, frames, t)
           r == Decoded(k, f, t)
<1>1. DOMAIN k = {"pub", "sink", "passed"} /\ PubTyped(k.pub, origin) /\ SinkGood(k.sink, was)
  BY DEF PublisherGood
<1>2. frames \in Seq(Frames)
  BY TrackOutputType
<1>3. SinkGood(s, was)
  <2> HIDE DEF frames
  <2> QED
    BY <1>1, <1>2, SinkFramesGood
<1>4. r = [k EXCEPT !.pub.own[f.track] = TrackAfter(tr, f), !.passed = k.passed \o frames, !.sink = s]
  BY DEF Decoded
<1>5. DOMAIN r = DOMAIN k /\ r.pub = u /\ r.sink = s
  <2> HIDE DEF s, frames, r
  <2> QED
    BY <1>1, <1>4
<1>6. /\ DOMAIN u = PubMembers /\ u.origin = k.pub.origin /\ u.own = own /\ u.open = k.pub.open
      /\ u.aac = k.pub.aac /\ u.setMeta = k.pub.setMeta /\ DOMAIN own = DOMAIN k.pub.own
  BY <1>1 DEF PubTyped, PubMembers
<1> HIDE DEF u, s, r, own
<1>7. PubTyped(u, origin)
  BY <1>1, <1>6 DEF PubTyped
<1>8. PublisherGood(r, was, origin)
  BY <1>1, <1>3, <1>5, <1>7 DEF PublisherGood
<1> QED
  BY <1>8 DEF r

\* Metadata, and packets over RTMP.
LEMMA LoadMetaDataGood ==
  ASSUME NEW k, NEW was \in BOOLEAN, NEW origin, NEW t, NEW tracks \in SUBSET TrackNames, PublisherGood(k, was, origin)
  PROVE  PublisherGood(LoadMetaData(k, tracks, t), was, origin)
<1> DEFINE ready == [u \in tracks |-> FALSE]
           m == MakeTracks(k, ready, t)
           u == [m.pub EXCEPT !.setMeta = TRUE, !.recreate = @ \/ tracks = {}, !.described = tracks]
           r == [m EXCEPT !.pub = u]
<1>1. DOMAIN ready \subseteq TrackNames /\ \A v \in DOMAIN ready : ready[v] \in BOOLEAN
  OBVIOUS
<1>2. PublisherGood(m, was, origin)
  <2> HIDE DEF ready
  <2> QED
    BY <1>1, MakeTracksGood
<1>3. LoadMetaData(k, tracks, t) = r
  BY DEF LoadMetaData
<1> HIDE DEF m
<1>4. DOMAIN m = {"pub", "sink", "passed"} /\ PubTyped(m.pub, origin) /\ SinkGood(m.sink, was)
  BY <1>2 DEF PublisherGood
<1>5. /\ DOMAIN u = PubMembers /\ u.origin = m.pub.origin /\ u.own = m.pub.own /\ u.open = m.pub.open
      /\ u.aac = m.pub.aac /\ u.setMeta = TRUE
  BY <1>4 DEF PubTyped, PubMembers
<1>6. DOMAIN r = DOMAIN m /\ r.pub = u /\ r.sink = m.sink
  <2> HIDE DEF u
  <2> QED
    BY <1>4
<1> HIDE DEF u, r
<1>7. PubTyped(u, origin)
  BY <1>4, <1>5 DEF PubTyped
<1> QED
  BY <1>3, <1>4, <1>6, <1>7 DEF PublisherGood

LEMMA RtmpDecodeGood ==
  ASSUME NEW k, NEW was \in BOOLEAN, NEW origin, NEW t, NEW p \in Frames, PublisherGood(k, was, origin)
  PROVE  PublisherGood(RtmpDecode(k, p, t), was, origin)
<1> DEFINE aac == k.pub.aac \/ p.kind = "cfg"
           u == [k.pub EXCEPT !.aac = aac]
           k1 == [k EXCEPT !.pub.aac = aac]
<1>1. DOMAIN k = {"pub", "sink", "passed"} /\ PubTyped(k.pub, origin) /\ SinkGood(k.sink, was)
  BY DEF PublisherGood
<1>2. DOMAIN k1 = DOMAIN k /\ k1.pub = u /\ k1.sink = k.sink
  <2> HIDE DEF aac
  <2> QED
    BY <1>1
<1>3. /\ DOMAIN u = PubMembers /\ u.origin = k.pub.origin /\ u.own = k.pub.own /\ u.open = k.pub.open
      /\ u.aac = aac /\ u.setMeta = k.pub.setMeta
  BY <1>1 DEF PubTyped, PubMembers
<1>4. AACRtmpDecode(k, p, t) = IF k1.pub.aac THEN Decoded(k1, p, t) ELSE k1
  BY DEF AACRtmpDecode
<1>5. aac \in BOOLEAN
  OBVIOUS
<1> HIDE DEF aac, u, k1
<1>6. PublisherGood(k1, was, origin)
  BY <1>1, <1>2, <1>3, <1>5 DEF PublisherGood, PubTyped
<1>7. PublisherGood(AACRtmpDecode(k, p, t), was, origin)
  BY <1>4, <1>6, DecodedGood
<1> QED
  BY <1>7, DecodedGood DEF RtmpDecode

LEMMA OnRtmpChunkGood ==
  ASSUME NEW k, NEW was \in BOOLEAN, NEW origin, NEW t, NEW p \in Frames, PublisherGood(k, was, origin)
  PROVE  PublisherGood(OnRtmpChunk(k, p, t), was, origin)
<1>1. p.track \in TrackNames
  BY DEF Frames
<1>2. ASSUME NEW j, PublisherGood(j, was, origin) PROVE PublisherGood(InputRtmp(j, p, t), was, origin)
  <2> DEFINE m == IF p.track \in DOMAIN j.pub.own THEN j ELSE MakeTrack(j, p.track, FALSE, t)
  <2>1. PublisherGood(MakeTrack(j, p.track, FALSE, t), was, origin)
    <3>1. PICK no : no = FALSE
      OBVIOUS
    <3>2. no \in BOOLEAN
      BY <3>1
    <3> QED
      BY <3>1, <3>2, <1>1, <1>2, MakeTrackGood
  <2>2. PublisherGood(m, was, origin)
    BY <2>1, <1>2
  <2>3. InputRtmp(j, p, t) = RtmpDecode(m, p, t)
    BY DEF InputRtmp
  <2> HIDE DEF m
  <2> QED
    BY <2>2, <2>3, RtmpDecodeGood
<1>3. PublisherGood(LoadMetaData(k, {}, t), was, origin)
  BY LoadMetaDataGood
<1> QED
  BY <1>2, <1>3 DEF OnRtmpChunk

\* A packet over RTSP may also be the rest of a key frame.
RtspPackets == [track : TrackNames, kind : Kinds \cup {"rest"}, stamp : Int, n : Nat]

\* A packet over RTSP.
LEMMA InputRtpGood ==
  ASSUME NEW k, NEW was \in BOOLEAN, NEW origin, NEW t, NEW p \in RtspPackets, PublisherGood(k, was, origin)
  PROVE  PublisherGood(InputRtp(k, p, t), was, origin)
<1> DEFINE own == DOMAIN k.pub.own
<1>1. DOMAIN k = {"pub", "sink", "passed"} /\ PubTyped(k.pub, origin) /\ SinkGood(k.sink, was)
  BY DEF PublisherGood
<1>2. ASSUME NEW j, PublisherGood(j, was, origin), NEW n \in Nat
      PROVE  PublisherGood([j EXCEPT !.pub.open = n], was, origin)
  <2> DEFINE u == [j.pub EXCEPT !.open = n]
             r == [j EXCEPT !.pub.open = n]
  <2>1. DOMAIN j = {"pub", "sink", "passed"} /\ PubTyped(j.pub, origin) /\ SinkGood(j.sink, was)
    BY <1>2 DEF PublisherGood
  <2>2. DOMAIN r = DOMAIN j /\ r.pub = u /\ r.sink = j.sink
    BY <2>1
  <2>3. /\ DOMAIN u = PubMembers /\ u.origin = j.pub.origin /\ u.own = j.pub.own /\ u.open = n
        /\ u.aac = j.pub.aac /\ u.setMeta = j.pub.setMeta
    BY <2>1 DEF PubTyped, PubMembers
  <2> HIDE DEF u, r
  <2>4. PubTyped(u, origin)
    BY <1>2, <2>1, <2>3 DEF PubTyped
  <2>5. PublisherGood(r, was, origin)
    BY <2>1, <2>2, <2>4 DEF PublisherGood
  <2> QED
    BY <2>5 DEF r
<1>3. CASE p.track \notin own
  BY <1>3 DEF InputRtp
<1>4. CASE p.track \in own /\ p.kind = "idr"
  <2>1. InputRtp(k, p, t) = [k EXCEPT !.pub.open = p.n]
    BY <1>4 DEF InputRtp
  <2>2. p.n \in Nat
    BY DEF RtspPackets
  <2> QED
    BY <2>1, <2>2, <1>2
<1>5. CASE p.track \in own /\ p.kind = "rest"
  <2> DEFINE f == [p EXCEPT !.kind = "idr", !.n = k.pub.open]
             d == Decoded(k, f, t)
  <2>1. InputRtp(k, p, t) = [d EXCEPT !.pub.open = 0]
    BY <1>5 DEF InputRtp
  <2>2. f \in Frames
    BY <1>1 DEF RtspPackets, Frames, Kinds, PubTyped
  <2>3. PublisherGood(d, was, origin)
    <3> HIDE DEF f
    <3> QED
      BY <2>2, DecodedGood
  <2> HIDE DEF d
  <2>4. 0 \in Nat
    OBVIOUS
  <2> QED
    BY <2>1, <2>3, <2>4, <1>2
<1>6. CASE p.track \in own /\ p.kind \notin {"idr", "rest"}
  <2>1. InputRtp(k, p, t) = Decoded(k, p, t)
    BY <1>6 DEF InputRtp
  <2>2. p \in Frames
    BY <1>6 DEF RtspPackets, Frames
  <2> QED
    BY <2>1, <2>2, DecodedGood
<1> QED
  BY <1>3, <1>4, <1>5, <1>6
-----------------------------------------------------------------------------
(* What the sources of the protocols have in common. *)

\* The members of each.
SourceMembers == {"ring", "registered", "haveVideo", "cache", "keyPos", "lastStamp", "groups", "nobody"}
RtmpMembers == {"demand", "enabled", "clear", "encoders", "last", "meta", "config"} \cup SourceMembers
RtspMembers == {"encoders", "parts", "sdp"} \cup SourceMembers
Fmp4Members == {"tracks", "init", "cached", "lastKey"} \cup SourceMembers

\* What writing a packet changes.
Written == {"cache", "keyPos", "lastStamp", "groups"}

\* A cache of packets of which the first is a key frame when keyPos says so, and groups of them; of a muxer on demand
\* nothing is said, as it clears its cache.
CacheGood(m) ==
    /\ IsSequence(m.cache) /\ IsSequence(m.groups)
    /\ m.keyPos => m.cache # <<>> /\ m.cache[1].key
    /\ \A i \in 1 .. Len(m.groups) : m.groups[i].video /\ m.groups[i].key => m.groups[i].packets[1].key

\* A sequence over a set is one over a larger set.
LEMMA SequenceGrows ==
  ASSUME NEW s, IsSequence(s), NEW x
  PROVE  /\ IsSequence(Append(s, x)) /\ Append(s, x) # <<>> /\ Len(Append(s, x)) = Len(s) + 1 /\ Len(s) \in Nat
         /\ \A i \in 1 .. Len(s) : Append(s, x)[i] = s[i]
         /\ Append(s, x)[Len(s) + 1] = x
         /\ s # <<>> => 1 \in 1 .. Len(s)
<1>1. PICK S : s \in Seq(S)
  BY DEF IsSequence
<1> DEFINE T == S \cup {x}
<1>2. s \in Seq(T) /\ x \in T
  BY <1>1
<1> HIDE DEF T
<1>3. Append(s, x) \in Seq(T) /\ Len(Append(s, x)) = Len(s) + 1 /\ Len(s) \in Nat
      /\ (\A i \in 1 .. Len(s) : Append(s, x)[i] = s[i]) /\ Append(s, x)[Len(s) + 1] = x
  BY <1>2, AppendProperties, LenProperties
<1>4. Append(s, x) # <<>>
  BY <1>2, AppendProperties
<1>5. s # <<>> => 1 \in 1 .. Len(s)
  BY <1>2
<1> QED
  BY <1>3, <1>4, <1>5 DEF IsSequence

\* A packet that is written changes nothing else.
LEMMA FlushAllFrame ==
  ASSUME NEW m, Written \subseteq DOMAIN m
  PROVE  /\ DOMAIN FlushAll(m) = DOMAIN m
         /\ \A x \in DOMAIN m \ Written : FlushAll(m)[x] = m[x]
  BY DEF FlushAll, Written

LEMMA InputPacketFrame ==
  ASSUME NEW m, NEW p, Written \subseteq DOMAIN m
  PROVE  /\ DOMAIN InputPacket(m, p) = DOMAIN m
         /\ \A x \in DOMAIN m \ Written : InputPacket(m, p)[x] = m[x]
<1> DEFINE a == [m EXCEPT !.lastStamp[p.video] = p.stamp]
           m1 == IF IsFlushAble(m, p) THEN FlushAll(a) ELSE m
           q == [m1 EXCEPT !.cache = Append(@, p), !.keyPos = @ \/ (p.key /\ p.video)]
<1>1. DOMAIN a = DOMAIN m /\ \A x \in DOMAIN m \ Written : a[x] = m[x]
  BY DEF Written
<1>2. DOMAIN m1 = DOMAIN m /\ \A x \in DOMAIN m \ Written : m1[x] = m[x]
  <2> HIDE DEF a
  <2> QED
    BY <1>1, FlushAllFrame
<1>3. DOMAIN q = DOMAIN m /\ \A x \in DOMAIN m \ Written : q[x] = m[x]
  <2> HIDE DEF m1
  <2> QED
    BY <1>2 DEF Written
<1>4. InputPacket(m, p) = q
  BY DEF InputPacket
<1> HIDE DEF q
<1> QED
  BY <1>3, <1>4

\* A packet that is written keeps the cache good.
LEMMA FlushAllCache ==
  ASSUME NEW m, Written \subseteq DOMAIN m, CacheGood(m)
  PROVE  CacheGood(FlushAll(m)) /\ FlushAll(m).cache = <<>>
<1> DEFINE g == [key |-> m.haveVideo => m.keyPos, video |-> m.haveVideo, packets |-> m.cache]
           r == [m EXCEPT !.groups = Append(@, g), !.cache = <<>>, !.keyPos = FALSE]
<1>1. CASE m.cache = <<>>
  BY <1>1 DEF FlushAll
<1>2. CASE m.cache # <<>>
  <2>1. FlushAll(m) = r
    BY <1>2 DEF FlushAll
  <2>2. g.video /\ g.key => g.packets[1].key
    BY <1>2 DEF CacheGood
  <2> HIDE DEF g
  <2>3. r.groups = Append(m.groups, g) /\ r.cache = <<>> /\ r.keyPos = FALSE
    BY DEF Written
  <2> HIDE DEF r
  <2>4. /\ IsSequence(r.groups) /\ Len(r.groups) = Len(m.groups) + 1 /\ Len(m.groups) \in Nat
        /\ \A i \in 1 .. Len(m.groups) : r.groups[i] = m.groups[i]
        /\ r.groups[Len(m.groups) + 1] = g
    <3>1. IsSequence(m.groups)
      BY DEF CacheGood
    <3> QED
      BY <2>3, <3>1, SequenceGrows
  <2>5. \A i \in 1 .. Len(r.groups) : r.groups[i].video /\ r.groups[i].key => r.groups[i].packets[1].key
    <3> TAKE i \in 1 .. Len(r.groups)
    <3>1. CASE i = Len(m.groups) + 1
      BY <3>1, <2>2, <2>4
    <3>2. CASE i # Len(m.groups) + 1
      <4>1. i \in 1 .. Len(m.groups) /\ r.groups[i] = m.groups[i]
        BY <3>2, <2>4
      <4> QED
        BY <4>1 DEF CacheGood
    <3> QED
      BY <3>1, <3>2
  <2>6. IsSequence(<<>>)
    <3>1. <<>> \in Seq({})
      OBVIOUS
    <3> QED
      BY <3>1 DEF IsSequence
  <2>7. CacheGood(r)
    BY <2>3, <2>4, <2>5, <2>6 DEF CacheGood
  <2> QED
    BY <2>1, <2>3, <2>7
<1> QED
  BY <1>1, <1>2

LEMMA InputPacketCache ==
  ASSUME NEW m, NEW p, Written \subseteq DOMAIN m, CacheGood(m)
  PROVE  CacheGood(InputPacket(m, p))
<1> DEFINE a == [m EXCEPT !.lastStamp[p.video] = p.stamp]
           m1 == IF IsFlushAble(m, p) THEN FlushAll(a) ELSE m
           q == [m1 EXCEPT !.cache = Append(@, p), !.keyPos = @ \/ (p.key /\ p.video)]
<1>1. DOMAIN a = DOMAIN m /\ a.cache = m.cache /\ a.groups = m.groups /\ a.keyPos = m.keyPos
  BY DEF Written
<1> HIDE DEF a
<1>2. Written \subseteq DOMAIN a /\ CacheGood(a)
  BY <1>1 DEF CacheGood
<1>3. DOMAIN m1 = DOMAIN m /\ CacheGood(m1) /\ (p.key /\ p.video => m1.cache = <<>>)
  BY <1>1, <1>2, FlushAllCache, FlushAllFrame DEF IsFlushAble
<1> HIDE DEF m1
<1>4. q.cache = Append(m1.cache, p) /\ q.groups = m1.groups /\ (q.keyPos <=> m1.keyPos \/ (p.key /\ p.video))
  BY <1>3 DEF Written
<1>5. InputPacket(m, p) = q
  BY DEF InputPacket, m1, a
<1> HIDE DEF q
<1>6. IsSequence(m1.cache)
  BY <1>3 DEF CacheGood
<1>7. ASSUME q.keyPos PROVE q.cache[1].key
  <2>1. CASE p.key /\ p.video
    <3>1. m1.cache = <<>> /\ Len(m1.cache) = 0
      BY <2>1, <1>3
    <3>2. q.cache[1] = p
      BY <3>1, <1>4, <1>6, SequenceGrows
    <3> QED
      BY <2>1, <3>2
  <2>2. CASE ~(p.key /\ p.video)
    <3>1. m1.keyPos
      BY <2>2, <1>4, <1>7
    <3>2. m1.cache # <<>> /\ m1.cache[1].key
      BY <3>1, <1>3 DEF CacheGood
    <3>3. q.cache[1] = m1.cache[1]
      BY <3>2, <1>4, <1>6, SequenceGrows
    <3> QED
      BY <3>2, <3>3
  <2> QED
    BY <2>1, <2>2
<1>8. IsSequence(q.cache) /\ q.cache # <<>>
  BY <1>4, <1>6, SequenceGrows
<1>9. CacheGood(q)
  BY <1>3, <1>4, <1>7, <1>8 DEF CacheGood
<1> QED
  BY <1>5, <1>9
-----------------------------------------------------------------------------
(* RTMP.  Source q follows from m: a ring that is made says that nobody watches, and stops a muxer on demand. *)

Follows(m, q) ==
    /\ q.demand = m.demand
    /\ m.ring => q.ring /\ (q.enabled <=> m.enabled)
    /\ ~m.ring /\ q.ring => q.nobody /\ (q.enabled <=> ~q.demand)
    /\ m.nobody => q.nobody

\* What describes a stream is there when players find it; "all" is whether the sink said that all tracks are ready.
RtmpFound(m, origin, all) ==
    /\ m.registered => m.ring /\ m.meta
    /\ origin = "rtmp" => m.encoders = {}
    /\ origin # "rtmp" => (m.ring => all) /\ (all => m.meta /\ m.encoders \subseteq m.config)
RtmpGood(m, origin, all) == DOMAIN m = RtmpMembers /\ RtmpFound(m, origin, all) /\ (~m.demand => CacheGood(m))

\* A source follows from itself, and what follows from one that follows.
LEMMA FollowsSelf == ASSUME NEW m PROVE Follows(m, m)
  BY DEF Follows

LEMMA FollowsOn ==
  ASSUME NEW m, NEW q, NEW r, Follows(m, q), Follows(q, r)
  PROVE  Follows(m, r)
  BY DEF Follows

\* What writing a packet does to a source.
LEMMA OnWriteGood ==
  ASSUME NEW m, NEW p, DOMAIN m = RtmpMembers
  PROVE  LET q == OnWrite(m, p)
         IN  /\ DOMAIN q = RtmpMembers /\ Follows(m, q) /\ q.ring
             /\ q.encoders = m.encoders /\ q.meta = m.meta /\ q.config = m.config /\ q.last = m.last
             /\ q.registered = IF m.ring THEN m.registered ELSE m.meta
             /\ CacheGood(m) => CacheGood(q)
<1> DEFINE m1 == [m EXCEPT !.haveVideo = @ \/ p.video]
           m2 == [m1 EXCEPT !.ring = TRUE]
           m3 == ReaderChanged(m2, 0)
           m4 == [m3 EXCEPT !.registered = m1.meta]
           m5 == IF m1.ring THEN m1 ELSE m4
           q == OnWrite(m, p)
           Same(x, y) == /\ DOMAIN y = RtmpMembers /\ y.demand = x.demand /\ y.cache = x.cache /\ y.keyPos = x.keyPos
                         /\ y.groups = x.groups /\ y.encoders = x.encoders /\ y.meta = x.meta /\ y.config = x.config
                         /\ y.last = x.last
<1>1. Same(m, m1) /\ m1.ring = m.ring /\ m1.enabled = m.enabled /\ m1.nobody = m.nobody /\ m1.registered = m.registered
  BY DEF RtmpMembers, SourceMembers
<1> HIDE DEF m1
<1>2. Same(m1, m2) /\ m2.ring = TRUE /\ m2.nobody = m1.nobody
  BY <1>1 DEF RtmpMembers, SourceMembers
<1> HIDE DEF m2
<1>3. Same(m2, m3) /\ m3.ring = m2.ring /\ m3.nobody = TRUE /\ (m3.enabled <=> ~m2.demand)
  <2> DEFINE en == ~m2.demand \/ 0 > 0
             cl == m2.clear \/ (m2.demand /\ 0 = 0)
             no == 0 = 0
  <2>1. m3 = [m2 EXCEPT !.enabled = en, !.clear = cl, !.nobody = no]
    BY DEF ReaderChanged
  <2>2. (en <=> ~m2.demand) /\ no = TRUE
    OBVIOUS
  <2> HIDE DEF en, cl, no, m3
  <2>3. Same(m2, m3) /\ m3.ring = m2.ring /\ m3.nobody = no /\ m3.enabled = en
    BY <1>2, <2>1 DEF RtmpMembers, SourceMembers
  <2> QED
    BY <2>2, <2>3
<1> HIDE DEF m3
<1>4. Same(m3, m4) /\ m4.ring = m3.ring /\ m4.nobody = m3.nobody /\ m4.enabled = m3.enabled /\ m4.registered = m1.meta
  BY <1>3 DEF RtmpMembers, SourceMembers
<1> HIDE DEF m4
<1>5. Same(m, m5) /\ Follows(m, m5) /\ m5.ring /\ m5.registered = IF m.ring THEN m.registered ELSE m.meta
  <2>1. Same(m, m4)
    BY <1>1, <1>2, <1>3, <1>4
  <2>2. CASE m.ring
    BY <1>1, <2>2 DEF Follows
  <2>3. CASE ~m.ring
    <3>1. m5 = m4 /\ m4.registered = m.meta
      BY <1>1, <1>4, <2>3
    <3>2. Follows(m, m4)
      BY <1>1, <1>2, <1>3, <1>4, <2>3 DEF Follows
    <3>3. m4.ring
      BY <1>2, <1>3, <1>4
    <3> QED
      BY <2>1, <2>3, <3>1, <3>2, <3>3
  <2> QED
    BY <2>2, <2>3
<1>6. q = InputPacket(m5, p)
  BY DEF OnWrite, m1, m2, m3, m4
<1> HIDE DEF m5, q
<1>7. Written \subseteq DOMAIN m5 /\ Written \subseteq DOMAIN m
  BY <1>5 DEF Written, RtmpMembers, SourceMembers
<1>8. DOMAIN q = RtmpMembers /\ \A x \in RtmpMembers \ Written : q[x] = m5[x]
  BY <1>5, <1>6, <1>7, InputPacketFrame
<1>9. /\ q.demand = m5.demand /\ q.ring = m5.ring /\ q.enabled = m5.enabled /\ q.nobody = m5.nobody
      /\ q.registered = m5.registered /\ q.encoders = m5.encoders /\ q.meta = m5.meta /\ q.config = m5.config
      /\ q.last = m5.last
  BY <1>8 DEF RtmpMembers, SourceMembers, Written
<1>10. CacheGood(m) => CacheGood(q)
  <2>1. CacheGood(m) => CacheGood(m5)
    BY <1>5 DEF CacheGood
  <2> QED
    BY <2>1, <1>6, <1>7, InputPacketCache
<1>11. Follows(m, q)
  BY <1>5, <1>9 DEF Follows
<1>12. /\ DOMAIN q = RtmpMembers /\ Follows(m, q) /\ q.ring
       /\ q.encoders = m.encoders /\ q.meta = m.meta /\ q.config = m.config /\ q.last = m.last
       /\ q.registered = IF m.ring THEN m.registered ELSE m.meta
       /\ CacheGood(m) => CacheGood(q)
  BY <1>5, <1>8, <1>9, <1>10, <1>11
<1> QED
  BY <1>12 DEF q

\* A packet that is written once the tracks are ready, or that a publisher sent.
LEMMA OnWriteKeeps ==
  ASSUME NEW m, NEW p, NEW origin, NEW all \in BOOLEAN, RtmpGood(m, origin, all), origin # "rtmp" => all
  PROVE  RtmpGood(OnWrite(m, p), origin, all) /\ Follows(m, OnWrite(m, p)) /\ OnWrite(m, p).encoders = m.encoders
<1> DEFINE q == OnWrite(m, p)
<1>1. DOMAIN m = RtmpMembers /\ RtmpFound(m, origin, all) /\ (~m.demand => CacheGood(m))
  BY DEF RtmpGood
<1>2. /\ DOMAIN q = RtmpMembers /\ Follows(m, q) /\ q.ring
      /\ q.encoders = m.encoders /\ q.meta = m.meta /\ q.config = m.config
      /\ q.registered = IF m.ring THEN m.registered ELSE m.meta
      /\ CacheGood(m) => CacheGood(q)
  BY <1>1, OnWriteGood
<1> HIDE DEF q
<1>3. RtmpFound(q, origin, all)
  BY <1>1, <1>2 DEF RtmpFound
<1>4. q.demand = m.demand
  BY <1>2 DEF Follows
<1>5. RtmpGood(q, origin, all)
  BY <1>1, <1>2, <1>3, <1>4 DEF RtmpGood
<1> QED
  BY <1>2, <1>5 DEF q

\* A member of a muxer that neither the ring nor its readers know of.
LEMMA RtmpSameKeeps ==
  ASSUME NEW m, NEW q, NEW origin, NEW all \in BOOLEAN, RtmpGood(m, origin, all),
         DOMAIN q = RtmpMembers, \A x \in RtmpMembers \ {"last", "clear"} : q[x] = m[x]
  PROVE  RtmpGood(q, origin, all) /\ Follows(m, q) /\ q.encoders = m.encoders
<1>1. /\ q.demand = m.demand /\ q.ring = m.ring /\ q.enabled = m.enabled /\ q.nobody = m.nobody
      /\ q.registered = m.registered /\ q.encoders = m.encoders /\ q.meta = m.meta /\ q.config = m.config
      /\ q.cache = m.cache /\ q.keyPos = m.keyPos /\ q.groups = m.groups
  BY DEF RtmpMembers, SourceMembers
<1>2. CacheGood(m) => CacheGood(q)
  BY <1>1 DEF CacheGood
<1>3. RtmpFound(q, origin, all)
  BY <1>1 DEF RtmpFound, RtmpGood
<1> QED
  BY <1>1, <1>2, <1>3 DEF RtmpGood, Follows

\* A frame that is muxed.
LEMMA EncodeVideoKeeps ==
  ASSUME NEW m, NEW f, NEW origin, NEW all \in BOOLEAN, RtmpGood(m, origin, all), origin # "rtmp" => all
  PROVE  RtmpGood(EncodeVideo(m, f), origin, all) /\ Follows(m, EncodeVideo(m, f))
<1> DEFINE done == m.last # NoPacket /\ m.last.stamp # f.stamp
           w == OnWrite(m, m.last)
           w1 == [w EXCEPT !.last = NoPacket]
           m1 == IF done THEN w1 ELSE m
           l == IF m1.last = NoPacket THEN Packet(f) ELSE Joined(m1.last, Packet(f))
           q == [m1 EXCEPT !.last = l]
<1>1. RtmpGood(w, origin, all) /\ Follows(m, w)
  BY OnWriteKeeps
<1> HIDE DEF w
<1>2. RtmpGood(w1, origin, all) /\ Follows(w, w1)
  <2>1. DOMAIN w1 = RtmpMembers /\ \A x \in RtmpMembers \ {"last", "clear"} : w1[x] = w[x]
    BY <1>1 DEF RtmpGood, RtmpMembers
  <2> HIDE DEF w1
  <2> QED
    BY <1>1, <2>1, RtmpSameKeeps
<1> HIDE DEF w1
<1>3. RtmpGood(m1, origin, all) /\ Follows(m, m1)
  BY <1>1, <1>2, FollowsOn, FollowsSelf
<1> HIDE DEF m1
<1>4. RtmpGood(q, origin, all) /\ Follows(m1, q)
  <2>1. DOMAIN q = RtmpMembers /\ \A x \in RtmpMembers \ {"last", "clear"} : q[x] = m1[x]
    <3> HIDE DEF l
    <3> QED
      BY <1>3 DEF RtmpGood, RtmpMembers
  <2> HIDE DEF q
  <2> QED
    BY <1>3, <2>1, RtmpSameKeeps
<1>5. EncodeVideo(m, f) = q
  BY DEF EncodeVideo, m1, w1, w
<1> HIDE DEF q
<1> QED
  BY <1>3, <1>4, <1>5, FollowsOn

LEMMA MuxFrameKeeps ==
  ASSUME NEW m, NEW f, NEW origin, NEW all \in BOOLEAN, RtmpGood(m, origin, all), origin # "rtmp" => all
  PROVE  RtmpGood(MuxFrame(m, f), origin, all) /\ Follows(m, MuxFrame(m, f))
<1> DEFINE c == [m EXCEPT !.clear = FALSE, !.cache = <<>>]
           m1 == IF m.clear /\ m.demand THEN c ELSE m
<1>1. ASSUME m.demand PROVE RtmpGood(c, origin, all) /\ Follows(m, c)
  <2>1. /\ DOMAIN c = RtmpMembers /\ c.demand = m.demand /\ c.ring = m.ring /\ c.enabled = m.enabled
        /\ c.nobody = m.nobody /\ c.registered = m.registered /\ c.encoders = m.encoders /\ c.meta = m.meta
        /\ c.config = m.config
    BY DEF RtmpGood, RtmpMembers, SourceMembers
  <2> HIDE DEF c
  <2>2. RtmpFound(c, origin, all)
    BY <2>1 DEF RtmpFound, RtmpGood
  <2> QED
    BY <1>1, <2>1, <2>2 DEF RtmpGood, Follows
<1> HIDE DEF c
<1>2. RtmpGood(m1, origin, all) /\ Follows(m, m1)
  BY <1>1, FollowsSelf
<1> HIDE DEF m1
<1>3. MuxFrame(m, f) \in {m1, EncodeVideo(m1, f), OnWrite(m1, Packet(f))}
  BY DEF MuxFrame, m1, c
<1>4. RtmpGood(EncodeVideo(m1, f), origin, all) /\ Follows(m1, EncodeVideo(m1, f))
  BY <1>2, EncodeVideoKeeps
<1>5. RtmpGood(OnWrite(m1, Packet(f)), origin, all) /\ Follows(m1, OnWrite(m1, Packet(f)))
  BY <1>2, OnWriteKeeps
<1>6. Follows(m, EncodeVideo(m1, f)) /\ Follows(m, OnWrite(m1, Packet(f)))
  BY <1>2, <1>4, <1>5, FollowsOn
<1> QED
  BY <1>2, <1>3, <1>4, <1>5, <1>6

\* A track that got ready, and all of them.
LEMMA RtmpReadyKeeps ==
  ASSUME NEW m, NEW t, NEW origin, origin # "rtmp", RtmpGood(m, origin, FALSE)
  PROVE  RtmpGood(MuxAddTrack(m, t), origin, FALSE) /\ Follows(m, MuxAddTrack(m, t))
<1> DEFINE q == [m EXCEPT !.encoders = @ \cup {t}]
<1>1. /\ DOMAIN q = RtmpMembers /\ q.demand = m.demand /\ q.ring = m.ring /\ q.enabled = m.enabled
      /\ q.nobody = m.nobody /\ q.registered = m.registered /\ q.meta = m.meta
      /\ q.cache = m.cache /\ q.keyPos = m.keyPos /\ q.groups = m.groups
  BY DEF RtmpGood, RtmpMembers, SourceMembers
<1>2. q = MuxAddTrack(m, t)
  BY DEF MuxAddTrack
<1> HIDE DEF q
<1>3. RtmpFound(q, origin, FALSE) /\ (CacheGood(m) => CacheGood(q)) /\ Follows(m, q)
  BY <1>1 DEF RtmpGood, RtmpFound, CacheGood, Follows
<1>4. RtmpGood(q, origin, FALSE)
  BY <1>1, <1>3 DEF RtmpGood
<1> QED
  BY <1>2, <1>3, <1>4

LEMMA RtmpAllKeeps ==
  ASSUME NEW m, NEW origin, origin # "rtmp", RtmpGood(m, origin, FALSE)
  PROVE  RtmpGood(MuxAllTrackReady(m), origin, TRUE) /\ Follows(m, MuxAllTrackReady(m))
<1> DEFINE q == [m EXCEPT !.config = m.encoders, !.meta = TRUE, !.registered = m.ring]
<1>1. /\ DOMAIN q = RtmpMembers /\ q.demand = m.demand /\ q.ring = m.ring /\ q.enabled = m.enabled
      /\ q.nobody = m.nobody /\ q.registered = m.ring /\ q.meta = TRUE /\ q.config = m.encoders
      /\ q.encoders = m.encoders /\ q.cache = m.cache /\ q.keyPos = m.keyPos /\ q.groups = m.groups
  BY DEF RtmpGood, RtmpMembers, SourceMembers
<1>2. q = MuxAllTrackReady(m)
  BY DEF MuxAllTrackReady
<1> HIDE DEF q
<1>3. RtmpFound(q, origin, TRUE) /\ (CacheGood(m) => CacheGood(q)) /\ Follows(m, q)
  BY <1>1 DEF RtmpGood, RtmpFound, CacheGood, Follows
<1>4. RtmpGood(q, origin, TRUE)
  BY <1>1, <1>3 DEF RtmpGood
<1> QED
  BY <1>2, <1>3, <1>4

\* An event that comes in its order.
LEMMA MuxEventKeeps ==
  ASSUME NEW m, NEW origin, origin # "rtmp", NEW a \in BOOLEAN, NEW b \in BOOLEAN, NEW e \in EventSet,
         RtmpGood(m, origin, a), e[1] = "frame" <=> a, b <=> a \/ e[1] = "all"
  PROVE  RtmpGood(MuxEvent(m, e), origin, b) /\ Follows(m, MuxEvent(m, e))
<1>1. e[1] \in {"ready", "all", "frame"}
  BY DEF EventSet
<1>2. CASE e[1] = "ready"
  <2>1. a = FALSE /\ b = FALSE
    BY <1>2
  <2>2. MuxEvent(m, e) = MuxAddTrack(m, e[2])
    BY <1>2 DEF MuxEvent
  <2> QED
    BY <2>1, <2>2, RtmpReadyKeeps
<1>3. CASE e[1] = "all"
  <2>1. a = FALSE /\ b = TRUE
    BY <1>3
  <2>2. MuxEvent(m, e) = MuxAllTrackReady(m)
    BY <1>3 DEF MuxEvent
  <2> QED
    BY <2>1, <2>2, RtmpAllKeeps
<1>4. CASE e[1] = "frame"
  <2>1. a = TRUE /\ b = a
    BY <1>4
  <2>2. MuxEvent(m, e) = MuxFrame(m, e[2])
    BY <1>4 DEF MuxEvent
  <2> QED
    BY <2>1, <2>2, MuxFrameKeeps
<1> QED
  BY <1>1, <1>2, <1>3, <1>4

\* What a publisher over RTMP does to its source.
LEMMA SetMetaDataKeeps ==
  ASSUME NEW m, NEW all \in BOOLEAN, RtmpGood(m, "rtmp", all)
  PROVE  RtmpGood(SetMetaData(m), "rtmp", all) /\ Follows(m, SetMetaData(m))
<1> DEFINE q == [m EXCEPT !.meta = TRUE, !.registered = m.ring]
<1>1. /\ DOMAIN q = RtmpMembers /\ q.demand = m.demand /\ q.ring = m.ring /\ q.enabled = m.enabled
      /\ q.nobody = m.nobody /\ q.registered = m.ring /\ q.meta = TRUE
      /\ q.encoders = m.encoders /\ q.cache = m.cache /\ q.keyPos = m.keyPos /\ q.groups = m.groups
  BY DEF RtmpGood, RtmpMembers, SourceMembers
<1>2. q = SetMetaData(m)
  BY DEF SetMetaData
<1> HIDE DEF q
<1>3. RtmpFound(q, "rtmp", all) /\ (CacheGood(m) => CacheGood(q)) /\ Follows(m, q)
  BY <1>1 DEF RtmpGood, RtmpFound, CacheGood, Follows
<1>4. RtmpGood(q, "rtmp", all)
  BY <1>1, <1>3 DEF RtmpGood
<1> QED
  BY <1>2, <1>3, <1>4

\* A packet of a publisher over RTMP.
LEMMA PublishRtmpKeeps ==
  ASSUME NEW m, NEW p, NEW all \in BOOLEAN, RtmpGood(m, "rtmp", all)
  PROVE  RtmpGood(PublishRtmp(m, p), "rtmp", all) /\ Follows(m, PublishRtmp(m, p))
<1> DEFINE q == [m EXCEPT !.config = @ \cup {p.track}, !.haveVideo = @ \/ p.track = "video"]
<1>1. /\ DOMAIN q = RtmpMembers /\ q.demand = m.demand /\ q.ring = m.ring /\ q.enabled = m.enabled
      /\ q.nobody = m.nobody /\ q.registered = m.registered /\ q.meta = m.meta
      /\ q.encoders = m.encoders /\ q.cache = m.cache /\ q.keyPos = m.keyPos /\ q.groups = m.groups
  BY DEF RtmpGood, RtmpMembers, SourceMembers
<1>2. PublishRtmp(m, p) = IF p.kind = "cfg" THEN q ELSE OnWrite(m, Packet(p))
  BY DEF PublishRtmp
<1> HIDE DEF q
<1>3. RtmpFound(q, "rtmp", all) /\ (CacheGood(m) => CacheGood(q)) /\ Follows(m, q)
  BY <1>1 DEF RtmpGood, RtmpFound, CacheGood, Follows
<1>4. RtmpGood(q, "rtmp", all)
  BY <1>1, <1>3 DEF RtmpGood
<1> QED
  BY <1>2, <1>3, <1>4, OnWriteKeeps
-----------------------------------------------------------------------------
(* RTSP and fMP4: what describes a stream is there when players find it. *)

RtspFound(m, origin, all) ==
    /\ m.registered => m.ring /\ m.sdp # <<>>
    /\ origin = "rtsp" => m.encoders = {}
    /\ origin # "rtsp" => m.encoders \subseteq Range(m.parts) /\ (m.ring => all) /\ (all => m.sdp = m.parts)
RtspGood(m, origin, all) == DOMAIN m = RtspMembers /\ IsSequence(m.parts) /\ RtspFound(m, origin, all)

\* A packet that is written once the tracks are ready, or that a publisher sent.
LEMMA RtspWriteKeeps ==
  ASSUME NEW m, NEW p, NEW origin, NEW all \in BOOLEAN, RtspGood(m, origin, all), origin # "rtsp" => all
  PROVE  RtspGood(RtspWrite(m, p), origin, all)
<1> DEFINE r == [m EXCEPT !.ring = TRUE, !.nobody = TRUE, !.registered = m.sdp # <<>>]
           m1 == IF m.ring THEN m ELSE r
           q == RtspWrite(m, p)
<1>1. /\ DOMAIN r = RtspMembers /\ r.ring = TRUE /\ (r.registered <=> m.sdp # <<>>) /\ r.sdp = m.sdp
      /\ r.encoders = m.encoders /\ r.parts = m.parts
  <2> DEFINE found == m.sdp # <<>>
  <2>1. found \in BOOLEAN /\ r = [m EXCEPT !.ring = TRUE, !.nobody = TRUE, !.registered = found]
    OBVIOUS
  <2> HIDE DEF found, r
  <2>2. /\ DOMAIN r = RtspMembers /\ r.ring = TRUE /\ r.registered = found /\ r.sdp = m.sdp
        /\ r.encoders = m.encoders /\ r.parts = m.parts
    BY <2>1 DEF RtspGood, RtspMembers, SourceMembers
  <2> QED
    BY <2>2 DEF found
<1> HIDE DEF r
<1>2. RtspGood(m1, origin, all)
  BY <1>1 DEF RtspGood, RtspFound
<1>3. q = InputPacket(m1, p)
  BY DEF RtspWrite, r
<1> HIDE DEF m1, q
<1>4. Written \subseteq DOMAIN m1 /\ DOMAIN m1 = RtspMembers
  BY <1>2 DEF RtspGood, Written, RtspMembers, SourceMembers
<1>5. DOMAIN q = RtspMembers /\ \A x \in RtspMembers \ Written : q[x] = m1[x]
  BY <1>3, <1>4, InputPacketFrame
<1>6. /\ q.ring = m1.ring /\ q.registered = m1.registered /\ q.sdp = m1.sdp /\ q.encoders = m1.encoders
      /\ q.parts = m1.parts
  BY <1>5 DEF RtspMembers, SourceMembers, Written
<1>7. RtspGood(q, origin, all)
  BY <1>2, <1>5, <1>6 DEF RtspGood, RtspFound
<1> QED
  BY <1>7 DEF q

\* The function that RtspWrites computes.
WritesAfter(f, m, ps) == f = [i \in 0 .. Len(ps) |-> IF i = 0 THEN m ELSE RtspWrite(f[i - 1], ps[i])]

\* There is one such function, and the operator is its last value.
LEMMA WritesExists ==
  ASSUME NEW m, NEW ps, Len(ps) \in Nat
  PROVE  \E f : WritesAfter(f, m, ps)
<1> DEFINE G(n, f) == f = [i \in 0 .. n |-> IF i = 0 THEN m ELSE RtspWrite(f[i - 1], ps[i])]
           T == {n \in Nat : ~ \E f : G(n, f)}
<1>1. CASE T = {}
  BY <1>1 DEF WritesAfter
<1>2. CASE T # {}
  <2>1. PICK n \in T : \A k \in T : n <= k
    BY <1>2, LeastOf
  <2>2. G(0, [i \in 0 .. 0 |-> m])
    OBVIOUS
  <2>3. n \in Nat /\ n # 0
    BY <2>1, <2>2
  <2>4. n - 1 \in Nat /\ ~(n <= n - 1)
    BY <2>3
  <2>5. n - 1 \notin T
    <3> HIDE DEF T
    <3> QED
      BY <2>1, <2>4
  <2>6. PICK g : G(n - 1, g)
    BY <2>4, <2>5
  <2> DEFINE h == [i \in 0 .. n |-> IF i < n THEN g[i] ELSE RtspWrite(g[i - 1], ps[i])]
  <2>7. \A i \in 0 .. n : h[i] = IF i = 0 THEN m ELSE RtspWrite(h[i - 1], ps[i])
    <3> TAKE i \in 0 .. n
    <3>1. CASE i = n
      BY <3>1, <2>3
    <3>2. CASE i < n
      <4>1. i \in 0 .. n - 1 /\ (i # 0 => i - 1 \in 0 .. n - 1)
        BY <3>2, <2>3
      <4>2. g[i] = IF i = 0 THEN m ELSE RtspWrite(g[i - 1], ps[i])
        BY <4>1, <2>6
      <4> QED
        BY <4>1, <4>2, <3>2
    <3> QED
      BY <3>1, <3>2
  <2>8. G(n, h)
    BY <2>7
  <2> QED
    BY <2>1, <2>8
<1> QED
  BY <1>1, <1>2

\* What it is, position by position.
LEMMA WritesAt ==
  ASSUME NEW m, NEW ps, NEW f, WritesAfter(f, m, ps)
  PROVE  \A i \in 0 .. Len(ps) : f[i] = IF i = 0 THEN m ELSE RtspWrite(f[i - 1], ps[i])
<1> DEFINE g == [i \in 0 .. Len(ps) |-> IF i = 0 THEN m ELSE RtspWrite(f[i - 1], ps[i])]
<1>1. \A i \in 0 .. Len(ps) : g[i] = IF i = 0 THEN m ELSE RtspWrite(f[i - 1], ps[i])
  OBVIOUS
<1>2. f = g
  BY DEF WritesAfter
<1> HIDE DEF g
<1> QED
  BY <1>1, <1>2

\* RtspWrites is its last value.
LEMMA WritesIs ==
  ASSUME NEW m, NEW ps, Len(ps) \in Nat
  PROVE  \E f : WritesAfter(f, m, ps) /\ RtspWrites(m, ps) = f[Len(ps)]
<1>1. PICK f : f = CHOOSE g : WritesAfter(g, m, ps)
  OBVIOUS
<1>2. WritesAfter(f, m, ps)
  BY <1>1, WritesExists
<1>3. RtspWrites(m, ps) = (CHOOSE g : WritesAfter(g, m, ps))[Len(ps)]
  BY DEF RtspWrites, WritesAfter
<1> QED
  BY <1>1, <1>2, <1>3

\* A frame that is muxed.
LEMMA RtspFrameKeeps ==
  ASSUME NEW m, NEW f \in Frames, NEW origin, NEW all \in BOOLEAN, RtspGood(m, origin, all), origin # "rtsp" => all
  PROVE  RtspGood(RtspFrame(m, f), origin, all)
<1> DEFINE ps == RtpPackets(f)
<1>1. Len(ps) \in Nat
  <2>1. \A a, b : Len(<<>>) = 0 /\ Len(<<a>>) = 1 /\ Len(<<a, b>>) = 2
    OBVIOUS
  <2>2. f.kind \in {"cfg", "idr", "p", "a"}
    BY DEF Frames, Kinds
  <2>3. CASE f.kind = "cfg"
    BY <2>1, <2>3 DEF RtpPackets
  <2>4. CASE f.kind = "idr"
    BY <2>1, <2>4 DEF RtpPackets
  <2>5. CASE f.kind = "p"
    BY <2>1, <2>5 DEF RtpPackets
  <2>6. CASE f.kind = "a"
    BY <2>1, <2>6 DEF RtpPackets
  <2> QED
    BY <2>2, <2>3, <2>4, <2>5, <2>6
<1>2. RtspFrame(m, f) \in {m, RtspWrites(m, ps)}
  BY DEF RtspFrame
<1> HIDE DEF ps
<1>3. PICK g : WritesAfter(g, m, ps) /\ RtspWrites(m, ps) = g[Len(ps)]
  BY <1>1, WritesIs
<1>4. \A i \in 0 .. Len(ps) : g[i] = IF i = 0 THEN m ELSE RtspWrite(g[i - 1], ps[i])
  BY <1>3, WritesAt
<1> DEFINE T == {n \in 0 .. Len(ps) : ~RtspGood(g[n], origin, all)}
<1>5. CASE T = {}
  BY <1>1, <1>2, <1>3, <1>5
<1>6. CASE T # {}
  <2>1. T \in SUBSET Nat
    BY <1>1
  <2>2. PICK n \in T : \A k \in T : n <= k
    BY <1>6, <2>1, LeastOf
  <2>3. n # 0
    BY <2>2, <1>4
  <2>4. n \in 1 .. Len(ps) /\ n - 1 \in 0 .. Len(ps) /\ ~(n <= n - 1)
    BY <1>1, <2>2, <2>3
  <2>5. RtspGood(g[n - 1], origin, all)
    BY <2>2, <2>4
  <2>6. g[n] = RtspWrite(g[n - 1], ps[n])
    BY <1>4, <2>3, <2>4
  <2>7. RtspGood(g[n], origin, all)
    BY <2>5, <2>6, RtspWriteKeeps
  <2> QED
    BY <2>2, <2>7
<1> QED
  BY <1>5, <1>6

\* A track that got ready, and all of them.
LEMMA RtspReadyKeeps ==
  ASSUME NEW m, NEW t, NEW origin, origin # "rtsp", RtspGood(m, origin, FALSE)
  PROVE  RtspGood(RtspAddTrack(m, t), origin, FALSE)
<1> DEFINE q == [m EXCEPT !.encoders = @ \cup {t}, !.parts = Append(@, t)]
<1>1. /\ DOMAIN q = RtspMembers /\ q.ring = m.ring /\ q.registered = m.registered /\ q.sdp = m.sdp
      /\ q.encoders = m.encoders \cup {t} /\ q.parts = Append(m.parts, t)
  BY DEF RtspGood, RtspMembers, SourceMembers
<1>2. q = RtspAddTrack(m, t)
  BY DEF RtspAddTrack
<1> HIDE DEF q
<1>3. Range(m.parts) \cup {t} \subseteq Range(Append(m.parts, t)) /\ IsSequence(Append(m.parts, t))
  <2>1. PICK S : m.parts \in Seq(S)
    BY DEF RtspGood, IsSequence
  <2>2. /\ IsSequence(Append(m.parts, t)) /\ Len(Append(m.parts, t)) = Len(m.parts) + 1 /\ Len(m.parts) \in Nat
        /\ \A i \in 1 .. Len(m.parts) : Append(m.parts, t)[i] = m.parts[i]
        /\ Append(m.parts, t)[Len(m.parts) + 1] = t
    BY SequenceGrows DEF RtspGood
  <2>3. DOMAIN m.parts = 1 .. Len(m.parts) /\ DOMAIN Append(m.parts, t) = 1 .. Len(m.parts) + 1
    <3>1. PICK U : Append(m.parts, t) \in Seq(U)
      BY <2>2 DEF IsSequence
    <3> QED
      BY <2>1, <2>2, <3>1, LenProperties
  <2> QED
    BY <2>2, <2>3 DEF Range
<1>4. RtspFound(q, origin, FALSE)
  BY <1>1, <1>3 DEF RtspGood, RtspFound
<1>5. RtspGood(q, origin, FALSE)
  BY <1>1, <1>3, <1>4 DEF RtspGood
<1> QED
  BY <1>2, <1>5

\* What an SDP does to a source.
LEMMA SetSdpIs ==
  ASSUME NEW m, NEW parts, DOMAIN m = RtspMembers
  PROVE  LET q == SetSdp(m, parts)
         IN  /\ DOMAIN q = RtspMembers /\ q.ring = m.ring /\ q.registered = m.ring /\ q.sdp = parts
             /\ q.encoders = m.encoders /\ q.parts = m.parts
  BY DEF SetSdp, RtspMembers, SourceMembers

LEMMA RtspAllKeeps ==
  ASSUME NEW m, NEW origin, origin # "rtsp", RtspGood(m, origin, FALSE)
  PROVE  RtspGood(RtspAllTrackReady(m), origin, TRUE)
  BY SetSdpIs DEF RtspAllTrackReady, RtspGood, RtspFound

\* An event that comes in its order.
LEMMA RtspEventKeeps ==
  ASSUME NEW m, NEW origin, origin # "rtsp", NEW a \in BOOLEAN, NEW b \in BOOLEAN, NEW e \in EventSet,
         RtspGood(m, origin, a), e[1] = "frame" <=> a, b <=> a \/ e[1] = "all"
  PROVE  RtspGood(RtspEvent(m, e), origin, b)
<1>1. e[1] \in {"ready", "all", "frame"} /\ (e[1] = "frame" => e[2] \in Frames)
  BY DEF EventSet
<1>2. CASE e[1] = "ready"
  <2>1. a = FALSE /\ b = FALSE
    BY <1>2
  <2>2. RtspEvent(m, e) = RtspAddTrack(m, e[2])
    BY <1>2 DEF RtspEvent
  <2> QED
    BY <2>1, <2>2, RtspReadyKeeps
<1>3. CASE e[1] = "all"
  <2>1. a = FALSE /\ b = TRUE
    BY <1>3
  <2>2. RtspEvent(m, e) = RtspAllTrackReady(m)
    BY <1>3 DEF RtspEvent
  <2> QED
    BY <2>1, <2>2, RtspAllKeeps
<1>4. CASE e[1] = "frame"
  <2>1. a = TRUE /\ b = a
    BY <1>4
  <2>2. RtspEvent(m, e) = RtspFrame(m, e[2])
    BY <1>4 DEF RtspEvent
  <2>3. e[2] \in Frames
    BY <1>1, <1>4
  <2> QED
    BY <2>1, <2>2, <2>3, RtspFrameKeeps
<1> QED
  BY <1>1, <1>2, <1>3, <1>4

\* What a publisher over RTSP does to its source.
LEMMA AnnouncedKeeps ==
  ASSUME NEW m, NEW parts, parts # <<>>, NEW all \in BOOLEAN, RtspGood(m, "rtsp", all)
  PROVE  RtspGood(SetSdp(m, parts), "rtsp", all)
  BY SetSdpIs DEF RtspGood, RtspFound

\* A packet of a publisher over RTSP.
LEMMA PublishRtpKeeps ==
  ASSUME NEW m, NEW p, NEW all \in BOOLEAN, RtspGood(m, "rtsp", all)
  PROVE  RtspGood(PublishRtp(m, p), "rtsp", all)
<1> DEFINE what == IF p.kind = "cfg" THEN "sps" ELSE p.kind
           r == [RtpPacket(p, what, p.kind \in {"cfg", "idr"}) EXCEPT !.video = p.track = "video",
                     !.frames = IF p.kind \in {"idr", "p", "a"} THEN << p.n >> ELSE <<>>]
<1>1. PublishRtp(m, p) = RtspWrite(m, r)
  BY DEF PublishRtp
<1> HIDE DEF r
<1> QED
  BY <1>1, RtspWriteKeeps

\* The ring of an fMP4 source is made by the first segment of a track, and audio is none.
Fmp4Good(m) ==
    DOMAIN m = Fmp4Members /\ (m.registered => m.ring) /\ (m.ring => m.init /\ m.tracks # {})

\* A frame that is muxed.
LEMMA Fmp4FrameKeeps ==
  ASSUME NEW m, NEW f, Fmp4Good(m)
  PROVE  Fmp4Good(Fmp4Frame(m, f))
<1> DEFINE cut == Cut(m, f)
           key == f.kind = "idr"
           m1 == [m EXCEPT !.cached = cut.cached, !.lastKey = key]
           p == Segment(cut.sample, m.lastKey, f)
           r == [m1 EXCEPT !.ring = TRUE, !.nobody = TRUE, !.registered = m1.init]
           m2 == IF m1.ring THEN m1 ELSE r
           m3 == [m2 EXCEPT !.haveVideo = @ \/ p.key]
           w == Fmp4Write(m1, p)
           Same(x, y) == DOMAIN y = Fmp4Members /\ y.init = x.init /\ y.tracks = x.tracks
<1>1. ASSUME cut.sample # <<>> PROVE m.tracks # {}
  <2>1. CASE f.track \in m.tracks
    BY <2>1
  <2>2. CASE f.track \notin m.tracks
    <3>1. cut = [cached |-> m.cached, sample |-> <<>>]
      BY <2>2 DEF Cut
    <3> HIDE DEF cut
    <3> QED
      BY <3>1, <1>1
  <2> QED
    BY <2>1, <2>2
<1>2. Fmp4Frame(m, f) = IF ~m.init THEN m ELSE IF cut.sample = <<>> THEN m1 ELSE w
  BY DEF Fmp4Frame
<1> HIDE DEF cut, key
<1>3. Same(m, m1) /\ m1.ring = m.ring /\ m1.registered = m.registered
  BY DEF Fmp4Good, Fmp4Members, SourceMembers
<1>4. Fmp4Good(m1)
  BY <1>3 DEF Fmp4Good
<1> HIDE DEF m1
<1>5. Same(m1, r) /\ r.ring = TRUE
  BY <1>3 DEF Fmp4Members, SourceMembers
<1> HIDE DEF r
<1>6. Same(m1, m2) /\ m2.ring
  BY <1>3, <1>5
<1> HIDE DEF m2
<1>7. Same(m1, m3) /\ m3.ring
  <2> HIDE DEF p
  <2> QED
    BY <1>6 DEF Fmp4Members, SourceMembers
<1>8. w = InputPacket(m3, p)
  BY DEF Fmp4Write, m3, m2, r
<1> HIDE DEF m3, p, w
<1>9. Same(m1, w) /\ w.ring
  <2>1. Written \subseteq DOMAIN m3
    BY <1>7 DEF Written, Fmp4Members, SourceMembers
  <2>2. DOMAIN w = Fmp4Members /\ \A x \in Fmp4Members \ Written : w[x] = m3[x]
    BY <1>7, <1>8, <2>1, InputPacketFrame
  <2>3. w.init = m3.init /\ w.tracks = m3.tracks /\ w.ring = m3.ring
    BY <2>2 DEF Written, Fmp4Members, SourceMembers
  <2> QED
    BY <1>7, <2>2, <2>3
<1>10. ASSUME m.init, m.tracks # {} PROVE Fmp4Good(w)
  BY <1>3, <1>9, <1>10 DEF Fmp4Good
<1> QED
  BY <1>1, <1>2, <1>4, <1>10

\* Any event.
LEMMA Fmp4EventKeeps ==
  ASSUME NEW m, NEW e \in EventSet, Fmp4Good(m)
  PROVE  Fmp4Good(Fmp4Event(m, e))
<1>1. e[1] \in {"ready", "all", "frame"}
  BY DEF EventSet
<1>2. CASE e[1] = "ready"
  <2> DEFINE q == [m EXCEPT !.tracks = @ \cup ({e[2]} \cap {"video"})]
  <2>1. Fmp4Event(m, e) = q
    BY <1>2 DEF Fmp4Event, Fmp4AddTrack
  <2>2. DOMAIN q = Fmp4Members /\ q.ring = m.ring /\ q.registered = m.registered /\ q.init = m.init
        /\ m.tracks \subseteq q.tracks
    BY DEF Fmp4Good, Fmp4Members, SourceMembers
  <2> HIDE DEF q
  <2> QED
    BY <2>1, <2>2 DEF Fmp4Good
<1>3. CASE e[1] = "all"
  <2> DEFINE q == [m EXCEPT !.init = TRUE, !.registered = m.ring]
  <2>1. Fmp4Event(m, e) = q
    BY <1>3 DEF Fmp4Event, Fmp4AllTrackReady
  <2>2. DOMAIN q = Fmp4Members /\ q.ring = m.ring /\ q.registered = m.ring /\ q.init = TRUE /\ q.tracks = m.tracks
    BY DEF Fmp4Good, Fmp4Members, SourceMembers
  <2> HIDE DEF q
  <2> QED
    BY <2>1, <2>2 DEF Fmp4Good
<1>4. CASE e[1] = "frame"
  <2>1. Fmp4Event(m, e) = Fmp4Frame(m, e[2])
    BY <1>4 DEF Fmp4Event
  <2> QED
    BY <2>1, Fmp4FrameKeeps
<1> QED
  BY <1>1, <1>2, <1>3, <1>4
-----------------------------------------------------------------------------
(* What the sink tells goes to all muxers, event by event. *)

\* The sources of the three protocols, of which the first follows from m0.
MuxersGood(m0, ms, origin, all) ==
    RtmpGood(ms[1], origin, all) /\ Follows(m0, ms[1]) /\ RtspGood(ms[2], origin, all) /\ Fmp4Good(ms[3])

\* An event that a source does not get.
LEMMA NotForwarded ==
  ASSUME NEW m, NEW a, NEW b
  PROVE  /\ RtmpGood(m, "rtmp", a) => RtmpGood(m, "rtmp", b)
         /\ RtspGood(m, "rtsp", a) => RtspGood(m, "rtsp", b)
  BY DEF RtmpGood, RtmpFound, RtspGood, RtspFound

\* An event that goes to all, and all events.
LEMMA ForwardKeeps ==
  ASSUME NEW m0, NEW ms, NEW a \in BOOLEAN, NEW b \in BOOLEAN, NEW e \in EventSet,
         MuxersGood(m0, ms, pub.origin, a), e[1] = "frame" <=> a, b <=> a \/ e[1] = "all"
  PROVE  MuxersGood(m0, Forward(ms, e), pub.origin, b)
<1> DEFINE m1 == IF pub.origin = "rtmp" THEN ms[1] ELSE MuxEvent(ms[1], e)
           m2 == IF pub.origin = "rtsp" THEN ms[2] ELSE RtspEvent(ms[2], e)
           m3 == Fmp4Event(ms[3], e)
<1>1. RtmpGood(m1, pub.origin, b) /\ Follows(m0, m1)
  <2>1. RtmpGood(ms[1], pub.origin, a) /\ Follows(m0, ms[1])
    BY DEF MuxersGood
  <2>2. CASE pub.origin = "rtmp"
    BY <2>1, <2>2, NotForwarded
  <2>3. CASE pub.origin # "rtmp"
    <3>1. RtmpGood(MuxEvent(ms[1], e), pub.origin, b) /\ Follows(ms[1], MuxEvent(ms[1], e))
      BY <2>1, <2>3, MuxEventKeeps
    <3> QED
      BY <2>1, <2>3, <3>1, FollowsOn
  <2> QED
    BY <2>2, <2>3
<1>2. RtspGood(m2, pub.origin, b)
  <2>1. RtspGood(ms[2], pub.origin, a)
    BY DEF MuxersGood
  <2>2. CASE pub.origin = "rtsp"
    BY <2>1, <2>2, NotForwarded
  <2>3. CASE pub.origin # "rtsp"
    BY <2>1, <2>3, RtspEventKeeps
  <2> QED
    BY <2>2, <2>3
<1>3. Fmp4Good(m3)
  BY Fmp4EventKeeps DEF MuxersGood
<1>4. Forward(ms, e) = << m1, m2, m3 >>
  BY DEF Forward
<1> HIDE DEF m1, m2, m3
<1> QED
  BY <1>1, <1>2, <1>3, <1>4 DEF MuxersGood

\* The function that Forwarded computes.
ForwardAfter(f, o) == f = [i \in 0 .. Len(o) |-> IF i = 0 THEN sources ELSE Forward(f[i - 1], o[i])]

\* There is one such function, and the operator is its last value.
LEMMA ForwardExists ==
  ASSUME NEW o, Len(o) \in Nat
  PROVE  \E f : ForwardAfter(f, o)
<1> DEFINE G(n, f) == f = [i \in 0 .. n |-> IF i = 0 THEN sources ELSE Forward(f[i - 1], o[i])]
           T == {n \in Nat : ~ \E f : G(n, f)}
<1>1. CASE T = {}
  BY <1>1 DEF ForwardAfter
<1>2. CASE T # {}
  <2>1. PICK n \in T : \A m \in T : n <= m
    BY <1>2, LeastOf
  <2>2. G(0, [i \in 0 .. 0 |-> sources])
    OBVIOUS
  <2>3. n \in Nat /\ n # 0
    BY <2>1, <2>2
  <2>4. n - 1 \in Nat /\ ~(n <= n - 1)
    BY <2>3
  <2>5. n - 1 \notin T
    <3> HIDE DEF T
    <3> QED
      BY <2>1, <2>4
  <2>6. PICK g : G(n - 1, g)
    BY <2>4, <2>5
  <2> DEFINE h == [i \in 0 .. n |-> IF i < n THEN g[i] ELSE Forward(g[i - 1], o[i])]
  <2>7. \A i \in 0 .. n : h[i] = IF i = 0 THEN sources ELSE Forward(h[i - 1], o[i])
    <3> TAKE i \in 0 .. n
    <3>1. CASE i = n
      BY <3>1, <2>3
    <3>2. CASE i < n
      <4>1. i \in 0 .. n - 1 /\ (i # 0 => i - 1 \in 0 .. n - 1)
        BY <3>2, <2>3
      <4>2. g[i] = IF i = 0 THEN sources ELSE Forward(g[i - 1], o[i])
        BY <4>1, <2>6
      <4> QED
        BY <4>1, <4>2, <3>2
    <3> QED
      BY <3>1, <3>2
  <2>8. G(n, h)
    BY <2>7
  <2> QED
    BY <2>1, <2>8
<1> QED
  BY <1>1, <1>2

\* What it is, position by position.
LEMMA ForwardAt ==
  ASSUME NEW o, NEW f, ForwardAfter(f, o)
  PROVE  \A i \in 0 .. Len(o) : f[i] = IF i = 0 THEN sources ELSE Forward(f[i - 1], o[i])
<1> DEFINE g == [i \in 0 .. Len(o) |-> IF i = 0 THEN sources ELSE Forward(f[i - 1], o[i])]
<1>1. \A i \in 0 .. Len(o) : g[i] = IF i = 0 THEN sources ELSE Forward(f[i - 1], o[i])
  OBVIOUS
<1>2. f = g
  BY DEF ForwardAfter
<1> HIDE DEF g
<1> QED
  BY <1>1, <1>2

\* Forwarded is its last value.
LEMMA ForwardIs ==
  ASSUME NEW k, Len(k.sink.out) \in Nat
  PROVE  \E f : ForwardAfter(f, k.sink.out) /\ Forwarded(k) = f[Len(k.sink.out)]
<1>1. PICK f : f = CHOOSE g : ForwardAfter(g, k.sink.out)
  OBVIOUS
<1>2. ForwardAfter(f, k.sink.out)
  BY <1>1, ForwardExists
<1>3. Forwarded(k) = (CHOOSE g : ForwardAfter(g, k.sink.out))[Len(k.sink.out)]
  BY DEF Forwarded, ForwardAfter
<1> QED
  BY <1>1, <1>2, <1>3

LEMMA ForwardedKeeps ==
  ASSUME NEW m0, NEW k, NEW was \in BOOLEAN, SinkGood(k.sink, was), MuxersGood(m0, sources, pub.origin, was)
  PROVE  MuxersGood(m0, Forwarded(k), pub.origin, k.sink.allReady)
<1> DEFINE o == k.sink.out
           AllIn(n) == was \/ \E j \in 1 .. n : o[j][1] = "all"
<1>1. /\ o \in Seq(EventSet) /\ k.sink.allReady \in BOOLEAN
      /\ k.sink.allReady <=> was \/ \E j \in DOMAIN o : o[j][1] = "all"
      /\ \A i \in DOMAIN o : o[i][1] = "frame" <=> AllIn(i - 1)
  BY DEF SinkGood, SinkTyped, Says
<1>2. Len(o) \in Nat /\ DOMAIN o = 1 .. Len(o) /\ \A i \in 1 .. Len(o) : o[i] \in EventSet
  BY <1>1, LenProperties, ElementOfSeq
<1>3. PICK f : ForwardAfter(f, o) /\ Forwarded(k) = f[Len(o)]
  BY <1>2, ForwardIs
<1>4. \A i \in 0 .. Len(o) : f[i] = IF i = 0 THEN sources ELSE Forward(f[i - 1], o[i])
  <2> HIDE DEF o
  <2> QED
    BY <1>3, ForwardAt
<1> HIDE DEF o
<1>5. \A n \in 0 .. Len(o) : AllIn(n) \in BOOLEAN
  OBVIOUS
<1> DEFINE T == {n \in 0 .. Len(o) : ~MuxersGood(m0, f[n], pub.origin, AllIn(n))}
<1>6. CASE T = {}
  <2>1. MuxersGood(m0, f[Len(o)], pub.origin, AllIn(Len(o)))
    BY <1>2, <1>6
  <2>2. AllIn(Len(o)) = k.sink.allReady
    BY <1>1, <1>2
  <2> HIDE DEF AllIn
  <2> QED
    BY <1>3, <2>1, <2>2
<1>7. CASE T # {}
  <2>1. T \in SUBSET Nat
    BY <1>2
  <2>2. PICK n \in T : \A i \in T : n <= i
    BY <1>7, <2>1, LeastOf
  <2>3. n # 0
    <3>1. AllIn(0) = was
      OBVIOUS
    <3> HIDE DEF AllIn
    <3> QED
      BY <2>2, <1>2, <1>4, <3>1
  <2>4. n \in 1 .. Len(o) /\ n - 1 \in 0 .. Len(o) /\ ~(n <= n - 1)
    BY <1>2, <2>2, <2>3
  <2>5. MuxersGood(m0, f[n - 1], pub.origin, AllIn(n - 1))
    BY <2>2, <2>4
  <2>6. f[n] = Forward(f[n - 1], o[n])
    BY <1>4, <2>3, <2>4
  <2>7. AllIn(n) <=> AllIn(n - 1) \/ o[n][1] = "all"
    <3>1. \A j \in 1 .. n : j = n \/ j \in 1 .. n - 1
      BY <2>4
    <3>2. n \in 1 .. n /\ \A j \in 1 .. n - 1 : j \in 1 .. n
      BY <2>4
    <3> QED
      BY <3>1, <3>2
  <2>8. o[n] \in EventSet /\ (o[n][1] = "frame" <=> AllIn(n - 1))
    BY <1>1, <1>2, <2>4
  <2>9. AllIn(n) \in BOOLEAN /\ AllIn(n - 1) \in BOOLEAN
    OBVIOUS
  <2> HIDE DEF AllIn
  <2>10. MuxersGood(m0, Forward(f[n - 1], o[n]), pub.origin, AllIn(n))
    BY <2>5, <2>7, <2>8, <2>9, ForwardKeeps
  <2> QED
    BY <2>2, <2>6, <2>10
<1> QED
  BY <1>6, <1>7
-----------------------------------------------------------------------------
(* The steps of the device or the publisher. *)

\* What holds of the thread the stream comes in by.
DeviceInv ==
    /\ PubTyped(pub, pub.origin) /\ pub.origin \in {"none", "rtmp", "rtsp"}
    /\ rest \in Seq(Calls(pub.origin)) /\ now \in Nat
    /\ SinkGood(sink, sink.allReady) /\ sink.out = <<>>
    /\ RtmpGood(rtmp, pub.origin, sink.allReady) /\ RtspGood(rtsp, pub.origin, sink.allReady) /\ Fmp4Good(fmp4)

\* What a step of it does to the ring and the timer.
RingStep ==
    /\ rtmp'.demand = rtmp.demand
    /\ rtmp.ring => rtmp'.ring /\ (rtmp'.enabled <=> rtmp.enabled)
    /\ ~rtmp.ring /\ rtmp'.ring => (rtmp'.enabled <=> ~rtmp'.demand) /\ timer' = Arm(0) /\ quiet' = now
    /\ \/ timer' = Arm(0) /\ quiet' = now
       \/ timer' = timer /\ quiet' = quiet
    /\ UNCHANGED << now, readers, pending, changes, noticed >>

\* The members of a call, and by which protocol it comes.
LEMMA CallIs ==
  ASSUME DeviceInv, rest # <<>>
  PROVE  LET c == Head(rest)
         IN  /\ Tail(rest) \in Seq(Calls(pub.origin)) /\ Len(rest) \in Nat
             /\ c.call \in {"add", "frame", "packet"} => c.track \in TrackNames
             /\ c.call = "frame" => c.kind \in Kinds /\ c.ahead \in Int
             /\ c.call = "metadata" => pub.origin = "rtmp" /\ c.tracks \in SUBSET TrackNames
             /\ c.call = "sdp" => /\ pub.origin = "rtsp" /\ DOMAIN c.tracks \subseteq TrackNames /\ DOMAIN c.tracks # {}
                                  /\ \A t \in DOMAIN c.tracks : c.tracks[t] \in BOOLEAN
             /\ c.call = "packet" => \/ pub.origin = "rtmp" /\ c.kind \in Kinds
                                     \/ pub.origin = "rtsp" /\ c.kind \in Kinds \cup {"rest"}
<1> DEFINE c == Head(rest)
<1>1. rest \in Seq(Calls(pub.origin)) /\ pub.origin \in {"none", "rtmp", "rtsp"}
  BY DEF DeviceInv
<1>2. c \in Calls(pub.origin) /\ Tail(rest) \in Seq(Calls(pub.origin)) /\ Len(rest) \in Nat
  BY <1>1, HeadTailProperties, LenProperties
<1> HIDE DEF c
<1>3. CASE pub.origin = "none"
  <2>1. \/ c \in [call : {"add"}, track : TrackNames, ready : BOOLEAN]
        \/ c \in [call : {"completed"}]
        \/ c \in [call : {"frame"}, track : TrackNames, kind : Kinds, ahead : Int]
    BY <1>2, <1>3 DEF Calls
  <2> QED
    BY <2>1, <1>2, <1>3 DEF c
<1>4. CASE pub.origin = "rtmp"
  <2>1. \/ c \in [call : {"metadata"}, tracks : SUBSET TrackNames]
        \/ c \in [call : {"packet"}, track : TrackNames, kind : Kinds]
    BY <1>2, <1>4 DEF Calls
  <2> QED
    BY <2>1, <1>2, <1>4 DEF c
<1>5. CASE pub.origin = "rtsp"
  <2>1. \/ c \in [call : {"sdp"}, tracks : UNION {[T -> BOOLEAN] : T \in (SUBSET TrackNames) \ {{}}}]
        \/ c \in [call : {"packet"}, track : TrackNames, kind : Kinds \cup {"rest"}]
    BY <1>2, <1>5 DEF Calls
  <2>2. CASE c \in [call : {"sdp"}, tracks : UNION {[T -> BOOLEAN] : T \in (SUBSET TrackNames) \ {{}}}]
    <3>1. c.call = "sdp" /\ \E T \in (SUBSET TrackNames) \ {{}} : c.tracks \in [T -> BOOLEAN]
      BY <2>2
    <3> QED
      BY <3>1, <1>2, <1>5 DEF c
  <2>3. CASE c \in [call : {"packet"}, track : TrackNames, kind : Kinds \cup {"rest"}]
    BY <2>3, <1>2, <1>5 DEF c
  <2> QED
    BY <2>1, <2>2, <2>3
<1> QED
  BY <1>1, <1>3, <1>4, <1>5

\* What all of them end with.
LEMMA HandledKeeps ==
  ASSUME DeviceInv, rest # <<>>, NEW k, NEW ms, PublisherGood(k, sink.allReady, pub.origin),
         MuxersGood(rtmp, ms, pub.origin, k.sink.allReady), Handled(k, ms)
  PROVE  DeviceInv' /\ RingStep
<1> DEFINE s == [k.sink EXCEPT !.out = <<>>]
           u == [k.pub EXCEPT !.described = DOMAIN k.pub.own]
           m == ms[1]
           q == [m EXCEPT !.nobody = FALSE]
           r == [ms[2] EXCEPT !.nobody = FALSE]
           w == [ms[3] EXCEPT !.nobody = FALSE]
<1>1. sink' = s /\ pub' = AllTrackReady(k) /\ rtmp' = q /\ rtsp' = r /\ fmp4' = w /\ rest' = Tail(rest) /\ now' = now
  BY DEF Handled
<1>2. RtmpGood(m, pub.origin, k.sink.allReady) /\ Follows(rtmp, m) /\ RtspGood(ms[2], pub.origin, k.sink.allReady)
      /\ Fmp4Good(ms[3])
  BY DEF MuxersGood
<1>3. PubTyped(k.pub, pub.origin) /\ SinkGood(k.sink, sink.allReady)
  BY DEF PublisherGood
<1>4. PubTyped(pub', pub.origin)
  <2> DEFINE v == [k.pub EXCEPT !.described = DOMAIN k.sink.tracks]
  <2>1. pub' \in {k.pub, v}
    BY <1>1 DEF AllTrackReady
  <2>2. DOMAIN v = PubMembers /\ v.origin = k.pub.origin /\ v.own = k.pub.own /\ v.open = k.pub.open
        /\ v.aac = k.pub.aac /\ v.setMeta = k.pub.setMeta
    BY <1>3 DEF PubTyped, PubMembers
  <2> HIDE DEF v
  <2>3. PubTyped(v, pub.origin)
    BY <1>3, <2>2 DEF PubTyped
  <2> QED
    BY <1>3, <2>1, <2>3
<1>5. SinkGood(s, s.allReady) /\ s.out = <<>> /\ s.allReady = k.sink.allReady
  <2>1. /\ DOMAIN s = SinkMembers /\ s.tracks = k.sink.tracks /\ s.callback = k.sink.callback
        /\ s.unread = k.sink.unread /\ s.allReady = k.sink.allReady /\ s.out = <<>>
    BY <1>3 DEF SinkGood, SinkTyped, SinkMembers
  <2> HIDE DEF s
  <2>2. SinkTyped(s)
    BY <1>3, <2>1 DEF SinkGood, SinkTyped
  <2>3. Says(s.allReady, s.out, s.allReady)
    BY <2>1, <2>2, SaysNothing DEF SinkTyped
  <2> QED
    BY <2>1, <2>2, <2>3 DEF SinkGood
<1>6. /\ DOMAIN q = RtmpMembers /\ q.demand = m.demand /\ q.ring = m.ring /\ q.enabled = m.enabled
      /\ q.registered = m.registered /\ q.meta = m.meta /\ q.config = m.config
      /\ q.encoders = m.encoders /\ q.cache = m.cache /\ q.keyPos = m.keyPos /\ q.groups = m.groups
  BY <1>2 DEF RtmpGood, RtmpMembers, SourceMembers
<1>7. /\ DOMAIN r = RtspMembers /\ r.ring = ms[2].ring /\ r.registered = ms[2].registered /\ r.sdp = ms[2].sdp
      /\ r.encoders = ms[2].encoders /\ r.parts = ms[2].parts
  BY <1>2 DEF RtspGood, RtspMembers, SourceMembers
<1>8. DOMAIN w = Fmp4Members /\ w.ring = ms[3].ring /\ w.registered = ms[3].registered /\ w.init = ms[3].init
      /\ w.tracks = ms[3].tracks
  BY <1>2 DEF Fmp4Good, Fmp4Members, SourceMembers
<1> HIDE DEF s, m, q, r, w
<1>9. RtmpGood(q, pub.origin, k.sink.allReady)
  <2>1. CacheGood(m) => CacheGood(q)
    BY <1>6 DEF CacheGood
  <2>2. RtmpFound(q, pub.origin, k.sink.allReady)
    BY <1>2, <1>6 DEF RtmpGood, RtmpFound
  <2> QED
    BY <1>2, <1>6, <2>1, <2>2 DEF RtmpGood
<1>10. RtspGood(r, pub.origin, k.sink.allReady)
  BY <1>2, <1>7 DEF RtspGood, RtspFound
<1>11. Fmp4Good(w)
  BY <1>2, <1>8 DEF Fmp4Good
<1>12. pub'.origin = pub.origin
  BY <1>4 DEF PubTyped
<1>13. DeviceInv'
  <2>1. rest' \in Seq(Calls(pub.origin))
    BY <1>1, CallIs
  <2> QED
    BY <1>1, <1>4, <1>5, <1>9, <1>10, <1>11, <1>12, <2>1 DEF DeviceInv
<1>14. RingStep
  <2>1. UNCHANGED << now, readers, pending, changes, noticed >>
    BY DEF Handled
  <2>2. IF \E i \in 1 .. 3 : ms[i].nobody THEN timer' = Arm(0) /\ quiet' = now ELSE UNCHANGED << timer, quiet >>
    BY DEF Handled
  <2>3. m.nobody => timer' = Arm(0) /\ quiet' = now
    BY <2>2 DEF m
  <2>4. \/ timer' = Arm(0) /\ quiet' = now
        \/ timer' = timer /\ quiet' = quiet
    BY <2>2
  <2>5. /\ rtmp'.demand = rtmp.demand
        /\ rtmp.ring => rtmp'.ring /\ (rtmp'.enabled <=> rtmp.enabled)
        /\ ~rtmp.ring /\ rtmp'.ring => (rtmp'.enabled <=> ~rtmp'.demand) /\ m.nobody
    BY <1>1, <1>2, <1>6 DEF Follows
  <2> QED
    BY <2>1, <2>3, <2>4, <2>5 DEF RingStep
<1> QED
  BY <1>13, <1>14

\* The muxers as they are, and what the publisher's session hands on when nothing came.
LEMMA SourcesGood ==
  ASSUME DeviceInv
  PROVE  MuxersGood(rtmp, sources, pub.origin, sink.allReady) /\ PublisherGood(Received, sink.allReady, pub.origin)
         /\ Received.sink = sink
<1>1. sources[1] = rtmp /\ sources[2] = rtsp /\ sources[3] = fmp4
  BY DEF sources
<1>2. DOMAIN Received = {"pub", "sink", "passed"} /\ Received.pub = pub /\ Received.sink = sink
  BY DEF Received
<1> QED
  BY <1>1, <1>2, FollowsSelf DEF DeviceInv, MuxersGood, PublisherGood

\* A device that calls the sink.
LEMMA DeviceCallsKeeps ==
  ASSUME DeviceInv, rest # <<>>, NEW s, SinkGood(s, sink.allReady), DeviceCalls(s)
  PROVE  DeviceInv' /\ RingStep
<1> DEFINE k == [Received EXCEPT !.sink = s]
<1>1. DOMAIN k = {"pub", "sink", "passed"} /\ k.pub = pub /\ k.sink = s
  BY DEF Received
<1>2. Handled(k, Forwarded(k))
  BY DEF DeviceCalls
<1> HIDE DEF k
<1>3. PublisherGood(k, sink.allReady, pub.origin)
  BY <1>1 DEF DeviceInv, PublisherGood
<1>4. sink.allReady \in BOOLEAN
  BY DEF DeviceInv, SinkGood, SinkTyped
<1>5. MuxersGood(rtmp, Forwarded(k), pub.origin, k.sink.allReady)
  BY <1>1, <1>4, SourcesGood, ForwardedKeeps
<1> QED
  BY <1>2, <1>3, <1>5, HandledKeeps

LEMMA DeviceKeeps ==
  ASSUME DeviceInv, AddsTrack \/ CompletesTracks \/ InputsFrame
  PROVE  DeviceInv' /\ RingStep
<1>1. sink.allReady \in BOOLEAN /\ SinkGood(sink, sink.allReady) /\ now \in Nat
  BY DEF DeviceInv, SinkGood, SinkTyped
<1>2. CASE AddsTrack
  <2>1. rest # <<>> /\ Head(rest).call = "add" /\ DeviceCalls(AddTrack(sink, Head(rest).track, Head(rest).ready, now))
    BY <1>2 DEF AddsTrack
  <2>2. Head(rest).track \in TrackNames
    BY <2>1, CallIs
  <2>3. SinkGood(AddTrack(sink, Head(rest).track, Head(rest).ready, now), sink.allReady)
    BY <1>1, <2>2, AddTrackGood
  <2> QED
    BY <2>1, <2>3, DeviceCallsKeeps
<1>3. CASE CompletesTracks
  <2>1. rest # <<>> /\ DeviceCalls(AddTrackCompleted(sink, now))
    BY <1>3 DEF CompletesTracks
  <2>2. SinkGood(AddTrackCompleted(sink, now), sink.allReady)
    BY <1>1, AddTrackCompletedGood
  <2> QED
    BY <2>1, <2>2, DeviceCallsKeeps
<1>4. CASE InputsFrame
  <2> DEFINE f == [track |-> Head(rest).track, kind |-> Head(rest).kind, stamp |-> now + Head(rest).ahead, n |-> Len(rest)]
  <2>1. rest # <<>> /\ Head(rest).call = "frame" /\ DeviceCalls(SinkFrame(sink, f, now))
    BY <1>4 DEF InputsFrame
  <2>2. Head(rest).track \in TrackNames /\ Head(rest).kind \in Kinds /\ Head(rest).ahead \in Int /\ Len(rest) \in Nat
    BY <2>1, CallIs
  <2>3. f \in Frames
    BY <1>1, <2>2 DEF Frames
  <2> HIDE DEF f
  <2>4. SinkGood(SinkFrame(sink, f, now), sink.allReady)
    BY <1>1, <2>3, SinkFrameGood
  <2> QED
    BY <2>1, <2>4, DeviceCallsKeeps
<1> QED
  BY <1>2, <1>3, <1>4

\* What a publisher sends.
LEMMA MetadataKeeps ==
  ASSUME DeviceInv, PublishesMetadata
  PROVE  DeviceInv' /\ RingStep
<1> DEFINE tracks == Head(rest).tracks
           k == LoadMetaData(Received, tracks, now)
           ms == Forwarded(k)
           q == << SetMetaData(ms[1]), ms[2], ms[3] >>
<1>1. rest # <<>> /\ Head(rest).call = "metadata" /\ Handled(k, q)
  BY DEF PublishesMetadata
<1>2. pub.origin = "rtmp" /\ tracks \in SUBSET TrackNames
  BY <1>1, CallIs
<1>3. sink.allReady \in BOOLEAN
  BY DEF DeviceInv, SinkGood, SinkTyped
<1>4. PublisherGood(k, sink.allReady, pub.origin)
  <2> HIDE DEF tracks
  <2> QED
    BY <1>2, <1>3, SourcesGood, LoadMetaDataGood
<1> HIDE DEF k
<1>5. SinkGood(k.sink, sink.allReady) /\ k.sink.allReady \in BOOLEAN
  BY <1>4 DEF PublisherGood, SinkGood, SinkTyped
<1>6. MuxersGood(rtmp, ms, pub.origin, k.sink.allReady)
  BY <1>3, <1>5, SourcesGood, ForwardedKeeps
<1> HIDE DEF ms
<1>7. MuxersGood(rtmp, q, pub.origin, k.sink.allReady)
  <2>1. RtmpGood(SetMetaData(ms[1]), pub.origin, k.sink.allReady) /\ Follows(ms[1], SetMetaData(ms[1]))
    BY <1>2, <1>5, <1>6, SetMetaDataKeeps DEF MuxersGood
  <2>2. Follows(rtmp, SetMetaData(ms[1]))
    BY <1>6, <2>1, FollowsOn DEF MuxersGood
  <2>3. q[1] = SetMetaData(ms[1]) /\ q[2] = ms[2] /\ q[3] = ms[3]
    OBVIOUS
  <2> QED
    BY <1>6, <2>1, <2>2, <2>3 DEF MuxersGood
<1> HIDE DEF q
<1> QED
  BY <1>1, <1>4, <1>7, HandledKeeps

LEMMA SdpKeeps ==
  ASSUME DeviceInv, PublishesSdp
  PROVE  DeviceInv' /\ RingStep
<1> DEFINE tracks == Head(rest).tracks
           k == LoadSdp(Received, tracks, now)
           ms == Forwarded(k)
           parts == SetToSeq(DOMAIN tracks)
           q == << ms[1], SetSdp(ms[2], parts), ms[3] >>
<1>1. rest # <<>> /\ Head(rest).call = "sdp" /\ Handled(k, q)
  BY DEF PublishesSdp
<1>2. pub.origin = "rtsp" /\ DOMAIN tracks \subseteq TrackNames /\ DOMAIN tracks # {}
      /\ \A t \in DOMAIN tracks : tracks[t] \in BOOLEAN
  BY <1>1, CallIs
<1>3. sink.allReady \in BOOLEAN
  BY DEF DeviceInv, SinkGood, SinkTyped
<1>4. PublisherGood(k, sink.allReady, pub.origin)
  <2> HIDE DEF tracks
  <2> QED
    BY <1>2, <1>3, SourcesGood, MakeTracksGood DEF LoadSdp
<1>5. parts # <<>>
  <2>1. IsFiniteSet(DOMAIN tracks)
    BY <1>2, TracksFinite
  <2>2. Len(parts) = Cardinality(DOMAIN tracks) /\ Cardinality(DOMAIN tracks) # 0
    BY <1>2, <2>1, SetToSeqIs, FS_EmptySet
  <2>3. Len(<<>>) = 0
    OBVIOUS
  <2> HIDE DEF parts
  <2> QED
    BY <2>2, <2>3
<1> HIDE DEF k
<1>6. SinkGood(k.sink, sink.allReady) /\ k.sink.allReady \in BOOLEAN
  BY <1>4 DEF PublisherGood, SinkGood, SinkTyped
<1>7. MuxersGood(rtmp, ms, pub.origin, k.sink.allReady)
  BY <1>3, <1>6, SourcesGood, ForwardedKeeps
<1> HIDE DEF ms, parts
<1>8. MuxersGood(rtmp, q, pub.origin, k.sink.allReady)
  <2>1. RtspGood(SetSdp(ms[2], parts), pub.origin, k.sink.allReady)
    BY <1>2, <1>5, <1>6, <1>7, AnnouncedKeeps DEF MuxersGood
  <2>2. q[1] = ms[1] /\ q[2] = SetSdp(ms[2], parts) /\ q[3] = ms[3]
    OBVIOUS
  <2> QED
    BY <1>7, <2>1, <2>2 DEF MuxersGood
<1> HIDE DEF q
<1> QED
  BY <1>1, <1>4, <1>8, HandledKeeps

LEMMA PacketKeeps ==
  ASSUME DeviceInv, PublishesPacket
  PROVE  DeviceInv' /\ RingStep
<1> DEFINE p == [track |-> Head(rest).track, kind |-> Head(rest).kind, stamp |-> now, n |-> Len(rest)]
           k == IF pub.origin = "rtmp" THEN OnRtmpChunk(Received, p, now) ELSE InputRtp(Received, p, now)
           ms == Forwarded(k)
           m == IF k.pub.setMeta THEN SetMetaData(ms[1]) ELSE ms[1]
           q1 == << ms[1], PublishRtp(ms[2], p), ms[3] >>
           q2 == << PublishRtmp(m, p), ms[2], ms[3] >>
           q == IF pub.origin = "rtsp" THEN q1 ELSE q2
<1>1. rest # <<>> /\ Head(rest).call = "packet" /\ Handled(k, q)
  BY DEF PublishesPacket
<1>2. Head(rest).track \in TrackNames /\ Len(rest) \in Nat
      /\ \/ pub.origin = "rtmp" /\ Head(rest).kind \in Kinds
         \/ pub.origin = "rtsp" /\ Head(rest).kind \in Kinds \cup {"rest"}
  BY <1>1, CallIs
<1>3. sink.allReady \in BOOLEAN /\ now \in Int
  BY DEF DeviceInv, SinkGood, SinkTyped
<1>4. PublisherGood(k, sink.allReady, pub.origin)
  <2>1. CASE pub.origin = "rtmp"
    <3>1. p \in Frames
      BY <1>2, <1>3, <2>1 DEF Frames
    <3> HIDE DEF p
    <3> QED
      BY <1>3, <2>1, <3>1, SourcesGood, OnRtmpChunkGood
  <2>2. CASE pub.origin = "rtsp"
    <3>1. p \in RtspPackets
      BY <1>2, <1>3, <2>2 DEF RtspPackets
    <3> HIDE DEF p
    <3> QED
      BY <1>3, <2>2, <3>1, SourcesGood, InputRtpGood
  <2> QED
    BY <1>2, <2>1, <2>2
<1> HIDE DEF k, p
<1>5. SinkGood(k.sink, sink.allReady) /\ k.sink.allReady \in BOOLEAN
  BY <1>4 DEF PublisherGood, SinkGood, SinkTyped
<1>6. MuxersGood(rtmp, ms, pub.origin, k.sink.allReady)
  BY <1>3, <1>5, SourcesGood, ForwardedKeeps
<1> HIDE DEF ms
<1>7. CASE pub.origin = "rtsp"
  <2>1. RtspGood(PublishRtp(ms[2], p), pub.origin, k.sink.allReady)
    BY <1>5, <1>6, <1>7, PublishRtpKeeps DEF MuxersGood
  <2>2. q1[1] = ms[1] /\ q1[2] = PublishRtp(ms[2], p) /\ q1[3] = ms[3]
    OBVIOUS
  <2>3. MuxersGood(rtmp, q1, pub.origin, k.sink.allReady)
    <3> HIDE DEF q1
    <3> QED
      BY <1>6, <2>1, <2>2 DEF MuxersGood
  <2>4. q = q1
    BY <1>7
  <2> HIDE DEF q, q1
  <2> QED
    BY <1>1, <1>4, <2>3, <2>4, HandledKeeps
<1>8. CASE pub.origin = "rtmp"
  <2>1. RtmpGood(ms[1], "rtmp", k.sink.allReady) /\ Follows(rtmp, ms[1])
    BY <1>6, <1>8 DEF MuxersGood
  <2>2. RtmpGood(m, "rtmp", k.sink.allReady) /\ Follows(rtmp, m)
    BY <1>5, <2>1, SetMetaDataKeeps, FollowsOn
  <2> HIDE DEF m
  <2>3. RtmpGood(PublishRtmp(m, p), "rtmp", k.sink.allReady) /\ Follows(m, PublishRtmp(m, p))
    BY <1>5, <2>2, PublishRtmpKeeps
  <2>4. Follows(rtmp, PublishRtmp(m, p))
    BY <2>2, <2>3, FollowsOn
  <2>5. q2[1] = PublishRtmp(m, p) /\ q2[2] = ms[2] /\ q2[3] = ms[3]
    OBVIOUS
  <2>6. MuxersGood(rtmp, q2, pub.origin, k.sink.allReady)
    <3> HIDE DEF q2
    <3> QED
      BY <1>6, <1>8, <2>3, <2>4, <2>5 DEF MuxersGood
  <2>7. q = q2
    BY <1>8
  <2> HIDE DEF q, q2
  <2> QED
    BY <1>1, <1>4, <2>6, <2>7, HandledKeeps
<1> QED
  BY <1>2, <1>7, <1>8
-----------------------------------------------------------------------------
(* The readers and the timer. *)

\* What pollers and the timer know.  When nobody watches and no poller has still to tell so, the close timer runs;
\* until the server is told, it fires in time.
ReaderInv ==
    /\ \A x \in readers : \E r \in Rings : \E p \in Homes[r] : x = << r, p >>
    /\ pending \in [Pollers -> {Nothing} \cup [ring : Rings, size : {-1} \cup Nat]]
    /\ \A p \in Pollers : pending[p] # Nothing => p \in Homes[pending[p].ring]
    /\ timer \in Int /\ quiet \in Nat /\ quiet <= now /\ noticed \in BOOLEAN
    /\ timer # -1 => now <= timer
TimerInv ==
    Nobody /\ rtmp.ring /\ (\A p \in Pollers : pending[p] # Nothing => pending[p].size > 0)
        => timer # -1 /\ timer <= now + NoneReader /\ (~noticed => timer <= quiet + NoneReader)

\* There are finitely many pollers, none of them on a ring "none".
LEMMA PollersFinite ==
  ASSUME MuxerAssumption
  PROVE  /\ IsFiniteSet(Pollers) /\ "none" \notin Rings /\ NoneReader \in Nat \ {0}
         /\ \A r : Count(r) \in Nat /\ (Count(r) > 0 <=> \E p \in Pollers : << r, p >> \in readers)
<1> DEFINE T == {"rtmp", "rtsp", "fmp4"}
           H == {Homes[r] : r \in Rings}
<1>1. Rings \subseteq T /\ (\A r \in Rings : IsFiniteSet(Homes[r])) /\ NoneReader \in Nat \ {0}
  BY DEF MuxerAssumption, Rings
<1>2. IsFiniteSet(T)
  <2>1. IsFiniteSet(({} \cup {"rtmp"}) \cup {"rtsp"})
    BY FS_EmptySet, FS_AddElement
  <2>2. IsFiniteSet((({} \cup {"rtmp"}) \cup {"rtsp"}) \cup {"fmp4"})
    BY <2>1, FS_AddElement
  <2>3. T = (({} \cup {"rtmp"}) \cup {"rtsp"}) \cup {"fmp4"}
    OBVIOUS
  <2> QED
    BY <2>2, <2>3
<1>3. "none" \notin Rings /\ IsFiniteSet(Rings)
  BY <1>1, <1>2, FS_Subset
<1>4. IsFiniteSet(Pollers)
  <2>1. ASSUME NEW S \in SUBSET Rings PROVE IsFiniteSet({Homes[r] : r \in S})
    <3>1. IsFiniteSet(S)
      BY <1>3, FS_Subset
    <3> DEFINE f == [r \in S |-> Homes[r]]
    <3>2. f \in Surjection(S, {Homes[r] : r \in S})
      BY DEF Surjection
    <3> QED
      BY <3>1, <3>2, FS_Surjection
  <2>2. IsFiniteSet(H) /\ \A S \in H : IsFiniteSet(S)
    BY <1>1, <2>1
  <2>3. Pollers = UNION H
    BY DEF Pollers
  <2> HIDE DEF H
  <2> QED
    BY <2>2, <2>3, FS_UNION
<1>5. ASSUME NEW r PROVE Count(r) \in Nat /\ (Count(r) > 0 <=> \E p \in Pollers : << r, p >> \in readers)
  <2> DEFINE S == {p \in Pollers : << r, p >> \in readers}
  <2>1. IsFiniteSet(S)
    BY <1>4, FS_Subset
  <2>2. Cardinality(S) \in Nat /\ (Cardinality(S) = 0 <=> S = {})
    BY <2>1, FS_CardinalityType, FS_EmptySet
  <2>3. Count(r) = Cardinality(S) /\ (S = {} <=> ~ \E p \in Pollers : << r, p >> \in readers)
    BY DEF Count
  <2> HIDE DEF S
  <2> QED
    BY <2>2, <2>3
<1> QED
  BY <1>1, <1>3, <1>4, <1>5

\* A pollers' ring is one of those it is on, or none.
LEMMA PendingIs ==
  ASSUME MuxerAssumption, ReaderInv, NEW p \in Pollers
  PROVE  /\ pending[p].size \in {-1} \cup Nat
         /\ pending[p] = Nothing \/ pending[p].ring \in Rings
         /\ pending[p] = Nothing <=> pending[p].ring = "none"
<1>1. pending[p] \in {Nothing} \cup [ring : Rings, size : {-1} \cup Nat] /\ "none" \notin Rings
  BY PollersFinite DEF ReaderInv
<1>2. CASE pending[p] = Nothing
  BY <1>2 DEF Nothing
<1>3. CASE pending[p] \in [ring : Rings, size : {-1} \cup Nat]
  BY <1>1, <1>3 DEF Nothing
<1> QED
  BY <1>1, <1>2, <1>3

-----------------------------------------------------------------------------
(* Steps of the device. *)

\* A ring that is made starts the timer.
LEMMA RingStepReaders ==
  ASSUME MuxerAssumption, now \in Nat, ReaderInv, TimerInv, RingStep
  PROVE  ReaderInv' /\ TimerInv'
<1>1. NoneReader \in Nat /\ NoneReader > 0
  BY PollersFinite
<1>2. now' = now /\ readers' = readers /\ pending' = pending /\ noticed' = noticed
  BY DEF RingStep
<1>3. timer \in Int /\ quiet \in Nat /\ quiet <= now /\ noticed \in BOOLEAN /\ (timer # -1 => now <= timer)
  BY DEF ReaderInv
<1>4. CASE timer' = Arm(0) /\ quiet' = now
  <2>1. timer' = IF Nobody THEN now + NoneReader ELSE timer
    BY <1>4 DEF Arm
  <2>2. timer' \in Int /\ (timer' # -1 => now <= timer')
    BY <1>1, <1>3, <2>1
  <2>3. ReaderInv'
    BY <1>2, <1>3, <1>4, <2>2 DEF ReaderInv
  <2>4. Nobody => timer' # -1 /\ timer' <= now + NoneReader /\ timer' <= quiet' + NoneReader
    BY <1>1, <1>4, <2>1
  <2>5. TimerInv'
    BY <1>2, <2>4 DEF TimerInv, Nobody
  <2> QED
    BY <2>3, <2>5
<1>5. CASE timer' = timer /\ quiet' = quiet
  <2>1. ReaderInv'
    BY <1>2, <1>5 DEF ReaderInv
  <2>2. CASE rtmp.ring \/ ~rtmp'.ring
    BY <1>2, <1>5, <2>1, <2>2 DEF TimerInv, Nobody
  <2>3. CASE ~rtmp.ring /\ rtmp'.ring
    <3>1. timer' = Arm(0) /\ quiet' = now
      BY <2>3 DEF RingStep
    <3> QED
      BY <3>1, <1>4
  <2> QED
    BY <2>1, <2>2, <2>3
<1> QED
  BY <1>4, <1>5 DEF RingStep

-----------------------------------------------------------------------------
(* Steps of the pollers and the timer. *)

\* A player that comes or goes, with its report to come.
LEMMA ChangesKeeps ==
  ASSUME MuxerAssumption, DeviceInv, ReaderInv, TimerInv, NEW r \in Rings, NEW p \in Homes[r], Changes(r, p)
  PROVE  DeviceInv' /\ ReaderInv' /\ TimerInv'
<1> DEFINE mine == [ring |-> r, size |-> -1]
<1>1. /\ pending[p] = Nothing /\ pending' = [pending EXCEPT ![p] = mine] /\ quiet' = now /\ noticed' = FALSE
      /\ readers' \in {readers \ {<< r, p >>}, readers \cup {<< r, p >>}}
      /\ UNCHANGED << device, now, timer >> /\ Source(r).registered
  BY DEF Changes
<1>2. p \in Pollers
  BY DEF Pollers
<1>3. pending \in [Pollers -> {Nothing} \cup [ring : Rings, size : {-1} \cup Nat]] /\ mine \in [ring : Rings, size : {-1} \cup Nat]
  BY DEF ReaderInv
<1>4. /\ pending' \in [Pollers -> {Nothing} \cup [ring : Rings, size : {-1} \cup Nat]]
      /\ pending'[p] = mine /\ \A q \in Pollers : q # p => pending'[q] = pending[q]
  BY <1>1, <1>2, <1>3
<1>5. mine # Nothing /\ mine.ring = r /\ mine.size = -1
  <2>1. r # "none"
    BY PollersFinite
  <2> QED
    BY <2>1 DEF Nothing
<1> HIDE DEF mine
<1>6. DeviceInv'
  BY <1>1 DEF DeviceInv, device, sources
<1>7. ReaderInv'
  <2>1. \A x \in readers' : \E s \in Rings : \E q \in Homes[s] : x = << s, q >>
    BY <1>1 DEF ReaderInv
  <2>2. \A q \in Pollers : pending'[q] # Nothing => q \in Homes[pending'[q].ring]
    BY <1>2, <1>4, <1>5 DEF ReaderInv
  <2>3. quiet' <= now /\ quiet' \in Nat
    BY <1>1 DEF DeviceInv
  <2> QED
    BY <1>1, <1>4, <2>1, <2>2, <2>3 DEF ReaderInv
<1>8. TimerInv'
  <2>1. ~(\A q \in Pollers : pending'[q] # Nothing => pending'[q].size > 0)
    BY <1>2, <1>4, <1>5
  <2> QED
    BY <2>1 DEF TimerInv
<1> QED
  BY <1>6, <1>7, <1>8

\* A poller that reads the count.
LEMMA ReadsCountKeeps ==
  ASSUME MuxerAssumption, DeviceInv, ReaderInv, TimerInv, NEW p \in Pollers, ReadsCount(p)
  PROVE  DeviceInv' /\ ReaderInv' /\ TimerInv'
<1> DEFINE n == Count(pending[p].ring)
<1>1. /\ pending[p] # Nothing /\ pending[p].size = -1 /\ pending' = [pending EXCEPT ![p].size = n]
      /\ UNCHANGED << device, now, readers, timer, changes, quiet, noticed >>
  BY DEF ReadsCount
<1>2. pending \in [Pollers -> {Nothing} \cup [ring : Rings, size : {-1} \cup Nat]]
      /\ pending[p] \in [ring : Rings, size : {-1} \cup Nat]
  BY <1>1 DEF ReaderInv
<1>3. n \in Nat /\ (n > 0 => readers # {})
  BY PollersFinite
<1> HIDE DEF n
<1>4. /\ pending' \in [Pollers -> {Nothing} \cup [ring : Rings, size : {-1} \cup Nat]]
      /\ pending'[p].ring = pending[p].ring /\ pending'[p].size = n
      /\ \A q \in Pollers : q # p => pending'[q] = pending[q]
  BY <1>1, <1>2, <1>3
<1>5. DeviceInv'
  BY <1>1 DEF DeviceInv, device, sources
<1>6. pending'[p] # Nothing
  BY <1>2, <1>3, <1>4 DEF Nothing
<1>7. ReaderInv'
  <2>1. \A q \in Pollers : pending'[q] # Nothing => q \in Homes[pending'[q].ring]
    BY <1>1, <1>4 DEF ReaderInv
  <2> QED
    BY <1>1, <1>4, <2>1 DEF ReaderInv
<1>8. TimerInv'
  <2>1. CASE n > 0
    BY <1>1, <1>3, <2>1 DEF TimerInv, Nobody
  <2>2. CASE ~(n > 0)
    <3>1. ~(\A q \in Pollers : pending'[q] # Nothing => pending'[q].size > 0)
      BY <1>4, <1>6, <2>2
    <3> QED
      BY <3>1 DEF TimerInv
  <2> QED
    BY <2>1, <2>2
<1> QED
  BY <1>5, <1>7, <1>8

\* A poller that reports what it read.
LEMMA ReportsCountKeeps ==
  ASSUME MuxerAssumption, DeviceInv, ReaderInv, TimerInv, NEW p \in Pollers, ReportsCount(p)
  PROVE  DeviceInv' /\ ReaderInv' /\ TimerInv'
<1> DEFINE size == pending[p].size
           told == ReaderChanged(rtmp, size)
           q == [told EXCEPT !.nobody = FALSE]
<1>1. /\ pending[p] # Nothing /\ size # -1 /\ pending' = [pending EXCEPT ![p] = Nothing]
      /\ rtmp' = IF pending[p].ring = "rtmp" THEN q ELSE rtmp
      /\ timer' = Arm(size) /\ quiet' = now /\ noticed' = FALSE
      /\ UNCHANGED << sink, rtsp, fmp4, pub, rest, now, readers, changes, sent, taken, checked, completed >>
  BY DEF ReportsCount
<1>2. size \in Nat /\ now \in Nat /\ NoneReader \in Nat /\ NoneReader > 0
  BY <1>1, PendingIs, PollersFinite DEF DeviceInv
<1>3. /\ pending' \in [Pollers -> {Nothing} \cup [ring : Rings, size : {-1} \cup Nat]]
      /\ pending'[p] = Nothing /\ \A x \in Pollers : x # p => pending'[x] = pending[x]
  BY <1>1 DEF ReaderInv
<1>4. /\ DOMAIN q = RtmpMembers /\ q.demand = rtmp.demand /\ q.ring = rtmp.ring
      /\ (q.enabled <=> ~rtmp.demand \/ size > 0)
      /\ q.registered = rtmp.registered /\ q.meta = rtmp.meta /\ q.config = rtmp.config
      /\ q.encoders = rtmp.encoders /\ q.cache = rtmp.cache /\ q.keyPos = rtmp.keyPos /\ q.groups = rtmp.groups
  <2> DEFINE en == ~rtmp.demand \/ size > 0
             cl == rtmp.clear \/ (rtmp.demand /\ size = 0)
             no == size = 0
  <2>1. told = [rtmp EXCEPT !.enabled = en, !.clear = cl, !.nobody = no]
    BY DEF ReaderChanged
  <2> HIDE DEF en, cl, no, told
  <2>2. /\ DOMAIN q = RtmpMembers /\ q.demand = rtmp.demand /\ q.ring = rtmp.ring /\ q.enabled = en
        /\ q.registered = rtmp.registered /\ q.meta = rtmp.meta /\ q.config = rtmp.config
        /\ q.encoders = rtmp.encoders /\ q.cache = rtmp.cache /\ q.keyPos = rtmp.keyPos /\ q.groups = rtmp.groups
    BY <2>1 DEF DeviceInv, RtmpGood, RtmpMembers, SourceMembers
  <2> QED
    BY <2>2 DEF en
<1> HIDE DEF q, told
<1>5. RtmpGood(rtmp', pub.origin, sink.allReady) /\ rtmp'.ring = rtmp.ring
  <2>1. RtmpGood(rtmp, pub.origin, sink.allReady)
    BY DEF DeviceInv
  <2>2. CacheGood(rtmp) => CacheGood(q)
    BY <1>4 DEF CacheGood
  <2>3. RtmpFound(q, pub.origin, sink.allReady)
    BY <1>4, <2>1 DEF RtmpGood, RtmpFound
  <2>4. RtmpGood(q, pub.origin, sink.allReady)
    BY <1>4, <2>1, <2>2, <2>3 DEF RtmpGood
  <2> QED
    BY <1>1, <1>4, <2>1, <2>4
<1>6. DeviceInv'
  BY <1>1, <1>5 DEF DeviceInv
<1>7. ReaderInv'
  <2>1. \A x \in Pollers : pending'[x] # Nothing => x \in Homes[pending'[x].ring]
    BY <1>3 DEF ReaderInv
  <2>2. timer' \in Int /\ (timer' # -1 => now <= timer')
    BY <1>1, <1>2 DEF ReaderInv, Arm
  <2>3. noticed' \in BOOLEAN
    BY <1>1, Zenon
  <2>4. quiet' \in Nat /\ quiet' <= now
    BY <1>1, <1>2
  <2> QED
    BY <1>1, <1>3, <2>1, <2>2, <2>3, <2>4 DEF ReaderInv
<1>8. TimerInv'
  <2> SUFFICES ASSUME Nobody, rtmp.ring, \A x \in Pollers : pending'[x] # Nothing => pending'[x].size > 0
               PROVE  timer' # -1 /\ timer' <= now + NoneReader /\ timer' <= quiet' + NoneReader
    BY <1>1, <1>5 DEF TimerInv, Nobody
  <2>1. CASE size = 0
    <3>1. timer' = now + NoneReader
      BY <1>1, <2>1 DEF Arm
    <3> QED
      BY <1>1, <1>2, <3>1
  <2>2. CASE size # 0
    <3>1. timer' = timer
      BY <1>1, <2>2 DEF Arm
    <3>2. \A x \in Pollers : pending[x] # Nothing => pending[x].size > 0
      BY <1>2, <1>3, <2>2
    <3>3. timer # -1 /\ timer <= now + NoneReader
      BY <3>2 DEF TimerInv
    <3> QED
      BY <1>1, <3>1, <3>3
  <2> QED
    BY <2>1, <2>2
<1> QED
  BY <1>6, <1>7, <1>8

\* Time that passes, and the timer.
LEMMA TickKeeps ==
  ASSUME MuxerAssumption, DeviceInv, ReaderInv, TimerInv, Tick
  PROVE  DeviceInv' /\ ReaderInv' /\ TimerInv'
<1>1. /\ (timer # -1 => now < timer) /\ now' = now + 1
      /\ UNCHANGED << device, readers, pending, timer, changes, quiet, noticed >>
  BY DEF Tick
<1>2. now \in Nat /\ NoneReader \in Nat
  BY PollersFinite DEF DeviceInv
<1>3. DeviceInv'
  BY <1>1, <1>2 DEF DeviceInv, device, sources
<1>4. ReaderInv'
  BY <1>1, <1>2 DEF ReaderInv
<1>5. TimerInv'
  <2>1. rtmp' = rtmp
    BY <1>1 DEF device, sources
  <2>2. timer \in Int /\ (timer <= now + NoneReader => timer <= now' + NoneReader)
    BY <1>1, <1>2 DEF ReaderInv
  <2> QED
    BY <1>1, <2>1, <2>2 DEF TimerInv, Nobody
<1> QED
  BY <1>3, <1>4, <1>5

LEMMA TimerFiresKeeps ==
  ASSUME MuxerAssumption, DeviceInv, ReaderInv, TimerInv, TimerFires
  PROVE  DeviceInv' /\ ReaderInv' /\ TimerInv'
<1>1. /\ timer # -1 /\ UNCHANGED << device, now, readers, pending, changes, quiet >>
      /\ \/ Nobody /\ timer' = now + NoneReader /\ noticed' = TRUE
         \/ ~Nobody /\ timer' = -1 /\ noticed' = noticed
  BY DEF TimerFires
<1>2. now \in Nat /\ NoneReader \in Nat /\ NoneReader > 0
  BY PollersFinite DEF DeviceInv
<1>3. DeviceInv'
  BY <1>1 DEF DeviceInv, device, sources
<1>4. timer' \in Int /\ (timer' # -1 => now <= timer')
  BY <1>1, <1>2 DEF ReaderInv
<1>8. noticed' \in BOOLEAN
  BY <1>1, Zenon DEF ReaderInv
<1>5. ReaderInv'
  BY <1>1, <1>4, <1>8 DEF ReaderInv
<1>6. TimerInv'
  BY <1>1, <1>2 DEF TimerInv, Nobody
<1> QED
  BY <1>3, <1>5, <1>6
-----------------------------------------------------------------------------
(* The theorems. *)

\* The inductive invariant.
MuxerInv == DeviceInv /\ ReaderInv /\ TimerInv

\* What the sources begin with.
LEMMA SourceStarts ==
         /\ \A d \in BOOLEAN : LET m == MuxerInit(d)
                               IN  /\ DOMAIN m = RtmpMembers /\ m.ring = FALSE /\ m.registered = FALSE
                                   /\ m.encoders = {} /\ m.cache = <<>> /\ m.keyPos = FALSE /\ m.groups = <<>>
         /\ DOMAIN RtspInit = RtspMembers /\ RtspInit.ring = FALSE /\ RtspInit.registered = FALSE
         /\ RtspInit.encoders = {} /\ RtspInit.parts = <<>> /\ RtspInit.sdp = <<>>
         /\ DOMAIN Fmp4Init = Fmp4Members /\ Fmp4Init.ring = FALSE /\ Fmp4Init.registered = FALSE
  BY DEF MuxerInit, RtspInit, Fmp4Init, SourceOf, SourceInit, RtmpMembers, RtspMembers, Fmp4Members, SourceMembers

\* The initial states, and all steps.
LEMMA InitInv ==
  ASSUME MuxerAssumption, SceneAssumption, Init
  PROVE  MuxerInv
<1>1. PICK scene \in Scenes :
        /\ sink = SinkInit /\ rtmp = MuxerInit(scene.demand) /\ rtsp = RtspInit /\ fmp4 = Fmp4Init
        /\ pub = PublisherInit(scene.origin) /\ rest = scene.calls
        /\ now = 0 /\ readers = {} /\ pending = [p \in Pollers |-> Nothing]
        /\ timer = -1 /\ quiet = 0 /\ noticed = FALSE
  BY DEF Init
<1>2. scene.origin \in {"none", "rtmp", "rtsp"} /\ scene.demand \in BOOLEAN /\ scene.calls \in Seq(Calls(scene.origin))
  BY DEF SceneAssumption
<1>3. PubTyped(pub, pub.origin) /\ pub.origin = scene.origin
  BY <1>1 DEF PublisherInit, PubTyped, PubMembers
<1>4. SinkGood(sink, sink.allReady) /\ sink.out = <<>> /\ sink.allReady = FALSE
  <2>1. /\ DOMAIN sink = SinkMembers /\ sink.tracks = <<>> /\ sink.callback = {} /\ sink.allReady = FALSE
        /\ sink.unread = [t \in TrackNames |-> <<>>] /\ sink.out = <<>>
    BY <1>1 DEF SinkInit, SinkMembers
  <2>2. <<>> \in Seq(Frames) /\ DOMAIN <<>> = {}
    OBVIOUS
  <2>3. SinkTyped(sink)
    BY <2>1, <2>2 DEF SinkTyped
  <2>4. Says(FALSE, <<>>, FALSE)
    BY SaysNothing
  <2> QED
    BY <2>1, <2>3, <2>4 DEF SinkGood
<1>5. IsSequence(<<>>)
  <2>1. <<>> \in Seq({})
    OBVIOUS
  <2> QED
    BY <2>1 DEF IsSequence
<1>6. RtmpGood(rtmp, pub.origin, FALSE) /\ rtmp.ring = FALSE
  <2>1. /\ DOMAIN rtmp = RtmpMembers /\ rtmp.ring = FALSE /\ rtmp.registered = FALSE
        /\ rtmp.encoders = {} /\ rtmp.cache = <<>> /\ rtmp.keyPos = FALSE /\ rtmp.groups = <<>>
    BY <1>1, <1>2, SourceStarts
  <2>2. CacheGood(rtmp)
    BY <1>5, <2>1 DEF CacheGood
  <2> QED
    BY <2>1, <2>2 DEF RtmpGood, RtmpFound
<1>7. RtspGood(rtsp, pub.origin, FALSE)
  BY <1>1, <1>5, SourceStarts DEF RtspGood, RtspFound
<1>8. Fmp4Good(fmp4)
  BY <1>1, SourceStarts DEF Fmp4Good
<1>9. DeviceInv
  <2>1. rest \in Seq(Calls(pub.origin)) /\ now \in Nat
    BY <1>1, <1>2, <1>3
  <2> QED
    BY <1>2, <1>3, <1>4, <1>6, <1>7, <1>8, <2>1 DEF DeviceInv
<1>10. ReaderInv /\ TimerInv
  <2>1. \A p \in Pollers : pending[p] = Nothing
    BY <1>1
  <2>2. pending \in [Pollers -> {Nothing} \cup [ring : Rings, size : {-1} \cup Nat]]
    BY <1>1
  <2>3. noticed \in BOOLEAN
    BY <1>1, Zenon
  <2>4. ReaderInv
    BY <1>1, <2>1, <2>2, <2>3 DEF ReaderInv
  <2> QED
    BY <1>6, <2>4 DEF TimerInv
<1> QED
  BY <1>9, <1>10 DEF MuxerInv

LEMMA NextKeeps ==
  ASSUME MuxerAssumption, MuxerInv, [Next]_vars
  PROVE  MuxerInv'
<1> USE DEF MuxerInv
<1>1. now \in Nat
  BY DEF DeviceInv
<1>2. ASSUME DeviceInv', RingStep PROVE MuxerInv'
  BY <1>1, <1>2, RingStepReaders
<1>3. CASE AddsTrack \/ CompletesTracks \/ InputsFrame
  BY <1>2, <1>3, DeviceKeeps
<1>4. CASE PublishesMetadata
  BY <1>2, <1>4, MetadataKeeps
<1>5. CASE PublishesSdp
  BY <1>2, <1>5, SdpKeeps
<1>6. CASE PublishesPacket
  BY <1>2, <1>6, PacketKeeps
<1>7. CASE Tick
  BY <1>7, TickKeeps
<1>8. CASE TimerFires
  BY <1>8, TimerFiresKeeps
<1>9. ASSUME NEW r \in Rings, NEW p \in Homes[r], Changes(r, p)
      PROVE  MuxerInv'
  BY <1>9, ChangesKeeps
<1>10. ASSUME NEW p \in Pollers, ReadsCount(p) PROVE MuxerInv'
  BY <1>10, ReadsCountKeeps
<1>11. ASSUME NEW p \in Pollers, ReportsCount(p) PROVE MuxerInv'
  BY <1>11, ReportsCountKeeps
<1>12. CASE UNCHANGED vars
  <2>1. DeviceInv' /\ ReaderInv' /\ TimerInv'
    BY <1>12 DEF vars, device, sources, DeviceInv, ReaderInv, TimerInv, Nobody
  <2> QED
    BY <2>1
<1> QED
  BY <1>3, <1>4, <1>5, <1>6, <1>7, <1>8, <1>9, <1>10, <1>11, <1>12 DEF Next

\* What holds of a stream, its readers and its timer in every state (MultiMediaSourceMuxer.cpp, MediaSource.cpp).
THEOREM StreamInvariant == Spec => []MuxerInv
<1>1. Init => MuxerInv
  BY MuxerAssumption, SceneAssumption, InitInv
<1>2. MuxerInv /\ [Next]_vars => MuxerInv'
  BY MuxerAssumption, NextKeeps
<1> QED
  BY <1>1, <1>2, PTL DEF Spec

\* A stream that players find has its ring, and what describes it.
THEOREM FoundStreamsArePlayable == Spec => []FoundIsPlayable
<1>1. MuxerInv => FoundIsPlayable
  <2> SUFFICES ASSUME MuxerInv PROVE FoundIsPlayable
    OBVIOUS
  <2>1. RtmpGood(rtmp, pub.origin, sink.allReady) /\ RtspGood(rtsp, pub.origin, sink.allReady) /\ Fmp4Good(fmp4)
    BY DEF MuxerInv, DeviceInv
  <2>2. rtmp.registered => rtmp.ring /\ rtmp.meta /\ rtmp.encoders \subseteq rtmp.config
    BY <2>1 DEF RtmpGood, RtmpFound
  <2>3. rtsp.registered => rtsp.ring /\ rtsp.sdp # <<>> /\ rtsp.encoders \subseteq Range(rtsp.sdp)
    BY <2>1 DEF RtspGood, RtspFound
  <2> QED
    BY <2>1, <2>2, <2>3 DEF Fmp4Good, FoundIsPlayable
<1> QED
  BY <1>1, StreamInvariant, PTL

\* A group that the ring takes for the start of a group of pictures begins with a key frame, in a muxer not on demand.
THEOREM KeyGroupsBeginWithKeys == Spec => []KeyGroupsStart
<1>1. MuxerInv => KeyGroupsStart
  BY DEF MuxerInv, DeviceInv, RtmpGood, CacheGood, KeyGroupsStart, KeyGroups
<1> QED
  BY <1>1, StreamInvariant, PTL

\* When nobody came or left for longer than the time-out and nobody watches, the server was told, on whatever pollers
\* the readers are.
THEOREM ServerIsTold == Spec => []NobodyIsNoticed
<1>1. MuxerInv => NobodyIsNoticed
  <2> SUFFICES ASSUME MuxerInv, Nobody, Idle, rtmp.ring, now > quiet + NoneReader PROVE noticed
    BY DEF NobodyIsNoticed
  <2>1. timer # -1 /\ (~noticed => timer <= quiet + NoneReader)
    BY DEF MuxerInv, TimerInv, Idle
  <2>2. timer \in Int /\ quiet \in Nat /\ now \in Nat /\ now <= timer /\ NoneReader \in Nat
    BY <2>1, PollersFinite, MuxerAssumption DEF MuxerInv, ReaderInv, DeviceInv
  <2> QED
    BY <2>1, <2>2
<1> QED
  BY <1>1, StreamInvariant, PTL

=============================================================================
