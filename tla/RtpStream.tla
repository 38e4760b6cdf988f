----------------------------- MODULE RtpStream -----------------------------
(* A sender's RTP packets on a network that loses, repeats and reorders    *)
(* them, and the receiver of RtpReceiver.  A packet is known by its place  *)
(* in the stream the sender produced; the network lets a packet overtake   *)
(* fewer than Window others, and repeats one while it is less than half a  *)
(* cycle of numbers late.                                                  *)
EXTENDS RtpReceiver

CONSTANTS Streams,    \* records [codec, packets, frames, losses, repeats]
          Window

VARIABLES stream, done, losses, repeats, r,
          slipped     \* history: packets that passed the filter of numbers far ahead
svars == <<stream, done, losses, repeats, r, slipped>>

Places == 1..Len(stream.packets)
Coming == {i \in Places \ done : \A j \in Places \ done : i < j + Window}
Passed == {i \in done : /\ \A j \in Places \ done : i < j + Window
                        /\ \A j \in done : j < i + Half}

Number(i) == stream.packets[i].seq
Ids == {r.cache[s].id : s \in DOMAIN r.cache}

(* A packet from before the wrap that comes again may stay in the cache,   *)
(* behind those that follow, until its number is due once more: sortPacket *)
(* does not filter what is far ahead while _next_seq_out is 0 (RtpReceiver.*)
(* h:69), and popPacket leaves in the cache, at the wrap, what is far back *)
(* (RtpReceiver.h:102).                                                    *)
Stays == {i \in Ids' \cap ToSet(r'.out) : Number(i) >= r'.next}
Sorts(i) == r' = HandleOneRtp(r, i, stream.packets[i]) /\ slipped' = slipped \cup Stays

StreamInit ==
  /\ stream \in Streams
  /\ done = {} /\ slipped = {} /\ losses = stream.losses /\ repeats = stream.repeats
  /\ r = ReceiverInit(stream.codec)

Arrive(i) ==
  /\ i \in Coming
  /\ done' = done \cup {i}
  /\ Sorts(i)
  /\ UNCHANGED <<stream, losses, repeats>>

Lose(i) ==
  /\ i \in Coming /\ losses > 0
  /\ done' = done \cup {i} /\ losses' = losses - 1
  /\ UNCHANGED <<stream, repeats, r, slipped>>

Repeat(i) ==
  /\ i \in Passed /\ repeats > 0
  /\ repeats' = repeats - 1
  /\ Sorts(i)
  /\ UNCHANGED <<stream, done, losses>>

StreamNext == \E i \in Places : Arrive(i) \/ Lose(i) \/ Repeat(i)
StreamSpec == StreamInit /\ [][StreamNext]_svars

Units(f) == [k \in 1..stream.frames[f].n |-> <<f, k>>]
Wholes(f) == IF stream.frames[f].many THEN {<<u>> : u \in ToSet(Units(f))} ELSE {Units(f)}
Carriers(u) == {i \in Places : u \in ToSet(stream.packets[i].units)}
AtZero(u) == \E i \in Carriers(u) : Number(i) = 0
Slipped(u) == Carriers(u) \cap slipped # {}
Follows(u, v) == v = <<u[1], u[2] + 1>>
Faultless == stream.losses = 0 /\ stream.repeats = 0 /\ ~stream.switches

StreamOK ==
  /\ stream \in Streams /\ done \subseteq Places /\ slipped \subseteq Places
  /\ r.next \in 0..(M - 1) /\ r.max \in KMin..KMax
  /\ DOMAIN r.cache \subseteq 0..(M - 1) /\ \A s \in DOMAIN r.cache : r.cache[s].p.seq = s

(* Whatever the network does, also where the numbers wrap, the sorter puts *)
(* out the packets in the order they were sent and none twice, except one  *)
(* that slipped past its filter.                                           *)
InOrder == \A j, k \in DOMAIN r.out : j < k => r.out[j] < r.out[k] \/ r.out[k] \in slipped

(* A network that only reorders loses nothing: a packet that arrived was   *)
(* put out or waits in the cache (sortPacket filters, popPacket discards). *)
NothingLost == Faultless => done = Ids \cup ToSet(r.out)

(* The cache does not grow without bound behind a gap or a wrap.           *)
CacheBounded == Size(r) <= KMax + 1

Glued == stream.codec \in {"common", "ps"}

(* A frame of fragments that belong together, from a first one to a last,  *)
(* but for what is accepted unseen: number 0 behind any fragment           *)
(* (H264Rtp.cpp:136, H265Rtp.cpp:95) and a packet that slipped in.         *)
Seamed(ps) ==
  /\ ps[1][2] = 1 \/ AtZero(ps[1])
  /\ Last(ps)[2] = stream.frames[Last(ps)[1]].n
  /\ \A k \in 1..(Len(ps) - 1) :
       Follows(ps[k], ps[k + 1]) \/ AtZero(ps[k + 1]) \/ Slipped(ps[k]) \/ Slipped(ps[k + 1])

(* The H.264, H.265 and AAC decoders give units that were sent, whole:     *)
(* losses drop units, they never join the pieces of two or leave one out,  *)
(* except in front of number 0 and beside a packet that slipped in.        *)
WholeFrames ==
  ~Glued =>
    \A j \in DOMAIN r.frames :
      LET ps == r.frames[j].ps
      IN (\E f \in DOMAIN stream.frames : ps \in Wholes(f)) \/ Seamed(ps)

(* What a loss or a repetition costs is its own unit: one whose packets    *)
(* leave the sorter one after the other is given, whatever went before.    *)
NoOtherFrame ==
  stream.codec \in {"h264", "h265"} =>
    \A f \in DOMAIN stream.frames : \A k \in 0..(Len(r.out) - stream.frames[f].n) :
      (~stream.frames[f].many /\ \A i \in 1..stream.frames[f].n : stream.packets[r.out[k + i]].units = <<<<f, i>>>>)
        => \E j \in DOMAIN r.frames : r.frames[j].ps = Units(f)

(* A frame of the common decoder, also one that was demuxed and merged, has *)
(* pieces of one frame, without a hole, except directly behind number 0,   *)
(* after which the decoder does not look (CommonRtp.cpp:43).               *)
NoHole ==
  Glued => \A j \in DOMAIN r.frames :
    LET ps == r.frames[j].ps
    IN \A k \in 1..(Len(ps) - 1) :
         Follows(ps[k], ps[k + 1]) \/ (AtZero(ps[k]) /\ ps[k][1] = ps[k + 1][1])

(* Decoding stamps never go back and never lie after presentation: with    *)
(* B frames (getDts) once the generator knows their number, if no frame is *)
(* lost; for the other decoders whatever the network does, unless a packet *)
(* slipped in.  A program stream's frame that was too large for the decoder is one again.         *)
DtsGrows ==
  /\ \A j \in DOMAIN r.frames : r.frames[j].dts <= r.frames[j].pts
  /\ ~stream.switches /\ slipped = {} /\ (stream.codec \in {"h264", "h265"} => Faultless) =>
       \A j, k \in DOMAIN r.frames :
         j < k /\ r.frames[j].sure /\ r.frames[k].sure =>
           /\ r.frames[j].dts <= r.frames[k].dts
           /\ stream.codec = "ps" => r.frames[j].dts < r.frames[k].dts

(* The loss rate (statistics_rtp_loss_rate) is a rate, and a network that  *)
(* only reorders has none, also where the numbers wrap.                    *)
LossIsHonest ==
  r.dec.real <= r.dec.nominal /\ r.dec.rate \in 0..1000 /\ (Faultless => r.dec.rate = 0)

(* A sender that starts again with another SSRC is heard: of its packets   *)
(* no more than the error limit and what the sorter holds are not put out. *)
NewSenderHeard ==
  (stream.switches /\ done = Places /\ losses = stream.losses)
     => \E j \in DOMAIN r.out : stream.packets[r.out[j]].ssrc = stream.packets[Len(stream.packets)].ssrc

(* The sorter (sortPacket, tryPopPacket, popPacket) gives back the stream, *)
(* in a cache that stays small, also of a sender that started again.       *)
StreamIsSorted == StreamOK /\ InOrder /\ NothingLost /\ CacheBounded /\ NewSenderHeard

(* Loss, repetition and reordering cost frames and never damage one, and   *)
(* the stamps stay in order (the decoders, DtsGenerator).                  *)
FramesAreSound == WholeFrames /\ NoOtherFrame /\ NoHole /\ DtsGrows /\ LossIsHonest
=============================================================================
