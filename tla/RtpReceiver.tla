---------------------------- MODULE RtpReceiver ----------------------------
(* What happens to an RTP packet of one track: RtpReceiver checks its      *)
(* SSRC, PacketSortor puts it in order by its sequence number, which wraps,*)
(* and a decoder makes frames of what comes out: H264RtpDecoder and        *)
(* H265RtpDecoder, with the DtsGenerator behind them, AACRtpDecoder, and   *)
(* CommonRtpDecoder for the rest.  The operators take and return the       *)
(* record r of the receiver; a packet is [ssrc, seq, stamp, kind, units],  *)
(* where a unit is <<frame, number>> and kind "single", "S", "M" or "E" (a *)
(* fragment that starts, goes on, ends) or "many" (whole units).           *)
EXTENDS Integers, Sequences, FiniteSets, SequencesExt, TLC

CONSTANTS M,          \* sequence numbers are modulo M (65536)
          KMax, KMin, \* the limits of the sorting cache (256, 64)
          ErrLimit,   \* foreign packets before a new SSRC is taken (10)
          MaxFrame,   \* CommonRtpDecoder's _max_frame_size, in pieces
          LossUnit,   \* packets over which the loss rate is taken (1000)
          LossSpan    \* a wider span of numbers is a wrap (60000)

ASSUME SortAssumption ==
  /\ M \in Nat /\ KMax \in Nat /\ KMin \in Nat \ {0} /\ ErrLimit \in Nat /\ {MaxFrame, LossUnit, LossSpan} \subseteq Nat
  /\ 2 * KMin <= KMax /\ KMax < (M - 1) \div 2

Half == (M - 1) \div 2

(* H264RtpEncoder::inputFrame, H265RtpEncoder::inputFrame: a frame of n    *)
(* pieces that exceeds the MTU is cut into fragments, one piece each.      *)
Fragment(f, n) ==
  IF n = 1 THEN << [kind |-> "single", units |-> << <<f, 1>> >>] >>
  ELSE [k \in 1..n |-> [kind |-> IF k = n THEN "E" ELSE IF k = 1 THEN "S" ELSE "M",
                        units |-> << <<f, k>> >>]]

(* STAP-A and AAC: other senders put n units of one stamp into a packet.   *)
Aggregated(f, n) == << [kind |-> "many", units |-> [k \in 1..n |-> <<f, k>>]] >>

(* makeRtp: the packets of frames [many, n, pts], numbered from start.     *)
Packets(ssrc, start, frames) ==
  LET Of(f) == IF frames[f].many THEN Aggregated(f, frames[f].n) ELSE Fragment(f, frames[f].n)
      ps == FlattenSeq([f \in DOMAIN frames |-> Of(f)])
  IN [i \in DOMAIN ps |-> [ssrc |-> ssrc, seq |-> (start + i - 1) % M, kind |-> ps[i].kind,
                           units |-> ps[i].units, stamp |-> frames[ps[i].units[1][1]].pts]]

(* What a decoder gives; sure: the DtsGenerator knew the order of frames.  *)
Frame(ps, pts, dts, sure) == [ps |-> ps, pts |-> pts, dts |-> dts, sure |-> sure]
-----------------------------------------------------------------------------
(* DtsGenerator: decoding stamps for a stream that has only those of       *)
(* presentation.  It learns how many frames lie between two that are not   *)
(* B frames, and sorts that many stamps.                                   *)
GeneratorInit ==
  [offset |-> 0, lastDts |-> 0, lastPts |-> 0, maxPts |-> 0, since |-> 0, size |-> 0, count |-> 0, sorter |-> {}]

Learn(g, pts) ==
  LET known == g.since # 0 /\ g.count > 0
      h == [g EXCEPT !.size = IF known THEN g.since ELSE @,
                     !.offset = IF known THEN (pts - g.maxPts) \div 2 ELSE @,
                     !.count = IF g.since # 0 THEN @ + 1 ELSE @, !.since = 0, !.maxPts = pts]
  IN IF pts > g.maxPts THEN [h EXCEPT !.since = 1] ELSE [g EXCEPT !.since = @ + 1]

TakeLeast(k, pts, least) ==
  [g |-> [k EXCEPT !.sorter = @ \ {least}], dts |-> Min({pts, least + k.offset}), sure |-> TRUE]
FromSorter(k, pts) ==
  IF k.size # 0 /\ Cardinality(k.sorter) > k.size THEN TakeLeast(k, pts, Min(k.sorter))
  ELSE [g |-> k, dts |-> pts, sure |-> FALSE]
GetDtsL(g, pts) ==
  IF g.size = 1 THEN [g |-> g, dts |-> pts, sure |-> TRUE]
  ELSE FromSorter([(IF g.size = 0 THEN Learn(g, pts) ELSE g) EXCEPT !.sorter = @ \cup {pts}], pts)

(* Faulty form: the stamp of presentation.                                 *)
GetDtsUnsorted(g, pts) == [g |-> g, dts |-> pts, sure |-> TRUE]
Remember(k, pts) == [k EXCEPT !.g.lastPts = pts, !.g.lastDts = IF k.sure THEN k.dts ELSE @]
GetDts(g, pts) ==
  IF pts = g.lastPts
  THEN [g |-> g, dts |-> IF g.lastDts # 0 THEN g.lastDts ELSE pts, sure |-> g.lastDts # 0]
  ELSE Remember(GetDtsL(g, pts), pts)
-----------------------------------------------------------------------------
DecoderInit == [buffer |-> <<>>, lastSeq |-> 0, stamp |-> 0, drop |-> FALSE, gen |-> GeneratorInit,
                seqs |-> {}, nominal |-> 0, real |-> 0, rate |-> 0, cached |-> <<>>]
ReceiverInit(codec) ==
  [codec |-> codec, ssrc |-> 0, err |-> 0, cache |-> <<>>, next |-> 0, max |-> KMin, cycle |-> 0,
   dec |-> DecoderInit, out |-> <<>>, frames |-> <<>>]

(* onGetH264, onGetH265: a NAL unit is whole and gets its decoding stamp.  *)
Stamped(d, ps, pts, k) ==
  [d |-> [d EXCEPT !.buffer = <<>>, !.gen = k.g], frames |-> <<Frame(ps, pts, k.dts, k.sure)>>]
OnGet(d, ps, pts) == Stamped(d, ps, pts, GetDts(d.gen, pts))

(* A single-time aggregation packet: one unit after the other.             *)
Joined(k, more) == [more EXCEPT !.frames = k.frames \o @]
OnUnits(d, us, pts) ==
  FoldLeft(LAMBDA k, u : Joined(k, OnGet(k.d, <<u>>, pts)), [d |-> d, frames |-> <<>>], us)

(* decodeRtp: a fragment that does not follow the last one discards the    *)
(* frame; number 0 is taken to follow any.                                 *)
H264RtpTrusting(d, p) ==
  LET e == [d EXCEPT !.buffer = IF p.kind = "S" THEN p.units ELSE @ \o p.units, !.lastSeq = p.seq]
  IN CASE p.kind \in {"single", "many"} -> OnUnits(d, p.units, p.stamp)
       [] p.kind = "E" -> OnGet(d, e.buffer, p.stamp)
       [] OTHER -> [d |-> e, frames |-> <<>>]
H264Rtp(d, p) ==
  LET gap == p.seq # d.lastSeq + 1 /\ p.seq # 0
      more == [d EXCEPT !.buffer = @ \o p.units, !.lastSeq = p.seq]
  IN CASE p.kind \in {"single", "many"} -> OnUnits(d, p.units, p.stamp)
       [] p.kind = "S" -> [d |-> [d EXCEPT !.buffer = p.units, !.lastSeq = p.seq], frames |-> <<>>]
       [] p.kind \in {"M", "E"} /\ gap -> [d |-> [d EXCEPT !.buffer = <<>>], frames |-> <<>>]
       [] p.kind = "M" /\ ~gap -> [d |-> more, frames |-> <<>>]
       [] p.kind = "E" /\ ~gap -> OnGet(d, more.buffer, p.stamp)

(* H265RtpDecoder::decodeRtp: the same automaton on other payload headers, *)
(* which refuses aggregation packets.                                      *)
H265Rtp(d, p) == IF p.kind = "many" THEN [d |-> d, frames |-> <<>>] ELSE H264Rtp(d, p)

(* AACRtpDecoder::inputRtp: the units of a packet share the time since the *)
(* packet before it; FrameImp::pts is the decoding stamp.                  *)
Audio(u, dts) == Frame(<<u>>, dts, dts, TRUE)
AACRtpLate(d, p) ==
  LET first == IF d.stamp = 0 THEN p.stamp ELSE d.stamp
      inc == (p.stamp - first) \div Len(p.units)
  IN [d |-> [d EXCEPT !.stamp = first + inc],
      frames |-> [i \in DOMAIN p.units |-> Audio(p.units[i], p.stamp - (i - 1) * inc)]]
AACRtp(d, p) ==
  LET first == IF d.stamp = 0 THEN p.stamp ELSE d.stamp
      inc == (p.stamp - first) \div Len(p.units)
  IN [d |-> [d EXCEPT !.stamp = p.stamp],
      frames |-> [i \in DOMAIN p.units |-> Audio(p.units[i], first + (i - 1) * inc)]]

(* statistics_rtp_loss_rate: the numbers since the last frame, those that  *)
(* came against the span they cover; a wrap starts the count again.        *)
LossStraight(d) ==
  LET span == Max(d.seqs) - Min(d.seqs) + 1
      n == d.nominal + span
      k == d.real + Cardinality(d.seqs)
      full == n >= LossUnit
  IN [d EXCEPT !.seqs = {}, !.nominal = IF full THEN 0 ELSE n, !.real = IF full THEN 0 ELSE k,
               !.rate = IF full THEN (2000 * (n - k) + n) \div (2 * n) ELSE @]
Loss(d) ==
  LET span == Max(d.seqs) - Min(d.seqs) + 1
      n == d.nominal + span
      k == d.real + Cardinality(d.seqs)
      full == n >= LossUnit
  IN IF span > LossSpan THEN [d EXCEPT !.seqs = {}, !.nominal = 0, !.real = 0]
     ELSE [d EXCEPT !.seqs = {}, !.nominal = IF full THEN 0 ELSE n, !.real = IF full THEN 0 ELSE k,
                    !.rate = IF full THEN (2000 * (n - k) + n) \div (2 * n) ELSE @]

(* CommonRtpDecoder::inputRtp: a new stamp, or too large a buffer, ends    *)
(* the frame; a gap discards the rest of the current one.                  *)
Buffered(d, p) == [d EXCEPT !.buffer = IF d.drop THEN @ ELSE @ \o p.units, !.lastSeq = p.seq]
Ended(d) == IF d.buffer = <<>> THEN <<>> ELSE <<Frame(d.buffer, d.stamp, d.stamp, TRUE)>>
CommonRtpGlue(d, p) ==
  LET fresh == d.stamp # p.stamp \/ Len(d.buffer) > MaxFrame
      e == IF fresh THEN [d EXCEPT !.buffer = <<>>, !.stamp = p.stamp, !.drop = FALSE] ELSE d
  IN [d |-> [e EXCEPT !.buffer = @ \o p.units, !.lastSeq = p.seq],
      frames |-> IF fresh THEN Ended(d) ELSE <<>>]
CommonRtp(d, p) ==
  LET seen == [d EXCEPT !.seqs = @ \cup {p.seq}] IN
  IF d.stamp # p.stamp \/ Len(d.buffer) > MaxFrame
  THEN [d |-> Buffered([Loss(seen) EXCEPT !.buffer = <<>>, !.stamp = p.stamp, !.drop = FALSE], p), frames |-> Ended(d)]
  ELSE IF d.lastSeq # 0 /\ (d.lastSeq + 1) % M # p.seq
  THEN [d |-> Buffered([seen EXCEPT !.buffer = <<>>, !.drop = TRUE], p), frames |-> <<>>]
  ELSE [d |-> Buffered(seen, p), frames |-> <<>>]

(* FrameMerger::inputFrame: the units the demuxer of a program stream finds *)
(* are one frame as long as their decoding stamp is the same.              *)
MergeNever(m, f) == [cached |-> <<f>>, out |-> Append(m.out, f)]
Merge(m, f) ==
  IF m.cached # <<>> /\ Last(m.cached).dts # f.dts
  THEN LET ps == FlattenSeq([i \in DOMAIN m.cached |-> m.cached[i].ps])
       IN [cached |-> <<f>>, out |-> Append(m.out, [Last(m.cached) EXCEPT !.ps = ps])]
  ELSE [m EXCEPT !.cached = Append(@, f)]

(* GB28181Process::onRtpDecode, DecoderImp: a program stream, glued by the *)
(* common decoder; every piece of it is a unit for the demuxer.            *)
Pieces(f) == [k \in DOMAIN f.ps |-> [f EXCEPT !.ps = <<@[k]>>]]
Merged(d, m) == [d |-> [d EXCEPT !.cached = m.cached], frames |-> m.out]
Demuxed(q) ==
  Merged(q.d, FoldLeft(Merge, [cached |-> q.d.cached, out |-> <<>>],
                       FlattenSeq([i \in DOMAIN q.frames |-> Pieces(q.frames[i])])))
PsRtp(d, p) == Demuxed(CommonRtp(d, p))

(* onRtpSorted: the callback of the sorter; id identifies the packet.      *)
InputRtpOf(codec, d, p) ==
  CASE codec = "h264" -> H264Rtp(d, p)
    [] codec = "h265" -> H265Rtp(d, p)
    [] codec = "aac" -> AACRtp(d, p)
    [] codec = "common" -> CommonRtp(d, p)
    [] codec = "ps" -> PsRtp(d, p)
Decoded(r, id, q) == [r EXCEPT !.out = Append(@, id), !.dec = q.d, !.frames = @ \o q.frames]
OnRtpSorted(r, id, p) == Decoded(r, id, InputRtpOf(r.codec, r.dec, p))

Begin(r) == CHOOSE s \in DOMAIN r.cache : \A t \in DOMAIN r.cache : s <= t
Size(r) == Cardinality(DOMAIN r.cache)
Without(c, S) == [s \in DOMAIN c \ S |-> c[s]]

(* The packets with the numbers ss, in order, go to the callback.          *)
Call(r, ss) == FoldLeft(LAMBDA q, s : OnRtpSorted(q, r.cache[s].id, r.cache[s].p), r, ss)

(* popIterator, popPacket, setSortSize                                     *)
PopIteratorWide(r, s) ==
  [Call(r, <<s>>) EXCEPT !.cache = Without(@, {s}), !.next = s + 1]
PopIterator(r, s) ==
  [Call(r, <<s>>) EXCEPT !.cache = Without(@, {s}), !.next = (s + 1) % M]

PopFirst(r) == PopIterator(r, Begin(r))
PopPacketFirst(r) == PopFirst(r)
PopPacket(r) ==
  LET s == Begin(r)
      large == {t \in DOMAIN r.cache : t > (r.next - Size(r)) % M}
  IN IF s >= r.next THEN PopIterator(r, s)
     ELSE IF r.next - s <= Half THEN [r EXCEPT !.cache = Without(@, {s})]
     ELSE IF Size(r) < 2 * KMin THEN r
     ELSE PopFirst([Call(r, SetToSortSeq(large, <)) EXCEPT !.cycle = @ + 1, !.cache = Without(@, large)])

SetSortSize(r) ==
  [r EXCEPT !.max = IF KMin + Size(r) > KMax THEN KMax ELSE KMin + Size(r)]

(* tryPopPacket: everything that follows what was put out; when there is   *)
(* nothing of the kind and the cache is too large, its first packet.       *)
InTurn(r) == DOMAIN r.cache # {} /\ Begin(r) = r.next
RECURSIVE PopInTurn(_)
PopInTurn(r) == IF InTurn(r) THEN PopInTurn(PopPacket(r)) ELSE r
TryPopWaiting(r) == IF InTurn(r) THEN SetSortSize(PopInTurn(r)) ELSE r
TryPopPacket(r) ==
  IF InTurn(r) THEN SetSortSize(PopInTurn(r))
  ELSE IF Size(r) > r.max THEN SetSortSize(PopPacket(r))
  ELSE r

(* sortPacket: numbers that go back a little, or far ahead, are filtered.  *)
Cached(r, id, p) == [r EXCEPT !.cache = IF p.seq \in DOMAIN @ THEN @ ELSE @ @@ (p.seq :> [id |-> id, p |-> p])]
SortPacketBack(r, id, p) ==
  IF p.seq < r.next \/ (r.next # 0 /\ p.seq - r.next > Half) THEN r ELSE TryPopPacket(Cached(r, id, p))
SortPacket(r, id, p) ==
  IF \/ p.seq < r.next /\ r.next - p.seq < KMax
     \/ p.seq >= r.next /\ r.next # 0 /\ p.seq - r.next > Half
  THEN r ELSE TryPopPacket(Cached(r, id, p))

(* PacketSortor::clear *)
Clear(r) == [r EXCEPT !.cache = <<>>, !.next = 0, !.max = KMin, !.cycle = 0]

(* handleOneRtp: the first SSRC is kept; after ErrLimit + 1 packets with   *)
(* another one in a row the next makes it the track's.                     *)
HandleOneRtpStubborn(r, id, p) ==
  IF r.ssrc \in {0, p.ssrc} THEN SortPacket([r EXCEPT !.ssrc = p.ssrc, !.err = 0], id, p)
  ELSE [r EXCEPT !.err = @ + 1]
HandleOneRtp(r, id, p) ==
  IF r.ssrc \in {0, p.ssrc} THEN SortPacket([r EXCEPT !.ssrc = p.ssrc, !.err = 0], id, p)
  ELSE IF r.err > ErrLimit THEN [Clear(r) EXCEPT !.ssrc = p.ssrc, !.err = @ + 1]
  ELSE [r EXCEPT !.err = @ + 1]
=============================================================================
