---------------------------- MODULE PacketCache ----------------------------
(***************************************************************************)
(* What the sources of all protocols have in common, as operators on a     *)
(* record: the ring that the first packet makes, and the PacketCache and   *)
(* FlushPolicy of MediaSource.h, which write packets to the ring in        *)
(* groups.  "groups" is all that was written to the ring; "nobody" says    *)
(* that the listener was told of a ring without readers.                   *)
(***************************************************************************)
EXTENDS Integers, SequencesExt

CONSTANTS MergeMS, CacheLimit, BackJump

SourceInit ==
    [ring |-> FALSE, registered |-> FALSE, haveVideo |-> FALSE, cache |-> <<>>, keyPos |-> FALSE,
     lastStamp |-> [v \in BOOLEAN |-> 0], groups |-> <<>>, nobody |-> FALSE]

\* The source of a protocol: its own members, and those every source has.
SourceOf(own) ==
    [x \in DOMAIN own \cup DOMAIN SourceInit |-> IF x \in DOMAIN own THEN own[x] ELSE SourceInit[x]]

\* A flush policy without a look at the key frame.
IsFlushAbleLazy(m, p) == p.stamp > m.lastStamp[p.video] + MergeMS \/ Len(m.cache) >= CacheLimit

\* A flush policy without a limit.
IsFlushAbleEndless(m, p) == (p.key /\ p.video) \/ p.stamp > m.lastStamp[p.video] + MergeMS

\* A group that jumps back in time, that the merging time has passed, or that is full, is flushed first.
IsFlushAble(m, p) ==
    LET last == m.lastStamp[p.video]
    IN  \/ p.key /\ p.video
        \/ p.stamp + BackJump < last
        \/ IF MergeMS <= 0 THEN last # p.stamp ELSE p.stamp > last + MergeMS
        \/ Len(m.cache) >= CacheLimit

FlushAll(m) ==
    IF m.cache = <<>> THEN m
    ELSE [m EXCEPT !.groups = Append(@, [key |-> m.haveVideo => m.keyPos, video |-> m.haveVideo, packets |-> m.cache]),
                   !.cache = <<>>, !.keyPos = FALSE]

\* Writes a packet, but loses the one that fills its group.
InputPacketFull(m, p) ==
    LET m1 == IF IsFlushAble(m, p) THEN FlushAll([m EXCEPT !.lastStamp[p.video] = p.stamp]) ELSE m
    IN  IF Len(m1.cache) + 1 >= CacheLimit THEN FlushAll(m1) ELSE [m1 EXCEPT !.cache = Append(@, p), !.keyPos = @ \/ (p.key /\ p.video)]

InputPacket(m, p) ==
    LET flush == IsFlushAble(m, p)
        m1 == IF flush THEN FlushAll([m EXCEPT !.lastStamp[p.video] = p.stamp]) ELSE m
    IN  [m1 EXCEPT !.cache = Append(@, p), !.keyPos = @ \/ (p.key /\ p.video)]
=============================================================================
