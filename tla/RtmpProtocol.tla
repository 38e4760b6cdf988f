---------------------------- MODULE RtmpProtocol ----------------------------
(* RtmpProtocol: the handshake, the chunks a message is cut into by        *)
(* sendRtmp, the chunks handle_rtmp puts together again, and the control   *)
(* messages handle_chunk acts on.  The operators take and return the       *)
(* record of one end; what it writes goes to the field raw.                *)
(*                                                                         *)
(* A handshake packet C1 is C1Size bytes (1536), a chunk DefaultChunk      *)
(* (128) until a message SET_CHUNK changes it.                             *)
EXTENDS Integers, Sequences, SequencesExt, Splitters

CONSTANTS C1Size, DefaultChunk

SET_CHUNK == 1
ACK == 3
USER_CONTROL == 4
WIN_SIZE == 5
AUDIO == 8
VIDEO == 9
CMD == 20
AGGREGATE == 22
PING_REQUEST == 6
PING_RESPONSE == 7
Ext == 16777215

ChunkInit == [absStamp |-> FALSE, stream |-> 0, size |-> 0, type |-> 0,
              field |-> 0, stamp |-> 0, buffer |-> <<>>]

(* RtmpProtocol::RtmpProtocol, reset.  out, sent and wrote record what was *)
(* delivered, what was sent with the number of bytes written up to its end,*)
(* and how many bytes were written.                                        *)
RtmpInit(cids) ==
  [step |-> "C0C1", remain |-> <<>>, chunkIn |-> DefaultChunk, chunkOut |-> DefaultChunk,
   bytesSent |-> 0, bytesSentLast |-> 0, window |-> 0,
   chunks |-> [c \in cids |-> ChunkInit], raw |-> <<>>, out |-> <<>>, sent |-> <<>>, wrote |-> 0]

OnSendRawData(p, bytes) == [p EXCEPT !.raw = @ \o bytes, !.wrote = @ + Len(bytes)]

ChunksShift(body, stamp, cid, size) ==
  LET ext == IF stamp >= Ext THEN Be(stamp, 4) ELSE <<>>
      pieces == (Len(body) + size - 1) \div size
      last(i) == IF i * size > Len(body) THEN Len(body) ELSE i * size
  IN FlattenSeq([i \in 1..pieces |->
       (IF i > 1 THEN <<384 + cid>> ELSE <<>>) \o ext \o SubSeq(body, (i - 1) * size + 1, last(i))])
(* sendRtmp: a header of 12 bytes, then chunks of _chunk_size_out bytes,   *)
(* each but the first behind one byte of flags, each with the extended     *)
(* stamp; an acknowledgement when a window was set and is used up.         *)
Chunks(body, stamp, cid, size) ==
  LET ext == IF stamp >= Ext THEN Be(stamp, 4) ELSE <<>>
      pieces == (Len(body) + size - 1) \div size
      last(i) == IF i * size > Len(body) THEN Len(body) ELSE i * size
  IN FlattenSeq([i \in 1..pieces |->
       (IF i > 1 THEN <<192 + cid>> ELSE <<>>) \o ext \o SubSeq(body, (i - 1) * size + 1, last(i))])
RECURSIVE SendRtmp(_, _, _, _, _, _)
SendRtmp(p, type, stream, body, stamp, cid) ==
  LET bytes == <<cid>> \o Be(IF stamp >= Ext THEN Ext ELSE stamp, 3) \o Be(Len(body), 3)
               \o <<type>> \o Reverse(Be(stream, 4)) \o Chunks(body, stamp, cid, p.chunkOut)
      q == [OnSendRawData(p, bytes) EXCEPT !.bytesSent = @ + Len(bytes)]
      r == [q EXCEPT !.sent = Append(@, [type |-> type, stream |-> stream, stamp |-> stamp,
                                         body |-> body, upto |-> q.wrote])]
  IN IF r.window > 0 /\ r.bytesSent - r.bytesSentLast >= r.window
     THEN SendRtmp([r EXCEPT !.bytesSentLast = r.bytesSent], ACK, 0, Be(r.bytesSent, 4), 0, 2)
     ELSE r

SendRequest(p, type, body) == SendRtmp(p, type, 0, body, 0, 2)
SendUserControl(p, event, n) == SendRequest(p, USER_CONTROL, Be(event, 2) \o Be(n, 4))
SendWinSize(p, n) == SendRequest(p, WIN_SIZE, Be(n, 4))
SendChunkSize(p, n) == [SendRequest(p, SET_CHUNK, Be(n, 4)) EXCEPT !.chunkOut = n]

(* handle_chunk of a whole message.                                        *)
SubSize(b, at) == Val(SubSeq(b, at + 2, at + 4)) + 4
RECURSIVE Aggregate(_, _, _), HandleChunk(_, _)
Aggregate(p, c, at) ==
  LET b == c.buffer
      n == SubSize(b, at)
  IN IF at + 11 >= Len(b) \/ at + 11 + n > Len(b) THEN p
     ELSE Aggregate(HandleChunk(p, [ChunkInit EXCEPT
                      !.type = b[at + 1], !.stream = c.stream, !.size = n,
                      !.stamp = Val(SubSeq(b, at + 5, at + 7)) + 16777216 * b[at + 8],
                      !.buffer = SubSeq(b, at + 12, at + 11 + n)]), c, at + 11 + n)

HandleChunk(p, c) ==
  CASE c.type = SET_CHUNK -> [p EXCEPT !.chunkIn = Val(Upto(c.buffer, 4))]
    [] c.type = WIN_SIZE -> [p EXCEPT !.window = Val(Upto(c.buffer, 4))]
    [] c.type = USER_CONTROL /\ Val(Upto(c.buffer, 2)) = PING_REQUEST ->
         SendUserControl(p, PING_RESPONSE, Val(SubSeq(c.buffer, 3, 6)))
    [] c.type = USER_CONTROL /\ Val(Upto(c.buffer, 2)) # PING_REQUEST -> p
    [] c.type = ACK -> p
    [] c.type = AGGREGATE -> Aggregate(p, c, 0)
    [] OTHER -> [p EXCEPT !.out = Append(@, [type |-> c.type, stream |-> c.stream,
                                             stamp |-> c.stamp, body |-> c.buffer])]

(* The header of the chunk at the start of d.                              *)
BasicLen(d) == CASE d[1] % 64 = 0 -> 2 [] d[1] % 64 = 1 -> 3 [] OTHER -> 1
ChunkId(d) == CASE d[1] % 64 = 0 -> 64 + d[2]
                [] d[1] % 64 = 1 -> 64 + d[3] * 256 + d[2]
                [] OTHER -> d[1] % 64
FieldsLen(d) == <<11, 7, 3, 0>>[(d[1] \div 64) + 1]

Fields(c, h, n) ==
  LET a == IF n >= 3 THEN [c EXCEPT !.field = Val(Upto(h, 3))] ELSE c
      b == IF n >= 7 THEN [a EXCEPT !.size = Val(SubSeq(h, 4, 6)), !.type = h[7]] ELSE a
  IN IF n = 11 THEN [b EXCEPT !.absStamp = TRUE, !.stream = Val(Reverse(SubSeq(h, 8, 11)))]
     ELSE b

FinishAbs(p, id, c, stamp) ==
  LET m == [c EXCEPT !.stamp = stamp + (IF c.absStamp THEN 0 ELSE @)]
      q == IF m.size > 0 THEN HandleChunk(p, m) ELSE p
  IN [q EXCEPT !.chunks[id] = [m EXCEPT !.buffer = <<>>]]

(* The end of a message: its stamp is relative to the last one of its      *)
(* chunk stream unless its header was a full one.                          *)
Finish(p, id, c, stamp) ==
  LET m == [c EXCEPT !.stamp = stamp + (IF c.absStamp THEN 0 ELSE @)]
      q == IF m.size > 0 THEN HandleChunk(p, m) ELSE p
  IN [q EXCEPT !.chunks[id] = [m EXCEPT !.buffer = <<>>, !.absStamp = FALSE]]
(* handle_rtmp: one chunk after the other while they are whole.            *)
Whole(d) == Len(d) >= BasicLen(d) /\ Len(d) >= BasicLen(d) + FieldsLen(d)
RECURSIVE HandleRtmp(_)
HandleRtmp(x) ==
  LET p == x.p
      d == x.rest
  IN
  IF d = <<>> \/ p.step = "broken" THEN [p |-> p, rest |-> <<>>]
  ELSE IF ~Whole(d) THEN x
  ELSE LET id == ChunkId(d)
           h == BasicLen(d) + FieldsLen(d)
           c == Fields(p.chunks[id], SubSeq(d, BasicLen(d) + 1, h), FieldsLen(d))
           q == [p EXCEPT !.chunks[id] = c]
           off == IF c.field = Ext THEN h + 4 ELSE h
           left == c.size - Len(c.buffer)
           more == IF left > p.chunkIn THEN p.chunkIn ELSE left
       IN IF Len(d) < off THEN [p |-> q, rest |-> d]
          ELSE IF left < 0 THEN [p |-> [q EXCEPT !.step = "broken"], rest |-> <<>>]
          ELSE IF Len(d) < off + more THEN [p |-> q, rest |-> d]
          ELSE LET e == [c EXCEPT !.buffer = @ \o SubSeq(d, off + 1, off + more)]
                   stamp == IF c.field = Ext THEN Val(SubSeq(d, h + 1, h + 4)) ELSE c.field
               IN Strict(HandleRtmp,
                         [p |-> IF Len(e.buffer) = e.size THEN Finish(q, id, e, stamp)
                                ELSE [q EXCEPT !.chunks[id] = e],
                          rest |-> From(d, off + more)])

(* The steps of the handshake: startClientSession, handle_C0C1 with        *)
(* handle_C1_simple, handle_C2, handle_S0S1S2.                             *)
C1 == <<3>> \o [i \in 1..C1Size |-> 7]
ServerHelloMore == 2 + 2 * C1Size
ServerHello == 1 + 2 * C1Size
StartClientSession(p) == [OnSendRawData(p, C1) EXCEPT !.step = "S0S1S2"]

(* onSearchPacketTail through input: a step consumes what it understands   *)
(* and the next one is tried on the rest.                                  *)
RECURSIVE Parse(_)
Parse(x) ==
  LET p == x.p
      d == x.rest
      next(q, n, step) == Strict(Parse, [p |-> [q EXCEPT !.step = step], rest |-> From(d, n)])
  IN
  CASE p.step = "broken" -> p
    [] p.step = "C0C1" /\ Len(d) > C1Size ->
         next(OnSendRawData(p, C1 \o SubSeq(d, 2, 1 + C1Size)), 1 + C1Size, "C2")
    [] p.step = "S0S1S2" /\ Len(d) >= ServerHello ->
         next(OnSendRawData(p, SubSeq(d, 2, 1 + C1Size)), ServerHello, "rtmp")
    [] p.step = "C2" /\ Len(d) >= C1Size -> next(p, C1Size, "rtmp")
    [] p.step = "rtmp" -> LET r == HandleRtmp(x) IN [r.p EXCEPT !.remain = r.rest]
    [] OTHER -> [p EXCEPT !.remain = d]

ParseDropping(p, data) == Strict(Parse, [p |-> p, rest |-> data])
OnParseRtmp(p, data) == Strict(Parse, [p |-> p, rest |-> p.remain \o data])
=============================================================================
