----------------------------- MODULE Splitters -----------------------------
(* HttpRequestSplitter, the splitter every TCP protocol of the server is   *)
(* built on, and its subclasses for RTSP with interleaved RTP and for RTP  *)
(* over TCP.  A splitter is given the received bytes in pieces of any size *)
(* and calls onRecvHeader and onRecvContent; both are pure operators here, *)
(* the calls are appended to the field out.                                *)
(*                                                                         *)
(* A byte is a number.  A text header is a line and two line ends: the     *)
(* line is one byte that carries its Content-Length, a line end is one.    *)
EXTENDS Integers, Sequences, SequencesExt, Bitwise

CONSTANT Overflow      \* 256 KB: a longer RTSP remainder is thrown away

Dollar == 36
LineEnd == 13
Line(c) == 100 + c
IsLine(b) == b >= 100 /\ b < 110

Be(n, w) == [i \in 1..w |-> (n \div 256^(w - i)) % 256]
RECURSIVE Val(_)
Val(bytes) == IF bytes = <<>> THEN 0 ELSE Val(Front(bytes)) * 256 + Last(bytes)
(* Op(x), with x evaluated once.                                           *)
Strict(Op(_), x) == CHOOSE r \in {Op(y) : y \in {x}} : TRUE
From(d, n) == SubSeq(d, n + 1, Len(d))
Upto(d, n) == SubSeq(d, 1, n)

(* contentLen is 0 while a header is expected, -1 when the rest of the     *)
(* connection is one content.                                              *)
SplitterInit(kind) ==
  [kind |-> kind, remain |-> <<>>, contentLen |-> 0, isRtp |-> FALSE, offset |-> 0,
   head |-> 0, out |-> <<>>]

(* HttpRequestSplitter::onSearchPacketTail: the end of the first blank     *)
(* line, 0 for nullptr.                                                    *)
TextTail(d) ==
  LET ends == {i \in 2..Len(d) : d[i] = LineEnd /\ d[i - 1] = LineEnd}
  IN IF ends = {} THEN 0 ELSE CHOOSE i \in ends : \A j \in ends : i <= j

RtspSearchKeep(s, d) ==
  LET text == d[1] # Dollar
      n == IF text THEN TextTail(d)
           ELSE IF Len(d) < 4 \/ Len(d) < 4 + Val(SubSeq(d, 3, 4)) THEN 0
           ELSE 4 + Val(SubSeq(d, 3, 4))
  IN [s |-> [s EXCEPT !.isRtp = ~text /\ n > 0], tail |-> n, dropped |-> FALSE]

(* RtspSplitter::onSearchPacketTail: a text request, or '$', a channel, a  *)
(* length of two bytes and the packet; what is found nowhere within        *)
(* Overflow bytes is cut at the next '$' or dropped with everything.       *)
RtspSearch(s, d) ==
  LET text == d[1] # Dollar
      n == IF text THEN TextTail(d)
           ELSE IF Len(d) < 4 \/ Len(d) < 4 + Val(SubSeq(d, 3, 4)) THEN 0
           ELSE 4 + Val(SubSeq(d, 3, 4))
      s1 == IF text THEN [s EXCEPT !.isRtp = FALSE]
            ELSE IF n > 0 THEN [s EXCEPT !.isRtp = TRUE] ELSE s
      cuts == {i \in DOMAIN d : d[i] = Dollar}
  IN IF n > 0 \/ Len(d) <= Overflow THEN [s |-> s1, tail |-> n, dropped |-> FALSE]
     ELSE IF cuts = {} THEN [s |-> s1, tail |-> 0, dropped |-> TRUE]
     ELSE [s |-> s1, tail |-> (CHOOSE i \in cuts : \A j \in cuts : i <= j) - 1, dropped |-> FALSE]

(* RtpSplitter::onSearchPacketTail: '$', a channel and a length, or the    *)
(* length alone, in two bytes.                                             *)
RtpSearch(s, d) ==
  LET off == IF d[1] = Dollar THEN 4 ELSE 2
      n == Val(SubSeq(d, off - 1, off))
  IN IF Len(d) < 4 THEN [s |-> s, tail |-> 0, dropped |-> FALSE]
     ELSE [s |-> [s EXCEPT !.offset = off], dropped |-> FALSE,
           tail |-> IF Len(d) < off + n THEN 0 ELSE off + n]

HttpSearch(s, d) == [s |-> s, tail |-> TextTail(d), dropped |-> FALSE]

OnSearchPacketTail(s, d) ==
  CASE s.kind = "rtsp" -> RtspSearch(s, d)
    [] s.kind = "rtp" -> RtpSearch(s, d)
    [] s.kind = "websocket" -> HttpSearch(s, d)

(* RtspSplitter::onRecvHeader, RtpSplitter::onRecvHeader: an RTP packet is *)
(* delivered; a text header is delivered when it announces no content.     *)
(* HttpSession: the upgrade to WebSocket makes the rest content.           *)
HeadOf(h) == IF IsLine(h[1]) THEN h[1] - 100 ELSE 0
OnRecvHeader(s, h) ==
  LET c == HeadOf(h)
  IN CASE s.kind = "rtp" -> [s EXCEPT !.out = Append(@, [rtp |-> From(h, s.offset)])]
       [] s.kind = "rtsp" /\ s.isRtp -> [s EXCEPT !.out = Append(@, [rtp |-> From(h, 4)])]
       [] s.kind = "rtsp" /\ ~s.isRtp /\ c = 0 ->
            [s EXCEPT !.out = Append(@, [text |-> 0, content |-> <<>>])]
       [] s.kind = "rtsp" /\ ~s.isRtp /\ c > 0 -> [s EXCEPT !.contentLen = c, !.head = c]
       [] s.kind = "websocket" -> [s EXCEPT !.contentLen = -1]

OnRecvContent(s, d) ==
  [s EXCEPT !.out = Append(@, IF s.kind = "websocket" THEN [raw |-> d]
                              ELSE [text |-> s.head, content |-> d])]

(* The while loop of input: headers one after the other.                   *)
RECURSIVE Headers(_, _)
Headers(s, d) ==
  IF s.contentLen # 0 \/ d = <<>> THEN [s |-> s, rest |-> d]
  ELSE LET r == OnSearchPacketTail(s, d)
       IN IF r.dropped THEN [s |-> r.s, rest |-> <<>>]
          ELSE IF r.tail = 0 THEN [s |-> r.s, rest |-> d]
          ELSE Headers(OnRecvHeader(r.s, Upto(d, r.tail)), From(d, r.tail))

(* HttpRequestSplitter::input from splitPacket on.                         *)
RECURSIVE SplitPacket(_, _)
SplitPacket(s0, d0) ==
  LET r == Headers(s0, d0)
      s == r.s
      d == r.rest
      n == s.contentLen
  IN IF d = <<>> THEN [s EXCEPT !.remain = <<>>]
     ELSE IF n = 0 \/ n > Len(d) THEN [s EXCEPT !.remain = d]
     ELSE IF n < 0 THEN [OnRecvContent(s, d) EXCEPT !.remain = <<>>]
     ELSE LET done == [OnRecvContent(s, Upto(d, n)) EXCEPT !.contentLen = 0, !.remain = <<>>]
          IN IF n = Len(d) THEN done ELSE SplitPacket(done, From(d, n))

Input(s, data) == SplitPacket(s, s.remain \o data)

-----------------------------------------------------------------------------
(* WebSocketSplitter::decode and encode, and the callbacks through which   *)
(* WebSocketSessionBase collects the fragments of a message.               *)
CONTINUATION == 0
TEXT == 1
PING == 9
PONG == 10

WsInit ==
  [remain |-> <<>>, gotHeader |-> FALSE, fin |-> 0, opcode |-> 0, mask |-> <<>>,
   payloadLen |-> 0, payloadOffset |-> 0, maskOffset |-> 0,
   section |-> <<>>, cache |-> <<>>, out |-> <<>>, sent |-> <<>>]

(* WebSocketSplitter::encode of a whole message by the server: not masked. *)
Encode(opcode, body) == <<128 + opcode>> \o (IF Len(body) < 126 THEN <<Len(body)>>
                                             ELSE <<126>> \o Be(Len(body), 2)) \o body

(* onWebSocketDecodeHeader                                                 *)
OnHeader(w) == [w EXCEPT !.section = <<>>]

Unmask(data, mask, off) == [i \in DOMAIN data |-> data[i] ^^ mask[((i - 1 + off) % 4) + 1]]
UnmaskRestart(data, mask, off) == [i \in DOMAIN data |-> data[i] ^^ mask[((i - 1) % 4) + 1]]

(* onPayloadData, onWebSocketDecodePayload                                 *)
OnPayloadRestart(w, data) ==
  IF w.mask = <<>> THEN [w EXCEPT !.section = @ \o data]
  ELSE [w EXCEPT !.section = @ \o UnmaskRestart(data, w.mask, w.maskOffset),
                 !.maskOffset = (@ + Len(data)) % 4]
OnPayloadData(w, data) ==
  IF w.mask = <<>> THEN [w EXCEPT !.section = @ \o data]
  ELSE [w EXCEPT !.section = @ \o Unmask(data, w.mask, w.maskOffset),
                 !.maskOffset = (@ + Len(data)) % 4]

OnCompleteBare(w) ==
  CASE w.opcode = PING ->
         [w EXCEPT !.opcode = PONG, !.section = <<>>, !.sent = @ \o Encode(PONG, <<>>)]
    [] w.opcode \in {CONTINUATION, TEXT} /\ w.fin = 0 ->
         [w EXCEPT !.cache = @ \o w.section, !.section = <<>>]
    [] OTHER -> [w EXCEPT !.out = Append(@, w.cache \o w.section), !.cache = <<>>, !.section = <<>>]
(* onWebSocketDecodeComplete: a PING is answered, the fragments of a       *)
(* message are delivered with its last one.                                *)
OnComplete(w) ==
  CASE w.opcode = PING ->
         [w EXCEPT !.opcode = PONG, !.section = <<>>,
                   !.sent = @ \o Encode(PONG, w.section)]
    [] w.opcode \in {CONTINUATION, TEXT} /\ w.fin = 0 ->
         [w EXCEPT !.cache = @ \o w.section, !.section = <<>>]
    [] w.opcode \in {CONTINUATION, TEXT} /\ w.fin = 1 ->
         [w EXCEPT !.out = Append(@, w.cache \o w.section), !.cache = <<>>, !.section = <<>>]
    [] OTHER -> [w EXCEPT !.section = <<>>]

(* The length of the header that starts d; more than d has when d does not *)
(* yet hold the byte that tells.                                           *)
LenBytes(b) == IF b % 128 = 126 THEN 2 ELSE IF b % 128 = 127 THEN 8 ELSE 0
HeaderLen(d) == IF Len(d) < 2 THEN 2
                ELSE 2 + LenBytes(d[2]) + (IF d[2] >= 128 THEN 4 ELSE 0)

DecodeHeader(w, d) ==
  LET n == LenBytes(d[2])
      plen == IF n = 0 THEN d[2] % 128 ELSE Val(SubSeq(d, 3, 2 + n))
  IN OnHeader([w EXCEPT !.fin = d[1] \div 128, !.opcode = d[1] % 16,
                        !.mask = IF d[2] >= 128 THEN SubSeq(d, 3 + n, 6 + n) ELSE <<>>,
                        !.payloadLen = plen, !.gotHeader = TRUE,
                        !.maskOffset = 0, !.payloadOffset = 0])

(* begin_decode with all the bytes not yet consumed, and the payload part  *)
(* of decode.                                                              *)
RECURSIVE BeginDecode(_, _), DecodePayload(_, _)
BeginDecode(w, d) ==
  IF Len(d) < HeaderLen(d) THEN [w EXCEPT !.remain = d]
  ELSE LET h == DecodeHeader(w, d)
       IN DecodePayload(IF h.payloadLen = 0 THEN OnComplete(h) ELSE h, From(d, HeaderLen(d)))

DecodePayload(w, d) ==
  IF d = <<>> THEN [w EXCEPT !.remain = <<>>]
  ELSE LET need == w.payloadLen - w.payloadOffset
           n == IF Len(d) > need THEN need ELSE Len(d)
           p == OnPayloadData([w EXCEPT !.payloadOffset = @ + n, !.remain = <<>>], Upto(d, n))
       IN IF n < need THEN p
          ELSE LET done == [OnComplete(p) EXCEPT !.gotHeader = FALSE]
               IN IF n = Len(d) THEN done ELSE BeginDecode(done, From(d, n))

Decode(w, data) == IF w.gotHeader THEN DecodePayload(w, data)
                   ELSE BeginDecode(w, w.remain \o data)
=============================================================================
