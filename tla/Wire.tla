-------------------------------- MODULE Wire --------------------------------
(* Two ends of one connection: every protocol splitter of the server fed   *)
(* with a byte stream that the network cuts where it likes.  A scene says  *)
(* which protocol is spoken; for RTMP both ends are RtmpProtocol, each     *)
(* sends its script once its handshake is over, otherwise the bytes are    *)
(* those of a foreign client, with the messages they hold.                 *)
EXTENDS Integers, Sequences, SequencesExt, FiniteSets, Splitters, RtmpProtocol, Amf

CONSTANTS Scenes,      \* the scenes, records [kind, bytes, expect, script]
          Cuts,        \* the sizes of the pieces the network delivers
          ChunkIds     \* the chunk streams in use

ASSUME WireAssumption == /\ Overflow \in Nat \ {0} /\ C1Size \in Nat \ {0}
                         /\ DefaultChunk \in Nat \ {0} /\ Cuts \subseteq Nat \ {0}

VARIABLES scene, end, net, seen, todo
vars == <<scene, end, net, seen, todo>>

Ends == {"client", "server"}
Peer(e) == IF e = "client" THEN "server" ELSE "client"
IsRtmp == scene.kind = "rtmp"
Foreign(e) == e = "client" /\ scene.bytes # <<>>

EndInit(kind) == IF kind = "rtmp" THEN RtmpInit(ChunkIds)
                 ELSE [split |-> SplitterInit(kind), ws |-> WsInit]

Init ==
  /\ scene \in Scenes
  /\ end = [e \in Ends |-> EndInit(scene.kind)]
  /\ net = [e \in Ends |-> IF e = "server" THEN scene.bytes ELSE <<>>]
  /\ seen = [e \in Ends |-> 0]
  /\ todo = scene.script

(* TcpSession::onRecv of the protocol: what the splitter of a WebSocket    *)
(* connection takes for content is decoded (HttpSession::onRecvContent).   *)
Receive(r, kind, data) ==
  IF kind = "rtmp" THEN OnParseRtmp(r, data)
  ELSE LET s == Input([r.split EXCEPT !.out = IF kind = "websocket" THEN <<>> ELSE @], data)
       IN [split |-> s,
           ws |-> IF kind = "websocket" /\ s.out # <<>> THEN Decode(r.ws, s.out[1].raw) ELSE r.ws]

(* What an end has written goes to the network.                            *)
Write(e, r, mine) ==
  IF IsRtmp
  THEN /\ end' = [end EXCEPT ![e] = [r EXCEPT !.raw = <<>>]]
       /\ net' = [net EXCEPT ![e] = mine, ![Peer(e)] = @ \o r.raw]
  ELSE /\ end' = [end EXCEPT ![e] = r]
       /\ net' = [net EXCEPT ![e] = mine]

CanSend(e) == IsRtmp /\ end[e].step = "rtmp" /\ todo[e] # <<>>
CanConnect == IsRtmp /\ end["client"].step = "C0C1" /\ scene.bytes = <<>>

(* RtmpProtocol::startClientSession                                        *)
Connect ==
  /\ CanConnect
  /\ Write("client", StartClientSession(end["client"]), net["client"])
  /\ UNCHANGED <<scene, seen, todo>>

Deliver(e) ==
  /\ net[e] # <<>>
  /\ \E c \in Cuts :
       LET n == IF c > Len(net[e]) THEN Len(net[e]) ELSE c
       IN /\ Write(e, IF Foreign(e) THEN end[e] ELSE Receive(end[e], scene.kind, Upto(net[e], n)),
                   From(net[e], n))
          /\ seen' = [seen EXCEPT ![e] = @ + n]
  /\ UNCHANGED <<scene, todo>>

(* A peer that is not this program may end a command too early.            *)
Cut(body, size) == Upto(body, Min({size, Len(body)}))

Do(p, op) ==
  CASE op.op = "chunk" -> SendChunkSize(p, op.n)
    [] op.op = "window" -> SendWinSize(p, op.n)
    [] op.op = "ping" -> SendUserControl(p, PING_REQUEST, op.n)
    [] op.op = "command" -> SendRtmp(p, CMD, 1, Cut(CommandBody(op.name, op.n, op.values), op.size), 0, op.cid)
    [] op.op = "media" -> SendRtmp(p, op.type, 1, op.body, op.stamp, op.cid)

Send(e) ==
  /\ CanSend(e)
  /\ Write(e, Do(end[e], Head(todo[e])), net[e])
  /\ todo' = [todo EXCEPT ![e] = Tail(@)]
  /\ UNCHANGED <<scene, seen>>

Next == Connect \/ \E e \in Ends : Deliver(e) \/ Send(e)
Spec == Init /\ [][Next]_vars

Control == {SET_CHUNK, ACK, USER_CONTROL, WIN_SIZE}
Message(m) == [type |-> m.type, stream |-> m.stream, stamp |-> m.stamp, body |-> m.body]
ToldTo(e, m) == m.upto <= seen[e]
Consumed(e, ms) == SelectSeq(ms, LAMBDA m : ToldTo(e, m))
Seqs(ms) == [i \in DOMAIN ms |-> ms[i].m]
Expected(e) ==
  IF IsRtmp /\ scene.bytes = <<>>
  THEN LET ms == SelectSeq(Consumed(e, end[Peer(e)].sent), LAMBDA m : m.type \notin Control)
       IN [i \in DOMAIN ms |-> Message(ms[i])]
  ELSE IF e = "client" THEN <<>> ELSE Seqs(Consumed(e, scene.expect))
Got(e) == CASE IsRtmp -> end[e].out
            [] scene.kind = "websocket" -> end[e].ws.out
            [] OTHER -> end[e].split.out

Dependable == ~scene.junk
Same(a, b) == IF IsRtmp THEN /\ a.chunks = b.chunks /\ a.remain = b.remain /\ a.chunkIn = b.chunkIn
                             /\ a.step = b.step
              ELSE [a EXCEPT !.split.out = <<>>] = [b EXCEPT !.split.out = <<>>]
IsPing(m) == m.type = USER_CONTROL /\ Val(Upto(m.body, 2)) = PING_REQUEST
IsPong(m) == m.type = USER_CONTROL /\ Val(Upto(m.body, 2)) = PING_RESPONSE
Numbers(ms) == [i \in DOMAIN ms |-> Val(SubSeq(ms[i].body, 3, 6))]

TypeOK ==
  /\ scene \in Scenes
  /\ \A e \in Ends : seen[e] \in Nat /\ net[e] \in Seq(0..255)
  /\ IsRtmp => \A e \in Ends : /\ end[e].step \in {"C0C1", "C2", "S0S1S2", "rtmp", "broken"}
                               /\ end[e].chunkIn \in Nat \ {0}
                               /\ \A c \in ChunkIds : end[e].chunks[c].buffer \in Seq(0..255)

(* Wherever the network cuts the stream, each end has been given exactly   *)
(* the messages whose last byte has arrived, each once, whole and in       *)
(* order: no splitter swallows, repeats, joins or delays one (input,       *)
(* decode, handle_rtmp), also across a change of the chunk size.           *)
WholeMessages == Dependable => \A e \in Ends : Got(e) = Expected(e)

(* What a splitter keeps between two pieces does not depend on how the     *)
(* bytes before were cut: the state after any pieces is the state after    *)
(* one piece with all of them (the lists of what was sent apart).          *)
CutFree ==
  (scene.bytes # <<>> /\ Dependable /\ seen["server"] > 0)
    => Same(end["server"], Receive(EndInit(scene.kind), scene.kind, Upto(scene.bytes, seen["server"])))

(* RtspSplitter throws away what it cannot make sense of: while it looks   *)
(* for a header it never keeps more than Overflow bytes.                   *)
RemainBounded ==
  (scene.kind = "rtsp" /\ end["server"].split.contentLen = 0)
    => Len(end["server"].split.remain) <= Overflow

(* Every ping an end has taken is answered once, in order, with the number *)
(* or the payload it carried.                                              *)
PingsAnswered ==
  /\ (IsRtmp /\ scene.bytes = <<>>)
       => \A e \in Ends : Numbers(SelectSeq(end[e].sent, IsPong))
                          = Numbers(SelectSeq(Consumed(e, end[Peer(e)].sent), IsPing))
  /\ scene.kind = "websocket"
       => end["server"].ws.sent
          = FlattenSeq([i \in DOMAIN Consumed("server", scene.pings) |->
                          Encode(PONG, Consumed("server", scene.pings)[i].m)])

(* The two ends never wait for each other: when no byte is under way and   *)
(* neither end can send, both handshakes are over, every script is sent    *)
(* and every message was delivered.                                        *)
NeverStuck ==
  (~CanConnect /\ \A e \in Ends : net[e] = <<>> /\ ~CanSend(e))
    => \A e \in Ends : /\ todo[e] = <<>>
                       /\ IsRtmp => Foreign(e) \/ end[e].step = "rtmp"

(* What a command's values are to its receiver.                             *)
RECURSIVE Meant(_)
Meant(val) ==
  CASE val.type = "integer" -> Value("number", Double(val.v))
    [] val.type = "string" /\ val.v = <<>> -> Null
    [] val.type \in {"object", "ecma", "strict"} -> Value(val.type, [k \in DOMAIN val.v |-> Meant(val.v[k])])
    [] OTHER -> val
MeantBy(op) ==
  LET all == <<Value("string", op.name), Value("integer", op.n)>> \o op.values
      size(j) == IF j = 1 THEN 3 + Len(op.name) ELSE Len(CommandBody(op.name, op.n, SubSeq(op.values, 1, j - 2)))
      whole == Max({0} \cup {j \in DOMAIN all : size(j) <= op.size})
  IN [j \in 1..whole |-> Meant(all[j])]
     \o (IF whole = Len(all) \/ (whole > 1 /\ size(whole) = op.size) THEN <<>> ELSE <<Thrown>>)
(* A command is read as it was meant, with integers as numbers and empty    *)
(* strings as null; of one that ends too early the receiver reads the       *)
(* values that are whole and throws at the next, and makes none up.         *)
CommandsUnderstood ==
  (IsRtmp /\ scene.bytes = <<>>) => \A e \in Ends :
    LET ops == SelectSeq(scene.script[Peer(e)], LAMBDA op : op.op = "command")
        got == SelectSeq(Got(e), LAMBDA m : m.type = CMD)
    IN \A i \in DOMAIN got : Command(got[i].body) = MeantBy(ops[i])

(* The cuts of the network do not matter to any of the splitters (input,   *)
(* decode, handle_rtmp): not to what is delivered or answered, not to      *)
(* their state, and not to how much they keep; both ends get through, and  *)
(* understand each other's commands (AMFEncoder, AMFDecoder).              *)
CutsDoNotMatter == TypeOK /\ WholeMessages /\ CutFree /\ PingsAnswered /\ RemainBounded /\ NeverStuck /\ CommandsUnderstood
=============================================================================
