----------------------------- MODULE MCReceive ------------------------------
(* What comes in from the network, in three kinds of scenes: a connection's  *)
(* bytes and the splitters (Wire), one track's RTP packets and the receiver  *)
(* (RtpStream), and the packets of several senders and the selector          *)
(* (RtpIngest).  In a scene of one kind the other two rest.                  *)
EXTENDS Wire, RtpStream, RtpIngest
-----------------------------------------------------------------------------
(* A stream of units, each with the messages it completes.                 *)
Unit(bytes, msgs, pings) == [bytes |-> bytes, msgs |-> msgs, pings |-> pings]
Stream(us) == FlattenSeq([i \in DOMAIN us |-> us[i].bytes])
At(us, ms(_)) == FlattenSeq([i \in DOMAIN us |->
  [j \in DOMAIN ms(us[i]) |-> [m |-> ms(us[i])[j], upto |-> Len(Stream(SubSeq(us, 1, i)))]]])
Nothing == [e \in {"client", "server"} |-> <<>>]
SceneOf(kind, us) ==
  [kind |-> kind, junk |-> FALSE, bytes |-> Stream(us), script |-> Nothing,
   expect |-> At(us, LAMBDA u : u.msgs), pings |-> At(us, LAMBDA u : u.pings)]
UpTo3(S) == UNION {[1..n -> S] : n \in 1..3}

Tricky == <<LineEnd, LineEnd, Dollar>>
Rtp4(p) == Unit(<<Dollar, 0, 0, Len(p)>> \o p, <<[rtp |-> p]>>, <<>>)
Rtp2(p) == Unit(<<0, Len(p)>> \o p, <<[rtp |-> p]>>, <<>>)
Text(c) == Unit(<<Line(Len(c)), LineEnd, LineEnd>> \o c, <<[text |-> Len(c), content |-> c]>>, <<>>)
RtspScenes == {SceneOf("rtsp", us) : us \in UpTo3({Text(<<>>), Text(Tricky), Rtp4(Tricky)})}
RtpScenes == {SceneOf("rtp", us) : us \in UpTo3({Rtp4(<<1, 2, 3>>), Rtp2(Tricky)})}
JunkScene(bytes) == [kind |-> "rtsp", bytes |-> bytes, script |-> Nothing, junk |-> TRUE, expect |-> <<>>, pings |-> <<>>]
JunkScenes == {JunkScene([i \in 1..12 |-> 1]),
               JunkScene([i \in 1..9 |-> 1] \o Rtp4(Tricky).bytes \o Text(<<>>).bytes)}

Key == <<1, 2, 4, 8>>
WsFrame(fin, op, p) == <<128 * fin + op, Len(p)>> \o p
Masked(fin, op, p) == <<128 * fin + op, 128 + Len(p)>> \o Key \o Unmask(p, Key, 0)
Long(op, p) == <<128 + op, 126, 0, Len(p)>> \o p
P5 == <<10, 20, 30, 40, 50>>
WsUnits == {Unit(Masked(1, TEXT, P5), <<P5>>, <<>>),
            Unit(Long(TEXT, <<9, 8>>), <<<<9, 8>>>>, <<>>),
            Unit(WsFrame(0, TEXT, <<1>>) \o Masked(1, CONTINUATION, P5), <<<<1>> \o P5>>, <<>>),
            Unit(Masked(1, PING, <<7, 7>>), <<>>, <<<<7, 7>>>>)}
Upgrade == Unit(<<Line(0), LineEnd, LineEnd>>, <<>>, <<>>)
WsScenes == {SceneOf("websocket", <<Upgrade>> \o us) : us \in UNION {[1..n -> WsUnits] : n \in 1..2}}
EmptyScenes == {SceneOf("websocket", <<Upgrade, Unit(WsFrame(1, TEXT, <<>>), <<<<>>>>, <<>>), Unit(WsFrame(1, TEXT, <<5>>), <<<<5>>>>, <<>>)>>)}

(* A foreign RTMP client: other forms of the chunk header, two messages    *)
(* interleaved, stamps as differences, an aggregate.                       *)
Full(cid, ts, size, type) == cid \o Be(ts, 3) \o Be(size, 3) \o <<type, 1, 0, 0, 0>>
Msg(type, stamp, body) == [type |-> type, stream |-> 1, stamp |-> stamp, body |-> body]
Hello == Unit([i \in 1..(1 + 2 * C1Size) |-> 3], <<>>, <<>>)
Cid64 == <<0, 6>>
Cid65 == <<1, 1, 0>>
Sub(type, ts, b) == <<type, 0, 0, Len(b), 0, 0, ts, 0, 0, 0, 0>> \o b \o <<0, 0, 0, 11 + Len(b)>>
Tags == Sub(8, 4, <<1>>) \o Sub(9, 5, <<2, 3>>)
Foreign1 == <<Hello,
  Unit(Full(<<6>>, 50, 7, VIDEO) \o <<1, 2, 3, 4, 5, 6>>, <<>>, <<>>),
  Unit(Full(Cid64, 7, 2, AUDIO) \o <<8, 9>>, <<Msg(AUDIO, 7, <<8, 9>>)>>, <<>>),
  Unit(<<192 + 6, 7>>, <<Msg(VIDEO, 50, <<1, 2, 3, 4, 5, 6, 7>>)>>, <<>>),
  Unit(<<64, 6, 0, 0, 3, 0, 0, 1, AUDIO, 77>>, <<Msg(AUDIO, 10, <<77>>)>>, <<>>),
  Unit(<<128 + 6, 0, 0, 4, 9, 9, 9, 9, 9, 9>>, <<>>, <<>>),
  Unit(<<192, 6, 78>>, <<Msg(AUDIO, 13, <<78>>)>>, <<>>),
  Unit(<<192 + 6, 9>>, <<Msg(VIDEO, 54, <<9, 9, 9, 9, 9, 9, 9>>)>>, <<>>)>>
Foreign2 == <<Hello,
  Unit(Full(<<2>>, 0, 4, SET_CHUNK) \o <<0, 0, 0, 60>>, <<>>, <<>>),
  Unit(Full(Cid65, 1, Len(Tags), AGGREGATE) \o Tags,
       <<Msg(8, 4, <<1, 0, 0, 0, 12>>), Msg(9, 5, <<2, 3, 0, 0, 0, 13>>)>>, <<>>),
  Unit(Full(<<6>>, Ext, 2, VIDEO) \o <<1, 0, 0, 0>> \o <<5, 6>>, <<Msg(VIDEO, 16777216, <<5, 6>>)>>, <<>>),
  Unit(<<192 + 6, 1, 0, 0, 1, 7, 8>>, <<Msg(VIDEO, 33554433, <<7, 8>>)>>, <<>>)>>
ForeignScenes == {SceneOf("rtmp", Foreign1), SceneOf("rtmp", Foreign2)}

(* Two RtmpProtocols.                                                      *)
Media(type, stamp, n, cid) == [op |-> "media", type |-> type, stamp |-> stamp, body |-> [i \in 1..n |-> i], cid |-> cid]
Op(o, n) == [op |-> o, n |-> n]
Integer(n) == Value("integer", n)
Text2(c) == Value("string", c)
Status == Value("object", (<<5>> :> Text2(<<6, 7>>)) @@ (<<3>> :> Value("boolean", TRUE)) @@ (<<4>> :> Text2(<<>>)))
Meta == Value("ecma", (<<8>> :> Integer(30)) @@ (<<9>> :> Value("strict", <<Status, Undefined, Value("boolean", FALSE)>>)))
Invoke(id, values, size) == [op |-> "command", name |-> <<70, 71>>, n |-> id, values |-> values, size |-> size, cid |-> 2]
Link(c, s) == [kind |-> "rtmp", junk |-> FALSE, bytes |-> <<>>, expect |-> <<>>, pings |-> <<>>,
               script |-> [e \in {"client", "server"} |-> IF e = "client" THEN c ELSE s]]
RtmpScenes == {Link(<<Media(VIDEO, 1, 8, 7), Op("chunk", 8), Media(AUDIO, Ext, 9, 6)>>, <<Op("ping", 5), Op("window", 40)>>),
               Link(<<Op("ping", 77), Invoke(3, <<Null, Status>>, 100)>>, <<Op("chunk", 7), Media(VIDEO, 16777300, 8, 6)>>)}
CommandScenes == {Link(<<Invoke(2, <<Meta, Text2(<<1>>)>>, 100)>>, <<>>)} \cup
                 {Link(<<Invoke(1, <<Null, Meta>>, size)>>, <<>>) : size \in {3, 9, 14, 15, 16, 30, 40, 61}}

CleanScenes == RtspScenes \cup RtpScenes \cup JunkScenes \cup WsScenes \cup ForeignScenes \cup RtmpScenes \cup CommandScenes
-----------------------------------------------------------------------------
(* One track: streams that start away from the wrap or run over it, with B *)
(* frames, aggregated and audio units, and a sender that starts again.     *)

Scene(codec, start, frames, l, d) ==
  [codec |-> codec, packets |-> Packets(1, start, frames), frames |-> frames,
   losses |-> l, repeats |-> d, switches |-> FALSE]
Frames(sizes) == [f \in DOMAIN sizes |-> [many |-> FALSE, n |-> sizes[f], pts |-> 40 * f]]
Mixed == Frames(<<3, 1, 2, 3, 2>>)
Longer == Frames(<<3, 1, 2, 3, 2, 1, 3>>)
Plain == {Scene(c, s, Mixed, 2, 1) : c \in {"h264", "h265", "common"}, s \in {3, 9}}
Wraps == {Scene("h264", M - 7, Longer, 0, 0), Scene("common", M - 6, Longer, 0, 0),
          Scene("h264", M - 6, Frames(<<3, 1, 2, 1, 2, 2, 3, 1>>), 1, 0)}
(* Fragments around number 0, with losses; streams longer than a cycle of  *)
(* numbers, with repetitions, from shortly before a wrap.                  *)
Across == {Scene("h264", M - 7, Longer, 2, 1), Scene("h265", M - 8, Longer, 2, 1), Scene("common", M - 6, Longer, 2, 1)}
Round(n) == Frames([f \in 1..n |-> IF f % 3 = 0 THEN 3 ELSE 1])
Cycles == {Scene("common", M - 7, Round(22), 0, 1), Scene("h264", M - 7, Round(23), 0, 1),
           Scene("h264", M - 7, Longer, 0, 2)}
Again(codec) == [codec |-> codec, frames |-> Mixed, losses |-> 0, repeats |-> 0, switches |-> TRUE,
          packets |-> Packets(1, 3, Frames(<<3, 1>>)) \o Packets(2, 20, Mixed)]

(* Three units of one stamp, then two B frames before each P frame.        *)
Order == <<40, 160, 80, 120, 280, 200, 240, 400, 320, 360>>
BFrames == [f \in DOMAIN Order |-> [many |-> f = 1, n |-> IF f = 1 THEN 3 ELSE IF f = 5 THEN 2 ELSE 1,
                                    pts |-> Order[f]]]
AacFrames == [f \in 1..7 |-> [many |-> TRUE, n |-> IF f \in {1, 4} THEN 2 ELSE 3, pts |-> 60 * f]]
More == {Scene("h264", 5, BFrames, 0, 0), Scene("h264", 5, BFrames, 1, 0), Scene("h265", 5, Tail(BFrames), 0, 0),
         Scene("aac", 5, AacFrames, 2, 1), Scene("ps", 5, Frames(<<2, 6, 1, 2>>), 2, 1)}
GoodStreams == Plain \cup Wraps \cup Across \cup Cycles \cup {Again("h264")} \cup More
-----------------------------------------------------------------------------
CONSTANTS a1, a2, x1, x2
TwoAddresses == x1 :> a1 @@ x2 :> a2

Bound(u, t, d, a, s, th, c) ==
  [udp |-> u, tcp |-> t, device |-> d, accepts |-> a, starts |-> s, throws |-> th, closes |-> c]
NoPackets == Bound(0, 0, 0, 0, 0, 0, 0)
SomePackets == {NoPackets, Bound(0, 3, 0, 2, 0, 0, 1), Bound(1, 2, 0, 1, 0, 1, 0),
                Bound(0, 2, 1, 1, 1, 0, 1), Bound(3, 0, 0, 0, 0, 1, 1)}

NoStream == [codec |-> "h264", packets |-> <<>>, frames |-> <<>>, losses |-> 0, repeats |-> 0, switches |-> FALSE]
AllStreams == GoodStreams \cup {NoStream}
NoScene == SceneOf("rtp", <<>>)
AllScenes == CleanScenes \cup {NoScene}

AllInit ==
  /\ Init /\ StreamInit /\ IInit
  /\ scene = NoScene \/ stream = NoStream
  /\ left = NoPackets \/ (scene = NoScene /\ stream = NoStream)

AllNext ==
  \/ Next /\ UNCHANGED <<svars, ivars>>
  \/ StreamNext /\ UNCHANGED <<vars, ivars>>
  \/ INext /\ UNCHANGED <<vars, svars>>

AllSpec == AllInit /\ [][AllNext]_<<vars, svars, ivars>> /\ IFair
=============================================================================
