------------------------------ MODULE MCMuxer ------------------------------
EXTENDS Muxer

Add(t, ready) == [call |-> "add", track |-> t, ready |-> ready]
Done == [call |-> "completed"]
F(t, kind, ahead) == [call |-> "frame", track |-> t, kind |-> kind, ahead |-> ahead]
V(kind) == F("video", kind, 0)
Ahead(kind, k) == F("video", kind, k)
A == F("audio", "a", 0)
Scene(demand, k, calls) == [origin |-> "none", demand |-> demand, changes |-> k, calls |-> calls]
Published(origin, demand, k, calls) == [Scene(demand, k, calls) EXCEPT !.origin = origin]
Metadata(tracks) == [call |-> "metadata", tracks |-> tracks]
Announced(tracks) == [call |-> "sdp", tracks |-> tracks]
PV(kind) == [call |-> "packet", track |-> "video", kind |-> kind]
PA(kind) == [call |-> "packet", track |-> "audio", kind |-> kind]

Both == << Add("video", FALSE), Add("audio", FALSE), Done >>
Pictures == << V("idr"), V("p"), V("p"), V("idr"), V("p") >>
LateVideo == << Add("video", FALSE), Add("audio", TRUE), A, Done, V("p"), A, V("cfg"), V("idr"), V("p"), A >>
Dropped == << Add("video", FALSE), V("idr"), V("p"), Add("video", FALSE), V("cfg"), V("idr"), V("p"), V("p") >>
OneTrack == << Add("video", TRUE), V("idr"), V("idr"), Add("audio", TRUE), V("p"), A, V("p") >>

\* The device's clock is set back, by a little and by more than BackJump.
SetBack == << Add("video", TRUE), Done, Ahead("idr", 9), Ahead("p", 7), Ahead("p", 7), V("idr"), V("p"), V("p") >>

\* Publishers over RTMP: with metadata, without, with audio that has no configuration, with metadata again once all are ready.
Described == << Metadata(TrackNames), PV("cfg"), PA("cfg"), PV("idr"), PA("a"), PV("p"), PV("idr"), PA("a") >>
Undescribed == << PV("cfg"), PV("idr"), PV("p"), PA("cfg"), PA("a"), PV("idr"), PV("p") >>
Unconfigured == << PA("a"), PV("cfg"), PV("idr"), PV("p"), PA("a"), PV("p") >>
DescribedAgain == << Metadata({"video"}), PV("cfg"), PV("idr"), PV("p"), Metadata({"video"}), PV("p"), PV("idr"), PV("p") >>

\* Publishers over RTSP: the parameter sets in the packets or in the SDP.
InBand == << Announced([video |-> FALSE, audio |-> TRUE]), PV("cfg"), PV("idr"), PA("a"), PV("rest"), PV("p"),
             PV("cfg"), PV("idr"), PV("rest"), PV("p") >>
InSdp == << Announced([video |-> TRUE]), PV("idr"), PV("rest"), PV("p"), PV("idr"), PV("rest"), PV("p") >>

PublishedScenes ==
    { Published("rtmp", FALSE, 1, Described), Published("rtmp", FALSE, 1, Undescribed), Published("rtmp", FALSE, 0, Unconfigured),
      Published("rtmp", FALSE, 0, DescribedAgain), Published("rtsp", FALSE, 1, InBand), Published("rtsp", TRUE, 2, InSdp) }

MixedScenes ==
    PublishedScenes \cup
    { Scene(FALSE, 2, Both \o << V("cfg"), V("idr"), A, V("p"), A, V("idr"), V("p") >>),
      Scene(TRUE, 3, << Add("video", TRUE), Done >> \o Pictures),
      Scene(FALSE, 1, LateVideo), Scene(FALSE, 1, Dropped), Scene(FALSE, 1, OneTrack),
      Scene(FALSE, 0, SetBack) }

OneHome == [r \in {"rtmp", "rtsp"} |-> IF r = "rtmp" THEN {"p1"} ELSE {"p2"}]

DemandScenes == { Scene(TRUE, 1, << Add("video", TRUE), Done >> \o Pictures) }
=============================================================================
