-------------------------- MODULE MCMediaRegistry --------------------------
(* Small instances of MediaRegistry.  The two requests r1 and r2 are made by *)
(* one session or by two, for one stream or for two.  The run has two scenes: *)
(* two sources of one stream that come and go while one session asks, and two *)
(* sessions that ask for one source.                                          *)
EXTENDS MediaRegistry, TLC

CONSTANTS s1, s2, p1, p2, r1, r2, i1, i2, a1, a2, d1, d2

Lone       == r1 :> p1
OneSession == r1 :> p1 @@ r2 :> p1
TwoSessions == r1 :> p1 @@ r2 :> p2

TwoStreams == [x \in {s1, s2, r1, r2} |-> IF x \in {s1, r1} THEN i1 ELSE i2]
OneStream  == [x \in Sources \cup Requests |-> i1]

LoneAddress  == p1 :> a1
TwoAddresses == p1 :> a1 @@ p2 :> a2

\* Bound of the instance: a second session comes only while there is one source, which
\* registers once.
Scene ==
  \/ session[p2] = "none"
  \/ phase[s2] = "new" /\ \A s \in Sources : regists[s] <= 1

FairScenes == Init /\ [][Next /\ Scene']_vars /\ Fairness
=============================================================================
