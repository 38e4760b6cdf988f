----------------------------- MODULE PlayerBase -----------------------------
(***************************************************************************)
(* What RtspPlayer and RtmpPlayer have in common: the connection as        *)
(* TcpClient shows it to them, the callbacks of PlayerImp, which run once, *)
(* and the timers of a play.  A player is a record; an operator returns    *)
(* the player after the call.  What it sends in one call is in "out".  All *)
(* calls are made on the player's poller, where an error of the socket is  *)
(* reported before the call that caused it returns.                        *)
(***************************************************************************)
EXTENDS Naturals, Sequences

NewPlayer ==
  [ link   |-> "none",    \* the current socket: none, resolving, connecting, open, closed
    play   |-> FALSE,     \* _play_check_timer or _play_timer
    recv   |-> FALSE,     \* _rtp_check_timer or _rtmp_recv_timer
    quiet  |-> 0,         \* the checks of that timer since the last packet
    result |-> FALSE,     \* _playResultCB
    down   |-> FALSE,     \* _shutdownCB
    told   |-> <<>>,      \* history: what the owner was told since it called play
    stray  |-> FALSE,     \* history: torn down while the name was resolved
    out    |-> <<>> ]

\* The player of a protocol: its own members, and those every player has.
Derived(own) ==
  [m \in DOMAIN own \cup DOMAIN NewPlayer |-> IF m \in DOMAIN own THEN own[m] ELSE NewPlayer[m]]

\* TcpClient::alive: there is a descriptor.
Alive(p) == p.link \in {"connecting", "open"}

\* TcpClient::shutdown by the player itself: the error it causes is Err_shutdown.
Hang(p) == [p EXCEPT !.link = "closed"]

\* A new socket replaces whatever there was.
StartConnect(p) == [p EXCEPT !.link = "resolving"]

\* What is sent without a connection is dropped.
Say(p, m) == IF p.link = "open" THEN [p EXCEPT !.out = Append(@, m)] ELSE p

\* The owner sets its callbacks before it plays.
SetCallbacks(p) == [p EXCEPT !.result = TRUE, !.down = TRUE, !.told = <<>>, !.stray = FALSE]

OnPlayResult(p, ex) ==
  IF p.result THEN [p EXCEPT !.result = FALSE, !.told = Append(@, IF ex = "ok" THEN "ok" ELSE "fail")]
  ELSE p

OnShutdown(p) ==
  IF p.down THEN [p EXCEPT !.down = FALSE, !.told = Append(@, "down")] ELSE p

\* Resumption may be told any number of times: the history keeps the first.
OnResume(p) == IF "resume" \in {p.told[i] : i \in DOMAIN p.told} THEN p ELSE [p EXCEPT !.told = Append(@, "resume")]

\* What a play leaves on a torn down player, the same for both protocols.
Stop(p) ==
  [p EXCEPT !.play = FALSE, !.recv = FALSE, !.stray = @ \/ p.link = "resolving"]

\* Faulty form: the limit is looked for one check late.
SilenceLate(p) == IF p.quiet + 1 >= 4 THEN {TRUE} ELSE IF p.quiet + 1 = 3 THEN BOOLEAN ELSE {FALSE}

\* Half a period passes: after two periods without a packet the limit is passed
\* for sure, after one it depends on when the last one came.
Silence(p) == IF p.quiet + 1 >= 3 THEN {TRUE} ELSE IF p.quiet + 1 = 2 THEN BOOLEAN ELSE {FALSE}
=============================================================================
