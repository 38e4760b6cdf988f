------------------------------- MODULE TcpNet -------------------------------
(***************************************************************************)
(* The kernel between a client and a server: one connection for each       *)
(* attempt of the client.  What either end knows of the other is what the  *)
(* kernel reports.                                                         *)
(***************************************************************************)
EXTENDS Naturals

CONSTANT Tries  \* how many times the client connects

ASSUME TcpNetAssumption == Tries \in Nat \ {0}

VARIABLES
  near,  \* near[c]: the client's descriptor
  far,   \* far[c]: the server's descriptor
  lost   \* connections on which nothing passes any more

net == <<near, far, lost>>

Conns == 1 .. Tries

NetInit ==
  /\ near = [c \in Conns |-> "none"]
  /\ far = [c \in Conns |-> "none"]
  /\ lost = {}

\* connect() of an unblocking descriptor returns before anything is sent.
Dial(c) == near' = [near EXCEPT ![c] = "dialing"] /\ UNCHANGED <<far, lost>>

\* The listener's kernel answers on its own.
Arrive(c) ==
  /\ near[c] = "dialing" /\ c \notin lost /\ far[c] = "none"
  /\ near' = [near EXCEPT ![c] = "open"]
  /\ far' = [far EXCEPT ![c] = "backlog"]
  /\ UNCHANGED lost

Refuse(c) ==
  /\ near[c] = "dialing" /\ c \notin lost
  /\ near' = [near EXCEPT ![c] = "refused"]
  /\ UNCHANGED <<far, lost>>

\* A connection breaks down without a word, one at most.
Lose(c) ==
  /\ near[c] \in {"dialing", "open"} /\ lost = {}
  /\ lost' = lost \cup {c}
  /\ UNCHANGED <<near, far>>

\* The end of the stream, or a reset, is seen by the other end.
FarClosed(c)  == far[c] \in {"closed", "dropped"} /\ c \notin lost
NearClosed(c) == near[c] = "closed" /\ c \notin lost
=============================================================================
