------------------------------ MODULE TcpLink -------------------------------
(***************************************************************************)
(* A client and a server with its clones on one network, which may refuse  *)
(* a connection or stop to carry it without a word.                        *)
(***************************************************************************)
EXTENDS TcpClient, TcpServer

vars == <<net, clientVars, serverVars>>

Init == NetInit /\ ClientInit /\ ServerInit

Network == \E c \in Conns : (Listening /\ Arrive(c)) \/ Refuse(c)

Next ==
  \/ ClientNext /\ UNCHANGED serverVars
  \/ ServerNext /\ UNCHANGED clientVars
  \/ Network /\ UNCHANGED <<clientVars, serverVars>>
  \/ (\E c \in Conns : Lose(c)) /\ UNCHANGED <<clientVars, serverVars>>

Spec == Init /\ [][Next]_vars

\* Bound of the instance: the servers are destroyed only where the client's owner is in no
\* call, and made its attempts on the poller's thread.
OneOwner == up = Servers \/ (inside = "no" /\ \A c \in Conns : by[c] = Loop)

\* Loops turn, the worker resolves and a call returns; nobody has to connect, to shut
\* down or to be destroyed.
FairSpec ==
  /\ Init /\ [][Next /\ OneOwner']_vars
  /\ WF_vars(ClientLoop /\ UNCHANGED serverVars) /\ WF_vars(ClientTimer /\ UNCHANGED serverVars)
  /\ WF_vars(Worker /\ UNCHANGED serverVars) /\ WF_vars(Calling /\ UNCHANGED serverVars)
  /\ \A v \in Servers :
       WF_vars(ServerEvent(v) /\ UNCHANGED clientVars) /\ WF_vars(ServerTask(v) /\ UNCHANGED clientVars)
  /\ WF_vars(Unaccepted /\ UNCHANGED clientVars)
-----------------------------------------------------------------------------
TypeOK == ClientTypeOK /\ ServerTypeOK

\* Connections that one side has ended and the other has not, though it would be told.
HalfOpen ==
  {c \in Conns :
    \/ NearClosed(c) /\ far[c] = "open"
    \/ FarClosed(c) /\ near[c] = "open" /\ fd[c]}

\* A session whose client is gone ends, and so does a client whose session is: as there
\* are only so many connections, that none is half open again and again says it of each.
BothEnd == []<>(HalfOpen = {})

\* The owner of a TcpClient is told of each attempt by one result, and of what
\* happens to a connection afterwards (Socket::connect, TcpClient::onSockConnect).
ClientTold == TypeOK /\ OneResult /\ ConnectedIsOwned /\ ErrOnce

\* A session is told of its end once, before it is destroyed, and then hears nothing;
\* the maps of the servers and SessionMap agree, whatever addresses are reused and
\* whatever erasures were put off (onAcceptConnection, onManagerSession, safeShutdown).
SessionTold == ToldOnce /\ EndIsTold /\ SilentAfterError /\ RegistryExact /\ EraseRight

\* Nothing hangs: attempts end, and the end of one side ends the other.
AllEnds == AttemptEnds /\ BothEnd
=============================================================================
