----------------------------- MODULE RtpIngest ------------------------------
(* Which process an RTP packet reaches.  RtpSelector keeps the processes by *)
(* SSRC or by stream id, under a lock; UDP sockets on several pollers, the  *)
(* TCP sessions and the timer that looks for silent processes use it.  A    *)
(* process that RtpSelector made for an SSRC has an empty stream id, like   *)
(* every other of the kind.  Processes are numbered as they are made.       *)
EXTENDS Naturals, Sequences

CONSTANTS Ssrcs, Addresses,
          Device,       \* the stream id of an RtpServer for one device
          Sessions,     \* TCP connections
          Addr,         \* the address of a connection
          Pollers,      \* those with a UDP socket
          None,
          Bounds        \* how often what may happen, a set of records

MaxProcesses == 4   \* bound of the numbers the liveness property looks at

Kinds == {"udp", "tcp", "device", "accepts", "starts", "throws", "closes"}

(* A datagram, a connection's packet and a start make a process at most.    *)
ASSUME IngestAssumption ==
  /\ Addr \in [Sessions -> Addresses] /\ Device \notin Ssrcs
  /\ \A b \in Bounds : b \in [Kinds -> Nat] /\ b.udp + b.tcp + b.starts <= MaxProcesses

VARIABLES
  sel,       \* the selector: map and ssrcOf, and all processes ever made
  hand,      \* per poller: the datagram between getProcess and inputRtp
  tcp,       \* the sessions
  server,    \* rtp_process_ of the RtpServer, 0 before it starts
  left       \* what may still happen
ivars == <<sel, hand, tcp, server, left>>

Empty == ""
Held == {sel.map[k] : k \in DOMAIN sel.map}
Enter(f, k, v) == [x \in {k} \cup DOMAIN f |-> IF x = k THEN v ELSE f[x]]
Drop(f, k) == [x \in DOMAIN f \ {k} |-> f[x]]

NewProcess(id, key) ==
  [id |-> id, key |-> key, addr |-> None, silent |-> FALSE, listener |-> "helper", owed |-> 0, detached |-> 0]
Idle == [ssrc |-> None, addr |-> None, n |-> 0]
NewSession == [state |-> "new", n |-> 0, late |-> FALSE]

IInit ==
  /\ sel = [map |-> <<>>, ssrcOf |-> <<>>, procs |-> <<>>]
  /\ hand = [t \in Pollers |-> Idle]
  /\ tcp = [x \in Sessions |-> NewSession]
  /\ server = 0
  /\ left \in Bounds

Spend(what) == left[what] > 0 /\ left' = [left EXCEPT ![what] = @ - 1]
-----------------------------------------------------------------------------
(* RtpSelector, each under its lock                                         *)
Made(s, id, key) ==
  [map |-> Enter(s.map, key, Len(s.procs) + 1), ssrcOf |-> s.ssrcOf,
   procs |-> Append(s.procs, NewProcess(id, key))]

(* getProcess of an SSRC: the empty id leads to the latest of them.         *)
GetBySsrc(s, k) ==
  IF k \in DOMAIN s.map THEN s ELSE [Made(s, Empty, k) EXCEPT !.ssrcOf = Enter(@, Empty, k)]

KeyOf(s, id) == IF id \in DOMAIN s.ssrcOf THEN s.ssrcOf[id] ELSE id

(* getProcess of a stream id                                                *)
GetById(s, id) ==
  IF id \in DOMAIN s.map \/ KeyOf(s, id) \in DOMAIN s.map THEN s ELSE Made(s, id, id)
FoundById(s, id) == IF id \in DOMAIN s.map THEN s.map[id] ELSE s.map[KeyOf(s, id)]

(* delProcess: the entry of the id goes in any case, the process only if it *)
(* is the one that is meant; onDetach follows outside the lock.             *)
DelProcessAny(s, id, n) ==
  LET k == KeyOf(s, id)
      t == [s EXCEPT !.ssrcOf = Drop(@, id)]
  IN IF k \in DOMAIN s.map THEN [t EXCEPT !.map = Drop(@, k), !.procs[s.map[k]].owed = @ + 1] ELSE t
DelProcess(s, id, n) ==
  LET k == KeyOf(s, id)
      t == [s EXCEPT !.ssrcOf = Drop(@, id)]
  IN IF k \in DOMAIN s.map /\ s.map[k] = n
     THEN [map |-> Drop(s.map, k), ssrcOf |-> t.ssrcOf, procs |-> [s.procs EXCEPT ![n].owed = @ + 1]]
     ELSE t

(* onManager: the silent ones go, with the entry of their id.               *)
OnManagerQuiet(s) ==
  LET dead == {k \in DOMAIN s.map : s.procs[s.map[k]].silent}
  IN [s EXCEPT !.map = [k \in DOMAIN @ \ dead |-> @[k]]]
OnManager(s) ==
  LET dead == {k \in DOMAIN s.map : s.procs[s.map[k]].silent}
      ns == {s.map[k] : k \in dead}
  IN [map |-> [k \in DOMAIN s.map \ dead |-> s.map[k]],
      ssrcOf |-> [i \in DOMAIN s.ssrcOf \ {s.procs[n].id : n \in ns} |-> s.ssrcOf[i]],
      procs |-> [n \in DOMAIN s.procs |-> [s.procs[n] EXCEPT !.owed = IF n \in ns THEN @ + 1 ELSE @]]]

(* RtpProcess::inputRtp: bound to the first address; a frame, or a packet   *)
(* nobody watches, shows that the sender is alive.                          *)
InputRtp(s, n, addr, frame) ==
  LET p == s.procs[n]
      bound == IF p.addr = None THEN addr ELSE p.addr
  IN [s EXCEPT !.procs[n] = [p EXCEPT !.addr = bound, !.silent = p.silent /\ ~(bound = addr /\ frame)]]
-----------------------------------------------------------------------------
(* RtpSelector::inputRtp on a UDP socket, in two steps: look up, then feed. *)
UdpLookUp(t) ==
  /\ hand[t] = Idle /\ Spend("udp")
  /\ \E k \in Ssrcs, a \in Addresses :
       LET s == GetBySsrc(sel, k)
       IN sel' = s /\ hand' = [hand EXCEPT ![t] = [ssrc |-> k, addr |-> a, n |-> s.map[k]]]
  /\ UNCHANGED <<tcp, server>>

UdpInput(t) ==
  /\ hand[t] # Idle
  /\ \E frame \in BOOLEAN : sel' = InputRtp(sel, hand[t].n, hand[t].addr, frame)
  /\ hand' = [hand EXCEPT ![t] = Idle]
  /\ UNCHANGED <<tcp, server, left>>

UdpThrows(t) ==
  /\ hand[t] # Idle /\ Spend("throws")
  /\ sel' = DelProcess(sel, sel.procs[hand[t].n].id, hand[t].n)
  /\ hand' = [hand EXCEPT ![t] = Idle]
  /\ UNCHANGED <<tcp, server>>

(* RtpServer::start for a device, and its own UDP socket                    *)
ServerStart ==
  /\ server = 0 /\ Spend("starts")
  /\ sel' = GetById(sel, Device) /\ server' = FoundById(sel', Device)
  /\ UNCHANGED <<hand, tcp>>

ServerInput ==
  /\ server # 0 /\ Spend("device")
  /\ \E a \in Addresses, frame \in BOOLEAN : sel' = InputRtp(sel, server, a, frame)
  /\ UNCHANGED <<hand, tcp, server>>
-----------------------------------------------------------------------------
(* RtpSession: sessions of the device's server have its stream id.          *)
Accept(x) ==
  /\ tcp[x].state = "new" /\ Spend("accepts")
  /\ \E port \in {"ssrc"} \cup (IF server # 0 THEN {"device"} ELSE {}) : tcp' = [tcp EXCEPT ![x].state = port]
  /\ UNCHANGED <<sel, hand, server>>

Open(x) == tcp[x].state \in {"device", "ssrc"}

(* onRtpPacket                                                              *)
SessionPacket(x) ==
  /\ Open(x) /\ Spend("tcp")
  /\ \E k \in Ssrcs, frame \in BOOLEAN :
       LET first == tcp[x].n = 0
           s == IF ~first THEN sel ELSE IF tcp[x].state = "device" THEN GetById(sel, Device) ELSE GetBySsrc(sel, k)
           n == IF ~first THEN tcp[x].n ELSE IF tcp[x].state = "device" THEN FoundById(s, Device) ELSE s.map[k]
       IN /\ sel' = InputRtp(IF first THEN [s EXCEPT !.procs[n].listener = x] ELSE s, n, Addr[x], frame)
          /\ tcp' = [tcp EXCEPT ![x].n = n]
  /\ UNCHANGED <<hand, server>>

Shut(x) == tcp' = [tcp EXCEPT ![x].state = "shut"]

(* The peer closes, the splitter throws.                                    *)
SessionError(x) == Open(x) /\ Shut(x) /\ UNCHANGED <<sel, hand, server, left>>

(* RtpSession::onManager                                                    *)
SessionManager(x) ==
  /\ Open(x)
  /\ IF tcp[x].n = 0 THEN tcp[x].late ELSE sel.procs[tcp[x].n].silent
  /\ Shut(x) /\ UNCHANGED <<sel, hand, server, left>>

(* ~RtpSession, some time after it was shut down                            *)
Destroy(x) ==
  /\ tcp[x].state = "shut"
  /\ tcp' = [tcp EXCEPT ![x].state = "gone"]
  /\ sel' = IF tcp[x].n = 0 THEN sel ELSE DelProcess(sel, sel.procs[tcp[x].n].id, tcp[x].n)
  /\ UNCHANGED <<hand, server, left>>

(* MediaSource::close goes to the listener: the helper, which lives as long *)
(* as it is in the map, or the last session that found the process.         *)
Close(n) ==
  /\ n \in DOMAIN sel.procs /\ Spend("closes")
  /\ LET l == sel.procs[n].listener IN
       \/ /\ l = "helper" /\ n \in Held
          /\ sel' = DelProcess(sel, sel.procs[n].id, n) /\ UNCHANGED tcp
       \/ l \in Sessions /\ Open(l) /\ Shut(l) /\ UNCHANGED sel
  /\ UNCHANGED <<hand, server>>
-----------------------------------------------------------------------------
Manage ==
  /\ \E n \in Held : sel.procs[n].silent
  /\ sel' = OnManager(sel) /\ UNCHANGED <<hand, tcp, server, left>>

(* RtpProcess::onDetach                                                     *)
OnDetach(p) == [p EXCEPT !.owed = @ - 1, !.detached = @ + 1]
Detach(n) ==
  /\ n \in DOMAIN sel.procs /\ sel.procs[n].owed > 0
  /\ sel' = [sel EXCEPT !.procs[n] = OnDetach(@)]
  /\ UNCHANGED <<hand, tcp, server, left>>

(* The time-out passes for a process somebody looks at, or ten seconds for  *)
(* a connection.                                                            *)
Silence(n) ==
  /\ n \in DOMAIN sel.procs /\ ~sel.procs[n].silent
  /\ n \in Held \/ \E x \in Sessions : Open(x) /\ tcp[x].n = n
  /\ sel' = [sel EXCEPT !.procs[n].silent = TRUE]
  /\ UNCHANGED <<hand, tcp, server, left>>

Lateness(x) ==
  /\ Open(x) /\ ~tcp[x].late /\ tcp[x].n = 0
  /\ tcp' = [tcp EXCEPT ![x].late = TRUE] /\ UNCHANGED <<sel, hand, server, left>>

Processes == 1..Len(sel.procs)
INext ==
  \/ \E t \in Pollers : UdpLookUp(t) \/ UdpInput(t) \/ UdpThrows(t)
  \/ ServerStart \/ ServerInput \/ Manage
  \/ \E x \in Sessions : Accept(x) \/ SessionPacket(x) \/ SessionError(x) \/ SessionManager(x) \/ Destroy(x) \/ Lateness(x)
  \/ \E n \in Processes : Close(n) \/ Detach(n) \/ Silence(n)

Times == (\E n \in Processes : Silence(n) \/ Detach(n)) \/ \E x \in Sessions : Lateness(x) \/ SessionManager(x) \/ Destroy(x)
IFair == WF_ivars(Times) /\ WF_ivars(Manage)
ISpec == IInit /\ [][INext]_ivars /\ IFair
-----------------------------------------------------------------------------
(* The maps lead to processes, each under the key it was made for.          *)
SelectorOK ==
  /\ \A k \in DOMAIN sel.map : sel.map[k] \in Processes /\ sel.procs[sel.map[k]].key = k
  /\ \A i \in DOMAIN sel.ssrcOf : i = Empty /\ sel.ssrcOf[i] \in Ssrcs
  /\ \A t \in Pollers : hand[t].n \in {0} \cup Processes
  /\ Len(sel.procs) <= MaxProcesses

(* A process is detached once, when it is out of the map, although its      *)
(* session, a close, an exception and the timer may all remove it.          *)
DetachedOnce ==
  \A n \in Processes : sel.procs[n].owed + sel.procs[n].detached = IF n \in Held THEN 0 ELSE 1

(* Nobody removes the process of another, although processes found by SSRC  *)
(* share an id (delProcess): one leaves the map when it is silent, when the *)
(* session that fed it ends, or when it is closed or fails.                 *)
RemovedForCause ==
  [][\A n \in Held : n \notin {sel'.map[k] : k \in DOMAIN sel'.map} =>
       \/ sel.procs[n].silent
       \/ \E x \in Sessions : tcp[x].n = n /\ tcp[x].state = "shut"
       \/ left'.closes # left.closes /\ sel.procs[n].listener = "helper"
       \/ left'.throws # left.throws /\ \E t \in Pollers : hand[t].n = n /\ hand'[t] = Idle]_ivars

(* The end of every stream is told: whatever became of its senders and its  *)
(* entries, each process is detached once they have stopped (onManager).    *)
EndsAreTold == \A n \in 1..MaxProcesses : n \in Processes ~> n \in Processes /\ sel.procs[n].detached = 1

(* The selector's books stay right whoever removes a process, and however   *)
(* often.                                                                   *)
IngestSound == SelectorOK /\ DetachedOnce

(* A process goes for a reason of its own, and its end is always told.      *)
IngestEnds == RemovedForCause /\ EndsAreTold
=============================================================================
