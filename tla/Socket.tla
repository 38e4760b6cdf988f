------------------------------- MODULE Socket -------------------------------
(***************************************************************************)
(* A connected TCP socket (ZLToolKit Socket.cpp, Buffer.cpp): the two send *)
(* queues, the writable event, errors and the end.  send pushes a buffer   *)
(* into _send_buf_waiting; flushData takes everything out of the queues    *)
(* into a local list, writes it outside the locks and puts back what the   *)
(* kernel did not take.  It runs in send and, on the poller's thread, in   *)
(* the event of epoll.  A step of a thread is what it does between two     *)
(* points where another thread can interfere.                              *)
(*                                                                         *)
(* Buffers are numbered in the order of send.  epoll is edge-triggered:    *)
(* an event is reported once for everything that happened before it, and   *)
(* once more for each epoll_ctl.                                           *)
(***************************************************************************)
EXTENDS Integers, Sequences, FiniteSets, SequencesExt

CONSTANTS
  Loop,      \* the thread of the socket's poller
  Others,    \* other threads that use the socket
  Senders,   \* the threads that send; any may shut it down
  Size,      \* Size[p]: bytes of the p-th buffer
  Room,      \* bytes the kernel's send buffer holds
  IovMax     \* IOV_MAX: buffers given to one sendmsg

ASSUME SocketAssumption ==
  /\ IsFiniteSet(Others) /\ Loop \notin Others
  /\ Senders \subseteq {Loop} \cup Others
  /\ Size \in Seq(Nat \ {0})
  /\ Room \in Nat \ {0} /\ IovMax \in Nat \ {0}

VARIABLES
  open,      \* _sock_fd is not null
  waiting,   \* _send_buf_waiting
  sending,   \* _send_buf_sending
  sendable,  \* _sendable
  interest,  \* Event_Write is among the events of the descriptor
  thread,    \* what each thread is in the middle of
  events,    \* what is left of the event being dispatched
  owed,      \* the owner of the socket waits for _on_flush
  late,      \* errors posted to the poller by other threads
  errs,      \* history: calls of _on_err
  ready,     \* epoll has the descriptor to report
  room,      \* free bytes of the kernel's send buffer
  inbox,     \* what can be read: nothing, data, the end of the stream
  reset,     \* the peer has reset the connection
  wire,      \* history: bytes the kernel took, in order
  posted,    \* history: how many buffers were pushed
  flushed    \* history: those up to which a send asked for a flush

queues  == <<waiting, sending>>
kernel  == <<ready, room, inbox, reset, wire>>
history == <<posted, flushed>>
vars == <<open, queues, sendable, interest, thread, events, owed, late, errs, kernel, history>>
-----------------------------------------------------------------------------
Threads == {Loop} \cup Others
Buffers == DOMAIN Size

\* An entry of a BufferList: the buffer and how many of its bytes are left.
Iov == [p : Buffers, left : Nat \ {0}]

BytesOf(v) == [i \in 1 .. v.left |-> <<v.p, Size[v.p] - v.left + i>>]

BytesIn(l) == FlattenSeq([i \in DOMAIN l |-> BytesOf(l[i])])

\* BufferList::BufferList takes over the whole queue.
BufferList(q) == [i \in DOMAIN q |-> [p |-> q[i], left |-> Size[q[i]]]]

LeftIn(l) == Len(BytesIn(l))

\* Faulty form: an entry sent in part is sent again from its start.
ReOffsetWhole(l, n) ==
  SelectSeq([i \in DOMAIN l |->
    IF LeftIn(SubSeq(l, 1, i)) <= n THEN [l[i] EXCEPT !.left = 0] ELSE l[i]], LAMBDA v : v.left > 0)

\* Faulty form: an entry that is done stays.
ReOffsetStay(l, n) ==
  LET k == CHOOSE i \in DOMAIN l :
             LeftIn(SubSeq(l, 1, i)) >= n /\ \A j \in 1 .. i - 1 : LeftIn(SubSeq(l, 1, j)) < n
  IN <<[l[k] EXCEPT !.left = LeftIn(SubSeq(l, 1, k)) - n]>> \o SubSeq(l, k + 1, Len(l))

\* reOffset: n bytes from the front are done; the entry in which they end keeps
\* its rest.
ReOffset(l, n) ==
  LET k == CHOOSE i \in DOMAIN l :
             LeftIn(SubSeq(l, 1, i)) >= n /\ \A j \in 1 .. i - 1 : LeftIn(SubSeq(l, 1, j)) < n
      remain == LeftIn(SubSeq(l, 1, k)) - n
  IN IF remain = 0 THEN SubSeq(l, k + 1, Len(l))
     ELSE <<[l[k] EXCEPT !.left = remain]>> \o SubSeq(l, k + 1, Len(l))

Least(a, b) == IF a <= b THEN a ELSE b

\* What one sendmsg is given, and how much of it the kernel takes.
Given(l) == BytesIn(SubSeq(l, 1, Least(IovMax, Len(l))))
Taken(l) == Least(room, Len(Given(l)))

Rest == [pc |-> "idle", tmp |-> <<>>, part |-> FALSE, poller |-> FALSE]

At(t, pc) == thread[t].pc = pc

Goto(t, pc) == thread' = [thread EXCEPT ![t].pc = pc]
Done(t)     == thread' = [thread EXCEPT ![t] = Rest]

\* The thread is at pc, with this local list.
Inside(t, pc, tmp, part, poller) ==
  thread' = [thread EXCEPT ![t] = [pc |-> pc, tmp |-> tmp, part |-> part, poller |-> poller]]
Flush(t, p) == Inside(t, "flush", <<>>, FALSE, p)

Init ==
  /\ open = TRUE /\ waiting = <<>> /\ sending = <<>>
  /\ sendable = TRUE
  /\ interest = TRUE
  /\ thread = [t \in Threads |-> Rest]
  /\ events = {} /\ owed = FALSE /\ late = 0 /\ errs = 0
  /\ ready = TRUE /\ room = Room /\ inbox = "none" /\ reset = FALSE
  /\ wire = <<>> /\ posted = 0 /\ flushed = 0
-----------------------------------------------------------------------------
(* send.                                                                   *)

\* Faulty form: a closed socket takes buffers.
SendClosed(t) ==
  /\ At(t, "idle") /\ posted < Len(Size)
  /\ Goto(t, "push")
  /\ UNCHANGED <<open, queues, sendable, interest, events, owed, late, errs, kernel, history>>

\* The descriptor is taken under its lock.
Send(t) ==
  /\ At(t, "idle") /\ open /\ posted < Len(Size)
  /\ Goto(t, "push")
  /\ UNCHANGED <<open, queues, sendable, interest, events, owed, late, errs, kernel, history>>

\* The buffer is pushed under the lock of the queue, and the socket may have been
\* closed by then; without try_flush that is all.  Size is the bound on posted.
Push(t) ==
  /\ At(t, "push") /\ posted < Len(Size)
  /\ posted' = posted + 1
  /\ waiting' = Append(waiting, posted + 1)
  /\ \/ Goto(t, "sent") /\ flushed' = posted + 1
     \/ Done(t) /\ UNCHANGED flushed
  /\ UNCHANGED <<open, sending, sendable, interest, events, owed, late, errs, kernel>>

\* The socket is writable: flush.  It is not: the writable event will, unless
\* _send_flush_ticker says that it has been waiting for too long, which it may.
SendFlushes(t) ==
  /\ At(t, "sent")
  /\ IF sendable THEN Flush(t, FALSE) ELSE Done(t) \/ Goto(t, "emit")
  /\ UNCHANGED <<open, queues, sendable, interest, events, owed, late, errs, kernel, history>>
-----------------------------------------------------------------------------
(* flushData.                                                              *)

TakeSending(t) ==
  /\ At(t, "flush")
  /\ sending' = <<>>
  /\ Inside(t, IF sending = <<>> THEN "take" ELSE "write", sending, thread[t].part, thread[t].poller)
  /\ UNCHANGED <<open, waiting, sendable, interest, events, owed, late, errs, kernel, history>>

TakeWaiting(t) ==
  /\ At(t, "take")
  /\ \/ /\ waiting # <<>>
        /\ waiting' = <<>>
        /\ Inside(t, "write", <<BufferList(waiting)>>, thread[t].part, thread[t].poller)
     \/ /\ waiting = <<>>
        /\ IF thread[t].poller THEN Goto(t, "stop") ELSE Done(t)
        /\ UNCHANGED waiting
  /\ UNCHANGED <<open, sending, sendable, interest, events, owed, late, errs, kernel, history>>

\* Everything is in the kernel.
WroteAll(t) ==
  /\ At(t, "write") /\ thread[t].tmp = <<>>
  /\ IF thread[t].poller THEN Flush(t, TRUE) ELSE Done(t)
  /\ UNCHANGED <<open, queues, sendable, interest, events, owed, late, errs, kernel, history>>

\* One sendmsg of BufferList::send takes something.
SendMsg(t) ==
  /\ At(t, "write") /\ thread[t].tmp # <<>> /\ ~reset /\ room > 0
  /\ LET l == Head(thread[t].tmp)
         more == Tail(thread[t].tmp)
         rest == ReOffset(l, Taken(l))
     IN /\ wire' = wire \o SubSeq(Given(l), 1, Taken(l))
        /\ room' = room - Taken(l)
        /\ Inside(t, "write", IF rest = <<>> THEN more ELSE <<rest>> \o more, rest # <<>>, thread[t].poller)
  /\ UNCHANGED <<open, queues, sendable, interest, events, owed, late, errs, ready, inbox, reset, history>>

\* It takes nothing: the rest goes back, and off the poller's thread, where the
\* event may not be watched, it is switched on first.
KernelFull(t) ==
  /\ At(t, "write") /\ thread[t].tmp # <<>>
  /\ IF reset THEN thread[t].part ELSE room = 0
  /\ Goto(t, IF thread[t].poller THEN "putback" ELSE "start")
  /\ UNCHANGED <<open, queues, sendable, interest, events, owed, late, errs, kernel, history>>

\* onError: the local list is lost.
WriteFails(t) ==
  /\ At(t, "write") /\ thread[t].tmp # <<>>
  /\ reset /\ ~thread[t].part
  /\ Inside(t, "emit", <<>>, FALSE, FALSE)
  /\ UNCHANGED <<open, queues, sendable, interest, events, owed, late, errs, kernel, history>>

\* Faulty form: what was put back before is forgotten.
PutBackOver(t) ==
  /\ At(t, "putback")
  /\ sending' = Tail(thread[t].tmp)
  /\ Done(t)
  /\ UNCHANGED <<open, waiting, sendable, interest, events, owed, late, errs, kernel, history>>

PutBack(t) ==
  /\ At(t, "putback")
  /\ sending' = thread[t].tmp \o sending
  /\ Done(t)
  /\ UNCHANGED <<open, waiting, sendable, interest, events, owed, late, errs, kernel, history>>

\* Faulty form: the event is left as it is.
StartEventNot(t) ==
  /\ At(t, "start") /\ sendable' = FALSE /\ Goto(t, "putback")
  /\ UNCHANGED <<open, queues, interest, events, owed, late, errs, kernel, history>>

\* startWriteAbleEvent sets the flag and then the event.
StartWriteAbleEvent(t) ==
  \/ /\ At(t, "start") /\ sendable' = FALSE /\ Goto(t, "start event")
     /\ UNCHANGED <<open, queues, interest, events, owed, late, errs, kernel, history>>
  \/ /\ At(t, "start event") /\ interest' = TRUE /\ ready' = TRUE /\ Goto(t, "putback")
     /\ UNCHANGED <<open, queues, sendable, events, owed, late, errs, room, inbox, reset, wire, history>>

\* So does stopWriteAbleEvent, in flushData followed by onFlushed.
StopWriteAbleEvent(t) ==
  \/ /\ At(t, "stop") /\ sendable' = TRUE /\ Goto(t, "stop event")
     /\ UNCHANGED <<open, queues, interest, events, owed, late, errs, kernel, history>>
  \/ /\ At(t, "stop event") /\ interest' = FALSE /\ ready' = TRUE
     /\ IF thread[t].poller THEN Goto(t, "flushed") ELSE Done(t)
     /\ UNCHANGED <<open, queues, sendable, events, owed, late, errs, room, inbox, reset, wire, history>>

\* Faulty form: _on_flush is not called.
OnFlushedNot(t) ==
  /\ At(t, "flushed") /\ Done(t)
  /\ UNCHANGED <<open, queues, sendable, interest, events, owed, late, errs, kernel, history>>

\* _on_flush: who waits for it may send again.
OnFlushed(t) ==
  /\ At(t, "flushed")
  /\ owed' = FALSE
  /\ Done(t)
  /\ UNCHANGED <<open, queues, sendable, interest, events, late, errs, kernel, history>>
-----------------------------------------------------------------------------
(* emitErr, also called by the owner to shut the socket down.              *)

Shutdown(t) ==
  /\ At(t, "idle") /\ open
  /\ Goto(t, "emit")
  /\ UNCHANGED <<open, queues, sendable, interest, events, owed, late, errs, kernel, history>>

\* Faulty form: every error is reported.
EmitAlways(t) ==
  /\ At(t, "emit")
  /\ Goto(t, "close")
  /\ UNCHANGED <<open, queues, sendable, interest, events, owed, late, errs, kernel, history>>

\* The descriptor is looked at under its lock,
EmitErr(t) ==
  /\ At(t, "emit")
  /\ IF open THEN Goto(t, "close") ELSE Done(t)
  /\ UNCHANGED <<open, queues, sendable, interest, events, owed, late, errs, kernel, history>>

\* Faulty form: only the poller's thread reports.
CloseSockQuiet(t) ==
  /\ At(t, "close")
  /\ open' = FALSE
  /\ errs' = IF t = Loop THEN errs + 1 ELSE errs
  /\ Done(t)
  /\ UNCHANGED <<queues, sendable, interest, events, owed, late, kernel, history>>

\* dropped under it once more, and _on_err is called on the poller's thread.
CloseSock(t) ==
  /\ At(t, "close")
  /\ open' = FALSE
  /\ IF t = Loop THEN errs' = errs + 1 /\ UNCHANGED late
     ELSE late' = late + 1 /\ UNCHANGED errs
  /\ Done(t)
  /\ UNCHANGED <<queues, sendable, interest, events, owed, kernel, history>>

OnErr ==
  /\ At(Loop, "idle") /\ events = {} /\ late > 0
  /\ late' = late - 1 /\ errs' = errs + 1
  /\ UNCHANGED <<open, queues, sendable, interest, thread, events, owed, kernel, history>>
-----------------------------------------------------------------------------
(* The poller's thread.                                                    *)

\* The descriptor stays registered while somebody holds it.
Watched == open \/ \E t \in Others : thread[t].pc # "idle"

\* epoll_wait reports the descriptor.
EpollEvent ==
  /\ At(Loop, "idle") /\ events = {}
  /\ ready /\ Watched
  /\ ready' = FALSE
  /\ events' = {e \in {"read", "write", "error"} :
                  \/ e = "read" /\ (inbox # "none" \/ reset)
                  \/ e = "write" /\ interest /\ (room > 0 \/ reset)
                  \/ e = "error" /\ reset}
  /\ UNCHANGED <<open, queues, sendable, interest, thread, owed, late, errs, room, inbox, reset, wire, history>>

OnRead ==
  /\ At(Loop, "idle") /\ "read" \in events
  /\ events' = events \ {"read"}
  /\ inbox' = IF inbox = "data" THEN "none" ELSE inbox
  /\ IF inbox = "eof" \/ reset THEN Goto(Loop, "emit") ELSE UNCHANGED thread
  /\ UNCHANGED <<open, queues, sendable, interest, owed, late, errs, ready, room, reset, wire, history>>

\* onWriteAble looks at one queue and then at the other.
OnWriteAble ==
  /\ At(Loop, "idle") /\ "write" \in events /\ "read" \notin events
  /\ events' = events \ {"write"}
  /\ IF waiting # <<>> THEN Flush(Loop, TRUE) ELSE Goto(Loop, "able")
  /\ UNCHANGED <<open, queues, sendable, interest, owed, late, errs, kernel, history>>

OnWriteAbleSending ==
  /\ At(Loop, "able")
  /\ IF sending # <<>> THEN Flush(Loop, TRUE) ELSE Goto(Loop, "stop")
  /\ UNCHANGED <<open, queues, sendable, interest, events, owed, late, errs, kernel, history>>

OnError ==
  /\ At(Loop, "idle") /\ events = {"error"}
  /\ events' = {}
  /\ Goto(Loop, "emit")
  /\ UNCHANGED <<open, queues, sendable, interest, owed, late, errs, kernel, history>>

\* A sender of a large body stops while the socket is busy, until _on_flush.
WaitForFlush ==
  /\ At(Loop, "idle") /\ open /\ ~sendable /\ ~owed
  /\ owed' = TRUE
  /\ UNCHANGED <<open, queues, sendable, interest, thread, events, late, errs, kernel, history>>
-----------------------------------------------------------------------------
(* The peer.                                                               *)

PeerReads ==
  /\ ~reset /\ room < Room
  /\ room' = Room
  /\ ready' = (ready \/ interest)
  /\ UNCHANGED <<open, queues, sendable, interest, thread, events, owed, late, errs, inbox, reset, wire, history>>

PeerWrites ==
  /\ inbox = "none" /\ ~reset
  /\ inbox' \in {"data", "eof"}
  /\ ready' = TRUE
  /\ UNCHANGED <<open, queues, sendable, interest, thread, events, owed, late, errs, room, reset, wire, history>>

PeerResets ==
  /\ ~reset
  /\ reset' = TRUE /\ ready' = TRUE
  /\ UNCHANGED <<open, queues, sendable, interest, thread, events, owed, late, errs, room, inbox, wire, history>>
-----------------------------------------------------------------------------
\* What a thread does once it is inside a call.
Proceed(t) ==
  \/ Push(t) \/ SendFlushes(t) \/ TakeSending(t) \/ TakeWaiting(t) \/ WroteAll(t) \/ SendMsg(t)
  \/ KernelFull(t) \/ WriteFails(t) \/ PutBack(t)
  \/ StartWriteAbleEvent(t) \/ StopWriteAbleEvent(t) \/ OnFlushed(t)
  \/ EmitErr(t) \/ CloseSock(t)

LoopStep ==
  \/ Proceed(Loop)
  \/ EpollEvent \/ OnRead \/ OnWriteAble \/ OnWriteAbleSending \/ OnError \/ OnErr

Next ==
  \/ LoopStep \/ WaitForFlush
  \/ \E t \in Others : Proceed(t)
  \/ (\E t \in Senders : Send(t)) \/ (\E t \in Threads : Shutdown(t))
  \/ PeerReads \/ PeerWrites \/ PeerResets

Spec == Init /\ [][Next]_vars

\* A thread inside a call goes on, the loop turns and the peer reads; nobody
\* has to send, to close or to break the connection.
FairSpec ==
  /\ Spec
  /\ WF_vars(LoopStep) /\ WF_vars(PeerReads)
  /\ \A t \in Others : WF_vars(Proceed(t))
-----------------------------------------------------------------------------
PCs == {"idle", "push", "sent", "flush", "take", "write", "putback", "start", "start event", "stop",
        "stop event", "flushed", "able", "emit", "close"}

TypeOK ==
  /\ open \in BOOLEAN /\ sendable \in BOOLEAN /\ interest \in BOOLEAN
  /\ owed \in BOOLEAN /\ ready \in BOOLEAN /\ reset \in BOOLEAN
  /\ waiting \in Seq(Buffers)
  /\ sending \in Seq(Seq(Iov))
  /\ thread \in [Threads -> [pc : PCs, tmp : Seq(Seq(Iov)), part : BOOLEAN, poller : BOOLEAN]]
  /\ events \subseteq {"read", "write", "error"}
  /\ late \in Nat /\ errs \in Nat
  /\ room \in 0 .. Room
  /\ inbox \in {"none", "data", "eof"}
  /\ wire \in Seq(Buffers \X Nat)
  /\ posted \in 0 .. Len(Size) /\ flushed \in 0 .. posted

\* The bytes of the first n buffers.
BytesUpTo(n) == BytesIn(BufferList([i \in 1 .. n |-> i]))

\* The kernel is given the bytes of send in the order of send, without gap or
\* repetition, through every partial write and every return of a rest to the queue.
BytesInOrder == IsPrefix(wire, BytesUpTo(posted))

Stream == INSTANCE ByteStream WITH
  Callers <- Threads, given <- BytesUpTo(posted), arrived <- wire, closed <- ~open,
  calls <- {t \in Threads : At(t, "push")}

\* The two queues and the kernel together are a byte stream: buffers are queued in
\* order by the calls of send that found the socket open, also after it was closed.
RefinesByteStream == Stream!Spec

\* Between two calls an open socket has everything it was given in the wire or in
\* a queue, and what is in the second queue will be noticed: the writable event
\* is watched, or has yet to be reported.
NothingStranded ==
  open /\ ~reset /\ (\A t \in Threads : At(t, "idle")) =>
    /\ Len(wire) + LeftIn(FlattenSeq(sending)) + LeftIn(BufferList(waiting)) = LeftIn(BufferList([i \in 1 .. posted |-> i]))
    /\ sending # <<>> \/ ~sendable => interest

\* Nobody is told of an end while the socket is open, and each thread that found it
\* open reports one: two threads that close it at once may both call _on_err.
ErrorPerThread == (open => errs + late = 0) /\ errs + late <= Cardinality(Threads)

\* The comment in emitErr (Socket.cpp:305) says that a closed socket is not reported
\* again, so that onErr is not triggered several times.
ErrorOnce == errs + late <= 1

\* The owner of a socket that was closed is told on the poller's thread.
ErrorTold == ~open ~> errs > 0

\* What a send asked to be flushed gets into the kernel, or the socket is closed.
FlushedIsSent ==
  \A p \in Buffers : flushed >= p ~> (<<p, Size[p]>> \in Range(wire) \/ ~open)

\* Who waits for _on_flush on a busy socket is called, or the socket is closed.
FlushIsAnnounced == owed ~> (~owed \/ ~open)

\* What a socket owes is exact: the queues hold what flushData has left to send, in
\* the order of send, somebody will send it without another call, and an end is told
\* of a closed socket only, by each thread once (flushData, onWriteAble, emitErr).
SocketOwes == TypeOK /\ BytesInOrder /\ NothingStranded /\ ErrorPerThread

\* A user of the socket need not ask again: what it flushed gets out, who waits for
\* _on_flush is called, or the socket is closed, and that is told (flushData,
\* onFlushed, closeSock).
SocketPays == FlushedIsSent /\ FlushIsAnnounced /\ ErrorTold
=============================================================================
