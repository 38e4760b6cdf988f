# Verification of the stream server

TLA+ modules, TLC configurations and TLAPS proofs for the streaming server in
this repository (a derivative of ZLMediaKit on ZLToolKit).  Paths are relative
to the repository; `UT/`, `NW/`, `PO/` and `TH/` stand for
`src/ZLToolKit/src/Util`, `Network`, `Poller` and `Thread`.

Run a model with `tlc -config X.cfg M`, a proof with `tlapm M.tla`.
`PROJECT.json` lists the runs with their configurations, the lines of code each
definition stands for, faulty variants of definitions that each property
catches, and the hazards of the code.

## 1. The system

A source (an RTMP, RTSP or RTP publisher, or a device) hands frames to a
`MultiMediaSourceMuxer`, which waits until its tracks are ready and feeds one
muxer per protocol.  Each muxer packs the frames and writes groups of packets
into the `RingBuffer` of a `MediaSource`.  Sessions of players look a source up
in a global registry, attach a reader to its ring and send what they read on
their sockets.  There is one event loop (`EventPoller`) per core; a connection
lives on one of them, and everything that crosses threads is posted as a task.

| Component | State | Operations | Interacts by | Hard part | Correct when |
|---|---|---|---|---|---|
| RingBuffer (`UT/RingBuffer.h`) | GOP cache, dispatchers by poller, their readers and clones of the cache, counters | write, attach, release of a reader, clearCache, destruction | tasks on the readers' pollers, a lock on the dispatcher map, weak references, deleters | attach against write on another thread; a reader freed anywhere; the last task keeps a dead ring's dispatchers | feeds without gap, start at a key packet, exact counts, everyone told of the end |
| MediaSource registry (`Common/MediaSource.cpp`) | map of weak references, requests that wait with timer and listener | regist, unregist, find, findAsync | a lock, `NoticeCenter`, tasks, timers | registration between search and listening; time-out against answer; publisher reconnects | latest source found, one answer each |
| NoticeCenter (`UT/NoticeCenter.h`) | dispatcher per event, listeners by tag | addListener, delListener, emitEvent | two levels of locks, copied listener maps | dropping an empty dispatcher while another thread adds to it | no listener lost |
| EventPoller (`PO/EventPoller.cpp`, `PO/Timer.cpp`, `TH/TaskExecutor.h`) | task list, pipe, delay map, epoll set | async, async_first, sync, doDelayTask, cancel, shutdown, event registration | pipe, locks, callbacks on the loop | lost wake-ups; timers armed in timers; end of the loop | nothing lost, in order, on time |
| Socket (`NW/Socket.cpp`, `NW/Buffer.h`) | descriptor, two-level send queue, writable flag, connect timer | connect, listen, send, flush, close, errors | epoll events, tasks, a DNS thread | two senders; time-out against connect; an error once | bytes in order, all sent or an error |
| TcpServer, TcpSession, TcpClient (`NW/`) | sessions by helper, clones per poller | accept, error, periodic management, reconnect | socket callbacks | removal while iterating; events of a replaced socket | every session removed once, after its error |
| PacketCache, FlushPolicy (`Common/MediaSource.h`) | packets of a group, key flag, last stamps | inputPacket, clearCache | calls `RingBuffer::write` | key flag against content | a key group begins with its key frame |
| Protocol sources and on-demand muxers (`Rtmp/RtmpMediaSource*.h`, `Rtsp/RtspMediaSource*.h`, `Http/FMP4MediaSource*.h`) | ring, metadata, `_enabled`, `_clear_cache` | onWrite, onReaderChanged, inputFrame | counts from several pollers | counts that arrive in another order | enabled while someone reads |
| MediaSource events (`Common/MediaSource.cpp`) | close timer | onReaderChanged, close | timers, interceptors | replaced on several threads | a source without readers is noticed |
| MediaSink, MultiMediaSourceMuxer (`Common/`) | tracks, ready callbacks, kept frames | addTrack, inputFrame, resetTracks | recursive lock | time-outs looked at only on input | frames kept until ready, in order |
| Stamp, DtsGenerator (`Common/Stamp.cpp`) | last and relative stamps | revise, syncTo | called per frame | jumps, alignment | dts never goes back |
| RTP reordering (`Rtsp/RtpReceiver.*`) | next number, sorted cache | sortPacket, flush | callback | 16-bit wrap, loss | order, no repetition |
| RTP ingest (`Rtp/Rtp*.cpp`) | processes by SSRC and stream id | getProcess, delProcess, onManager | lock, timer | two keys for one object | an entry lives as long as its process |
| RTMP, RTSP, HTTP sessions and players (`Rtmp/`, `Rtsp/`, `Http/HttpSession.*`) | protocol states | one handler per message | sockets, registry, ring | long message sequences | no play before publish, teardown once |
| Codecs, muxing, PS, MP4, AMF, parsers | little or none | conversions | | byte formats | round trips |
| ThreadPool, ResourcePool, logger, utilities | queues, free lists | | locks | | |
| Server, hooks, devices (`server/`) | configuration, devices | start, open, close | | stubs; parts missing from the repository | |

`PROJECT.json` lists each component with its files, its status and the reason
where it is not modelled, and the hazards, each at its line.

## 2. Plan

1. **Fan-out**: `RingBuffer`, its abstract specification `GopFeed`, proofs.
2. **Registry**: `NoticeCenter` and `MediaRegistry`, which composes it with the
   sources, the sessions and the requests; proofs.
3. **Event loop**: `EventPoller`; proofs.
4. **Socket**: `Socket` with the abstract `ByteStream`; proofs, with those of the
   refinement.
5. **Connections**: `TcpClient` and `TcpServer` on `TcpNet`, composed in
   `TcpLink`; proofs of both ends.
6. **Streams of bytes**: `Splitters`, `RtmpProtocol`, `Amf`, composed in `Wire`.
7. **RTP**: `RtpReceiver` behind a faulty network, `RtpStream`; the processes that
   packets reach, `RtpIngest`, with proofs; `MCReceive` joins both to `Wire`.
8. **Packet groups and tracks**: `PacketCache`, the muxers on it (`RtmpMuxer`,
   `RtspMuxer`, `Fmp4Muxer`), `MediaSink` and `Publisher`, composed in `Muxer` with the
   readers, the demand and the close timer; proofs.
9. **Protocols**: `RtspPlayer`, `RtmpPlayer` (on `PlayerBase`), `RtspSession`,
   `RtmpSession`, composed in `Play`, with proofs of both players and of their agreement;
   `HttpSession` with what `FlvMuxer` writes, joined to it in `MCPlay`, with a proof.

All of these exist.  Theorems still worth proving are named at the end of section 6,
components without a model in section 7.

## 3. The models

### RingBuffer and GopFeed

`RingBuffer.tla` has one action for each stretch of code between two points
where another thread can interfere.

* A packet is its position in `hist`, the sequence of `is_key` flags written.
  A storage is the record of `_data_cache`, `_have_idr` and `pre_is_key_`;
  `StoreWrite`, `StoreClone` and `StoreClear` are `_RingStorage::write`,
  `clone` and `clearCache`.
* `Write`, `ClearCache` and `DestroyRing` run on the source's thread.  `write`
  holds `_mtx_map` while it posts a task per dispatcher and stores the packet,
  so it is one step.
* `AttachFind` is `RingBuffer::attach`, which finds or creates the poller's
  dispatcher under the lock; `AttachReader` its second half.  Between the two,
  and between `_reader_size` changing and the entry being dropped
  (`DropDispatcher`, `CountReader`), other threads run.
* `BeginWrite`, `VisitLive`, `VisitRelease`, `VisitExpired` and `EndWrite` are
  the loop of a dispatcher's write: readers are visited in any order (the map
  is unordered), a session may let its reader go inside its read callback, and
  expired readers are erased on the way.  The clone stores the packet last.
* `ReleaseHere` and `ReleaseElsewhere` are the reader's deleter on and off its
  poller.  `DeleteDispatcher` is the deleter of a dispatcher that no map entry,
  no task and no running call refers to (`Referenced`); tasks keep the
  dispatchers of a destroyed ring alive until they have run.

A poller's queue is a sequence of tasks, as `EventPoller` delivers them: jobs
posted by async run in order (`RunInOrder` below).

`GopFeed.tla` is what a player may rely on: a first run of consecutive packets
that begins with a key packet or is empty, and after that one packet at a time
without a gap until it leaves or is cut off.  `RefinesGopFeed` states that
`RingBuffer` implements it, with a player's state read from the life of its
reader and the detach callback.

### NoticeCenter and MediaRegistry

`NoticeCenter.tla` has the steps of the broadcaster: look a dispatcher up, use
it, drop it, each under its own lock and none under two.  `MediaRegistry.tla`
instantiates it and adds

* sources that register (more than once: on each metadata), expire and run
  their destructor: `Regist`, `Expire`, `Unregist`, then the broadcast
  `EmitGet`, `EmitCopy`, `Visit…`, `PostAnswer`, `EmitEnd`;
* sessions that open, close and ask: `FindAsync` (search and timer),
  `ListenGet`, `ListenAdd`, and the end of a request by `TimerFires`,
  `DelGet`, `DelErase`, `DelDrop`, `AnswerTimeout` or by `PostAnswer` and
  `RunAnswer`.

A weak reference of the map has expired when its source is no longer live; a
search erases such an entry (`Searched`).  Between any two locked regions other
threads run.  Timers have no times: an armed one may fire whenever its thread
is idle, those of one session in the order in which they were armed, because
all wait equally long.

### EventPoller

`EventPoller.tla` is one loop and the threads that use it.

* `Async`, `AsyncFirst` and `DoDelayTask` push under `_mtx_task` and then, as a
  second step (`Wake`), write to the pipe; `sync` is an `Async` whose caller is
  then blocked until its job ran (`SyncReturns`).
* The loop's phases: `top` (getMinDelay), `flush` (flushDelayTask: the map is
  swapped away, callbacks run, what they armed is merged, the next sleep is
  computed), `wait` (epoll_wait with `until`, its deadline), `drain` (the pipe
  is read until empty), `take` (the list is swapped), `batch` (the tasks run).
  The pipe is watched edge-triggered; because it is read until it is empty,
  one Boolean `unread` is enough.
* A callback may arm a timer at once (it is on the loop's thread), post a job
  with `may_sync` off (as RingBuffer and TcpServer do), and a timer may repeat.
  `Cancel` is the weak reference's reset: the entry stays in the map and is
  skipped when due.
* `Shutdown` is the destructor's first half, called when the last reference
  goes, so that no caller is inside a call; the exit task throws, the rest of
  the batch still runs, and the joined destructor runs what is left.
* The variables of a phase that is over (`until`, `flushed`) are reset, which
  merges states that differ in nothing the code reads again.
* `Delays` are at least 1 ms.  A delay of 0 armed by a timer callback would
  read as "no timers" in flushDelayTask's result; no caller arms one.

Socket events are in `Socket`: their callbacks may do what jobs do.

### Socket and ByteStream

`Socket.tla` is one connected TCP socket with the threads that may call it.

* A buffer is its number, a byte of it `<<buffer, offset>>`; `waiting` and
  `sending` are `_send_buf_waiting` and `_send_buf_sending`, a `BufferList` the
  iovec with what is left of each entry (`ReOffset`, `Given`, `Taken`).
* `send` is `Send`, which looks at the descriptor under its lock, `Push`, which
  queues under the lock of the queue, and `SendFlushes`; flushing is `TakeSending`,
  `TakeWaiting`, `SendMsg` (outside the locks), then `WroteAll`, `KernelFull`,
  `WriteFails` or `PutBack`.  Another thread comes between any two: a buffer may be
  queued on a socket that was closed since `Send`.
* The kernel has `Room` bytes; it reports a change once (`ready`, `events`: the
  descriptor is watched edge-triggered), and a batch serves `read`, `write` and
  `error` in the order of `Socket::attachEvent`.
* `EmitErr` looks at the descriptor under the lock, `CloseSock` closes after it,
  so that two threads may both come to close; `OnErr` runs as a task of the poller.
  The peer reads, writes, closes and resets.

`ByteStream.tla` is what a user of a connection is promised: a prefix of what was
sent arrives, and no call of `send` begins after the end; one that began before it
may still hand its bytes over, which are then lost.  `RefinesByteStream` is the
refinement, with the threads between `Send` and `Push` as its `calls`.

### TcpNet, TcpClient, TcpServer and TcpLink

`TcpNet` is the network: a connection attempt is dialled, arrives in a backlog, is
refused or lost, and either end closes it.  `TcpClient` has `startConnect` on the
poller's thread and off it: `StartConnect`, `ArmConTimer` and `HoldTask` are the
three stretches of `Socket::connect` between which a result may already come,
`Resolve` is the DNS worker, `TaskRun`, `OnConnected` and `ConTimeOut` race for the
one callback (`ConCb`).  `Shutdown` is the call on the poller's thread, one step; on
another thread it is `StopTimer`, `CheckFd` and `CloseSock`, and the poller comes
between them with results, errors and attempts of its own.  `OnErrTask` is the error
that `closeSock` posts.  `TcpServer` has the listening socket, a session per
address (`SessionMap` is keyed by it), `OnErr`, `OnManager`, which closes and tells
sessions and puts their erasure off, the tasks `Erase` and `ShutdownTask`, and
`SafeShutdown`, which any thread may call for a session, also for one that was told.
On the owner's thread `Destroy` takes a server away from the weak references to it,
and its sessions go one by one: `DropSession` calls onError while the session is still
watched by its poller, `Dropped` releases it.  `TcpLink` composes them.

### Splitters, RtmpProtocol and Wire

Pure operators on records: a splitter's state and a piece of the stream give the
next state and what was delivered.  `Splitters` is `HttpRequestSplitter::input`
with the tail searches of RTSP, RTP and HTTP, and `WebSocketSplitter::decode`
with the fragments of `WebSocketSessionBase`, `RtmpProtocol` both directions of
the chunk stream.  `Amf` writes the values of AMF0 as `AMFEncoder` does and reads
them as `AMFDecoder` does with version 0: a byte is a type marker, a digit of a length
in base `Base` (256 in the code) or a piece of a name or number.  `Wire` cuts a stream
into pieces and delivers them; for RTMP two ends write to each other from scripts, or
a foreign client uses forms of the chunk header that this code never sends; a command
is a sequence of values that is written, cut short at any byte and read.

### RtpReceiver and RtpStream

`RtpReceiver` has the SSRC check, `PacketSortor` and the decoders of H.264, H.265,
AAC and `CommonRtpDecoder`.  Sequence numbers are taken modulo `M` (2^16 in the code)
and compared as the code compares them, as integers.  Behind the video decoders is
`DtsGenerator` (`Learn`, `GetDtsL`, `GetDts`), which learns how many B frames lie
between two others and sorts that many stamps; behind the common decoder, for a
GB28181 stream, the demuxer and `FrameMerger` (`PsRtp`, `Merge`), where every piece of
a frame stands for a unit that libmpeg finds.  `RtpStream` is the sender, the packets
it makes of frames, and a network that loses, repeats and reorders within `Window`; a
packet comes again less than half a cycle of numbers late.  The properties name two
faults of the code as their exceptions (section 5): `slipped` collects the packets that
came again around a wrap and passed the filters of the sorter, and `AtZero` marks the
fragments numbered 0, which the decoders take behind anything.

### RtpIngest

`sel` holds the two maps of `RtpSelector` and every process ever made; `getProcess`,
`delProcess` and `onManager` are one step each, as they are under `_mtx_map`, and
`onDetach`, which they call after the lock is released, is a step of its own (`owed`,
then `Detach`).  `RtpSelector::inputRtp` is two steps, `UdpLookUp` and `UdpInput`,
on several pollers.  A TCP session finds its process with the first packet and
removes it in its destructor, some time after it was shut down; a close goes to the
listener, which is the helper or the last session that found the process.

### PacketCache, the muxers, MediaSink, Publisher and Muxer

`PacketCache` is a source as its muxer sees it: `FlushPolicy`, the cache, its flush
into a ring, and the count of readers.  Three muxers turn a frame into packets on it:
`RtmpMuxer` (metadata, configuration, frames of one time stamp as one packet),
`RtspMuxer` (the SDP, and the RTP packets of a frame with their marks) and `Fmp4Muxer`
(the first segment, samples and how their segments are marked).  `MediaSink` collects
tracks and keeps frames until all are ready.  `Publisher` is the other way into it: the
session of a publisher, the source of the stream's own protocol, which takes each packet
as it is, and the demuxer, which makes tracks from the metadata, the SDP or the first
packets and hands their frames to the sink.  `Muxer` adds the device or the publisher
with what it does, the readers of the rings, the counts that a poller reads
(`ReadsCount`) and reports later (`ReportsCount`), the close timer and the clock, which
may be set back.  Only the RTMP muxer works on demand; the muxers of RTSP and fMP4 are
always enabled.

### PlayerBase, RtspPlayer, RtmpPlayer, RtspSession, RtmpSession and Play

Players and sessions are records and their handlers operators on them; each gives
the next record with what it sends (`out`) and tells (`told`).  `Play` joins one
player and one session by two queues of messages and adds the owner's calls, the
timers, the source that is registered and unregistered, and the look-up of
`MediaRegistry` in two steps (`look`).  Where the other end is not of this
repository, `Play` has a server that answers anything and a client that asks
anything.

### HttpSession

Its first part is what `FlvMuxer` writes of a stream (header, metadata,
configuration, tags) and `Stamp::revise` as operators on a record per track
(`DeltaStamp`, `Relative`, `Align`, `Revise` are `deltaStamp`, `revise_l2`, `revise_l`
and `revise`).
`HttpSession` is one connection: `OnRecvHeader` and `HandleReqGET` answer a request
or leave a look-up pending, which `LookEnds` ends with the stream or with a 404;
`Found` sends the head of an endless response or upgrades to a WebSocket, and
`Start` writes what comes before the media and attaches the reader.  `Write` is
`onWrite`, which frames what it sends after an upgrade.  A body is sent by
`AsyncSender`, from the task it posts (`SenderTask`) or from the socket's flush
callback (`Flushed`).  The browser asks again only when it has the last answer.

## 4. Runs

| Run | Instance | Checks |
|---|---|---|
| `ring_safety` | 2 pollers, 2 readers, 3 dispatchers, cache of 2, 3 packets, 1 clear | `GaplessFeed`, `NoStrandedReader`, `CountIsExact`, `DetachIsLast`, `TypeOK` |
| `ring_live` | 2 pollers, 2 readers, 2 dispatchers, cache of 1, 2 packets, no clear | `StartsAtKey`, `RefinesGopFeed`, `ReadersServed` |
| `registry` | 2 sources of one stream that register up to twice and 1 session with a request, or 1 source that registers once and 2 sessions with a request each | `LatestIsFound`, `AnsweredIsDeaf`, `HeardInTime`, `EveryoneAnswered`, `TypeOK` |
| `registry_twice` | 1 source, 1 request | violation of `CalledBackOnce` |
| `poller` | 1 caller, 2 jobs, 2 timers, delay 1, horizon 2 | `RunInOrder`, `ArmedIsScheduled`, `NothingLeftBehind`, `EarliestFirst`, `EveryoneServed`, `TimersFire`, `TypeOK` |
| `socket` | buffers of 1 to 3 bytes, a kernel buffer of 2, 2 entries per write, one sender, an owner on another thread | `SocketOwes`, `RefinesByteStream`, `SocketPays` |
| `socket_twice` | the same | violation of `ErrorOnce` |
| `link` | 2 attempts (the first on the poller or off it), an owner's thread that shuts down, 2 addresses, a server without clones that may be destroyed | `ClientTold`, `SessionTold`, `NothingStale`, `AllEnds` |
| `receive` | streams of up to 3 units cut into 1, 3 and all bytes; 4 to 37 RTP packets modulo 32, cache limits 2 to 6, window 3, up to 2 losses and 2 repetitions; 2 SSRCs, 2 sessions, a device's server, up to 3 packets over UDP and TCP; commands of up to 4 values, cut anywhere | `CutsDoNotMatter`, `StreamIsSorted`, `FramesAreSound`, `IngestSound`, `IngestEnds` |
| `mux` | 6 scenes of a device and 6 of publishers of up to 10 packets, 3 sources, readers of 2 rings, 5 ticks, a clock set back | `FramesGoOut`, `PlayersCanStart`, `DemandFollows` |
| `play` | 13 scenes of players, 2 tracks, 2 sources one after the other, up to 2 plays; 18 scenes of a viewer over HTTP, up to 2 requests and 9 packets | `PlayInStep`, `HttpInStep`, `TruthIsTold`, `ViewersInStep`, `ViewersServed` |
| `http_body` | the same as `play` | violation of `BodyIsLength` |

The properties of `socket`, `link`, `receive`, `mux` and `play`, and `ReadersServed`, are conjunctions of named
parts, each with a comment of its own, and each part has a faulty variant of the code that breaks it.

**Bounds.**  Three dispatchers on two pollers let one poller's dispatcher be
dropped and replaced while its predecessor still has tasks; three packets and a
cache of two reach the overflow with a reader that starts in the middle; two
readers meet in one write loop or on two pollers.  `ring_live` is smaller
because liveness is checked without symmetry; two packets are the least for
which one can follow another.  In the registry two sources of one stream are
the publisher that reconnects, two requests the two listeners of one event; `Scene`
keeps the two apart, as both at once is too large.
Two jobs and two timers give every relative order of two tasks, a timer armed
by a timer and a repetition; with delay 1 and horizon 2 a timer can run, be
armed again and run again.

In `socket` a write may end inside a buffer, at its end, and after an entry limit
(`IovMax`); three buffers fill both queues.  Two attempts in `link` are the least
for which one replaces another, and two addresses the least for which one is
reused while an erasure for it is put off; `OneOwner` lets the server be destroyed only
where the client's owner made its attempts on the poller's thread and is in no call, as
the two have nothing to do with each other (the proofs have no such bound).  With a
clone of the server (4 minutes) the same properties hold.  In `receive` chunk sizes start at 6 so that handshakes and
control messages stay in one chunk as they do with 128, and an acknowledgement
window is above 16, the size of the acknowledgement itself; sequence numbers keep the ratio
of the code's constants (a wrap is taken for one when the numbers differ by more
than half the range).  Streams run over the wrap with units whose fragments lie on both
sides of it, with losses and a repetition, and some once round all numbers, so that
what a repeated packet left in the cache comes to its turn; two repetitions at once
are tried on shorter ones.  Left out are streams that begin at number
0 or within the sorter's size before the wrap, where packets are lost that a network only
reordered, and packets repeated half a cycle late or later, which no receiver can tell.
Ten frames with two B frames before each P frame are
the least for which `DtsGenerator` has learnt their number and sorts with it.  The
scenes of `RtpIngest` have two SSRCs, the least for which one overwrites the other's
entry, and let two of {a session, a close, an exception, the timer} remove one
process.  The clock of `mux` reaches every time-out once; it is
set back once, by less or by more than `BackJump` (500 ms in the code), the two cases that
`FlushPolicy` tells apart.  The scenes of publishers are the orders of metadata,
configuration and media: each tells something the others do not (a track that comes too
late, one that never gets its configuration, one made anew).
`play` has one connection at a time, one look-up of a session at a time, and calls
of the owner on the player's poller; the age of a session advances where the
manager looks at it; clients that ask anything have two requests in flight.
Over HTTP a step of 10 is a jump (1000 in the code) and tracks 50 apart are not
aligned (5000); the stamps of the scenes have small steps, jumps in both directions, stamps of 0 at the
beginning and after a jump back, and tracks that are too far apart, and the reader starts at the first packet or at
the third.  Two looks at a body (`MaxBody`) are the least that exceed its length.

**Symmetry** is used in safety runs only, over sets no property names.

**Deadlock** is not checked: the counters (`MaxWrites`, `MaxRegists`, `Horizon`,
the scenes' scripts) and the finite objects bound the models, so that every
behaviour ends, and a poller or a source may end by itself.

**Fairness.**  `FairSpec` of each module is weak fairness of a thread's steps:
`EventPoller::runLoop` loops until it is told to exit and a thread inside a call
goes on.  Nothing is assumed of sessions, sources, owners and callers: no one has
to write, attach, register, ask, cancel, shut down or close.  `Tick` is fair in
`EventPoller`: time passes.  `socket` assumes in addition that a peer that has not
closed goes on reading; without it nothing obliges the kernel to have room.
`link` assumes fair loops, timers and the DNS worker, and nothing of the network:
its properties except lost connections.  `receive` assumes of `RtpIngest` that the selector's timer runs, that a silent
process's time-out passes, and that sessions that were shut down are destroyed.
`play` assumes the two loops, the play
timer, the check of received packets, the look-up's time-out, and that sessions
age; for HTTP the poller (tasks, flushes, reads, onManager), the look-up's time-out,
and that fifteen seconds pass.  A scene of one kind leaves nothing of the other to do.

## 5. Findings and observations

Three disagreements with comments of the code are runs.  `registry_twice`: the
time-out's callback holds the timer task while it runs, so that a cancel by the
source's thread comes too late and the session is called back twice, where
`Common/MediaSource.cpp:258` says that the timer is cancelled.  `socket_twice`:
`emitErr` (`NW/Socket.cpp:303`) looks at the descriptor under its lock and closes the
socket after it, so that the poller's thread and another may both find it open and
onErr is called twice, which the comment at `:305` says the check prevents; the same
happens to the owner of a `TcpClient` (`ErrOnce` names the case).  `http_body`:
`HttpStringBody::readData` (`Http/HttpBody.cpp:13`) never becomes empty, so that
`AsyncSender` sends the body of a 404 again and again, past its Content-Length, and
the response that should close the connection never does; each part also resets the
ticker that `onManager` looks at.  The comments of `Http/HttpSession.cpp:318` and
`:345` speak of a body that is read to its end.

Others are reproduced by checking the property named here in the configuration of the
module's run, with the constants given; TLC reports the violated property.

* `StartsAtKey` (`MCRingBuffer`, 1 poller, 2 readers, 1 dispatcher, cache of 2, 2
  packets, 1 clear): `_RingStorage::clearCache` empties the cache and leaves `_have_idr`
  set (`UT/RingBuffer.h:163`), so that packets behind a clear are cached without a key
  frame.
* `ClearedAtFirstKeyPacket` (`MCRingBuffer`, 1 poller, 1 reader, 1 dispatcher, cache
  of 3, 3 packets): `clone` (`UT/RingBuffer.h:150`) drops
  `pre_is_key_`; a clone taken between two packets of one key frame empties its
  cache in the middle of the frame.
* `NotFoundIsTrue` (`MCMediaRegistry`, 1 source, 1 session with one request): a source
  that registers between the search and addListener is missed; the request times out
  with the stream there.
* `HeardInTime` without its condition that the request is the only one (2 sources of two
  streams, one session with two requests): listeners are removed by tag, the session's address, so one request of a session that ends
  silences the others.
* The same with two sessions and one source, as in `registry`: delListener finds a dispatcher empty
  and removes it while another thread adds a listener to it (`UT/NoticeCenter.h:119`).
* `GoneIsAnnounced` (1 source, 1 request): a search that meets an expired entry erases
  it, and the destructor then announces nothing (`Common/MediaSource.cpp:228`).
* `BytesInOrder` (`MCSocket`, `Senders = {loop, owner}`): two threads that send on one socket may overtake each
  other between the queues and the kernel (`NW/Socket.cpp:626`).
* `WholeMessages` (`MCReceive`, the scenes `EmptyScenes`): a WebSocket frame without payload is completed twice
  (`Http/WebSocketSplitter.cpp:117`).
* `KeyGroups` (`MCMuxer`, the scenes `DemandScenes`): `PacketCache::clearCache` leaves `_key_pos`
  (`Common/MediaSource.h:308`), so that the next group may be flagged as a key
  group without a key frame.

For the only request the broadcast is reliable, and `HeardInTime` says no more: with two
it is not.

What the modules show without a property of its own, and where a property names an
exception for it:

* **Players.**  A player torn down while its name is resolved is connected all the
  same and plays without a check timer (`stray`).  A keep-alive and a pause share
  the slot `_on_response` (`RtspPlayer.cpp:733`), so that a paused player may be
  told of a time-out (`crossed`).  A refused PLAY is an `Err_shutdown` and told only
  by the timer.  An RTSP play that ends while the tracks are analysed, and an RTMP
  stream that runs dry before it starts, are told as an end without a result.
  `play()` called inside the callback of a failure is undone by the `teardown` that
  follows it.  `_paused` of `RtmpPlayer` survives a teardown.
* **Sessions.**  `_cseq` and `_recv_req_id` are overwritten while a look-up is
  pending; two publishers are accepted before the first has registered
  (`RtspSession.cpp:157`, `RtmpSession.cpp:122`); a SETUP over UDP marks its track
  before it is refused (`RtspSession.cpp:272`); an RTMP pause while the look-up is
  pending leaves the session paused although the start was announced.
* **Muxing.**  `WatchedIsMuxed` holds with one poller per ring: with two, the older
  of two counts may win and switch a muxer on demand off while it is watched
  (`RtmpMediaSourceMuxer.h:55`).  The time-outs of `MediaSink` are looked at only
  when a frame comes in.  `_max_track_size` starts at 1, so that two tracks that are
  ready wait for the time-out unless the sink is told that there are no more, where
  `MediaSink.h:73` says otherwise.  `MP4Muxer` takes the key flag of the frame before
  (`Http/MP4Muxer.cpp:246`): with a frame of audio in between, the segment of a key frame
  is not flagged, `_have_video` stays false and every group clears the GOP cache, where
  `Http/FMP4MediaSource.h:83` speaks of the first packet of a key frame.
  `AACRtpEncoder::inputFrame` is empty (`Extension/AACRtp.cpp:27`): the SDP announces an
  audio track that never sends, and a stream of audio alone never gets an RTSP ring.
  fMP4 has no audio track.
* **Publishing.**  Metadata that comes after the configuration packets makes the tracks
  and their decoders anew (`RtmpDemuxer.cpp:107`): a video track that was not ready is
  then dropped by the sink unless SPS and PPS come again, audio is dropped until its next
  configuration (`AACRtmp.cpp:39`), and a track that was ready already is described twice
  in the SDP.  `PublishedIsTaken` and
  `SteadyIsKept` speak of tracks to which that does not happen
  (`Steady`).  Nobody calls `addTrackCompleted` for publishers: two tracks wait for the
  time-out, and without metadata the first track that is ready shuts the other out
  ("add this track too late").  Metadata without codecs is completed once only.  Over
  RTSP, SPS and PPS in one aggregation packet are no start of a group
  (`H264Rtp.cpp:114`), so that a new player does not get them unless the SDP has them.
* **AMF.**  A string longer than 65535 is written with a part of its length; an empty
  key ends an object early; AMF3 does not load (`load_object` expects the markers of
  AMF0, an AMF3 integer reads its own marker), although a `MSG_CMD3` starts with
  version 1 of the decoder.
* **RTP ingest.**  All processes found by SSRC share the empty stream id, so a second
  SSRC overwrites the first one's entry in `_map_ssrc_streamid` (`RtpSelector.cpp:59`):
  `delProcess` then finds another process or none and does nothing, the session's
  process stays until it times out, and a close through the helper is without effect.
  `RtpServer` goes on feeding a process that was removed.  A process is bound to the
  first address: a sender that comes back over another connection is refused until
  the time-out.  `AACRtpDecoder`'s check of a bad stamp (`AACRtp.cpp:82`) is never
  true.  `DtsGenerator` gives the stamp of presentation until it has learnt the order
  (`sure`).
* **RTP at the wrap.**  While the number due is 0 packets far ahead are not filtered
  (`Rtsp/RtpReceiver.h:69`), and at the wrap those far back stay in the cache (`:102`):
  a packet from before the wrap that is repeated then stays, and is put out one cycle
  later in the place of the new one, against the comment at `:70`.  `InOrder` excepts
  it, by name (`slipped`), and so do the properties of the frames it gets into.  A
  fragment numbered 0 is taken to follow any (`Extension/H264Rtp.cpp:136`,
  `H265Rtp.cpp:95`): if the one before it is lost, the frame has a hole, or is joined to
  another one.  `CommonRtpDecoder` does not see a loss directly behind number 0
  (`CommonRtp.cpp:43`).  `WholeFrames` and `NoHole` except these seams and no others.
* **HTTP.**  A WebSocket request for a stream that does not come is answered 404
  with the connection left open, and what follows is taken for frames
  (`HttpSession.cpp:265`).  The answer to a second request replaces the flush
  callback of the first body.  The body of a 404 that kept the connection open goes on for
  ever, and after an upgrade it is still sent, raw, between the frames
  (`HttpSession.cpp:342`): `FramesFollowUpgrade` excepts bodies.  `DeltaStamp` takes a
  stamp of 0 for "none yet" (`Stamp.cpp:20`), so a stream loses the step after each
  stamp of 0; `StampsKeepPace` counts it so.
* **Connections.**  `shutdown` before there is a descriptor stops nothing, and an
  attempt made off the poller may be told twice (`OneResult`).  `send` may queue a
  buffer on a socket that another thread closed since it looked.  A session whose server
  is destroyed is told of its end on the owner's thread while its poller still runs its
  handlers: it may be told twice, and be given data after onError
  (`ToldOnce` and `SilentAfterError` speak of servers that are up).

## 6. Proofs

TLAPS proves the following for every value of the constants that satisfies the
named assumption of the module: `RingAssumption`, `RegistryAssumption`,
`PollerAssumption`, `SocketAssumption`, `ThreadsAssumption`, `TcpNetAssumption`,
`ServersAssumption`, `IngestAssumption`, `PlayAssumption`, `MuxerAssumption`,
`SceneAssumption`.  They say that null is not an object, that
sources are not sessions, that there is a server and an address, that the threads of
a socket are finitely many and its buffers not empty, that delays are at least 1, that
a description tells of all tracks or of some, that a ring's readers are on finitely
many pollers, that a scene of `Muxer` is a finite sequence of the calls a device makes
or of what a publisher of its protocol sends, and that bounds are numbers.

* `RingBufferProofs`: `TypeCorrect`, `Gapless`, `NoneStranded`,
  `DetachedStayQuiet`.  A feed is gapless only because the queue of a poller
  holds exactly the packets that the clone has not stored yet, without a hole
  and in order, and because the ring's own cache ends at the last packet
  written.  `IInv` says so: `Owned` (who owns a dispatcher), `Threads` (what a
  thread in the middle of a call knows), `Homes` (where readers are),
  `Pending` (the queues: `NoHole`, `InOrder`, `AllQueued`) and `Feeds` (how far
  each cache and each reader has got).  `RInv` adds what the maps need: each
  dispatcher counts its readers (`Sizes`), a dispatcher with readers is in the
  map and one about to be dropped has none (`Mapped`), and a reader that was
  told of the end is registered nowhere (`Gone`).
  `CountExact`: `Counted` says that the counter, with the readers that threads have
  yet to count in, is the registered readers with those yet to count out; there is
  one such reader per thread, known by its place in the call (`Adds`).
  `KeyComesFirst` and `ImplementsGopFeed`, the refinement step by step, use `KInv`:
  the cache of the ring and that of each poller, if not empty, starts with a key
  packet and `_have_idr` tells of one.  They assume `MaxClears = 0`, as the run that checks the
  two properties does: after a clear `StartsAtKey` does not hold of the code (section 5).
* `MediaRegistryProofs`: `TypeCorrect`, `LatestFound`, `AnsweredStayDeaf`.
  `IInv` is `TypeOK` with `Latest` (the entry of a stream is one of its own
  sources), `Fitting` (what a thread may rely on at each step of a call),
  `Listeners` (who listens was asked and is past addListener) and `Answers`
  (who was answered, or is about to be, is out of the broadcasts' reach).
  `HeardAlone`: `HeardInTime` for a request that is alone (`Alone`, one request
  in all; the run checks it of a request that is the only one so far, and with two it is
  false, section 5).  `HInv`: a listener is
  removed only after its timer stopped (`Spared`), so that the dispatcher a request
  was given is still the event's when it comes to listen (`Underway`), it listens as
  long as its timer runs (`InPlace`), and a broadcast it is due to hear has yet to
  visit it (`Ahead`).
* `EventPollerProofs`: `TypeCorrect`, with the lemma that entering a timer into
  the ordered map by counting the entries due no later gives a map again;
  `OnceInOrder`, `NoneLeft`.  A job moves from the list to the batch to `ran`.
  Neither property is inductive: what will run is decided by what is still
  queued.  `Line` says that a job is in one of the three places, once (`Once`),
  that everything posted is in one of them (`Present`), and that whatever was
  posted before a queued job is ahead of it (`Ordered`).  One lemma for each
  operation on a queue (append, put in front, take, run, drop) shows that it
  keeps `Line`, whatever the state; `Closing` adds when the queues are closed:
  nobody posts after shutdown, so the batch with the exit task is the last.
  `ArmedOnce` and `EarliestRuns` are about the timers: `TimerInv` says that an
  armed timer has one entry in the list, the batch, the map or the copy and that no
  entry stands for a timer twice (`Books`), and that map and copy are sorted, what
  was entered during a flush being due after it began (`InOrder`).
* `NetworkProofs`: `SocketTyped` and `ErrorsCounted` for any senders;
  `SocketSound` and `ImplementsByteStream` for sockets that one thread sends on,
  which is what the run checks and what sessions do: with a second sender the order
  is lost (section 5).  `StreamInv` says that the bytes on the wire, in flushData's
  hand, in `_send_buf_sending` and in `_send_buf_waiting`, in this order, are what
  was posted (`InOrder`, with `Pending` for the last three), that the hand is empty
  outside flushData and the sending queue while something is in it (`InHand`), and
  that the writable event is armed wherever something stays behind (`Noticed`).
  A buffer that `Push` queues after a close only lengthens what was posted, so the order
  holds of a closed socket too, while `NothingStranded` speaks of an open one.
  Every step of flushData is then a lemma about sequences; the one about a partial
  write, `ReOffsetRest`, says that the bytes of a list are those that were given and
  then those of what `reOffset` leaves.  The bytes of a list are a flattened sequence,
  and that flattening distributes over concatenation (`FlattenConcat`) is proved from
  the definition in the community module.  `ErrorInv` counts: errors told, errors
  posted and threads about to close are together no more than the threads, because a
  thread enters the closing part with the socket open; that they are no more than one
  is what the comment in emitErr says and `socket_twice` refutes.
  The module also has `IngestInductive`, `BooksAreSound` and `NobodyElseRemoved` of
  `RtpIngest`.  `Books` (an entry leads to a process made for its key) is kept by each operation of
  the selector, whatever the state; `IngInv` adds who knows which process and that
  the processes do not run out.
* `ConnectionProofs`: for the client `ClientInductive`, `NeverStale` and `OwnerIsTold`,
  for the server `ServerInductive` and `SessionsAreTold`.  The two invariants need
  nothing of each other.  `ClientInv`: all but the last attempt have nothing left that
  could report (`Current`), a descriptor comes with the worker's one result
  (`Descriptors`), an error is for a descriptor that is gone, and of two in one attempt
  one was posted by the shutdown of another thread (`Errors`), what an attempt that was
  reported may still report (`Settled`), and that the keep-alive runs for a connection
  or for one whose end is posted (`Owned`).  Each step of a shutdown is a step of its
  own in the proof, with whatever the loop did in between.  `ServerInv`: a
  session is in one place (`OnePlace`, `Listed`); how often it was told is the end of its
  socket and the destruction of its server, counted one by one, and while it belongs to
  a server that is up (`InUse`) only the former (`Telling`, for each session that is
  `Placed`); and only a session that was told is about to be erased (`Erasing`).

  `WatchedOverHttp` (`HttpInStep`) is about a viewer over HTTP, for any requests, in any
  number, any tracks and any media.  `HttpGood` says that either the
  session is not upgraded and all it has sent is plain (`Waiting`: heads that begin no stream, and
  bodies), or one head began a stream, before it all is plain and after it come, but for
  the bodies of earlier answers, which go on unframed (section 5), in the
  frames of that connection, what describes the stream, in order and once, then media
  (`Watching`); that a session with a reader is watching, and an open one without a
  reader is waiting; and that a pending look-up belongs to a session that is open and
  has no reader.  An open session that asks has its last answer, so it waits, and can still be
  upgraded.  `WriteAll` is a fold; it is shown equal to what is written item by item
  (`WritesAll`), and the configuration of the tracks, in whatever order `SetToSeq` gives
  it, is a sequence of configurations (`InSomeOrder`).  A handler says at most one
  head, its first item (`OneHead`), so that heads never outnumber requests.
* `MuxerProofs`: `StreamInvariant`, `FoundStreamsArePlayable`, `KeyGroupsBeginWithKeys`,
  `ServerIsTold`, for any scenes, pollers and times.  What the sink
  tells the muxers in one call is a sequence in an order (`SinkGood`, `Says`): the tracks
  that are ready, then that all are, then frames, and frames only once all are ready.
  Each muxer is led through such a sequence of any length: `RtmpGood`, `RtspGood` and
  `Fmp4Good` say that a source which is found has its ring and what describes it, and
  `CacheGood` that the key flag of a cache stands for the key frame it begins with.
  `RtmpGood` asks this of a muxer that is not on demand: the cache of one that is on
  demand is cleared without its flag (section 5).  `TimerInv`: with a ring and
  nobody watching, unless a poller has yet to read the count or to report that it is 0, the close
  timer runs and is due at most `NoneReader` from now and, if the server was not told
  yet, at most `NoneReader` after the last change of readers; a ring is made with the timer set.
* `PlayProofs`: `ToldOnceAndInOrder`, `PlayerTold` for any scenes.  What was told is one
  of seven sequences, those of a play that goes on (`Ongoing`) and those of one that is
  over (`Over`), and that is not inductive: whether one thing more may be told depends
  on what can still happen.  `Core` says that an end was told only of a connection that
  is closed and that a play of which nothing was told still owes its result; `RtspGood`
  and `RtmpGood` add that until then the play timer runs (for RTSP also that the tracks
  may still be analysed), that packets are not checked before a success, and that
  nothing but the play is outstanding.  There is a lemma for every call of a player,
  whatever the message; only `dry`, which RTMP takes as the end before any result, needs
  `Clean`: a session of this server never sends it.  The owner is a careful one and
  has not torn the player down while a name was resolved, as in `PlayerTold` itself
  (section 5).

  `AgreeOnPlaying` (`PlayInStep`) and `TruthTold` (`TruthIsTold`) are about both ends of
  the connection, whatever the scene.  None of their parts is inductive: what a player
  may be told depends on answers on their way and on requests the session has yet to
  read.  The invariant `InStep` says that the messages on their way, read one by one
  (`Runs`), take the client from what it has heard and what the player expects
  (`Expects`: the one slot `_on_response` over RTSP; the awaited results and the queue
  of statuses over RTMP) to what the session believes it plays and what it owes for the
  requests it has yet to answer (`Owes`), and that each message is one the player
  expects when it comes to it (`Goes`); no frame is among them unless the client would
  have heard by then that it plays.  Of a player whose keep-alive and pause crossed in
  the slot (`crossed`), and of an owner that is hasty or of a client that is no player
  (`lost`), it says only that replies carry the numbers of their requests and that
  frames come while playing: the exceptions the properties themselves make, and no
  other.  A step of the player takes the first message, one of the session adds to the
  end, and a request adds to what is owed.  `Elsewhere` is the little that holds of
  another server.  `MediaWhenPlaying` folds over a prefix of the queue; the fold
  is shown equal to the hearing step by step of `Runs`, and what holds along a queue is
  shown by the least place where it would not (`LeastOf`, lemma `Along`).
  `TruthTold` needs one lemma for every answer a player can read, on the state the
  invariant leaves possible when it comes.
* `SequenceFacts` has what several of these need: a nonempty set of numbers has a
  least one (`LeastOf`), what becomes of the only place of an element when a
  sequence grows or loses its head, and what holds of sequences whatever their elements.

Each proof that an invariant is kept has a step for every action, and under it
one for each conjunct the action can disturb.

Not proved.  Every liveness property (`ReadersServed`,
`EveryoneAnswered`, `EveryoneServed`, `TimersFire`, `SocketPays`, `AllEnds`,
`IngestEnds`, `ViewersServed`): TLAPS proves none under fairness.
`CutsDoNotMatter`, `StreamIsSorted` and `FramesAreSound` are about RECURSIVE
operators, which parse a stream of any length, and what such an operator computes
needs the induction that the provers cannot instantiate; `LeastOf` replaces it where a
statement is about numbers or lengths, as for `FlattenSeq`, whose recursion is a
function.
Of the properties of `mux`, `WatchedIsMuxed` holds only where all readers of the RTMP ring
are on one poller, as in the run (with two, section 5), which the server does not ensure:
it is checked only.  `FramesGoOut` and the parts of `PlayersCanStart` other than
the two proved compare what was muxed with all that was sent or taken; they are checked
only, and `SegmentsMarked` and `MetadataDescribes` for the scenes of the run, since they
do not hold of every scene: a device may call an audio frame a key frame, and metadata may be
repeated after the tracks are ready.  `ViewersInStep` of `play` bounds what the records may hold, the number of sources among
it, by what the scenes can produce, and compares stamps with those of the source, which
holds of the scenes and not of every stream: tracks that come within `SyncSpan` of each other after the alignment
was refused keep the distance they had.  It is checked only.

## 7. Not modelled

* Recordings, MP4 files, the program stream itself and AMF3: conversions of bytes
  without shared state.  Codecs that a demuxer does not know, and several NAL units of
  one RTMP packet.
* HTTP requests sent before the last one was answered; `Stamp` in its modes for
  playback and for stamps taken from the clock; what `onWrite` does with buffers that
  begin with `{"` (`HttpSession.cpp:487`, `:499`), which no stream of the scenes has.
* The media source a process registers, under an id that all processes found by SSRC
  share, and the answers of the RTCP server.
* UDP sockets and RTCP, digests of RTSP and HTTP, the benchmark mode of the players.
* Undefined behaviour that no thread's order decides: the assignment of
  `_async_close_timer` by two threads, that of `_sock`, `_timer` and `_con_timer` by a
  thread of the owner beside the poller's (each is one step here), the missing return values of
  `RtspSession::getTracks` and `totalReaderCount`, `_delegate` used by a resume
  before DESCRIBE.
* `MediaSink::resetTracks`, `Socket::enableRecv`, `RtpReceiver`'s flush and the
  thread pool: nothing calls them.
* The vendored libraries, the logger, packaging, and the device classes that are
  missing from the repository.  Nothing is persisted, so there is no recovery to
  model.
