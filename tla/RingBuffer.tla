----------------------------- MODULE RingBuffer -----------------------------
(***************************************************************************)
(* The fan-out of a media stream (ZLToolKit RingBuffer.h).  One source     *)
(* thread writes packets into the ring; players attach readers on their    *)
(* own poller threads.  The ring keeps a GOP cache (_RingStorage) and, for *)
(* every poller with readers, a dispatcher with a clone of that cache.     *)
(* A write posts one task to each of these pollers; running the task hands *)
(* the packet to the dispatcher's readers and then stores it in the clone. *)
(*                                                                         *)
(* A packet is its position in hist, the sequence of the is_key flags of   *)
(* everything written so far.  _size of a storage is the length of its     *)
(* deque and is not kept apart.  Every caller leaves use_cache at true.    *)
(***************************************************************************)
EXTENDS Naturals, Integers, Sequences, FiniteSets

CONSTANTS
  Pollers,      \* event poller threads
  Readers,      \* reader objects, each attached at most once
  Dispatchers,  \* dispatcher objects, each created at most once
  None,         \* the null pointer
  MaxSize,      \* _max_size of the storages
  MaxWrites,    \* bound: packets written
  MaxClears     \* bound: clearCache calls (0: protocol on demand is off)

ASSUME RingAssumption ==
  /\ None \notin Dispatchers \cup Readers \cup Pollers
  /\ MaxSize \in Nat \ {0}
  /\ MaxWrites \in Nat
  /\ MaxClears \in Nat

VARIABLES
  hist,         \* is_key of each packet written, in order
  ring,         \* the ring's own storage
  total,        \* _total_count
  alive,        \* the RingBuffer object exists
  clears,       \* clearCache calls so far
  dmap,         \* _dispatcher_map
  owner,        \* the poller a dispatcher was created for
  store,        \* _storage of each dispatcher
  attached,     \* _reader_map of each dispatcher
  size,         \* _reader_size of each dispatcher
  seen,         \* history: the last packet each dispatcher began to hand out
  queue,        \* tasks posted to each poller
  pc, cur,      \* what each poller is in the middle of
  reader,       \* life of each reader: none, live, expired, freed
  home,         \* the dispatcher in the reader's deleter
  fed,          \* history: packets handed to the reader, in order
  detached      \* history: readers whose detach callback ran

ringVars   == <<hist, ring, total, alive, clears, dmap>>
dispVars   == <<owner, store, attached, size, seen>>
pollerVars == <<queue, pc, cur>>
readerVars == <<reader, home, fed, detached>>
vars == <<ringVars, dispVars, pollerVars, readerVars>>
-----------------------------------------------------------------------------
\* What _size bounds.
Caches == {c \in Seq(Nat) : Len(c) <= MaxSize}

Storage == [cache : Caches, have_idr : BOOLEAN, pre_key : BOOLEAN]

EmptyStorage == [cache |-> <<>>, have_idr |-> FALSE, pre_key |-> FALSE]

\* write: a key packet after a non-key one opens a new GOP.
Opened(s, key) ==
  IF key /\ ~s.pre_key
    THEN [cache |-> <<>>, have_idr |-> TRUE, pre_key |-> key]
    ELSE [s EXCEPT !.pre_key = key]

\* Faulty forms: the overflow is noticed a packet late; the test of _have_idr
\* is missing.
StoreWriteLate(s, n, key) ==
  LET o == Opened(s, key) IN
  IF ~o.have_idr THEN o
  ELSE IF Len(o.cache) > MaxSize
    THEN [cache |-> <<>>, have_idr |-> FALSE, pre_key |-> key]
    ELSE [o EXCEPT !.cache = Append(o.cache, n)]

StoreWriteAny(s, n, key) ==
  LET o == Opened(s, key) IN
  IF Len(o.cache) + 1 > MaxSize
    THEN [cache |-> <<>>, have_idr |-> FALSE, pre_key |-> key]
    ELSE [o EXCEPT !.cache = Append(o.cache, n)]

\* write: nothing is cached without a key frame; an overflow empties the cache.
StoreWrite(s, n, key) ==
  LET o == Opened(s, key) IN
  IF ~o.have_idr THEN o
  ELSE IF Len(o.cache) + 1 > MaxSize
    THEN [cache |-> <<>>, have_idr |-> FALSE, pre_key |-> key]
    ELSE [o EXCEPT !.cache = Append(o.cache, n)]

\* clone leaves pre_is_key_ at its default.
StoreClone(s) == [s EXCEPT !.pre_key = FALSE]

\* clearCache leaves _have_idr as it is.
StoreClear(s) == [s EXCEPT !.cache = <<>>]

WriteTask(d, n) == [op |-> "write", d |-> d, n |-> n, r |-> None]
ClearTask(d)    == [op |-> "clear", d |-> d, n |-> 0, r |-> None]
DeallocTask(r)  == [op |-> "dealloc", d |-> None, n |-> 0, r |-> r]

\* What a poller thread is in the middle of: nothing, the attach of r, or the
\* write loop of packet n, which has still to visit todo.
Idle                == [d |-> None, n |-> 0, todo |-> {}, r |-> None, add |-> FALSE]
Attaching(d, r)     == [d |-> d, n |-> 0, todo |-> {}, r |-> r, add |-> TRUE]
Writing(d, n, todo) == [d |-> d, n |-> n, todo |-> todo, r |-> None, add |-> FALSE]

Init ==
  /\ hist = <<>> /\ ring = EmptyStorage /\ total = 0 /\ alive = TRUE /\ clears = 0
  /\ dmap = [p \in Pollers |-> None]
  /\ owner = [d \in Dispatchers |-> None]
  /\ store = [d \in Dispatchers |-> EmptyStorage]
  /\ attached = [d \in Dispatchers |-> {}]
  /\ size = [d \in Dispatchers |-> 0]
  /\ seen = [d \in Dispatchers |-> 0]
  /\ queue = [p \in Pollers |-> <<>>]
  /\ pc = [p \in Pollers |-> "idle"]
  /\ cur = [p \in Pollers |-> Idle]
  /\ reader = [r \in Readers |-> "none"]
  /\ home = [r \in Readers |-> None]
  /\ fed = [r \in Readers |-> <<>>]
  /\ detached = [r \in Readers |-> FALSE]
-----------------------------------------------------------------------------
(* The source thread. *)

\* inputFrame of a muxer on demand: once it has cleared the caches it feeds
\* the source only while there are readers.
Demanded == clears = 0 \/ total > 0

\* RingBuffer::write, all of it under _mtx_map.
Write(key) ==
  LET n == Len(hist) + 1 IN
  /\ alive /\ Len(hist) < MaxWrites /\ Demanded
  /\ hist' = Append(hist, key)
  /\ queue' = [p \in Pollers |-> IF dmap[p] = None THEN queue[p]
                                 ELSE Append(queue[p], WriteTask(dmap[p], n))]
  /\ ring' = StoreWrite(ring, n, key)
  /\ UNCHANGED <<total, alive, clears, dmap, dispVars, pc, cur, readerVars>>

\* RingBuffer::clearCache, under _mtx_map.
ClearCache ==
  /\ alive /\ clears < MaxClears
  /\ clears' = clears + 1
  /\ ring' = StoreClear(ring)
  /\ queue' = [p \in Pollers |-> IF dmap[p] = None THEN queue[p]
                                 ELSE Append(queue[p], ClearTask(dmap[p]))]
  /\ UNCHANGED <<hist, total, alive, dmap, dispVars, pc, cur, readerVars>>

\* The last reference to the ring goes away: nobody is inside one of its methods.
DestroyRing ==
  /\ alive
  /\ \A p \in Pollers : pc[p] \in {"idle", "loop"}
  /\ alive' = FALSE
  /\ dmap' = [p \in Pollers |-> None]
  /\ UNCHANGED <<hist, ring, total, clears, dispVars, pollerVars, readerVars>>
-----------------------------------------------------------------------------
(* A poller thread. *)

\* Faulty form: every change of the size drops the dispatcher.
SizeChangedAlways(p, next, count) ==
  /\ cur' = [cur EXCEPT ![p] = next]
  /\ pc' = [pc EXCEPT ![p] = IF ~alive THEN (IF next.n > 0 THEN "loop" ELSE "idle") ELSE "drop"]

\* _RingReaderDispatcher::onSizeChanged, after which p goes on with a write
\* loop (next.n > 0) or is done; the ring may be gone by then.
SizeChanged(p, next, count) ==
  /\ cur' = [cur EXCEPT ![p] = next]
  /\ pc' = [pc EXCEPT ![p] = IF ~alive THEN (IF next.n > 0 THEN "loop" ELSE "idle")
                             ELSE IF count = 0 THEN "drop" ELSE "count"]

\* RingBuffer::attach, the part under _mtx_map: find or create the dispatcher.
AttachFind(p, r) ==
  /\ alive /\ pc[p] = "idle" /\ reader[r] = "none"
  /\ \A q \in Pollers : cur[q].r # r
  /\ \/ /\ dmap[p] # None
        /\ cur' = [cur EXCEPT ![p] = Attaching(dmap[p], r)]
        /\ UNCHANGED <<dmap, owner, store, seen>>
     \/ /\ dmap[p] = None
        /\ \E d \in Dispatchers :
             /\ owner[d] = None
             /\ dmap' = [dmap EXCEPT ![p] = d]
             /\ owner' = [owner EXCEPT ![d] = p]
             /\ store' = [store EXCEPT ![d] = StoreClone(ring)]
             /\ seen' = [seen EXCEPT ![d] = Len(hist)]
             /\ cur' = [cur EXCEPT ![p] = Attaching(d, r)]
  /\ pc' = [pc EXCEPT ![p] = "attach"]
  /\ UNCHANGED <<hist, ring, total, alive, clears, attached, size, queue, readerVars>>

\* Faulty form: the reader is given the ring's own cache.
AttachReaderRing(p) ==
  LET d == cur[p].d
      r == cur[p].r
  IN
  /\ pc[p] = "attach"
  /\ attached' = [attached EXCEPT ![d] = @ \cup {r}]
  /\ size' = [size EXCEPT ![d] = @ + 1]
  /\ reader' = [reader EXCEPT ![r] = "live"]
  /\ home' = [home EXCEPT ![r] = d]
  /\ fed' = [fed EXCEPT ![r] = ring.cache]
  /\ SizeChanged(p, cur[p], size[d] + 1)
  /\ UNCHANGED <<ringVars, owner, store, seen, queue, detached>>

\* _RingReaderDispatcher::attach, and the setReadCB that follows it on the
\* same thread: the reader is registered and fed the dispatcher's cache.
AttachReader(p) ==
  LET d == cur[p].d
      r == cur[p].r
  IN
  /\ pc[p] = "attach"
  /\ attached' = [attached EXCEPT ![d] = @ \cup {r}]
  /\ size' = [size EXCEPT ![d] = @ + 1]
  /\ reader' = [reader EXCEPT ![r] = "live"]
  /\ home' = [home EXCEPT ![r] = d]
  /\ fed' = [fed EXCEPT ![r] = store[d].cache]
  /\ SizeChanged(p, cur[p], size[d] + 1)
  /\ UNCHANGED <<ringVars, owner, store, seen, queue, detached>>

\* RingBuffer::onSizeChanged: the dispatcher without readers leaves the map.
DropDispatcher(p) ==
  /\ pc[p] = "drop"
  /\ dmap' = [dmap EXCEPT ![p] = None]
  /\ pc' = [pc EXCEPT ![p] = "count"]
  /\ UNCHANGED <<hist, ring, total, alive, clears, dispVars, queue, cur, readerVars>>

\* RingBuffer::onSizeChanged: the atomic counter, then back to the caller.
CountReader(p) ==
  /\ pc[p] = "count"
  /\ total' = IF cur[p].add THEN total + 1 ELSE total - 1
  /\ pc' = [pc EXCEPT ![p] = IF cur[p].n > 0 THEN "loop" ELSE "idle"]
  /\ cur' = [cur EXCEPT ![p] = IF cur[p].n > 0 THEN @ ELSE Idle]
  /\ UNCHANGED <<hist, ring, alive, clears, dmap, dispVars, queue, readerVars>>

\* p takes the next task from its queue (EventPoller::onPipeEvent).
Take(p, op) ==
  /\ pc[p] = "idle" /\ queue[p] # <<>> /\ Head(queue[p]).op = op
  /\ queue' = [queue EXCEPT ![p] = Tail(queue[p])]

\* The task of a write starts to iterate over the reader map.
BeginWrite(p) ==
  LET t == Head(queue[p]) IN
  /\ Take(p, "write")
  /\ cur' = [cur EXCEPT ![p] = Writing(t.d, t.n, attached[t.d])]
  /\ seen' = [seen EXCEPT ![t.d] = t.n]
  /\ pc' = [pc EXCEPT ![p] = "loop"]
  /\ UNCHANGED <<ringVars, owner, store, attached, size, readerVars>>

\* onRead: the session's read callback gets packet n.
Feed(r, n) == fed' = [fed EXCEPT ![r] = Append(fed[r], n)]

\* The write loop of p once r has been dealt with.
Past(p, r) == Writing(cur[p].d, cur[p].n, cur[p].todo \ {r})

\* One iteration that finds the reader alive: onRead.
VisitLive(p, r) ==
  /\ pc[p] = "loop" /\ r \in cur[p].todo /\ reader[r] = "live"
  /\ Feed(r, cur[p].n)
  /\ cur' = [cur EXCEPT ![p] = Past(p, r)]
  /\ UNCHANGED <<ringVars, dispVars, queue, pc, reader, home, detached>>

\* The reader leaves its dispatcher's map: --_reader_size and onSizeChanged.
EraseReader(p, d, r, next) ==
  /\ attached' = [attached EXCEPT ![d] = @ \ {r}]
  /\ size' = [size EXCEPT ![d] = @ - 1]
  /\ SizeChanged(p, next, size[d] - 1)

\* One iteration whose onRead makes the session drop the reader: the deleter
\* runs when the iteration's own reference goes, after ++it.
VisitRelease(p, r) ==
  /\ pc[p] = "loop" /\ r \in cur[p].todo /\ reader[r] = "live"
  /\ Feed(r, cur[p].n)
  /\ reader' = [reader EXCEPT ![r] = "freed"]
  /\ EraseReader(p, cur[p].d, r, Past(p, r))
  /\ UNCHANGED <<ringVars, owner, store, seen, queue, home, detached>>

\* One iteration that finds the reader expired: it is erased here, before
\* the task of its deleter runs.
VisitExpired(p, r) ==
  /\ pc[p] = "loop" /\ r \in cur[p].todo /\ reader[r] = "expired"
  /\ EraseReader(p, cur[p].d, r, Past(p, r))
  /\ UNCHANGED <<ringVars, owner, store, seen, queue, readerVars>>

\* Faulty form: the dispatcher does not store what it has handed out.
EndWriteUnstored(p) ==
  /\ pc[p] = "loop" /\ cur[p].todo = {}
  /\ pc' = [pc EXCEPT ![p] = "idle"]
  /\ cur' = [cur EXCEPT ![p] = Idle]
  /\ UNCHANGED <<ringVars, dispVars, queue, readerVars>>

\* After the loop the packet goes into the dispatcher's own cache.
EndWrite(p) ==
  LET d == cur[p].d
      n == cur[p].n
  IN
  /\ pc[p] = "loop" /\ cur[p].todo = {}
  /\ store' = [store EXCEPT ![d] = StoreWrite(store[d], n, hist[n])]
  /\ pc' = [pc EXCEPT ![p] = "idle"]
  /\ cur' = [cur EXCEPT ![p] = Idle]
  /\ UNCHANGED <<ringVars, owner, attached, size, seen, queue, readerVars>>

\* _RingReaderDispatcher::clearCache: only a dispatcher without readers.
RunClear(p) ==
  LET d == Head(queue[p]).d IN
  /\ Take(p, "clear")
  /\ store' = [store EXCEPT ![d] = IF size[d] = 0 THEN StoreClear(store[d]) ELSE store[d]]
  /\ UNCHANGED <<ringVars, owner, attached, size, seen, pc, cur, readerVars>>

\* Faulty form: the result of erase is not looked at.
DeallocTwice(p, r) ==
  /\ reader' = [reader EXCEPT ![r] = "freed"]
  /\ EraseReader(p, home[r], r, Idle)

\* on_dealloc's task: erase the reader unless a write already did.
Dealloc(p, r) ==
  /\ reader' = [reader EXCEPT ![r] = "freed"]
  /\ \/ /\ r \in attached[home[r]]
        /\ EraseReader(p, home[r], r, Idle)
     \/ /\ r \notin attached[home[r]]
        /\ UNCHANGED <<attached, size, pc, cur>>

RunDealloc(p) ==
  /\ Take(p, "dealloc")
  /\ Dealloc(p, Head(queue[p]).r)
  /\ UNCHANGED <<ringVars, owner, store, seen, home, fed, detached>>

\* The session drops its reader on the reader's poller: async runs the
\* deleter's task on the spot.
ReleaseHere(p, r) ==
  /\ pc[p] = "idle" /\ reader[r] = "live" /\ owner[home[r]] = p
  /\ Dealloc(p, r)
  /\ UNCHANGED <<ringVars, owner, store, seen, queue, home, fed, detached>>

\* The last reference goes on another thread: the task is posted.  A write
\* loop that is visiting the reader holds a reference of its own.
ReleaseElsewhere(r) ==
  LET p == owner[home[r]] IN
  /\ reader[r] = "live" /\ cur[p].r # r
  /\ reader' = [reader EXCEPT ![r] = "expired"]
  /\ queue' = [queue EXCEPT ![p] = Append(queue[p], DeallocTask(r))]
  /\ UNCHANGED <<ringVars, dispVars, pc, cur, home, fed, detached>>

Referenced(d) ==
  \/ \E p \in Pollers : dmap[p] = d \/ cur[p].d = d
  \/ \E p \in Pollers : \E i \in DOMAIN queue[p] : queue[p][i].d = d

\* Faulty forms: the readers are told as soon as the map lets the dispatcher
\* go; they are not told at all.
DeleteEarly(p, d) ==
  /\ pc[p] = "idle" /\ owner[d] = p /\ attached[d] # {} /\ \A q \in Pollers : dmap[q] # d
  /\ detached' = [r \in Readers |-> detached[r] \/ (r \in attached[d] /\ reader[r] = "live")]
  /\ UNCHANGED <<ringVars, dispVars, pollerVars, reader, home, fed>>

DeleteSilently(p, d) ==
  /\ pc[p] = "idle" /\ owner[d] = p /\ attached[d] # {} /\ ~Referenced(d)
  /\ attached' = [attached EXCEPT ![d] = {}]
  /\ size' = [size EXCEPT ![d] = 0]
  /\ UNCHANGED <<ringVars, owner, store, seen, pollerVars, readerVars>>

\* The deleter of a dispatcher nobody references any more runs on its poller:
\* the readers still there learn that the source is gone.
DeleteDispatcher(p, d) ==
  /\ pc[p] = "idle" /\ owner[d] = p /\ attached[d] # {} /\ ~Referenced(d)
  /\ detached' = [r \in Readers |-> detached[r] \/ (r \in attached[d] /\ reader[r] = "live")]
  /\ attached' = [attached EXCEPT ![d] = {}]
  /\ size' = [size EXCEPT ![d] = 0]
  /\ UNCHANGED <<ringVars, owner, store, seen, pollerVars, reader, home, fed>>
-----------------------------------------------------------------------------
\* The work of a poller that only the poller's own progress can delay.
PollerStep(p) ==
  \/ AttachReader(p) \/ DropDispatcher(p) \/ CountReader(p)
  \/ BeginWrite(p) \/ EndWrite(p) \/ RunClear(p) \/ RunDealloc(p)
  \/ \E r \in Readers : VisitLive(p, r) \/ VisitRelease(p, r) \/ VisitExpired(p, r)
  \/ \E d \in Dispatchers : DeleteDispatcher(p, d)

SourceStep == (\E key \in BOOLEAN : Write(key)) \/ ClearCache \/ DestroyRing

SessionStep ==
  \/ \E p \in Pollers, r \in Readers : AttachFind(p, r) \/ ReleaseHere(p, r)
  \/ \E r \in Readers : ReleaseElsewhere(r)

Next == SourceStep \/ SessionStep \/ \E p \in Pollers : PollerStep(p)

Spec == Init /\ [][Next]_vars

\* A poller thread keeps running its loop (EventPoller::runLoop).
FairSpec == Spec /\ \A p \in Pollers : WF_vars(PollerStep(p))
-----------------------------------------------------------------------------
Tasks == [op : {"write", "clear", "dealloc"}, d : Dispatchers \cup {None}, n : Nat,
          r : Readers \cup {None}]

Job == [d : Dispatchers \cup {None}, n : Nat, todo : SUBSET Readers,
        r : Readers \cup {None}, add : BOOLEAN]

TypeOK ==
  /\ hist \in Seq(BOOLEAN)
  /\ ring \in Storage
  /\ total \in Int
  /\ alive \in BOOLEAN
  /\ clears \in Nat
  /\ dmap \in [Pollers -> Dispatchers \cup {None}]
  /\ owner \in [Dispatchers -> Pollers \cup {None}]
  /\ store \in [Dispatchers -> Storage]
  /\ attached \in [Dispatchers -> SUBSET Readers]
  /\ size \in [Dispatchers -> Int]
  /\ seen \in [Dispatchers -> Nat]
  /\ queue \in [Pollers -> Seq(Tasks)]
  /\ pc \in [Pollers -> {"idle", "attach", "drop", "count", "loop"}]
  /\ cur \in [Pollers -> Job]
  /\ reader \in [Readers -> {"none", "live", "expired", "freed"}]
  /\ home \in [Readers -> Dispatchers \cup {None}]
  /\ fed \in [Readers -> Seq(Nat)]
  /\ detached \in [Readers -> BOOLEAN]

Consecutive(s) == \A i \in 1 .. Len(s) - 1 : s[i + 1] = s[i] + 1

\* A reader sees the stream without a gap, a repetition or a swap, across the
\* seam between the cache it is given on attach and the packets posted to its
\* poller afterwards (attach clones the cache under the lock that write posts
\* and stores under).
GaplessFeed == \A r \in Readers : Consecutive(fed[r])

\* A reader that is registered with a dispatcher stays reachable from the
\* ring: onSizeChanged drops a poller's entry only when its dispatcher is
\* really empty, however attaches, releases and expired readers interleave.
NoStrandedReader ==
  alive => \A d \in Dispatchers : attached[d] # {} => dmap[owner[d]] = d

Attached == UNION {attached[d] : d \in Dispatchers}

\* When no counter update is under way, _total_count is the number of readers
\* in the dispatchers' maps: an expired reader is counted off exactly once,
\* by the write that meets it or by the task of its deleter.
CountIsExact ==
  alive /\ (\A p \in Pollers : pc[p] \in {"idle", "attach", "loop"})
    => /\ total = Cardinality(Attached)
       /\ \A d \in Dispatchers : size[d] = Cardinality(attached[d])

\* A detached reader is fed nothing more.
DetachIsLast ==
  [][\A r \in Readers : detached[r] => fed'[r] = fed[r] /\ detached'[r]]_vars

\* What a new reader is given first is a key packet.  This is what
\* "缓存中没有关键帧，那么gop缓存无效" (write) says of the cache: without a key
\* frame it is not valid.  It needs MaxClears = 0: clearCache breaks it.
StartsAtKey ==
  [][\A r \in Readers : fed[r] = <<>> /\ reader[r] = "none" /\ fed'[r] # <<>>
        => hist[fed'[r][1]]]_vars

\* "每次遇到关键帧第一个RTP包，则会清空GOP缓存" (RtspMediaSource.h, RtmpMediaSource.h):
\* a key packet empties a cache when it is the first packet of a key frame,
\* that is, when the packet before it was not a key packet.
ClearedAtFirstKeyPacket ==
  [][\A p \in Pollers : LET n == cur[p].n
                             d == cur[p].d
                         IN EndWrite(p) /\ n > 1 /\ hist[n] /\ hist[n - 1] /\ store[d].cache # <<>>
                              => Len(store'[d].cache) # 1]_vars

LastFed(r) == IF fed[r] = <<>> THEN 0 ELSE fed[r][Len(fed[r])]

\* A reader that was fed packet n is fed the next one once it is written,
\* unless the session lets the reader go: the task of a write reaches every
\* reader, even if the ring is destroyed meanwhile.
PacketsArrive ==
  \A r \in Readers : \A n \in 1 .. MaxWrites :
    (reader[r] = "live" /\ LastFed(r) = n /\ Len(hist) > n)
      ~> (LastFed(r) > n \/ reader[r] # "live")

\* Once the source's ring is gone, every reader left is told.
ReadersLearnOfEnd ==
  \A r \in Readers : (~alive /\ reader[r] = "live") ~> (detached[r] \/ reader[r] # "live")

\* A reader is not forgotten: it gets what is written and learns of the end (write,
\* and the destruction of the dispatchers).
ReadersServed == PacketsArrive /\ ReadersLearnOfEnd

\* A reader as its player sees it.
PlayerView ==
  [r \in Readers |-> IF reader[r] = "none" THEN "none"
                     ELSE IF reader[r] = "live" /\ ~detached[r] THEN "on" ELSE "off"]

Abstract == INSTANCE GopFeed WITH state <- PlayerView

\* The ring implements GopFeed: dispatchers that come and go, caches cloned at
\* different times and tasks still queued are invisible to a player.
RefinesGopFeed == Abstract!Spec
=============================================================================
