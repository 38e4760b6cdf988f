-------------------------- MODULE RingBufferProofs --------------------------
(***************************************************************************)
(* Theorems about RingBuffer for any number of pollers, readers, packets   *)
(* and dispatchers and any storage size.  The invariants of the runs are   *)
(* not inductive: IInv adds who owns what (Owned, Homes), what a thread in *)
(* the middle of an operation may rely on (Threads), and which packets are *)
(* still queued for a dispatcher (Pending).  RInv adds who is registered   *)
(* where, CInv what the threads have still to count, and KInv that caches  *)
(* start at key packets, from which the refinement of GopFeed follows.     *)
(***************************************************************************)
EXTENDS RingBuffer, SequenceFacts

\* A dispatcher is known to one poller only: the map, the thread that works
\* with it and the tasks that name it all belong to its owner.
Owned ==
  /\ \A p \in Pollers : dmap[p] # None => owner[dmap[p]] = p
  /\ \A p \in Pollers : cur[p].d # None => owner[cur[p].d] = p
  /\ \A p \in Pollers : \A i \in DOMAIN queue[p] :
       queue[p][i].d # None => owner[queue[p][i].d] = p

\* What a thread holds at each point of its program.
Threads ==
  /\ \A p \in Pollers : pc[p] = "idle" => cur[p] = Idle
  /\ \A p \in Pollers : pc[p] = "loop" => cur[p].n > 0
  /\ \A p \in Pollers : pc[p] \in {"attach", "drop", "count"} => alive
  /\ \A p \in Pollers : pc[p] = "attach" =>
       /\ cur[p].d \in Dispatchers /\ cur[p].r \in Readers
       /\ cur[p].n = 0 /\ reader[cur[p].r] = "none"
  /\ \A p \in Pollers : cur[p].n > 0 =>
       /\ cur[p].d \in Dispatchers /\ cur[p].n = seen[cur[p].d]
       /\ cur[p].todo \subseteq attached[cur[p].d]
  /\ \A p \in Pollers : cur[p].n = 0 => cur[p].todo = {}
  /\ \A p, q \in Pollers : p # q /\ cur[p].r # None => cur[p].r # cur[q].r

\* A reader is registered with the dispatcher its deleter names.
Homes ==
  /\ \A d \in Dispatchers : \A r \in attached[d] :
       home[r] = d /\ reader[r] \in {"live", "expired"}
  /\ \A r \in Readers : reader[r] \in {"live", "expired"} =>
       home[r] \in Dispatchers /\ owner[home[r]] \in Pollers
  /\ \A p \in Pollers : \A i \in DOMAIN queue[p] : queue[p][i].op = "dealloc" =>
       /\ queue[p][i].r \in Readers /\ reader[queue[p][i].r] \in {"expired", "freed"}
       /\ home[queue[p][i].r] \in Dispatchers /\ owner[home[queue[p][i].r]] = p
  /\ \A d \in Dispatchers : owner[d] = None => attached[d] = {} /\ seen[d] = 0

\* The packets a dispatcher has not begun to hand out are queued for it:
\* they were written after the last it has begun ...
Fresh ==
  \A p \in Pollers : \A i \in DOMAIN queue[p] : queue[p][i].op = "write" =>
    /\ queue[p][i].d \in Dispatchers
    /\ queue[p][i].n > seen[queue[p][i].d] /\ queue[p][i].n <= Len(hist)

\* ... none before a queued one is missing ...
NoHole ==
  \A p \in Pollers : \A i \in DOMAIN queue[p] : queue[p][i].op = "write" =>
    \A m \in seen[queue[p][i].d] + 1 .. queue[p][i].n :
      \E j \in 1 .. i : queue[p][j] = WriteTask(queue[p][i].d, m)

\* ... they are queued in order ...
InOrder ==
  \A p \in Pollers : \A i \in DOMAIN queue[p] : \A j \in DOMAIN queue[p] :
    i < j /\ queue[p][i].op = "write" /\ queue[p][j].op = "write" /\ queue[p][i].d = queue[p][j].d
      => queue[p][i].n < queue[p][j].n

\* ... and a dispatcher in the map misses none of the packets written.
AllQueued ==
  \A p \in Pollers : dmap[p] # None =>
    \A m \in seen[dmap[p]] + 1 .. Len(hist) :
      \E j \in DOMAIN queue[p] : queue[p][j] = WriteTask(dmap[p], m)

Pending ==
  /\ \A d \in Dispatchers : seen[d] <= Len(hist)
  /\ Fresh /\ NoHole /\ InOrder /\ AllQueued

\* s is a run of consecutive packets and, unless it is empty, ends with n.
EndsAt(s, n) == Consecutive(s) /\ (s # <<>> => s[Len(s)] = n)

\* What a storage that has been written n packets caches.
CachesUpTo(s, n) == EndsAt(s.cache, n) /\ (~s.have_idr => s.cache = <<>>)

\* Some thread is handing out packet seen[d], which d has not stored yet.
Busy(d) == \E p \in Pollers : cur[p].d = d /\ cur[p].n > 0

\* Some write loop has still to visit r.
Due(r) == \E p \in Pollers : r \in cur[p].todo

\* How far each cache and each reader has got.
StoresKept ==
  \A d \in Dispatchers : CachesUpTo(store[d], IF Busy(d) THEN seen[d] - 1 ELSE seen[d])

ReadersFed ==
  \A d \in Dispatchers : \A r \in attached[d] :
    reader[r] = "live" => EndsAt(fed[r], IF Due(r) THEN seen[d] - 1 ELSE seen[d])

Feeds == CachesUpTo(ring, Len(hist)) /\ StoresKept /\ ReadersFed /\ GaplessFeed

IInv == TypeOK /\ Owned /\ Threads /\ Homes /\ Pending /\ Feeds
-----------------------------------------------------------------------------

USE RingAssumption

LEMMA EndsAtEmpty == ASSUME NEW n PROVE EndsAt(<<>>, n)
  BY DEF EndsAt, Consecutive

LEMMA EndsAtAppend ==
  ASSUME NEW s \in Seq(Nat), NEW n \in Nat, EndsAt(s, n - 1)
  PROVE  EndsAt(Append(s, n), n)
  BY DEF EndsAt, Consecutive

LEMMA EmptyCache == <<>> \in Caches
  BY DEF Caches

LEMMA OpenedType ==
  ASSUME NEW s \in Storage, NEW key \in BOOLEAN
  PROVE  Opened(s, key) \in Storage
<1>1. [s EXCEPT !.pre_key = key] \in Storage
  BY DEF Storage
<1>2. [cache |-> <<>>, have_idr |-> TRUE, pre_key |-> key] \in Storage
  BY EmptyCache DEF Storage
<1>3. QED
  BY <1>1, <1>2 DEF Opened

LEMMA CacheType ==
  ASSUME NEW s \in Storage, NEW n \in Nat, Len(s.cache) + 1 <= MaxSize
  PROVE  [s EXCEPT !.cache = Append(s.cache, n)] \in Storage
<1>1. Append(s.cache, n) \in Caches
  BY DEF Storage, Caches
<1>2. QED
  BY <1>1 DEF Storage

LEMMA StoreWriteType ==
  ASSUME NEW s \in Storage, NEW n \in Nat, NEW key \in BOOLEAN
  PROVE  StoreWrite(s, n, key) \in Storage
<1> DEFINE o == Opened(s, key)
<1>1. o \in Storage
  BY OpenedType
<1>2. [cache |-> <<>>, have_idr |-> FALSE, pre_key |-> key] \in Storage
  BY EmptyCache DEF Storage
<1>3. Len(o.cache) + 1 <= MaxSize => [o EXCEPT !.cache = Append(o.cache, n)] \in Storage
  BY <1>1, CacheType
<1>4. Len(o.cache) + 1 > MaxSize \/ Len(o.cache) + 1 <= MaxSize
  BY <1>1 DEF Storage, Caches
<1>5. QED
  BY <1>1, <1>2, <1>3, <1>4 DEF StoreWrite

LEMMA StoreWriteCaches ==
  ASSUME NEW s \in Storage, NEW n \in Nat, NEW key \in BOOLEAN,
         CachesUpTo(s, n - 1)
  PROVE  CachesUpTo(StoreWrite(s, n, key), n)
<1> DEFINE o == Opened(s, key)
<1>1. o \in Storage
  BY OpenedType
<1>2. CachesUpTo(o, n - 1)
  <2>1. CASE key /\ ~s.pre_key
    BY <2>1, EndsAtEmpty DEF Opened, CachesUpTo
  <2>2. CASE ~(key /\ ~s.pre_key)
    <3>1. o = [s EXCEPT !.pre_key = key]
      BY <2>2 DEF Opened
    <3>2. o.cache = s.cache /\ o.have_idr = s.have_idr
      BY <3>1 DEF Storage
    <3>3. QED
      BY <3>2 DEF CachesUpTo
  <2>3. QED
    BY <2>1, <2>2
<1>3. CASE ~o.have_idr
  BY <1>2, <1>3, EndsAtEmpty DEF StoreWrite, CachesUpTo
<1>4. CASE o.have_idr
  <2>1. EndsAt(Append(o.cache, n), n)
    BY <1>1, <1>2, EndsAtAppend DEF Storage, Caches, CachesUpTo
  <2>2. CachesUpTo([o EXCEPT !.cache = Append(o.cache, n)], n)
    BY <1>1, <1>4, <2>1 DEF Storage, CachesUpTo
  <2>3. CachesUpTo([cache |-> <<>>, have_idr |-> FALSE, pre_key |-> key], n)
    BY EndsAtEmpty DEF CachesUpTo
  <2>4. QED
    BY <1>4, <2>2, <2>3 DEF StoreWrite
<1>5. QED
  BY <1>1, <1>3, <1>4 DEF Storage

LEMMA InitIInv == Init => IInv
<1> SUFFICES ASSUME Init PROVE IInv OBVIOUS
<1>1. TypeOK
  BY EmptyCache DEF Init, TypeOK, EmptyStorage, Storage, Idle, Job
<1>2. Owned /\ Threads /\ Homes /\ Pending
  BY DEF Init, Owned, Threads, Homes, Pending, Fresh, NoHole, InOrder, AllQueued, Idle
<1>3. Feeds
  BY DEF Init, Feeds, StoresKept, ReadersFed, GaplessFeed, Consecutive,
         CachesUpTo, EndsAt, EmptyStorage
<1>4. QED
  BY <1>1, <1>2, <1>3 DEF IInv

LEMMA JobType ==
  /\ Idle \in Job
  /\ \A d \in Dispatchers, r \in Readers : Attaching(d, r) \in Job
  /\ \A d \in Dispatchers, n \in Nat, todo \in SUBSET Readers : Writing(d, n, todo) \in Job
  BY DEF Idle, Attaching, Writing, Job

LEMMA JobFields ==
  ASSUME NEW j \in Job
  PROVE  /\ j.d \in Dispatchers \cup {None} /\ j.n \in Nat
         /\ j.todo \in SUBSET Readers /\ j.r \in Readers \cup {None}
  BY DEF Job

LEMMA TaskType ==
  /\ \A d \in Dispatchers, n \in Nat : WriteTask(d, n) \in Tasks
  /\ \A d \in Dispatchers : ClearTask(d) \in Tasks
  /\ \A r \in Readers : DeallocTask(r) \in Tasks
  BY DEF WriteTask, ClearTask, DeallocTask, Tasks

LEMMA TaskFields ==
  ASSUME NEW t \in Tasks
  PROVE  t.d \in Dispatchers \cup {None} /\ t.n \in Nat /\ t.r \in Readers \cup {None}
  BY DEF Tasks

LEMMA NextTask ==
  ASSUME NEW q \in Seq(Tasks), q # <<>>
  PROVE  /\ 1 \in DOMAIN q /\ Head(q) = q[1] /\ Head(q) \in Tasks
         /\ Tail(q) \in Seq(Tasks) /\ Len(Tail(q)) = Len(q) - 1
         /\ \A i \in DOMAIN Tail(q) : i + 1 \in DOMAIN q /\ Tail(q)[i] = q[i + 1]
  OBVIOUS

LEMMA PostTask ==
  ASSUME NEW q \in Seq(Tasks), NEW t \in Tasks
  PROVE  /\ Append(q, t) \in Seq(Tasks)
         /\ Len(Append(q, t)) = Len(q) + 1
         /\ \A i \in DOMAIN q : i \in DOMAIN Append(q, t) /\ Append(q, t)[i] = q[i]
         /\ \A i \in DOMAIN Append(q, t) : i \in DOMAIN q \/ i = Len(q) + 1
         /\ Append(q, t)[Len(q) + 1] = t
  OBVIOUS

LEMMA StoreTypes ==
  ASSUME NEW s \in Storage
  PROVE  StoreClone(s) \in Storage /\ StoreClear(s) \in Storage /\ s.cache \in Seq(Nat)
<1>1. StoreClone(s) \in Storage
  BY DEF Storage, StoreClone
<1>2. StoreClear(s) \in Storage
  <2>1. <<>> \in Caches
    BY EmptyCache
  <2>2. \A c \in Caches : [s EXCEPT !.cache = c] \in Storage
    BY DEF Storage
  <2>3. QED
    BY <2>1, <2>2 DEF StoreClear
<1>3. QED
  BY <1>1, <1>2 DEF Storage, Caches

LEMMA AttachFindType ==
  ASSUME IInv, NEW p \in Pollers, NEW r \in Readers, AttachFind(p, r) PROVE TypeOK'
<1>1. StoreClone(ring) \in Storage /\ Len(hist) \in Nat
  BY StoreTypes DEF IInv, TypeOK
<1>2. CASE dmap[p] # None
  <2>1. dmap[p] \in Dispatchers
    BY <1>2 DEF IInv, TypeOK
  <2>2. cur' = [cur EXCEPT ![p] = Attaching(dmap[p], r)]
    BY <1>2 DEF AttachFind
  <2>3. cur' \in [Pollers -> Job]
    BY <2>1, <2>2, JobType DEF IInv, TypeOK
  <2>4. QED
    BY <1>2, <2>3 DEF AttachFind, IInv, TypeOK, readerVars
<1>3. CASE dmap[p] = None
  <2>1. PICK d \in Dispatchers :
          /\ dmap' = [dmap EXCEPT ![p] = d]
          /\ owner' = [owner EXCEPT ![d] = p]
          /\ store' = [store EXCEPT ![d] = StoreClone(ring)]
          /\ seen' = [seen EXCEPT ![d] = Len(hist)]
          /\ cur' = [cur EXCEPT ![p] = Attaching(d, r)]
    BY <1>3 DEF AttachFind
  <2>2. cur' \in [Pollers -> Job]
    BY <2>1, JobType DEF IInv, TypeOK
  <2>3. QED
    BY <1>1, <2>1, <2>2 DEF AttachFind, IInv, TypeOK, readerVars
<1>4. QED
  BY <1>2, <1>3

LEMMA AttachReaderType ==
  ASSUME IInv, NEW p \in Pollers, AttachReader(p) PROVE TypeOK'
<1>1. cur[p].d \in Dispatchers /\ cur[p].r \in Readers /\ cur[p] \in Job
  BY DEF AttachReader, IInv, Threads, TypeOK
<1>2. store[cur[p].d].cache \in Seq(Nat)
  BY <1>1, StoreTypes DEF IInv, TypeOK
<1>3. cur' \in [Pollers -> Job] /\ pc' \in [Pollers -> {"idle", "attach", "drop", "count", "loop"}]
  BY <1>1 DEF AttachReader, SizeChanged, IInv, TypeOK
<1>4. QED
  BY <1>1, <1>2, <1>3 DEF AttachReader, IInv, TypeOK, ringVars

LEMMA BeginWriteType ==
  ASSUME IInv, NEW p \in Pollers, BeginWrite(p) PROVE TypeOK'
<1> DEFINE t == Head(queue[p])
<1>1. queue[p] \in Seq(Tasks) /\ queue[p] # <<>>
  BY DEF BeginWrite, Take, IInv, TypeOK
<1>2. t \in Tasks /\ Tail(queue[p]) \in Seq(Tasks) /\ t = queue[p][1] /\ 1 \in DOMAIN queue[p]
  BY <1>1, NextTask
<1>3. t.d \in Dispatchers /\ t.n \in Nat
  BY <1>2, TaskFields DEF BeginWrite, Take, IInv, Pending, Fresh
<1>4. Writing(t.d, t.n, attached[t.d]) \in Job
  BY <1>3, JobType DEF IInv, TypeOK
<1>5. QED
  BY <1>2, <1>3, <1>4 DEF BeginWrite, Take, IInv, TypeOK, ringVars, readerVars

LEMMA PastType ==
  ASSUME IInv, NEW p \in Pollers, NEW r \in Readers, pc[p] = "loop"
  PROVE  cur[p].d \in Dispatchers /\ cur[p].n \in Nat /\ Past(p, r) \in Job
<1>1. cur[p].d \in Dispatchers /\ cur[p].n \in Nat /\ cur[p].todo \in SUBSET Readers
  BY JobFields DEF IInv, TypeOK, Threads
<1>2. QED
  BY <1>1, JobType DEF Past

LEMMA VisitLiveType ==
  ASSUME IInv, NEW p \in Pollers, NEW r \in Readers, VisitLive(p, r) PROVE TypeOK'
<1>1. Past(p, r) \in Job /\ cur[p].n \in Nat
  BY PastType DEF VisitLive
<1>2. fed' \in [Readers -> Seq(Nat)] /\ cur' \in [Pollers -> Job]
  BY <1>1 DEF VisitLive, Feed, IInv, TypeOK
<1>3. QED
  BY <1>2 DEF VisitLive, IInv, TypeOK, ringVars, dispVars

LEMMA EraseReaderType ==
  ASSUME TypeOK, NEW p \in Pollers, NEW d, NEW r, NEW next \in Job,
         EraseReader(p, d, r, next)
  PROVE  /\ attached' \in [Dispatchers -> SUBSET Readers]
         /\ size' \in [Dispatchers -> Int]
         /\ cur' \in [Pollers -> Job]
         /\ pc' \in [Pollers -> {"idle", "attach", "drop", "count", "loop"}]
<1>1. attached' \in [Dispatchers -> SUBSET Readers]
  BY DEF EraseReader, TypeOK
<1>2. size' \in [Dispatchers -> Int]
  <2>1. CASE d \in Dispatchers
    BY <2>1 DEF EraseReader, TypeOK
  <2>2. CASE d \notin Dispatchers
    <3>1. \A e \in Dispatchers : size'[e] = size[e]
      BY <2>2 DEF EraseReader, TypeOK
    <3>2. QED
      BY <3>1 DEF EraseReader, TypeOK
  <2>3. QED
    BY <2>1, <2>2
<1>3. cur' \in [Pollers -> Job]
  BY DEF EraseReader, SizeChanged, TypeOK
<1>4. pc' \in [Pollers -> {"idle", "attach", "drop", "count", "loop"}]
  BY DEF EraseReader, SizeChanged, TypeOK
<1>5. QED
  BY <1>1, <1>2, <1>3, <1>4

LEMMA VisitReleaseType ==
  ASSUME IInv, NEW p \in Pollers, NEW r \in Readers, VisitRelease(p, r) PROVE TypeOK'
<1>1. Past(p, r) \in Job /\ cur[p].n \in Nat
  BY PastType DEF VisitRelease
<1>2. fed' \in [Readers -> Seq(Nat)]
  BY <1>1 DEF VisitRelease, Feed, IInv, TypeOK
<1>3. QED
  BY <1>1, <1>2, EraseReaderType DEF VisitRelease, IInv, TypeOK, ringVars

LEMMA VisitExpiredType ==
  ASSUME IInv, NEW p \in Pollers, NEW r \in Readers, VisitExpired(p, r) PROVE TypeOK'
<1>1. Past(p, r) \in Job
  BY PastType DEF VisitExpired
<1>2. QED
  BY <1>1, EraseReaderType DEF VisitExpired, IInv, TypeOK, ringVars, readerVars

LEMMA EndWriteType ==
  ASSUME IInv, NEW p \in Pollers, EndWrite(p) PROVE TypeOK'
<1>1. cur[p].d \in Dispatchers /\ cur[p].n \in Nat /\ cur[p].n > 0 /\ cur[p].n <= Len(hist)
  BY JobFields DEF EndWrite, IInv, Threads, Pending, TypeOK
<1>2. hist[cur[p].n] \in BOOLEAN
  BY <1>1 DEF IInv, TypeOK
<1>3. StoreWrite(store[cur[p].d], cur[p].n, hist[cur[p].n]) \in Storage
  BY <1>1, <1>2, StoreWriteType DEF IInv, TypeOK
<1>4. QED
  BY <1>1, <1>3, JobType DEF EndWrite, IInv, TypeOK, ringVars, readerVars

LEMMA RunClearType ==
  ASSUME IInv, NEW p \in Pollers, RunClear(p) PROVE TypeOK'
<1> DEFINE d == Head(queue[p]).d
<1>1. Tail(queue[p]) \in Seq(Tasks)
  BY NextTask DEF RunClear, Take, IInv, TypeOK
<1>2. store' \in [Dispatchers -> Storage]
  BY StoreTypes DEF RunClear, IInv, TypeOK
<1>3. QED
  BY <1>1, <1>2 DEF RunClear, Take, IInv, TypeOK, ringVars, readerVars

LEMMA DeallocType ==
  ASSUME TypeOK, NEW p \in Pollers, NEW r, Dealloc(p, r)
  PROVE  /\ attached' \in [Dispatchers -> SUBSET Readers]
         /\ size' \in [Dispatchers -> Int]
         /\ cur' \in [Pollers -> Job]
         /\ pc' \in [Pollers -> {"idle", "attach", "drop", "count", "loop"}]
         /\ reader' \in [Readers -> {"none", "live", "expired", "freed"}]
  BY EraseReaderType, JobType DEF Dealloc, TypeOK

LEMMA RunDeallocType ==
  ASSUME IInv, NEW p \in Pollers, RunDealloc(p) PROVE TypeOK'
<1>1. Tail(queue[p]) \in Seq(Tasks)
  BY NextTask DEF RunDealloc, Take, IInv, TypeOK
<1>2. queue' \in [Pollers -> Seq(Tasks)]
  BY <1>1 DEF RunDealloc, Take, IInv, TypeOK
<1>3. QED
  BY <1>2, DeallocType DEF RunDealloc, IInv, TypeOK, ringVars

LEMMA ReleaseHereType ==
  ASSUME IInv, NEW p \in Pollers, NEW r \in Readers, ReleaseHere(p, r) PROVE TypeOK'
  BY DeallocType DEF ReleaseHere, IInv, TypeOK, ringVars

LEMMA ReleaseElsewhereType ==
  ASSUME IInv, NEW r \in Readers, ReleaseElsewhere(r) PROVE TypeOK'
<1> DEFINE p == owner[home[r]]
<1>1. p \in Pollers /\ home[r] \in Dispatchers
  BY DEF ReleaseElsewhere, IInv, Homes
<1>2. queue' \in [Pollers -> Seq(Tasks)]
  BY <1>1, PostTask, TaskType DEF ReleaseElsewhere, IInv, TypeOK
<1>3. QED
  BY <1>2 DEF ReleaseElsewhere, IInv, TypeOK, ringVars, dispVars

LEMMA JobValues ==
  /\ Idle.d = None /\ Idle.n = 0 /\ Idle.todo = {} /\ Idle.r = None
  /\ \A d, r : /\ Attaching(d, r).d = d /\ Attaching(d, r).n = 0
               /\ Attaching(d, r).todo = {} /\ Attaching(d, r).r = r
  /\ \A d, n, todo : /\ Writing(d, n, todo).d = d /\ Writing(d, n, todo).n = n
                     /\ Writing(d, n, todo).todo = todo /\ Writing(d, n, todo).r = None
  BY DEF Idle, Attaching, Writing

LEMMA TaskValues ==
  /\ \A d, n : WriteTask(d, n).op = "write" /\ WriteTask(d, n).d = d /\ WriteTask(d, n).n = n
  /\ \A d : ClearTask(d).op = "clear" /\ ClearTask(d).d = d
  /\ \A r : DeallocTask(r).op = "dealloc" /\ DeallocTask(r).d = None /\ DeallocTask(r).r = r
  BY DEF WriteTask, ClearTask, DeallocTask

(* What one poller thread's step does to the threads. *)

Moves(p, next) ==
  /\ cur'[p] = next
  /\ \A q \in Pollers \ {p} : cur'[q] = cur[q] /\ pc'[q] = pc[q]

LEMMA EraseReaderMoves ==
  ASSUME TypeOK, NEW p \in Pollers, NEW d, NEW r, NEW next \in Job, EraseReader(p, d, r, next)
  PROVE  /\ Moves(p, next)
         /\ \/ pc'[p] \in {"drop", "count"} /\ alive
            \/ pc'[p] = (IF next.n > 0 THEN "loop" ELSE "idle")
         /\ attached' = [attached EXCEPT ![d] = attached[d] \ {r}]
<1>1. cur'[p] = next /\ \A q \in Pollers \ {p} : cur'[q] = cur[q]
  BY DEF EraseReader, SizeChanged, TypeOK
<1>2. \A q \in Pollers \ {p} : pc'[q] = pc[q]
  BY DEF EraseReader, SizeChanged, TypeOK
<1>3. \/ pc'[p] \in {"drop", "count"} /\ alive
      \/ pc'[p] = (IF next.n > 0 THEN "loop" ELSE "idle")
  BY DEF EraseReader, SizeChanged, TypeOK
<1>4. QED
  BY <1>1, <1>2, <1>3 DEF Moves, EraseReader

LEMMA AttachFindMoves ==
  ASSUME IInv, NEW p \in Pollers, NEW r \in Readers, AttachFind(p, r)
  PROVE  \E d \in Dispatchers :
           /\ Moves(p, Attaching(d, r)) /\ pc'[p] = "attach"
           /\ owner'[d] = p /\ dmap'[p] = d
           /\ \A q \in Pollers \ {p} : dmap'[q] = dmap[q]
           /\ \A e \in Dispatchers \ {d} :
                owner'[e] = owner[e] /\ store'[e] = store[e] /\ seen'[e] = seen[e]
           /\ \/ /\ dmap[p] = d
                 /\ owner'[d] = owner[d] /\ store'[d] = store[d] /\ seen'[d] = seen[d]
              \/ /\ owner[d] = None
                 /\ store'[d] = StoreClone(ring) /\ seen'[d] = Len(hist)
<1>0. pc'[p] = "attach" /\ \A q \in Pollers \ {p} : pc'[q] = pc[q]
  BY DEF AttachFind, IInv, TypeOK
<1>1. CASE dmap[p] # None
  <2>1. dmap[p] \in Dispatchers /\ owner[dmap[p]] = p
    BY <1>1 DEF IInv, TypeOK, Owned
  <2>2. /\ cur' = [cur EXCEPT ![p] = Attaching(dmap[p], r)]
        /\ UNCHANGED <<dmap, owner, store, seen>>
    BY <1>1 DEF AttachFind
  <2>3. Moves(p, Attaching(dmap[p], r))
    BY <1>0, <2>2 DEF Moves, IInv, TypeOK
  <2>4. QED
    BY <1>0, <2>1, <2>2, <2>3
<1>2. CASE dmap[p] = None
  <2>1. PICK d \in Dispatchers :
          /\ owner[d] = None
          /\ dmap' = [dmap EXCEPT ![p] = d]
          /\ owner' = [owner EXCEPT ![d] = p]
          /\ store' = [store EXCEPT ![d] = StoreClone(ring)]
          /\ seen' = [seen EXCEPT ![d] = Len(hist)]
          /\ cur' = [cur EXCEPT ![p] = Attaching(d, r)]
    BY <1>2 DEF AttachFind
  <2>2. Moves(p, Attaching(d, r))
    BY <1>0, <2>1 DEF Moves, IInv, TypeOK
  <2>3. /\ owner'[d] = p /\ dmap'[p] = d /\ store'[d] = StoreClone(ring) /\ seen'[d] = Len(hist)
        /\ \A q \in Pollers \ {p} : dmap'[q] = dmap[q]
        /\ \A e \in Dispatchers \ {d} :
             owner'[e] = owner[e] /\ store'[e] = store[e] /\ seen'[e] = seen[e]
    BY <2>1 DEF IInv, TypeOK
  <2>4. QED
    BY <1>0, <2>1, <2>2, <2>3
<1>3. QED
  BY <1>1, <1>2

LEMMA AttachReaderMoves ==
  ASSUME IInv, NEW p \in Pollers, AttachReader(p)
  PROVE  /\ Moves(p, cur[p]) /\ pc'[p] \in {"drop", "count"}
         /\ cur[p].d \in Dispatchers /\ cur[p].r \in Readers /\ cur[p].n = 0
         /\ reader[cur[p].r] = "none"
<1>1. pc[p] = "attach" /\ alive /\ cur[p].n = 0
  BY DEF AttachReader, IInv, Threads
<1>2. Moves(p, cur[p])
  BY DEF AttachReader, SizeChanged, Moves, IInv, TypeOK
<1>3. pc'[p] \in {"drop", "count"}
  BY <1>1 DEF AttachReader, SizeChanged, IInv, TypeOK
<1>4. QED
  BY <1>1, <1>2, <1>3 DEF IInv, Threads

LEMMA CountReaderMoves ==
  ASSUME IInv, NEW p \in Pollers, CountReader(p)
  PROVE  \/ Moves(p, cur[p]) /\ pc'[p] = "loop" /\ cur[p].n > 0
         \/ Moves(p, Idle) /\ pc'[p] = "idle" /\ cur[p].n = 0
<1>1. cur[p].n \in Nat
  BY JobFields DEF IInv, TypeOK
<1>2. CASE cur[p].n > 0
  BY <1>2 DEF CountReader, Moves, IInv, TypeOK
<1>3. CASE cur[p].n = 0
  BY <1>3 DEF CountReader, Moves, IInv, TypeOK
<1>4. QED
  BY <1>1, <1>2, <1>3

LEMMA BeginWriteMoves ==
  ASSUME IInv, NEW p \in Pollers, BeginWrite(p)
  PROVE  \E t \in Tasks :
           /\ t = queue[p][1] /\ 1 \in DOMAIN queue[p] /\ t.op = "write"
           /\ t.d \in Dispatchers /\ t.n = seen[t.d] + 1 /\ t.n <= Len(hist)
           /\ owner[t.d] = p
           /\ Moves(p, Writing(t.d, t.n, attached[t.d])) /\ pc'[p] = "loop"
           /\ seen'[t.d] = t.n /\ \A e \in Dispatchers \ {t.d} : seen'[e] = seen[e]
           /\ queue' = [queue EXCEPT ![p] = Tail(queue[p])]
<1> DEFINE t == Head(queue[p])
<1>1. queue[p] \in Seq(Tasks) /\ queue[p] # <<>> /\ t.op = "write"
  BY DEF BeginWrite, Take, IInv, TypeOK
<1>2. t \in Tasks /\ t = queue[p][1] /\ 1 \in DOMAIN queue[p]
  BY <1>1, NextTask
<1>3. t.d \in Dispatchers /\ t.n > seen[t.d] /\ t.n <= Len(hist)
  BY <1>1, <1>2 DEF IInv, Pending, Fresh
<1>4. t.n \in Nat /\ seen[t.d] \in Nat
  BY <1>2, <1>3, TaskFields DEF IInv, TypeOK
<1>5. PICK j \in 1 .. 1 : queue[p][j] = WriteTask(t.d, seen[t.d] + 1)
  <2>1. seen[t.d] + 1 \in seen[t.d] + 1 .. t.n
    BY <1>3, <1>4
  <2>2. QED
    BY <1>1, <1>2, <2>1 DEF IInv, Pending, NoHole
<1>6. t.n = seen[t.d] + 1
  BY <1>2, <1>5, TaskValues
<1>7. Moves(p, Writing(t.d, t.n, attached[t.d])) /\ pc'[p] = "loop"
  BY DEF BeginWrite, Moves, IInv, TypeOK
<1>8. seen'[t.d] = t.n /\ \A e \in Dispatchers \ {t.d} : seen'[e] = seen[e]
  BY <1>3 DEF BeginWrite, IInv, TypeOK
<1>9. owner[t.d] = p
  BY <1>2, <1>3 DEF IInv, Owned
<1>10. QED
  BY <1>1, <1>2, <1>3, <1>6, <1>7, <1>8, <1>9 DEF BeginWrite, Take

LEMMA PastMoves ==
  ASSUME IInv, NEW p \in Pollers, NEW r \in cur[p].todo, pc[p] = "loop"
  PROVE  /\ cur[p].d \in Dispatchers /\ owner[cur[p].d] = p
         /\ cur[p].n \in Nat /\ cur[p].n > 0 /\ cur[p].n = seen[cur[p].d]
         /\ r \in attached[cur[p].d] /\ home[r] = cur[p].d
         /\ Past(p, r).d = cur[p].d /\ Past(p, r).n = cur[p].n
         /\ Past(p, r).todo = cur[p].todo \ {r} /\ Past(p, r).r = None
<1>1. /\ cur[p].d \in Dispatchers /\ cur[p].n \in Nat /\ cur[p].n > 0
      /\ cur[p].n = seen[cur[p].d] /\ r \in attached[cur[p].d]
  BY JobFields DEF IInv, TypeOK, Threads
<1>2. owner[cur[p].d] = p
  BY <1>1 DEF IInv, Owned
<1>3. home[r] = cur[p].d
  BY <1>1 DEF IInv, Homes
<1>4. QED
  BY <1>1, <1>2, <1>3, JobValues DEF Past

LEMMA VisitLiveMoves ==
  ASSUME IInv, NEW p \in Pollers, NEW r \in Readers, VisitLive(p, r)
  PROVE  Moves(p, Past(p, r)) /\ pc' = pc
  BY DEF VisitLive, Moves, IInv, TypeOK

LEMMA EndWriteMoves ==
  ASSUME IInv, NEW p \in Pollers, EndWrite(p)
  PROVE  /\ Moves(p, Idle) /\ pc'[p] = "idle"
         /\ cur[p].d \in Dispatchers /\ owner[cur[p].d] = p
         /\ cur[p].n \in Nat /\ cur[p].n > 0 /\ cur[p].n = seen[cur[p].d]
         /\ cur[p].n <= Len(hist) /\ cur[p].todo = {}
<1>1. Moves(p, Idle) /\ pc'[p] = "idle"
  BY DEF EndWrite, Moves, IInv, TypeOK
<1>2. /\ cur[p].n \in Nat /\ cur[p].n > 0 /\ cur[p].d \in Dispatchers
      /\ cur[p].n = seen[cur[p].d] /\ cur[p].todo = {}
  BY JobFields DEF EndWrite, IInv, TypeOK, Threads
<1>3. owner[cur[p].d] = p /\ cur[p].n <= Len(hist)
  BY <1>2 DEF IInv, Owned, Pending
<1>4. QED
  BY <1>1, <1>2, <1>3

LEMMA DeallocMoves ==
  ASSUME IInv, NEW p \in Pollers, NEW r \in Readers, Dealloc(p, r), pc[p] = "idle",
         reader[r] # "none"
  PROVE  /\ Moves(p, Idle)
         /\ pc'[p] = "idle" \/ (pc'[p] \in {"drop", "count"} /\ alive)
         /\ reader' = [reader EXCEPT ![r] = "freed"]
         /\ \A d \in Dispatchers : attached'[d] = attached[d] \ {r}
<1>1. cur[p] = Idle /\ Idle.n = 0
  BY JobValues DEF IInv, Threads
<1>2. CASE r \in attached[home[r]] /\ EraseReader(p, home[r], r, Idle)
  <2>1. /\ Moves(p, Idle)
        /\ pc'[p] = "idle" \/ (pc'[p] \in {"drop", "count"} /\ alive)
        /\ attached' = [attached EXCEPT ![home[r]] = attached[home[r]] \ {r}]
    BY <1>1, <1>2, EraseReaderMoves, JobType DEF IInv
  <2>2. \A d \in Dispatchers : attached'[d] = attached[d] \ {r}
    BY <2>1 DEF IInv, TypeOK, Homes
  <2>3. QED
    BY <2>1, <2>2 DEF Dealloc
<1>3. CASE r \notin attached[home[r]] /\ UNCHANGED <<attached, size, pc, cur>>
  <2>1. \A d \in Dispatchers : r \notin attached[d]
    BY <1>3 DEF IInv, Homes
  <2>2. QED
    BY <1>1, <1>3, <2>1 DEF Dealloc, Moves
<1>4. QED
  BY <1>2, <1>3 DEF Dealloc

LEMMA RunDeallocMoves ==
  ASSUME IInv, NEW p \in Pollers, RunDealloc(p)
  PROVE  \E r \in Readers :
           /\ Dealloc(p, r) /\ pc[p] = "idle" /\ reader[r] \in {"expired", "freed"}
           /\ owner[home[r]] = p /\ home[r] \in Dispatchers
           /\ queue' = [queue EXCEPT ![p] = Tail(queue[p])]
<1> DEFINE t == Head(queue[p])
<1>1. queue[p] \in Seq(Tasks) /\ queue[p] # <<>> /\ t.op = "dealloc"
  BY DEF RunDealloc, Take, IInv, TypeOK
<1>2. t = queue[p][1] /\ 1 \in DOMAIN queue[p]
  BY <1>1, NextTask
<1>3. /\ t.r \in Readers /\ reader[t.r] \in {"expired", "freed"} /\ owner[home[t.r]] = p
      /\ home[t.r] \in Dispatchers
  BY <1>1, <1>2 DEF IInv, Homes
<1>4. QED
  BY <1>3 DEF RunDealloc, Take

(* Owned. *)

LEMMA MovesOwned ==
  ASSUME IInv, NEW p \in Pollers, NEW next, Moves(p, next),
         next.d # None => owner[next.d] = p, UNCHANGED <<dmap, owner, queue>>
  PROVE  Owned'
  BY DEF Moves, IInv, Owned

LEMMA AttachFindOwned ==
  ASSUME IInv, NEW p \in Pollers, NEW r \in Readers, AttachFind(p, r) PROVE Owned'
<1>1. PICK d \in Dispatchers :
        /\ Moves(p, Attaching(d, r)) /\ owner'[d] = p /\ dmap'[p] = d
        /\ \A q \in Pollers \ {p} : dmap'[q] = dmap[q]
        /\ \A e \in Dispatchers \ {d} : owner'[e] = owner[e]
        /\ owner[d] \in {p, None}
  BY AttachFindMoves DEF IInv, Owned
<1>2. queue' = queue
  BY DEF AttachFind
<1>3. \A e \in Dispatchers, q \in Pollers : owner[e] = q => owner'[e] = q
  BY <1>1
<1> \A q \in Pollers :
      dmap[q] \in Dispatchers \cup {None} /\ cur[q].d \in Dispatchers \cup {None}
  BY JobFields DEF IInv, TypeOK
<1>4. \A q \in Pollers : dmap'[q] # None => owner'[dmap'[q]] = q
  BY <1>1, <1>3 DEF IInv, Owned
<1>5. \A q \in Pollers : cur'[q].d # None => owner'[cur'[q].d] = q
  BY <1>1, <1>3, JobValues DEF Moves, IInv, Owned
<1>6. \A q \in Pollers : \A i \in DOMAIN queue[q] :
        queue[q][i].d # None => owner'[queue[q][i].d] = q
  BY <1>3, TaskFields DEF IInv, Owned, TypeOK
<1>7. QED
  BY <1>2, <1>4, <1>5, <1>6 DEF Owned

LEMMA TailOwned ==
  ASSUME IInv, NEW p \in Pollers, queue[p] # <<>>,
         queue' = [queue EXCEPT ![p] = Tail(queue[p])], owner' = owner
  PROVE  \A q \in Pollers : \A i \in DOMAIN queue'[q] :
           queue'[q][i].d # None => owner'[queue'[q][i].d] = q
<1>1. queue[p] \in Seq(Tasks)
  BY DEF IInv, TypeOK
<1>2. \A i \in DOMAIN Tail(queue[p]) :
        i + 1 \in DOMAIN queue[p] /\ Tail(queue[p])[i] = queue[p][i + 1]
  BY <1>1, NextTask
<1>3. QED
  BY <1>2 DEF IInv, Owned, TypeOK

LEMMA BeginWriteOwned ==
  ASSUME IInv, NEW p \in Pollers, BeginWrite(p) PROVE Owned'
<1>1. PICK t \in Tasks : /\ owner[t.d] = p /\ Moves(p, Writing(t.d, t.n, attached[t.d]))
                         /\ queue' = [queue EXCEPT ![p] = Tail(queue[p])]
  BY BeginWriteMoves
<1>2. UNCHANGED <<dmap, owner>> /\ queue[p] # <<>>
  BY DEF BeginWrite, Take, ringVars
<1>3. \A q \in Pollers : cur'[q].d # None => owner'[cur'[q].d] = q
  BY <1>1, <1>2, JobValues DEF Moves, IInv, Owned
<1>4. QED
  BY <1>1, <1>2, <1>3, TailOwned DEF IInv, Owned

LEMMA VisitLiveOwned ==
  ASSUME IInv, NEW p \in Pollers, NEW r \in Readers, VisitLive(p, r) PROVE Owned'
<1>1. owner[Past(p, r).d] = p
  BY PastMoves DEF VisitLive
<1>2. QED
  BY <1>1, VisitLiveMoves, MovesOwned DEF VisitLive, ringVars, dispVars

LEMMA VisitReleaseOwned ==
  ASSUME IInv, NEW p \in Pollers, NEW r \in Readers, VisitRelease(p, r) PROVE Owned'
  BY EraseReaderMoves, PastType, PastMoves, MovesOwned DEF VisitRelease, IInv, ringVars

LEMMA VisitExpiredOwned ==
  ASSUME IInv, NEW p \in Pollers, NEW r \in Readers, VisitExpired(p, r) PROVE Owned'
  BY EraseReaderMoves, PastType, PastMoves, MovesOwned DEF VisitExpired, IInv, ringVars

LEMMA RunDeallocOwned ==
  ASSUME IInv, NEW p \in Pollers, RunDealloc(p) PROVE Owned'
<1>1. PICK r \in Readers : Dealloc(p, r) /\ pc[p] = "idle" /\ reader[r] \in {"expired", "freed"}
  BY RunDeallocMoves
<1>2. Moves(p, Idle)
  BY <1>1, DeallocMoves
<1>3. UNCHANGED <<dmap, owner>> /\ queue[p] # <<>> /\ queue' = [queue EXCEPT ![p] = Tail(queue[p])]
  BY DEF RunDealloc, Take, ringVars
<1>4. \A q \in Pollers : cur'[q].d # None => owner'[cur'[q].d] = q
  BY <1>2, <1>3, JobValues DEF Moves, IInv, Owned
<1>5. QED
  BY <1>3, <1>4, TailOwned DEF IInv, Owned

LEMMA ReleaseHereOwned ==
  ASSUME IInv, NEW p \in Pollers, NEW r \in Readers, ReleaseHere(p, r) PROVE Owned'
<1>1. Moves(p, Idle)
  BY DeallocMoves DEF ReleaseHere
<1>2. QED
  BY <1>1, MovesOwned, JobValues DEF ReleaseHere, ringVars

(* Threads. *)

LEMMA AttachFindThreads ==
  ASSUME IInv, NEW p \in Pollers, NEW r \in Readers, AttachFind(p, r) PROVE Threads'
<1>1. PICK d \in Dispatchers :
        /\ Moves(p, Attaching(d, r)) /\ pc'[p] = "attach"
        /\ \A e \in Dispatchers \ {d} : seen'[e] = seen[e]
        /\ (dmap[p] = d /\ seen'[d] = seen[d]) \/ owner[d] = None
  BY AttachFindMoves
<1>2. \A q \in Pollers : cur[q].n > 0 => seen'[cur[q].d] = seen[cur[q].d]
  BY <1>1 DEF IInv, Owned, Threads
<1>3. UNCHANGED <<attached, reader, alive>> /\ alive /\ reader[r] = "none"
      /\ \A q \in Pollers : cur[q].r # r
  BY DEF AttachFind, readerVars
<1>4. QED
  BY <1>1, <1>2, <1>3, JobValues DEF Moves, IInv, Threads

LEMMA AttachReaderThreads ==
  ASSUME IInv, NEW p \in Pollers, AttachReader(p) PROVE Threads'
<1> DEFINE r == cur[p].r
<1>1. /\ Moves(p, cur[p]) /\ pc'[p] \in {"drop", "count"} /\ alive
      /\ cur[p].d \in Dispatchers /\ r \in Readers /\ r # None
  BY AttachReaderMoves DEF AttachReader, IInv, Threads
<1>2. UNCHANGED <<alive, seen>> /\ \A q \in Readers \ {r} : reader'[q] = reader[q]
  BY <1>1 DEF AttachReader, IInv, TypeOK, ringVars
<1>3. \A d \in Dispatchers : attached[d] \subseteq attached'[d]
  BY <1>1 DEF AttachReader, IInv, TypeOK
<1>4. QED
  BY <1>1, <1>2, <1>3 DEF Moves, IInv, Threads

LEMMA CountReaderThreads ==
  ASSUME IInv, NEW p \in Pollers, CountReader(p) PROVE Threads'
<1>1. \/ Moves(p, cur[p]) /\ pc'[p] = "loop" /\ cur[p].n > 0
      \/ Moves(p, Idle) /\ pc'[p] = "idle"
  BY CountReaderMoves
<1>2. UNCHANGED <<alive, seen, attached, reader>>
  BY DEF CountReader, dispVars, readerVars
<1>3. QED
  BY <1>1, <1>2, JobValues DEF Moves, IInv, Threads

LEMMA BeginWriteThreads ==
  ASSUME IInv, NEW p \in Pollers, BeginWrite(p) PROVE Threads'
<1>1. PICK t \in Tasks :
        /\ t.d \in Dispatchers /\ t.n = seen[t.d] + 1 /\ owner[t.d] = p
        /\ Moves(p, Writing(t.d, t.n, attached[t.d])) /\ pc'[p] = "loop"
        /\ seen'[t.d] = t.n /\ \A e \in Dispatchers \ {t.d} : seen'[e] = seen[e]
  BY BeginWriteMoves
<1>2. UNCHANGED <<alive, attached, reader>> /\ seen[t.d] \in Nat
  BY <1>1 DEF BeginWrite, ringVars, readerVars, IInv, TypeOK
<1>3. \A q \in Pollers \ {p} : cur[q].n > 0 => seen'[cur[q].d] = seen[cur[q].d]
  BY <1>1 DEF IInv, Owned, Threads
<1>4. QED
  BY <1>1, <1>2, <1>3, JobValues DEF Moves, IInv, Threads

\* A write loop of p that has dealt with r, whether r stays or leaves.
LEMMA PastThreads ==
  ASSUME IInv, NEW p \in Pollers, NEW r \in cur[p].todo, pc[p] = "loop",
         Moves(p, Past(p, r)),
         pc'[p] = "loop" \/ (pc'[p] \in {"drop", "count"} /\ alive),
         attached' = attached \/
           attached' = [attached EXCEPT ![cur[p].d] = attached[cur[p].d] \ {r}],
         \A q \in Readers : reader'[q] = "none" <=> reader[q] = "none",
         UNCHANGED <<alive, seen>>
  PROVE  Threads'
<1>1. /\ cur[p].d \in Dispatchers /\ owner[cur[p].d] = p
      /\ cur[p].n > 0 /\ cur[p].n = seen[cur[p].d]
      /\ Past(p, r).d = cur[p].d /\ Past(p, r).n = cur[p].n
      /\ Past(p, r).todo = cur[p].todo \ {r} /\ Past(p, r).r = None
  BY PastMoves
<1>2. \A q \in Pollers \ {p} : cur[q].n > 0 => attached'[cur[q].d] = attached[cur[q].d]
  BY <1>1 DEF IInv, Owned, Threads, TypeOK
<1>3. Past(p, r).todo \subseteq attached'[cur[p].d]
  BY <1>1 DEF IInv, Threads, TypeOK
<1>4. QED
  BY <1>1, <1>2, <1>3 DEF Moves, IInv, Threads

LEMMA VisitLiveThreads ==
  ASSUME IInv, NEW p \in Pollers, NEW r \in Readers, VisitLive(p, r) PROVE Threads'
<1>1. Moves(p, Past(p, r)) /\ pc' = pc
  BY VisitLiveMoves
<1>2. pc[p] = "loop" /\ r \in cur[p].todo /\ UNCHANGED <<alive, seen, attached, reader>>
  BY DEF VisitLive, ringVars, dispVars
<1>3. QED
  BY <1>1, <1>2, PastThreads

LEMMA VisitReleaseThreads ==
  ASSUME IInv, NEW p \in Pollers, NEW r \in Readers, VisitRelease(p, r) PROVE Threads'
<1>1. pc[p] = "loop" /\ r \in cur[p].todo /\ reader[r] = "live" /\ UNCHANGED <<alive, seen>>
  BY DEF VisitRelease, ringVars
<1>2. Past(p, r) \in Job /\ Past(p, r).n > 0
  BY <1>1, PastType, PastMoves
<1>3. /\ Moves(p, Past(p, r))
      /\ pc'[p] = "loop" \/ (pc'[p] \in {"drop", "count"} /\ alive)
      /\ attached' = [attached EXCEPT ![cur[p].d] = attached[cur[p].d] \ {r}]
  BY <1>2, EraseReaderMoves DEF VisitRelease, IInv
<1>4. \A q \in Readers : reader'[q] = "none" <=> reader[q] = "none"
  BY <1>1 DEF VisitRelease, IInv, TypeOK
<1>5. QED
  BY <1>1, <1>3, <1>4, PastThreads

LEMMA VisitExpiredThreads ==
  ASSUME IInv, NEW p \in Pollers, NEW r \in Readers, VisitExpired(p, r) PROVE Threads'
<1>1. pc[p] = "loop" /\ r \in cur[p].todo /\ UNCHANGED <<alive, seen, reader>>
  BY DEF VisitExpired, ringVars, readerVars
<1>2. Past(p, r) \in Job /\ Past(p, r).n > 0
  BY <1>1, PastType, PastMoves
<1>3. /\ Moves(p, Past(p, r))
      /\ pc'[p] = "loop" \/ (pc'[p] \in {"drop", "count"} /\ alive)
      /\ attached' = [attached EXCEPT ![cur[p].d] = attached[cur[p].d] \ {r}]
  BY <1>2, EraseReaderMoves DEF VisitExpired, IInv
<1>4. QED
  BY <1>1, <1>3, PastThreads

LEMMA EndWriteThreads ==
  ASSUME IInv, NEW p \in Pollers, EndWrite(p) PROVE Threads'
<1>1. Moves(p, Idle) /\ pc'[p] = "idle"
  BY EndWriteMoves
<1>2. UNCHANGED <<alive, seen, attached, reader>>
  BY DEF EndWrite, ringVars, readerVars
<1>3. QED
  BY <1>1, <1>2, JobValues DEF Moves, IInv, Threads

LEMMA DeallocThreads ==
  ASSUME IInv, NEW p \in Pollers, NEW r \in Readers, Dealloc(p, r), pc[p] = "idle",
         reader[r] # "none", owner[home[r]] = p, UNCHANGED <<alive, seen>>
  PROVE  Threads'
<1>1. /\ Moves(p, Idle)
      /\ pc'[p] = "idle" \/ (pc'[p] \in {"drop", "count"} /\ alive)
      /\ reader' = [reader EXCEPT ![r] = "freed"]
      /\ \A d \in Dispatchers : attached'[d] = attached[d] \ {r}
  BY DeallocMoves
<1>2. \A q \in Readers : reader'[q] = "none" <=> reader[q] = "none"
  BY <1>1 DEF IInv, TypeOK
<1>3. \A q \in Pollers \ {p} : cur[q].n > 0 => r \notin cur[q].todo
  <2> SUFFICES ASSUME NEW q \in Pollers \ {p}, cur[q].n > 0, r \in cur[q].todo PROVE FALSE
    OBVIOUS
  <2>1. r \in attached[cur[q].d] /\ cur[q].d \in Dispatchers
    BY DEF IInv, Threads
  <2>2. home[r] = cur[q].d /\ owner[cur[q].d] = q
    BY <2>1 DEF IInv, Homes, Owned
  <2>3. QED
    BY <2>2
<1>4. QED
  BY <1>1, <1>2, <1>3, JobValues DEF Moves, IInv, Threads

LEMMA DeleteDispatcherThreads ==
  ASSUME IInv, NEW p \in Pollers, NEW d \in Dispatchers, DeleteDispatcher(p, d)
  PROVE  Threads'
<1>1. \A q \in Pollers : cur[q].d # d
  BY DEF DeleteDispatcher, Referenced
<1>2. \A q \in Pollers : cur[q].n > 0 => attached'[cur[q].d] = attached[cur[q].d]
  BY <1>1 DEF DeleteDispatcher, IInv, Threads, TypeOK
<1>3. QED
  BY <1>2 DEF DeleteDispatcher, IInv, Threads, ringVars, pollerVars

(* Homes. *)

LEMMA AttachFindHomes ==
  ASSUME IInv, NEW p \in Pollers, NEW r \in Readers, AttachFind(p, r) PROVE Homes'
<1>1. PICK d \in Dispatchers :
        /\ owner'[d] = p
        /\ \A e \in Dispatchers \ {d} : owner'[e] = owner[e] /\ seen'[e] = seen[e]
        /\ owner[d] \in {p, None}
  BY AttachFindMoves DEF IInv, Owned
<1>2. UNCHANGED <<attached, home, reader, queue>>
  BY DEF AttachFind, readerVars
<1>3. \A e \in Dispatchers, q \in Pollers : owner[e] = q => owner'[e] = q
  BY <1>1
<1>4. \A e \in Dispatchers : owner'[e] = None => owner[e] = None /\ seen'[e] = seen[e]
  BY <1>1
<1>5. QED
  BY <1>2, <1>3, <1>4 DEF IInv, Homes

LEMMA AttachReaderHomes ==
  ASSUME IInv, NEW p \in Pollers, AttachReader(p) PROVE Homes'
<1> DEFINE d == cur[p].d
           r == cur[p].r
<1>1. d \in Dispatchers /\ r \in Readers /\ reader[r] = "none" /\ owner[d] = p
  BY AttachReaderMoves DEF IInv, Owned
<1>2. /\ attached' = [attached EXCEPT ![d] = attached[d] \cup {r}]
      /\ reader' = [reader EXCEPT ![r] = "live"] /\ home' = [home EXCEPT ![r] = d]
      /\ UNCHANGED <<owner, seen, queue>>
  BY DEF AttachReader
<1>3. \A e \in Dispatchers : r \notin attached[e]
  BY <1>1 DEF IInv, Homes
<1>4. /\ \A q \in Readers \ {r} : reader'[q] = reader[q] /\ home'[q] = home[q]
      /\ reader'[r] = "live" /\ home'[r] = d
      /\ \A e \in Dispatchers \ {d} : attached'[e] = attached[e]
      /\ attached'[d] = attached[d] \cup {r}
  BY <1>1, <1>2 DEF IInv, TypeOK
<1>5. \A e \in Dispatchers : \A q \in attached'[e] :
        home'[q] = e /\ reader'[q] \in {"live", "expired"}
  <2> SUFFICES ASSUME NEW e \in Dispatchers, NEW q \in attached'[e]
               PROVE  home'[q] = e /\ reader'[q] \in {"live", "expired"}
    OBVIOUS
  <2>1. CASE q = r
    <3>1. e = d
      BY <1>3, <1>4, <2>1
    <3>2. QED
      BY <1>4, <2>1, <3>1
  <2>2. CASE q # r
    <3>1. q \in attached[e]
      BY <1>4, <2>2
    <3>2. q \in Readers
      BY <3>1 DEF IInv, TypeOK
    <3>3. QED
      BY <1>4, <2>2, <3>1, <3>2 DEF IInv, Homes
  <2>3. QED
    BY <2>1, <2>2
<1>6. \A q \in Readers : reader'[q] \in {"live", "expired"} =>
        home'[q] \in Dispatchers /\ owner[home'[q]] \in Pollers
  BY <1>1, <1>4 DEF IInv, Homes
<1>7. \A q \in Pollers : \A i \in DOMAIN queue[q] : queue[q][i].op = "dealloc" =>
        queue[q][i].r # r
  BY <1>1 DEF IInv, Homes
<1>8. \A e \in Dispatchers : owner[e] = None => attached'[e] = {} /\ seen[e] = 0
  BY <1>1, <1>4 DEF IInv, Homes
<1>9. QED
  BY <1>2, <1>4, <1>5, <1>6, <1>7, <1>8 DEF IInv, Homes

LEMMA DeallocHomes ==
  ASSUME IInv, NEW p \in Pollers, NEW r \in Readers, Dealloc(p, r), pc[p] = "idle",
         reader[r] # "none", UNCHANGED <<owner, seen, home>>,
         \A q \in Pollers : \A i \in DOMAIN queue'[q] : \E j \in DOMAIN queue[q] :
           queue'[q][i] = queue[q][j]
  PROVE  Homes'
<1>1. /\ reader' = [reader EXCEPT ![r] = "freed"]
      /\ \A d \in Dispatchers : attached'[d] = attached[d] \ {r}
  BY DeallocMoves
<1>2. /\ reader'[r] = "freed" /\ \A q \in Readers \ {r} : reader'[q] = reader[q]
  BY <1>1 DEF IInv, TypeOK
<1>3. \A q \in Pollers : \A i \in DOMAIN queue'[q] : queue'[q][i].op = "dealloc" =>
        /\ queue'[q][i].r \in Readers /\ reader'[queue'[q][i].r] \in {"expired", "freed"}
        /\ home[queue'[q][i].r] \in Dispatchers /\ owner[home[queue'[q][i].r]] = q
  BY <1>2 DEF IInv, Homes
<1>4. \A d \in Dispatchers : \A q \in attached'[d] :
        home[q] = d /\ reader'[q] \in {"live", "expired"}
  BY <1>1, <1>2 DEF IInv, Homes, TypeOK
<1>5. QED
  BY <1>1, <1>2, <1>3, <1>4 DEF IInv, Homes

LEMMA TailTasks ==
  ASSUME IInv, NEW p \in Pollers, queue[p] # <<>>,
         queue' = [queue EXCEPT ![p] = Tail(queue[p])]
  PROVE  \A q \in Pollers : \A i \in DOMAIN queue'[q] : \E j \in DOMAIN queue[q] :
           queue'[q][i] = queue[q][j]
<1>1. \A i \in DOMAIN Tail(queue[p]) :
        i + 1 \in DOMAIN queue[p] /\ Tail(queue[p])[i] = queue[p][i + 1]
  BY NextTask DEF IInv, TypeOK
<1>2. QED
  BY <1>1 DEF IInv, TypeOK

LEMMA BeginWriteHomes ==
  ASSUME IInv, NEW p \in Pollers, BeginWrite(p) PROVE Homes'
<1>1. PICK t \in Tasks : /\ owner[t.d] = p /\ t.d \in Dispatchers
                         /\ seen'[t.d] = t.n /\ \A e \in Dispatchers \ {t.d} : seen'[e] = seen[e]
  BY BeginWriteMoves
<1>2. /\ queue[p] # <<>> /\ queue' = [queue EXCEPT ![p] = Tail(queue[p])]
      /\ UNCHANGED <<attached, home, reader, owner>>
  BY DEF BeginWrite, Take, readerVars
<1>3. \A q \in Pollers : \A i \in DOMAIN queue'[q] : \E j \in DOMAIN queue[q] :
        queue'[q][i] = queue[q][j]
  BY <1>2, TailTasks
<1>4. QED
  BY <1>1, <1>2, <1>3 DEF IInv, Homes

\* A write loop drops r from its dispatcher's readers.
LEMMA PastHomes ==
  ASSUME IInv, NEW p \in Pollers, NEW r \in Readers, VisitRelease(p, r) \/ VisitExpired(p, r)
  PROVE  Homes'
<1>1. /\ pc[p] = "loop" /\ r \in cur[p].todo /\ UNCHANGED <<owner, seen, queue, home>>
      /\ reader[r] \in {"live", "expired"}
      /\ reader' = reader \/ reader' = [reader EXCEPT ![r] = "freed"]
      /\ EraseReader(p, cur[p].d, r, Past(p, r))
  BY DEF VisitRelease, VisitExpired, readerVars
<1>2. /\ cur[p].d \in Dispatchers /\ home[r] = cur[p].d
      /\ attached' = [attached EXCEPT ![cur[p].d] = attached[cur[p].d] \ {r}]
  BY <1>1, PastMoves DEF EraseReader
<1>3. \A d \in Dispatchers : attached'[d] \subseteq attached[d] \ {r}
  BY <1>1, <1>2 DEF IInv, Homes, TypeOK
<1>4. /\ \A q \in Readers \ {r} : reader'[q] = reader[q]
      /\ reader'[r] = reader[r] \/ reader'[r] = "freed"
  BY <1>1 DEF IInv, TypeOK
<1>5. \A d \in Dispatchers : \A q \in attached'[d] :
        home[q] = d /\ reader'[q] \in {"live", "expired"}
  BY <1>3, <1>4 DEF IInv, Homes, TypeOK
<1>6. \A q \in Pollers : \A i \in DOMAIN queue[q] : queue[q][i].op = "dealloc" =>
        reader'[queue[q][i].r] \in {"expired", "freed"}
  BY <1>1, <1>4 DEF IInv, Homes
<1>7. \A d \in Dispatchers : owner[d] = None => attached'[d] = {}
  BY <1>3 DEF IInv, Homes
<1>8. \A q \in Readers : reader'[q] \in {"live", "expired"} => reader[q] \in {"live", "expired"}
  BY <1>4
<1>9. QED
  BY <1>1, <1>5, <1>6, <1>7, <1>8 DEF IInv, Homes

LEMMA RunDeallocHomes ==
  ASSUME IInv, NEW p \in Pollers, RunDealloc(p) PROVE Homes'
<1>1. PICK r \in Readers : /\ Dealloc(p, r) /\ pc[p] = "idle" /\ reader[r] \in {"expired", "freed"}
                           /\ queue' = [queue EXCEPT ![p] = Tail(queue[p])]
  BY RunDeallocMoves
<1>2. queue[p] # <<>> /\ UNCHANGED <<owner, seen, home>>
  BY DEF RunDealloc, Take
<1>3. QED
  BY <1>1, <1>2, TailTasks, DeallocHomes

LEMMA ReleaseHereHomes ==
  ASSUME IInv, NEW p \in Pollers, NEW r \in Readers, ReleaseHere(p, r) PROVE Homes'
  BY DeallocHomes DEF ReleaseHere

LEMMA ReleaseElsewhereHomes ==
  ASSUME IInv, NEW r \in Readers, ReleaseElsewhere(r) PROVE Homes'
<1> DEFINE p == owner[home[r]]
<1>1. p \in Pollers /\ home[r] \in Dispatchers /\ reader[r] = "live"
  BY DEF ReleaseElsewhere, IInv, Homes
<1>2. /\ \A q \in Pollers \ {p} : queue'[q] = queue[q]
      /\ queue'[p] = Append(queue[p], DeallocTask(r))
  BY <1>1 DEF ReleaseElsewhere, IInv, TypeOK
<1>3. reader'[r] = "expired" /\ \A q \in Readers \ {r} : reader'[q] = reader[q]
  BY DEF ReleaseElsewhere, IInv, TypeOK
<1>4. UNCHANGED <<attached, owner, seen, home>>
  BY DEF ReleaseElsewhere, dispVars
<1>5. \A i \in DOMAIN queue'[p] :
        (\E j \in DOMAIN queue[p] : queue'[p][i] = queue[p][j]) \/ queue'[p][i] = DeallocTask(r)
  BY <1>1, <1>2, PostTask, TaskType DEF IInv, TypeOK
<1>6. \A q \in Pollers : \A i \in DOMAIN queue'[q] : queue'[q][i].op = "dealloc" =>
        /\ queue'[q][i].r \in Readers /\ reader'[queue'[q][i].r] \in {"expired", "freed"}
        /\ home[queue'[q][i].r] \in Dispatchers /\ owner[home[queue'[q][i].r]] = q
  <2> SUFFICES ASSUME NEW q \in Pollers, NEW i \in DOMAIN queue'[q], queue'[q][i].op = "dealloc"
               PROVE  /\ queue'[q][i].r \in Readers /\ reader'[queue'[q][i].r] \in {"expired", "freed"}
                      /\ home[queue'[q][i].r] \in Dispatchers /\ owner[home[queue'[q][i].r]] = q
    OBVIOUS
  <2>1. CASE queue'[q][i] = DeallocTask(r) /\ q = p
    BY <1>1, <1>3, <2>1, TaskValues
  <2>2. CASE \E j \in DOMAIN queue[q] : queue'[q][i] = queue[q][j]
    BY <1>3, <2>2 DEF IInv, Homes
  <2>3. QED
    BY <1>2, <1>5, <2>1, <2>2
<1>7. \A e \in Dispatchers : \A q \in attached[e] :
        home[q] = e /\ reader'[q] \in {"live", "expired"}
  <2>1. \A q \in Readers : reader[q] \in {"live", "expired"} => reader'[q] \in {"live", "expired"}
    BY <1>3
  <2>2. QED
    BY <2>1 DEF IInv, Homes, TypeOK
<1>8. QED
  BY <1>1, <1>3, <1>4, <1>6, <1>7 DEF IInv, Homes

(* Pending. *)

LEMMA TailKeeps ==
  ASSUME NEW q \in Seq(Tasks), NEW i \in DOMAIN q, q[i] # q[1]
  PROVE  i - 1 \in DOMAIN Tail(q) /\ Tail(q)[i - 1] = q[i]
  OBVIOUS

\* p drops the first task of its queue, which is not the write of a packet
\* that is still to be begun.
LEMMA FreshTask ==
  ASSUME IInv, NEW p \in Pollers, NEW i \in DOMAIN queue[p], queue[p][i].op = "write"
  PROVE  /\ queue[p][i].d \in Dispatchers /\ queue[p][i].n \in Nat
         /\ queue[p][i].n > seen[queue[p][i].d] /\ queue[p][i].n <= Len(hist)
<1>1. queue[p][i] \in Tasks
  BY DEF IInv, TypeOK
<1>2. QED
  BY <1>1, TaskFields DEF IInv, Pending, Fresh

LEMMA TailPending ==
  ASSUME IInv, NEW p \in Pollers, queue[p] # <<>>,
         queue' = [queue EXCEPT ![p] = Tail(queue[p])], UNCHANGED <<hist, dmap>>,
         \A d \in Dispatchers : seen'[d] \in Nat /\ seen'[d] >= seen[d] /\ seen'[d] <= Len(hist),
         \A q \in Pollers \ {p}, d \in Dispatchers : owner[d] = q => seen'[d] = seen[d],
         \A d \in Dispatchers, m \in Nat : queue[p][1] = WriteTask(d, m) => m <= seen'[d],
         \A i \in DOMAIN queue[p] \ {1} : queue[p][i].op = "write" =>
           queue[p][i].n > seen'[queue[p][i].d]
  PROVE  Pending'
<1> DEFINE q == queue[p]
<1>1. /\ q \in Seq(Tasks) /\ Len(Tail(q)) = Len(q) - 1
      /\ \A i \in DOMAIN Tail(q) : i + 1 \in DOMAIN q /\ i \in Nat /\ i > 0 /\ Tail(q)[i] = q[i + 1]
  BY NextTask DEF IInv, TypeOK
<1>2. queue'[p] = Tail(q) /\ \A r \in Pollers \ {p} : queue'[r] = queue[r]
  BY DEF IInv, TypeOK
<1>3. \A d \in Dispatchers : seen[d] \in Nat
  BY DEF IInv, TypeOK
<1>4. \A i \in DOMAIN Tail(q) : Tail(q)[i].op = "write" =>
        \A m \in seen'[Tail(q)[i].d] + 1 .. Tail(q)[i].n :
          \E j \in 1 .. i : Tail(q)[j] = WriteTask(Tail(q)[i].d, m)
  <2> SUFFICES ASSUME NEW i \in DOMAIN Tail(q), Tail(q)[i].op = "write",
                      NEW m \in seen'[Tail(q)[i].d] + 1 .. Tail(q)[i].n
               PROVE  \E j \in 1 .. i : Tail(q)[j] = WriteTask(Tail(q)[i].d, m)
    OBVIOUS
  <2> DEFINE d == q[i + 1].d
  <2>1. i + 1 \in DOMAIN q /\ q[i + 1] = Tail(q)[i] /\ i \in Nat /\ i > 0
    BY <1>1
  <2>2. d \in Dispatchers /\ q[i + 1].n \in Nat
    BY <1>1, <2>1, TaskFields DEF IInv, Pending, Fresh
  <2>3. m \in Nat /\ m \in seen[d] + 1 .. q[i + 1].n /\ m > seen'[d]
    BY <1>3, <2>1, <2>2
  <2>4. PICK j \in 1 .. i + 1 : q[j] = WriteTask(d, m)
    BY <2>1, <2>3 DEF IInv, Pending, NoHole
  <2>5. j \in DOMAIN q /\ q[j] # q[1]
    BY <1>1, <2>1, <2>2, <2>3, <2>4
  <2>6. j - 1 \in DOMAIN Tail(q) /\ Tail(q)[j - 1] = q[j] /\ j # 1
    BY <1>1, <2>5, TailKeeps
  <2>7. j - 1 \in 1 .. i
    BY <2>1, <2>6
  <2>8. QED
    BY <2>1, <2>4, <2>6, <2>7
<1>5. ASSUME dmap[p] # None, NEW m \in seen'[dmap[p]] + 1 .. Len(hist)
      PROVE  \E j \in DOMAIN Tail(q) : Tail(q)[j] = WriteTask(dmap[p], m)
  <2>1. dmap[p] \in Dispatchers /\ Len(hist) \in Nat
    BY <1>5 DEF IInv, TypeOK
  <2>2. m \in Nat /\ m \in seen[dmap[p]] + 1 .. Len(hist) /\ m > seen'[dmap[p]]
    BY <1>3, <1>5, <2>1
  <2>3. PICK j \in DOMAIN q : q[j] = WriteTask(dmap[p], m)
    BY <1>5, <2>2 DEF IInv, Pending, AllQueued
  <2>4. q[j] # q[1]
    BY <2>1, <2>2, <2>3
  <2>5. j - 1 \in DOMAIN Tail(q) /\ Tail(q)[j - 1] = q[j]
    BY <1>1, <2>4, TailKeeps
  <2>6. QED
    BY <2>3, <2>5
<1>6. \A i \in DOMAIN Tail(q) : Tail(q)[i].op = "write" =>
        /\ Tail(q)[i].d \in Dispatchers
        /\ Tail(q)[i].n > seen'[Tail(q)[i].d] /\ Tail(q)[i].n <= Len(hist)
  BY <1>1 DEF IInv, Pending, Fresh
<1>7. ASSUME NEW i \in DOMAIN Tail(q), NEW j \in DOMAIN Tail(q), i < j,
             Tail(q)[i].op = "write", Tail(q)[j].op = "write", Tail(q)[i].d = Tail(q)[j].d
      PROVE  Tail(q)[i].n < Tail(q)[j].n
  <2>1. /\ i + 1 \in DOMAIN q /\ j + 1 \in DOMAIN q /\ i + 1 < j + 1
        /\ Tail(q)[i] = q[i + 1] /\ Tail(q)[j] = q[j + 1]
    BY <1>1, <1>7
  <2>2. QED
    BY <1>7, <2>1 DEF IInv, Pending, InOrder
<1>8. \A r \in Pollers \ {p} :
        /\ \A i \in DOMAIN queue[r] : queue[r][i].op = "write" =>
             seen'[queue[r][i].d] = seen[queue[r][i].d]
        /\ dmap[r] # None => seen'[dmap[r]] = seen[dmap[r]]
  <2>1. \A r \in Pollers \ {p} : \A i \in DOMAIN queue[r] : queue[r][i].op = "write" =>
          queue[r][i].d \in Dispatchers /\ owner[queue[r][i].d] = r
    BY DEF IInv, Pending, Fresh, Owned
  <2>2. \A r \in Pollers \ {p} : dmap[r] # None => dmap[r] \in Dispatchers /\ owner[dmap[r]] = r
    BY DEF IInv, TypeOK, Owned
  <2>3. QED
    BY <2>1, <2>2
<1>9. Fresh'
  <2> SUFFICES ASSUME NEW r \in Pollers, NEW i \in DOMAIN queue'[r], queue'[r][i].op = "write"
               PROVE  /\ queue'[r][i].d \in Dispatchers
                      /\ queue'[r][i].n > seen'[queue'[r][i].d] /\ queue'[r][i].n <= Len(hist)
    BY DEF Fresh
  <2>1. CASE r = p
    BY <1>2, <1>6, <2>1
  <2>2. CASE r # p
    BY <1>2, <1>8, <2>2 DEF IInv, Pending, Fresh
  <2>3. QED
    BY <2>1, <2>2
<1>10. NoHole'
  <2> SUFFICES ASSUME NEW r \in Pollers, NEW i \in DOMAIN queue'[r], queue'[r][i].op = "write",
                      NEW m \in seen'[queue'[r][i].d] + 1 .. queue'[r][i].n
               PROVE  \E j \in 1 .. i : queue'[r][j] = WriteTask(queue'[r][i].d, m)
    BY DEF NoHole
  <2>1. CASE r = p
    <3>1. /\ queue'[r] = Tail(q) /\ i \in DOMAIN Tail(q) /\ Tail(q)[i].op = "write"
          /\ m \in seen'[Tail(q)[i].d] + 1 .. Tail(q)[i].n
      BY <1>2, <2>1
    <3>2. PICK j \in 1 .. i : Tail(q)[j] = WriteTask(Tail(q)[i].d, m)
      BY <1>4, <3>1
    <3>3. QED
      BY <3>1, <3>2
  <2>2. CASE r # p
    BY <1>2, <1>8, <2>2 DEF IInv, Pending, NoHole
  <2>3. QED
    BY <2>1, <2>2
<1>11. InOrder'
  BY <1>2, <1>7 DEF IInv, Pending, InOrder
<1>12. AllQueued'
  <2> SUFFICES ASSUME NEW r \in Pollers, dmap[r] # None, NEW m \in seen'[dmap[r]] + 1 .. Len(hist)
               PROVE  \E j \in DOMAIN queue'[r] : queue'[r][j] = WriteTask(dmap[r], m)
    BY DEF AllQueued
  <2>1. CASE r = p
    BY <1>2, <1>5, <2>1
  <2>2. CASE r # p
    BY <1>2, <1>8, <2>2 DEF IInv, Pending, AllQueued
  <2>3. QED
    BY <2>1, <2>2
<1>13. QED
  BY <1>9, <1>10, <1>11, <1>12 DEF Pending

LEMMA OtherTailPending ==
  ASSUME IInv, NEW p \in Pollers, queue[p] # <<>>, Head(queue[p]).op # "write",
         queue' = [queue EXCEPT ![p] = Tail(queue[p])], UNCHANGED <<hist, dmap, seen>>
  PROVE  Pending'
<1>1. queue[p][1].op # "write"
  BY NextTask DEF IInv, TypeOK
<1>2. \A d \in Dispatchers : seen[d] \in Nat /\ seen[d] <= Len(hist)
  BY DEF IInv, TypeOK, Pending
<1>3. \A i \in DOMAIN queue[p] : queue[p][i].op = "write" => queue[p][i].n > seen[queue[p][i].d]
  BY DEF IInv, Pending, Fresh
<1>4. \A d \in Dispatchers, m \in Nat : queue[p][1] # WriteTask(d, m)
  BY <1>1, TaskValues
<1>5. /\ \A d \in Dispatchers : seen'[d] \in Nat /\ seen'[d] >= seen[d] /\ seen'[d] <= Len(hist)
      /\ \A q \in Pollers \ {p}, d \in Dispatchers : owner[d] = q => seen'[d] = seen[d]
      /\ \A d \in Dispatchers, m \in Nat : queue[p][1] = WriteTask(d, m) => m <= seen'[d]
      /\ \A i \in DOMAIN queue[p] \ {1} : queue[p][i].op = "write" =>
           queue[p][i].n > seen'[queue[p][i].d]
  BY <1>2, <1>3, <1>4
<1>6. QED
  BY <1>5, TailPending

LEMMA RunClearPending ==
  ASSUME IInv, NEW p \in Pollers, RunClear(p) PROVE Pending'
  BY OtherTailPending DEF RunClear, Take, ringVars

LEMMA RunDeallocPending ==
  ASSUME IInv, NEW p \in Pollers, RunDealloc(p) PROVE Pending'
  BY OtherTailPending DEF RunDealloc, Take, ringVars

LEMMA BeginWritePending ==
  ASSUME IInv, NEW p \in Pollers, BeginWrite(p) PROVE Pending'
<1> DEFINE q == queue[p]
<1>1. PICK t \in Tasks :
        /\ t = q[1] /\ 1 \in DOMAIN q /\ t.op = "write"
        /\ t.d \in Dispatchers /\ t.n = seen[t.d] + 1 /\ t.n <= Len(hist) /\ owner[t.d] = p
        /\ seen'[t.d] = t.n /\ \A e \in Dispatchers \ {t.d} : seen'[e] = seen[e]
        /\ queue' = [queue EXCEPT ![p] = Tail(q)]
  BY BeginWriteMoves
<1>2. UNCHANGED <<hist, dmap>> /\ q # <<>> /\ q \in Seq(Tasks)
  BY DEF BeginWrite, Take, ringVars, IInv, TypeOK
<1>3. \A d \in Dispatchers : seen[d] \in Nat /\ seen[d] <= Len(hist)
  BY DEF IInv, TypeOK, Pending
<1>4. \A d \in Dispatchers : seen'[d] \in Nat /\ seen'[d] >= seen[d] /\ seen'[d] <= Len(hist)
  BY <1>1, <1>3
<1>5. \A d \in Dispatchers, m \in Nat : q[1] = WriteTask(d, m) => m <= seen'[d]
  BY <1>1, <1>4, TaskValues
<1>6. ASSUME NEW i \in DOMAIN q \ {1}, q[i].op = "write" PROVE q[i].n > seen'[q[i].d]
  <2>1. q[i].d \in Dispatchers /\ q[i].n > seen[q[i].d]
    BY <1>6 DEF IInv, Pending, Fresh
  <2>2. q[i].d = t.d => q[1].n < q[i].n
    BY <1>1, <1>2, <1>6 DEF IInv, Pending, InOrder
  <2>3. QED
    BY <1>1, <2>1, <2>2
<1>7. \A r \in Pollers \ {p}, d \in Dispatchers : owner[d] = r => seen'[d] = seen[d]
  BY <1>1
<1>8. QED
  BY <1>1, <1>2, <1>4, <1>5, <1>6, <1>7, TailPending

LEMMA AttachFindPending ==
  ASSUME IInv, NEW p \in Pollers, NEW r \in Readers, AttachFind(p, r) PROVE Pending'
<1>1. PICK d \in Dispatchers :
        /\ dmap'[p] = d /\ \A q \in Pollers \ {p} : dmap'[q] = dmap[q]
        /\ \A e \in Dispatchers \ {d} : seen'[e] = seen[e]
        /\ \/ dmap[p] = d /\ seen'[d] = seen[d]
           \/ owner[d] = None /\ seen'[d] = Len(hist)
  BY AttachFindMoves
<1>2. UNCHANGED <<hist, queue>> /\ Len(hist) \in Nat
  BY DEF AttachFind, IInv, TypeOK
<1>3. CASE dmap[p] = d /\ seen'[d] = seen[d]
  <2>1. \A q \in Pollers : dmap'[q] = dmap[q] /\ dmap[q] \in Dispatchers \cup {None}
    BY <1>1, <1>3 DEF IInv, TypeOK
  <2>2. \A e \in Dispatchers : seen'[e] = seen[e]
    BY <1>1, <1>3
  <2>3. QED
    BY <1>2, <2>1, <2>2 DEF IInv, Pending, Fresh, NoHole, InOrder, AllQueued
<1>4. CASE owner[d] = None /\ seen'[d] = Len(hist)
  <2>1. \A q \in Pollers : \A i \in DOMAIN queue[q] : queue[q][i].d # d
    BY <1>4 DEF IInv, Owned
  <2>2. \A q \in Pollers \ {p} : dmap[q] # d /\ dmap[q] \in Dispatchers \cup {None}
    BY <1>4 DEF IInv, Owned, TypeOK
  <2>3. \A m : m \notin seen'[dmap'[p]] + 1 .. Len(hist)
    BY <1>1, <1>2, <1>4
  <2>4. \A q \in Pollers \ {p} : dmap[q] # None => seen'[dmap[q]] = seen[dmap[q]]
    BY <1>1, <2>2
  <2>5. \A q \in Pollers : \A i \in DOMAIN queue[q] : queue[q][i].op = "write" =>
          seen'[queue[q][i].d] = seen[queue[q][i].d]
    BY <1>1, <2>1 DEF IInv, Pending, Fresh
  <2>6. \A e \in Dispatchers : seen'[e] <= Len(hist)
    BY <1>1, <1>2, <1>4 DEF IInv, Pending
  <2>7. QED
    BY <1>1, <1>2, <2>3, <2>4, <2>5, <2>6
       DEF IInv, Pending, Fresh, NoHole, InOrder, AllQueued
<1>5. QED
  BY <1>1, <1>3, <1>4

\* Posting a task that is not a write.
LEMMA PostPending ==
  ASSUME IInv, UNCHANGED <<hist, dmap, seen>>,
         \A p \in Pollers : \/ queue'[p] = queue[p]
                            \/ \E t \in Tasks : t.op # "write" /\ queue'[p] = Append(queue[p], t)
  PROVE  Pending'
<1>1. ASSUME NEW p \in Pollers
      PROVE  /\ \A i \in DOMAIN queue[p] : i \in DOMAIN queue'[p] /\ queue'[p][i] = queue[p][i]
             /\ \A i \in DOMAIN queue'[p] : queue'[p][i].op = "write" =>
                  i \in DOMAIN queue[p] /\ queue'[p][i] = queue[p][i]
             /\ \A i \in DOMAIN queue[p] : \A j \in 1 .. i : j \in DOMAIN queue[p]
  <2>1. queue[p] \in Seq(Tasks)
    BY DEF IInv, TypeOK
  <2>2. CASE queue'[p] = queue[p]
    BY <2>1, <2>2
  <2>3. CASE \E t \in Tasks : t.op # "write" /\ queue'[p] = Append(queue[p], t)
    BY <2>1, <2>3, PostTask
  <2>4. QED
    BY <2>2, <2>3
<1>2. Fresh'
  BY <1>1 DEF IInv, Pending, Fresh
<1>3. NoHole'
  BY <1>1 DEF IInv, Pending, NoHole
<1>4. InOrder'
  <2> SUFFICES ASSUME NEW p \in Pollers, NEW i \in DOMAIN queue'[p], NEW j \in DOMAIN queue'[p],
                      i < j, queue'[p][i].op = "write", queue'[p][j].op = "write",
                      queue'[p][i].d = queue'[p][j].d
               PROVE  queue'[p][i].n < queue'[p][j].n
    BY DEF InOrder
  <2>1. /\ i \in DOMAIN queue[p] /\ queue'[p][i] = queue[p][i]
        /\ j \in DOMAIN queue[p] /\ queue'[p][j] = queue[p][j]
    BY <1>1
  <2>2. QED
    BY <2>1 DEF IInv, Pending, InOrder
<1>5. AllQueued'
  BY <1>1 DEF IInv, Pending, AllQueued
<1>6. QED
  BY <1>2, <1>3, <1>4, <1>5 DEF IInv, Pending

LEMMA ReleaseElsewherePending ==
  ASSUME IInv, NEW r \in Readers, ReleaseElsewhere(r) PROVE Pending'
<1>1. DeallocTask(r) \in Tasks /\ DeallocTask(r).op # "write"
  BY TaskType, TaskValues
<1>2. \A p \in Pollers : queue'[p] = queue[p] \/ queue'[p] = Append(queue[p], DeallocTask(r))
  BY DEF ReleaseElsewhere, IInv, TypeOK
<1>3. QED
  BY <1>1, <1>2, PostPending DEF ReleaseElsewhere, ringVars, dispVars

LEMMA WritePending ==
  ASSUME IInv, NEW key \in BOOLEAN, Write(key) PROVE Pending'
<1> DEFINE n == Len(hist) + 1
<1>1. /\ UNCHANGED <<dmap, seen, owner>> /\ Len(hist') = n /\ n \in Nat /\ n > Len(hist)
      /\ \A d \in Dispatchers : seen[d] \in Nat /\ seen[d] < n
  BY DEF Write, dispVars, IInv, TypeOK, Pending
<1>2. ASSUME NEW p \in Pollers, dmap[p] = None
      PROVE  queue'[p] = queue[p]
  BY <1>2 DEF Write
<1>3. ASSUME NEW p \in Pollers, dmap[p] # None
      PROVE  /\ dmap[p] \in Dispatchers /\ queue'[p] = Append(queue[p], WriteTask(dmap[p], n))
             /\ queue[p] \in Seq(Tasks) /\ WriteTask(dmap[p], n) \in Tasks
  BY <1>1, <1>3, TaskType DEF Write, IInv, TypeOK
<1>4. ASSUME NEW p \in Pollers, dmap[p] # None
      PROVE  /\ \A i \in DOMAIN queue[p] : i \in DOMAIN queue'[p] /\ queue'[p][i] = queue[p][i]
             /\ \A i \in DOMAIN queue'[p] : i \in DOMAIN queue[p] \/ i = Len(queue[p]) + 1
             /\ queue'[p][Len(queue[p]) + 1] = WriteTask(dmap[p], n)
             /\ Len(queue[p]) + 1 \in DOMAIN queue'[p]
             /\ DOMAIN queue[p] = 1 .. Len(queue[p]) /\ Len(queue[p]) \in Nat
  BY <1>3, <1>4, PostTask
<1>5. ASSUME NEW p \in Pollers, NEW i \in DOMAIN queue'[p], queue'[p][i].op = "write"
      PROVE  /\ queue'[p][i].d \in Dispatchers
             /\ queue'[p][i].n > seen[queue'[p][i].d] /\ queue'[p][i].n <= n
  <2>1. CASE dmap[p] = None
    BY <1>1, <1>2, <1>5, <2>1, FreshTask
  <2>2. CASE dmap[p] # None /\ i \in DOMAIN queue[p]
    BY <1>1, <1>4, <1>5, <2>2, FreshTask
  <2>3. CASE dmap[p] # None /\ i = Len(queue[p]) + 1
    BY <1>1, <1>3, <1>4, <2>3, TaskValues
  <2>4. QED
    BY <1>4, <2>1, <2>2, <2>3
<1>6. ASSUME NEW p \in Pollers, NEW i \in DOMAIN queue'[p], queue'[p][i].op = "write",
             NEW m \in seen[queue'[p][i].d] + 1 .. queue'[p][i].n
      PROVE  \E j \in 1 .. i : queue'[p][j] = WriteTask(queue'[p][i].d, m)
  <2>1. CASE dmap[p] = None
    BY <1>2, <1>6, <2>1 DEF IInv, Pending, NoHole
  <2>2. CASE dmap[p] # None /\ i \in DOMAIN queue[p]
    BY <1>4, <1>6, <2>2 DEF IInv, Pending, NoHole
  <2>3. CASE dmap[p] # None /\ i = Len(queue[p]) + 1
    <3>1. queue'[p][i].d = dmap[p] /\ queue'[p][i].n = n
      BY <1>4, <2>3, TaskValues
    <3>2. CASE m = n
      BY <1>4, <2>3, <3>1, <3>2
    <3>3. CASE m # n
      <4>1. m \in seen[dmap[p]] + 1 .. Len(hist)
        BY <1>1, <1>3, <1>6, <2>3, <3>1, <3>3
      <4>2. PICK j \in DOMAIN queue[p] : queue[p][j] = WriteTask(dmap[p], m)
        BY <2>3, <4>1 DEF IInv, Pending, AllQueued
      <4>3. QED
        BY <1>4, <2>3, <3>1, <4>2
    <3>4. QED
      BY <3>2, <3>3
  <2>4. QED
    BY <1>4, <2>1, <2>2, <2>3
<1>7. ASSUME NEW p \in Pollers, NEW i \in DOMAIN queue'[p], NEW j \in DOMAIN queue'[p],
             i < j, queue'[p][i].op = "write", queue'[p][j].op = "write",
             queue'[p][i].d = queue'[p][j].d
      PROVE  queue'[p][i].n < queue'[p][j].n
  <2>1. CASE dmap[p] = None
    BY <1>2, <1>7, <2>1 DEF IInv, Pending, InOrder
  <2>2. CASE dmap[p] # None /\ j \in DOMAIN queue[p]
    BY <1>4, <1>7, <2>2 DEF IInv, Pending, InOrder
  <2>3. CASE dmap[p] # None /\ j = Len(queue[p]) + 1
    <3>1. queue'[p][j].n = n /\ i \in DOMAIN queue[p] /\ queue'[p][i] = queue[p][i]
      BY <1>4, <1>7, <2>3, TaskValues
    <3>2. queue[p][i].n <= Len(hist) /\ queue[p][i].n \in Nat
      BY <1>7, <2>3, <3>1, FreshTask
    <3>3. QED
      BY <1>1, <3>1, <3>2
  <2>4. QED
    BY <1>4, <2>1, <2>2, <2>3
<1>8. ASSUME NEW p \in Pollers, dmap[p] # None, NEW m \in seen[dmap[p]] + 1 .. n
      PROVE  \E j \in DOMAIN queue'[p] : queue'[p][j] = WriteTask(dmap[p], m)
  <2>1. CASE m = n
    BY <1>4, <1>8, <2>1
  <2>2. CASE m # n
    <3>1. m \in seen[dmap[p]] + 1 .. Len(hist)
      BY <1>1, <1>3, <1>8, <2>2
    <3>2. QED
      BY <1>4, <1>8, <3>1 DEF IInv, Pending, AllQueued
  <2>3. QED
    BY <2>1, <2>2
<1>9. QED
  <2>1. Fresh'
    BY <1>1, <1>5 DEF Fresh
  <2>2. NoHole'
    BY <1>1, <1>6 DEF NoHole
  <2>3. InOrder'
    <3> SUFFICES ASSUME NEW p \in Pollers, NEW i \in DOMAIN queue'[p], NEW j \in DOMAIN queue'[p],
                        i < j, queue'[p][i].op = "write", queue'[p][j].op = "write",
                        queue'[p][i].d = queue'[p][j].d
                 PROVE  queue'[p][i].n < queue'[p][j].n
      BY DEF InOrder
    <3>1. QED
      BY <1>7
  <2>4. AllQueued'
    BY <1>1, <1>8 DEF AllQueued
  <2>5. QED
    BY <1>1, <2>1, <2>2, <2>3, <2>4 DEF Pending

LEMMA ClearCachePending ==
  ASSUME IInv, ClearCache PROVE Pending'
<1>1. UNCHANGED <<hist, dmap, seen>>
  BY DEF ClearCache, dispVars
<1>2. \A p \in Pollers : \/ queue'[p] = queue[p]
                         \/ \E t \in Tasks : t.op # "write" /\ queue'[p] = Append(queue[p], t)
  BY TaskType, TaskValues DEF ClearCache, IInv, TypeOK
<1>3. QED
  BY <1>1, <1>2, PostPending

(* Feeds. *)

\* Threads that neither begin nor end a write nor visit a reader.
LEMMA SameProgress ==
  ASSUME NEW p \in Pollers, NEW next, Moves(p, next), next.todo = cur[p].todo,
         next.n > 0 <=> cur[p].n > 0, cur[p].n > 0 => next.d = cur[p].d
  PROVE  (\A d : Busy(d)' <=> Busy(d)) /\ (\A r : Due(r)' <=> Due(r))
  BY DEF Moves, Busy, Due

LEMMA SameThreads ==
  ASSUME cur' = cur
  PROVE  (\A d : Busy(d)' <=> Busy(d)) /\ (\A r : Due(r)' <=> Due(r))
  BY DEF Busy, Due

LEMMA SameStores ==
  ASSUME IInv, UNCHANGED <<store, seen>>, \A d : Busy(d)' <=> Busy(d)
  PROVE  StoresKept'
  BY DEF IInv, Feeds, StoresKept

LEMMA SameFeeds ==
  ASSUME IInv, UNCHANGED <<seen, fed>>, \A r : Due(r)' <=> Due(r),
         \A d \in Dispatchers : attached'[d] \subseteq attached[d],
         \A r \in Readers : reader'[r] = "live" => reader[r] = "live"
  PROVE  ReadersFed' /\ GaplessFeed'
<1>1. \A d \in Dispatchers : attached[d] \subseteq Readers
  BY DEF IInv, TypeOK
<1>2. QED
  BY <1>1 DEF IInv, Feeds, ReadersFed, GaplessFeed

LEMMA WriteFeeds ==
  ASSUME IInv, NEW key \in BOOLEAN, Write(key) PROVE Feeds'
<1>1. Len(hist') = Len(hist) + 1 /\ ring' = StoreWrite(ring, Len(hist) + 1, key) /\ Len(hist) \in Nat
  BY DEF Write, IInv, TypeOK
<1>2. CachesUpTo(ring', Len(hist'))
  BY <1>1, StoreWriteCaches DEF IInv, TypeOK, Feeds
<1>3. UNCHANGED <<cur, store, seen, fed, attached, reader>>
  BY DEF Write, dispVars, readerVars
<1>4. StoresKept' /\ ReadersFed' /\ GaplessFeed'
  BY <1>3, SameThreads, SameStores, SameFeeds
<1>5. QED
  BY <1>2, <1>4 DEF Feeds

LEMMA ClearedCaches ==
  ASSUME NEW s \in Storage, NEW n
  PROVE  CachesUpTo(StoreClear(s), n)
<1>1. StoreClear(s).cache = <<>>
  BY DEF StoreClear, Storage
<1>2. QED
  BY <1>1, EndsAtEmpty DEF CachesUpTo

LEMMA ClearCacheFeeds ==
  ASSUME IInv, ClearCache PROVE Feeds'
<1>1. CachesUpTo(ring', Len(hist'))
  BY ClearedCaches DEF ClearCache, IInv, TypeOK
<1>2. UNCHANGED <<cur, store, seen, fed, attached, reader>>
  BY DEF ClearCache, dispVars, readerVars
<1>3. StoresKept' /\ ReadersFed' /\ GaplessFeed'
  BY <1>2, SameThreads, SameStores, SameFeeds
<1>4. QED
  BY <1>1, <1>3 DEF Feeds

LEMMA QuietFeeds ==
  ASSUME IInv, UNCHANGED <<hist, ring, store, seen, fed>>,
         \A d : Busy(d)' <=> Busy(d), \A r : Due(r)' <=> Due(r),
         \A d \in Dispatchers : attached'[d] \subseteq attached[d],
         \A r \in Readers : reader'[r] = "live" => reader[r] = "live"
  PROVE  Feeds'
  BY SameStores, SameFeeds DEF IInv, Feeds

LEMMA AttachFindFeeds ==
  ASSUME IInv, NEW p \in Pollers, NEW r \in Readers, AttachFind(p, r) PROVE Feeds'
<1>1. PICK d \in Dispatchers :
        /\ Moves(p, Attaching(d, r))
        /\ \A e \in Dispatchers \ {d} : store'[e] = store[e] /\ seen'[e] = seen[e]
        /\ \/ store'[d] = store[d] /\ seen'[d] = seen[d]
           \/ owner[d] = None /\ store'[d] = StoreClone(ring) /\ seen'[d] = Len(hist)
  BY AttachFindMoves
<1>2. pc[p] = "idle" /\ UNCHANGED <<hist, ring, fed, attached, reader>>
  BY DEF AttachFind, readerVars
<1>3. (\A e : Busy(e)' <=> Busy(e)) /\ (\A x : Due(x)' <=> Due(x))
  <2>1. cur[p].n = 0 /\ cur[p].todo = {}
    BY <1>2, JobValues DEF IInv, Threads
  <2>2. Attaching(d, r).n = 0 /\ Attaching(d, r).todo = {}
    BY JobValues
  <2>3. cur'[p].n = 0 /\ cur'[p].todo = {} /\ \A q \in Pollers \ {p} : cur'[q] = cur[q]
    BY <1>1, <2>2 DEF Moves
  <2>4. QED
    BY <2>1, <2>3 DEF Busy, Due
<1>4. CASE store'[d] = store[d] /\ seen'[d] = seen[d]
  <2>1. \A e \in Dispatchers : store'[e] = store[e] /\ seen'[e] = seen[e]
    BY <1>1, <1>4
  <2>2. StoresKept'
    BY <1>3, <2>1 DEF IInv, Feeds, StoresKept
  <2>3. ReadersFed'
    BY <1>2, <1>3, <2>1 DEF IInv, Feeds, ReadersFed
  <2>4. QED
    BY <1>2, <2>2, <2>3 DEF IInv, Feeds, GaplessFeed
<1>5. CASE owner[d] = None /\ store'[d] = StoreClone(ring) /\ seen'[d] = Len(hist)
  <2>1. ~Busy(d) /\ attached[d] = {}
    BY <1>5 DEF Busy, IInv, Owned, Homes
  <2>2. CachesUpTo(StoreClone(ring), Len(hist))
    <3>1. StoreClone(ring).cache = ring.cache /\ StoreClone(ring).have_idr = ring.have_idr
      BY DEF StoreClone, Storage, IInv, TypeOK
    <3>2. QED
      BY <3>1 DEF CachesUpTo, IInv, Feeds
  <2>3. StoresKept'
    BY <1>1, <1>3, <1>5, <2>1, <2>2 DEF IInv, Feeds, StoresKept
  <2>4. ReadersFed'
    BY <1>1, <1>2, <1>3, <2>1 DEF IInv, Feeds, ReadersFed
  <2>5. QED
    BY <1>2, <2>3, <2>4 DEF IInv, Feeds, GaplessFeed
<1>6. QED
  BY <1>1, <1>4, <1>5

LEMMA AttachReaderFeeds ==
  ASSUME IInv, NEW p \in Pollers, AttachReader(p) PROVE Feeds'
<1> DEFINE d == cur[p].d
           r == cur[p].r
<1>1. /\ d \in Dispatchers /\ r \in Readers /\ cur[p].n = 0 /\ reader[r] = "none"
      /\ Moves(p, cur[p]) /\ owner[d] = p
  BY AttachReaderMoves DEF IInv, Owned
<1>2. (\A e : Busy(e)' <=> Busy(e)) /\ (\A x : Due(x)' <=> Due(x))
  BY <1>1, SameProgress
<1>3. ~Busy(d)
  BY <1>1 DEF Busy, IInv, Owned
<1>4. \A e \in Dispatchers : r \notin attached[e]
  BY <1>1 DEF IInv, Homes
<1>5. ~Due(r)
  <2> SUFFICES ASSUME NEW q \in Pollers, r \in cur[q].todo PROVE FALSE
    BY DEF Due
  <2>1. cur[q].n > 0
    BY JobFields DEF IInv, Threads, TypeOK
  <2>2. r \in attached[cur[q].d] /\ cur[q].d \in Dispatchers
    BY <2>1 DEF IInv, Threads
  <2>3. QED
    BY <1>4, <2>2
<1>6. EndsAt(store[d].cache, seen[d])
  BY <1>1, <1>3 DEF IInv, Feeds, StoresKept, CachesUpTo
<1>7. /\ fed'[r] = store[d].cache /\ \A x \in Readers \ {r} : fed'[x] = fed[x] /\ reader'[x] = reader[x]
      /\ \A e \in Dispatchers \ {d} : attached'[e] = attached[e]
      /\ attached'[d] = attached[d] \cup {r}
      /\ UNCHANGED <<hist, ring, store, seen>>
  BY <1>1 DEF AttachReader, ringVars, IInv, TypeOK
<1>8. StoresKept'
  BY <1>2, <1>7, SameStores
<1>9. ReadersFed'
  <2> SUFFICES ASSUME NEW e \in Dispatchers, NEW x \in attached'[e], reader'[x] = "live"
               PROVE  EndsAt(fed'[x], IF Due(x)' THEN seen'[e] - 1 ELSE seen'[e])
    BY DEF ReadersFed
  <2>1. CASE x = r
    BY <1>2, <1>4, <1>5, <1>6, <1>7, <2>1
  <2>2. CASE x # r
    <3>1. x \in attached[e]
      BY <1>7, <2>2
    <3>2. x \in Readers
      BY <3>1 DEF IInv, TypeOK
    <3>3. QED
      BY <1>2, <1>7, <2>2, <3>1, <3>2 DEF IInv, Feeds, ReadersFed
  <2>3. QED
    BY <2>1, <2>2
<1>10. GaplessFeed'
  BY <1>6, <1>7 DEF IInv, Feeds, GaplessFeed, EndsAt
<1>11. QED
  BY <1>7, <1>8, <1>9, <1>10 DEF IInv, Feeds

LEMMA CountReaderFeeds ==
  ASSUME IInv, NEW p \in Pollers, CountReader(p) PROVE Feeds'
<1>1. cur[p].n = 0 => cur[p].todo = {}
  BY DEF IInv, Threads
<1>2. (\A e : Busy(e)' <=> Busy(e)) /\ (\A x : Due(x)' <=> Due(x))
  <2>1. PICK next : Moves(p, next) /\ next = (IF cur[p].n > 0 THEN cur[p] ELSE Idle)
    BY CountReaderMoves
  <2>2. CASE cur[p].n > 0
    BY <2>1, <2>2, SameProgress
  <2>3. CASE ~(cur[p].n > 0)
    <3>1. cur[p].n = 0
      BY <2>3, JobFields DEF IInv, TypeOK
    <3>2. next.n = 0 /\ next.todo = {}
      BY <2>1, <2>3, JobValues
    <3>3. QED
      BY <1>1, <2>1, <3>1, <3>2, SameProgress
  <2>4. QED
    BY <2>2, <2>3
<1>3. UNCHANGED <<hist, ring, store, seen, fed, attached, reader>>
  BY DEF CountReader, dispVars, readerVars
<1>4. QED
  BY <1>2, <1>3, QuietFeeds

LEMMA IdlePoller ==
  ASSUME IInv, NEW p \in Pollers, cur[p].n = 0
  PROVE  /\ \A d \in Dispatchers : owner[d] = p => ~Busy(d)
         /\ \A d \in Dispatchers : \A r \in attached[d] : owner[d] = p => ~Due(r)
<1>1. \A d \in Dispatchers : owner[d] = p => ~Busy(d)
  BY DEF Busy, IInv, Owned
<1>2. ASSUME NEW d \in Dispatchers, NEW r \in attached[d], owner[d] = p, Due(r) PROVE FALSE
  <2>1. PICK q \in Pollers : r \in cur[q].todo
    BY <1>2 DEF Due
  <2>2. cur[q].n > 0
    BY <2>1, JobFields DEF IInv, Threads, TypeOK
  <2>3. r \in attached[cur[q].d] /\ cur[q].d \in Dispatchers /\ owner[cur[q].d] = q
    BY <2>1, <2>2 DEF IInv, Threads, Owned
  <2>4. cur[q].d = d
    BY <2>3 DEF IInv, Homes
  <2>5. QED
    BY <1>2, <2>2, <2>3, <2>4
<1>3. QED
  BY <1>1, <1>2

LEMMA BeginWriteFeeds ==
  ASSUME IInv, NEW p \in Pollers, BeginWrite(p) PROVE Feeds'
<1>1. PICK t \in Tasks :
        /\ t.d \in Dispatchers /\ t.n = seen[t.d] + 1 /\ owner[t.d] = p
        /\ Moves(p, Writing(t.d, t.n, attached[t.d]))
        /\ seen'[t.d] = t.n /\ \A e \in Dispatchers \ {t.d} : seen'[e] = seen[e]
  BY BeginWriteMoves
<1>2. /\ cur[p].n = 0 /\ cur[p].d = None /\ cur[p].todo = {} /\ seen[t.d] \in Nat
      /\ UNCHANGED <<hist, ring, store, attached, reader, fed>>
  BY <1>1, JobValues DEF BeginWrite, Take, ringVars, readerVars, IInv, Threads, TypeOK
<1>3. ~Busy(t.d) /\ \A r \in attached[t.d] : ~Due(r)
  BY <1>1, <1>2, IdlePoller
<1>4. /\ Busy(t.d)' /\ \A d \in Dispatchers \ {t.d} : Busy(d)' <=> Busy(d)
  BY <1>1, <1>2, JobValues DEF Moves, Busy
<1>5. \A r : Due(r)' <=> Due(r) \/ r \in attached[t.d]
  BY <1>1, <1>2, JobValues DEF Moves, Due
<1>6. StoresKept'
  BY <1>1, <1>2, <1>3, <1>4 DEF IInv, Feeds, StoresKept
<1>7. ReadersFed'
  <2> SUFFICES ASSUME NEW d \in Dispatchers, NEW r \in attached[d], reader[r] = "live"
               PROVE  EndsAt(fed[r], IF Due(r)' THEN seen'[d] - 1 ELSE seen'[d])
    BY <1>2 DEF ReadersFed
  <2>1. EndsAt(fed[r], IF Due(r) THEN seen[d] - 1 ELSE seen[d])
    BY DEF IInv, Feeds, ReadersFed
  <2>2. CASE d = t.d
    BY <1>1, <1>2, <1>3, <1>5, <2>1, <2>2
  <2>3. CASE d # t.d
    <3>1. r \notin attached[t.d]
      BY <1>1, <2>3 DEF IInv, Homes
    <3>2. QED
      BY <1>1, <1>5, <2>1, <2>3, <3>1
  <2>4. QED
    BY <2>2, <2>3
<1>8. QED
  BY <1>2, <1>6, <1>7 DEF IInv, Feeds, GaplessFeed

\* The write loop of p deals with r: nothing else is disturbed.
LEMMA PastProgress ==
  ASSUME IInv, NEW p \in Pollers, NEW r \in cur[p].todo, pc[p] = "loop", Moves(p, Past(p, r))
  PROVE  /\ \A d : Busy(d)' <=> Busy(d)
         /\ \A x : x # r => (Due(x)' <=> Due(x))
         /\ Due(r) /\ ~Due(r)'
<1>1. /\ cur[p].d \in Dispatchers /\ cur[p].n > 0 /\ owner[cur[p].d] = p /\ home[r] = cur[p].d
      /\ Past(p, r).d = cur[p].d /\ Past(p, r).n = cur[p].n
      /\ Past(p, r).todo = cur[p].todo \ {r}
  BY PastMoves
<1>2. \A q \in Pollers \ {p} : r \notin cur[q].todo
  <2> SUFFICES ASSUME NEW q \in Pollers \ {p}, r \in cur[q].todo PROVE FALSE
    OBVIOUS
  <2>1. cur[q].n > 0
    BY JobFields DEF IInv, Threads, TypeOK
  <2>2. r \in attached[cur[q].d] /\ cur[q].d \in Dispatchers /\ owner[cur[q].d] = q
    BY <2>1 DEF IInv, Threads, Owned
  <2>3. QED
    BY <1>1, <2>2 DEF IInv, Homes
<1>3. \A d : Busy(d)' <=> Busy(d)
  BY <1>1 DEF Moves, Busy
<1>4. \A x : x # r => (Due(x)' <=> Due(x))
  BY <1>1 DEF Moves, Due
<1>5. Due(r) /\ ~Due(r)'
  BY <1>1, <1>2 DEF Moves, Due
<1>6. QED
  BY <1>3, <1>4, <1>5

\* The packet a write loop hands to a live reader is the reader's next one.
LEMMA FedNext ==
  ASSUME IInv, NEW p \in Pollers, NEW r \in cur[p].todo, pc[p] = "loop", reader[r] = "live",
         Feed(r, cur[p].n)
  PROVE  /\ r \in Readers /\ EndsAt(fed'[r], cur[p].n)
         /\ \A x \in Readers \ {r} : fed'[x] = fed[x]
<1>1. /\ cur[p].d \in Dispatchers /\ cur[p].n \in Nat /\ cur[p].n = seen[cur[p].d]
      /\ r \in attached[cur[p].d] /\ Due(r)
  BY PastMoves DEF Due
<1>2. r \in Readers /\ fed[r] \in Seq(Nat)
  BY <1>1 DEF IInv, TypeOK
<1>3. EndsAt(fed[r], cur[p].n - 1)
  BY <1>1 DEF IInv, Feeds, ReadersFed
<1>4. fed'[r] = Append(fed[r], cur[p].n) /\ \A x \in Readers \ {r} : fed'[x] = fed[x]
  BY <1>2 DEF Feed, IInv, TypeOK
<1>5. QED
  BY <1>1, <1>2, <1>3, <1>4, EndsAtAppend

LEMMA FedGapless ==
  ASSUME IInv, NEW r \in Readers, NEW n, EndsAt(fed'[r], n), \A x \in Readers \ {r} : fed'[x] = fed[x]
  PROVE  GaplessFeed'
  BY DEF IInv, Feeds, GaplessFeed, EndsAt

\* The write loop of p deals with r, which stays and has been fed or leaves.
LEMMA PastFeeds ==
  ASSUME IInv, NEW p \in Pollers, NEW r \in cur[p].todo, pc[p] = "loop", Moves(p, Past(p, r)),
         UNCHANGED <<hist, ring, store, seen>>,
         \A x \in Readers \ {r} : fed'[x] = fed[x] /\ (reader'[x] = "live" => reader[x] = "live"),
         \A d \in Dispatchers : attached'[d] \subseteq attached[d],
         r \in attached'[cur[p].d] => EndsAt(fed'[r], cur[p].n),
         GaplessFeed'
  PROVE  Feeds'
<1>1. /\ cur[p].d \in Dispatchers /\ cur[p].n = seen[cur[p].d] /\ home[r] = cur[p].d
  BY PastMoves
<1>2. /\ \A d : Busy(d)' <=> Busy(d)
      /\ \A x : x # r => (Due(x)' <=> Due(x))
      /\ ~Due(r)'
  BY PastProgress
<1>3. StoresKept'
  BY <1>2, SameStores
<1>4. ReadersFed'
  <2> SUFFICES ASSUME NEW d \in Dispatchers, NEW x \in attached'[d], reader'[x] = "live"
               PROVE  EndsAt(fed'[x], IF Due(x)' THEN seen[d] - 1 ELSE seen[d])
    BY DEF ReadersFed
  <2>1. x \in attached[d] /\ x \in Readers
    BY DEF IInv, TypeOK
  <2>2. CASE x = r
    <3>1. d = cur[p].d
      BY <1>1, <2>1, <2>2 DEF IInv, Homes
    <3>2. QED
      BY <1>1, <1>2, <2>2, <3>1
  <2>3. CASE x # r
    BY <1>2, <2>1, <2>3 DEF IInv, Feeds, ReadersFed
  <2>4. QED
    BY <2>2, <2>3
<1>5. QED
  BY <1>3, <1>4 DEF IInv, Feeds

LEMMA VisitLiveFeeds ==
  ASSUME IInv, NEW p \in Pollers, NEW r \in Readers, VisitLive(p, r) PROVE Feeds'
<1>1. /\ pc[p] = "loop" /\ r \in cur[p].todo /\ reader[r] = "live" /\ Feed(r, cur[p].n)
      /\ Moves(p, Past(p, r)) /\ UNCHANGED <<hist, ring, store, seen, attached, reader>>
  BY VisitLiveMoves DEF VisitLive, ringVars, dispVars
<1>2. EndsAt(fed'[r], cur[p].n) /\ \A x \in Readers \ {r} : fed'[x] = fed[x]
  BY <1>1, FedNext
<1>3. GaplessFeed'
  BY <1>2, FedGapless
<1>4. QED
  BY <1>1, <1>2, <1>3, PastFeeds

LEMMA VisitReleaseFeeds ==
  ASSUME IInv, NEW p \in Pollers, NEW r \in Readers, VisitRelease(p, r) PROVE Feeds'
<1>1. /\ pc[p] = "loop" /\ r \in cur[p].todo /\ reader[r] = "live" /\ Feed(r, cur[p].n)
      /\ UNCHANGED <<hist, ring, store, seen>> /\ reader' = [reader EXCEPT ![r] = "freed"]
  BY DEF VisitRelease, ringVars
<1>2. /\ Moves(p, Past(p, r))
      /\ attached' = [attached EXCEPT ![cur[p].d] = attached[cur[p].d] \ {r}]
  BY <1>1, PastType, EraseReaderMoves DEF VisitRelease, IInv
<1>3. /\ \A d \in Dispatchers : attached'[d] \subseteq attached[d]
      /\ \A x \in Readers : reader'[x] = "live" => reader[x] = "live"
  BY <1>1, <1>2 DEF IInv, TypeOK
<1>4. EndsAt(fed'[r], cur[p].n) /\ \A x \in Readers \ {r} : fed'[x] = fed[x]
  BY <1>1, FedNext
<1>5. GaplessFeed'
  BY <1>4, FedGapless
<1>6. QED
  BY <1>1, <1>2, <1>3, <1>4, <1>5, PastFeeds

LEMMA VisitExpiredFeeds ==
  ASSUME IInv, NEW p \in Pollers, NEW r \in Readers, VisitExpired(p, r) PROVE Feeds'
<1>1. /\ pc[p] = "loop" /\ r \in cur[p].todo
      /\ UNCHANGED <<hist, ring, store, seen, fed, reader>>
  BY DEF VisitExpired, ringVars, readerVars
<1>2. /\ Moves(p, Past(p, r))
      /\ attached' = [attached EXCEPT ![cur[p].d] = attached[cur[p].d] \ {r}]
  BY <1>1, PastType, EraseReaderMoves DEF VisitExpired, IInv
<1>3. /\ \A d \in Dispatchers : attached'[d] \subseteq attached[d]
      /\ r \notin attached'[cur[p].d]
  BY <1>1, <1>2, PastMoves DEF IInv, TypeOK
<1>4. GaplessFeed'
  BY <1>1 DEF IInv, Feeds, GaplessFeed
<1>5. QED
  BY <1>1, <1>2, <1>3, <1>4, PastFeeds

LEMMA EndWriteFeeds ==
  ASSUME IInv, NEW p \in Pollers, EndWrite(p) PROVE Feeds'
<1>0. PICK d \in Dispatchers, n \in Nat : d = cur[p].d /\ n = cur[p].n
  BY EndWriteMoves
<1>1. /\ Moves(p, Idle) /\ d \in Dispatchers /\ owner[d] = p
      /\ n \in Nat /\ n > 0 /\ n = seen[d] /\ n <= Len(hist) /\ cur[p].todo = {}
  BY <1>0, EndWriteMoves
<1>2. /\ UNCHANGED <<hist, ring, seen, fed, attached, reader>>
      /\ store'[d] = StoreWrite(store[d], n, hist[n])
      /\ \A e \in Dispatchers \ {d} : store'[e] = store[e]
  BY <1>0, <1>1 DEF EndWrite, ringVars, readerVars, IInv, TypeOK
<1>3. \A e \in Dispatchers \ {d} : Busy(e)' <=> Busy(e)
  BY <1>0, <1>1, JobValues DEF Moves, Busy
<1>4. Busy(d) /\ ~Busy(d)'
  <2>1. Busy(d)
    BY <1>0, <1>1 DEF Busy
  <2>2. \A q \in Pollers \ {p} : cur[q].d # d
    BY <1>1 DEF IInv, Owned
  <2>3. \A q \in Pollers : ~(cur'[q].d = d /\ cur'[q].n > 0)
    BY <1>1, <2>2, JobValues DEF Moves
  <2>4. QED
    BY <2>1, <2>3 DEF Busy
<1>5. \A r : Due(r)' <=> Due(r)
  BY <1>0, <1>1, JobValues DEF Moves, Due
<1>6. CachesUpTo(store'[d], n)
  <2>1. CachesUpTo(store[d], n - 1) /\ store[d] \in Storage /\ hist[n] \in BOOLEAN
    BY <1>1, <1>4 DEF IInv, Feeds, StoresKept, TypeOK
  <2>2. QED
    BY <1>1, <1>2, <2>1, StoreWriteCaches
<1>7. StoresKept'
  <2> SUFFICES ASSUME NEW e \in Dispatchers
               PROVE  CachesUpTo(store'[e], IF Busy(e)' THEN seen[e] - 1 ELSE seen[e])
    BY <1>2 DEF StoresKept
  <2>1. CASE e = d
    BY <1>1, <1>4, <1>6, <2>1
  <2>2. CASE e # d
    BY <1>2, <1>3, <2>2 DEF IInv, Feeds, StoresKept
  <2>3. QED
    BY <2>1, <2>2
<1>8. ReadersFed' /\ GaplessFeed'
  BY <1>2, <1>5, SameFeeds
<1>9. QED
  BY <1>2, <1>7, <1>8 DEF IInv, Feeds

LEMMA RunClearFeeds ==
  ASSUME IInv, NEW p \in Pollers, RunClear(p) PROVE Feeds'
<1>1. UNCHANGED <<hist, ring, seen, fed, attached, reader, cur>>
  BY DEF RunClear, ringVars, readerVars
<1>2. \A d \in Dispatchers : store'[d] = store[d] \/ store'[d] = StoreClear(store[d])
  BY DEF RunClear, IInv, TypeOK
<1>3. StoresKept'
  <2> SUFFICES ASSUME NEW d \in Dispatchers
               PROVE  CachesUpTo(store'[d], IF Busy(d) THEN seen[d] - 1 ELSE seen[d])
    BY <1>1, SameThreads DEF StoresKept
  <2>1. store[d] \in Storage
    BY DEF IInv, TypeOK
  <2>2. QED
    BY <1>2, <2>1, ClearedCaches DEF IInv, Feeds, StoresKept
<1>4. QED
  BY <1>1, <1>3, SameThreads, SameFeeds DEF IInv, Feeds

LEMMA DeallocFeeds ==
  ASSUME IInv, NEW p \in Pollers, NEW r \in Readers, Dealloc(p, r), pc[p] = "idle",
         reader[r] # "none", UNCHANGED <<hist, ring, store, seen, fed>>
  PROVE  Feeds'
<1>1. /\ Moves(p, Idle) /\ reader' = [reader EXCEPT ![r] = "freed"]
      /\ \A d \in Dispatchers : attached'[d] = attached[d] \ {r}
  BY DeallocMoves
<1>2. cur[p] = Idle
  BY DEF IInv, Threads
<1>3. (\A e : Busy(e)' <=> Busy(e)) /\ (\A x : Due(x)' <=> Due(x))
  BY <1>1, <1>2, JobValues, SameProgress
<1>4. \A x \in Readers : reader'[x] = "live" => reader[x] = "live"
  BY <1>1 DEF IInv, TypeOK
<1>5. QED
  BY <1>1, <1>3, <1>4, QuietFeeds

LEMMA ReleaseElsewhereFeeds ==
  ASSUME IInv, NEW r \in Readers, ReleaseElsewhere(r) PROVE Feeds'
<1>1. UNCHANGED <<hist, ring, store, seen, fed, attached, cur>>
  BY DEF ReleaseElsewhere, ringVars, dispVars
<1>2. \A x \in Readers : reader'[x] = "live" => reader[x] = "live"
  BY DEF ReleaseElsewhere, IInv, TypeOK
<1>3. QED
  BY <1>1, <1>2, SameThreads, QuietFeeds

LEMMA DeleteDispatcherFeeds ==
  ASSUME IInv, NEW p \in Pollers, NEW d \in Dispatchers, DeleteDispatcher(p, d) PROVE Feeds'
<1>1. UNCHANGED <<hist, ring, store, seen, fed, reader, cur>>
  BY DEF DeleteDispatcher, ringVars, pollerVars
<1>2. \A e \in Dispatchers : attached'[e] \subseteq attached[e]
  BY DEF DeleteDispatcher, IInv, TypeOK
<1>3. QED
  BY <1>1, <1>2, SameThreads, QuietFeeds

LEMMA TypeStep == IInv /\ [Next]_vars => TypeOK'
<1> SUFFICES ASSUME IInv, [Next]_vars PROVE TypeOK'
  OBVIOUS
<1>1. ASSUME NEW key \in BOOLEAN, Write(key) PROVE TypeOK'
  BY <1>1, StoreWriteType, StoreTypes, JobType, JobFields, TaskType, TaskFields
     DEF IInv, TypeOK, Threads, Pending, Fresh, Write, ringVars, dispVars, pollerVars,
         readerVars
<1>2. CASE ClearCache
  BY <1>2, StoreWriteType, StoreTypes, JobType, JobFields, TaskType, TaskFields
     DEF IInv, TypeOK, Threads, Pending, Fresh, ClearCache, ringVars, dispVars, pollerVars,
         readerVars
<1>3. CASE DestroyRing
  BY <1>3, StoreWriteType, StoreTypes, JobType, JobFields, TaskType, TaskFields
     DEF IInv, TypeOK, Threads, Pending, Fresh, DestroyRing, ringVars, dispVars,
         pollerVars, readerVars
<1>4. ASSUME NEW p \in Pollers, NEW r \in Readers, AttachFind(p, r) PROVE TypeOK'
  BY <1>4, AttachFindType
<1>5. ASSUME NEW p \in Pollers, AttachReader(p) PROVE TypeOK'
  BY <1>5, AttachReaderType
<1>6. ASSUME NEW p \in Pollers, DropDispatcher(p) PROVE TypeOK'
  BY <1>6, StoreWriteType, StoreTypes, JobType, JobFields, TaskType, TaskFields
     DEF IInv, TypeOK, Threads, Pending, Fresh, DropDispatcher, ringVars, dispVars,
         pollerVars, readerVars
<1>7. ASSUME NEW p \in Pollers, CountReader(p) PROVE TypeOK'
  BY <1>7, StoreWriteType, StoreTypes, JobType, JobFields, TaskType, TaskFields
     DEF IInv, TypeOK, Threads, Pending, Fresh, CountReader, ringVars, dispVars,
         pollerVars, readerVars
<1>8. ASSUME NEW p \in Pollers, BeginWrite(p) PROVE TypeOK'
  BY <1>8, BeginWriteType
<1>9. ASSUME NEW p \in Pollers, NEW r \in Readers, VisitLive(p, r) PROVE TypeOK'
  BY <1>9, VisitLiveType
<1>10. ASSUME NEW p \in Pollers, NEW r \in Readers, VisitRelease(p, r) PROVE TypeOK'
  BY <1>10, VisitReleaseType
<1>11. ASSUME NEW p \in Pollers, NEW r \in Readers, VisitExpired(p, r) PROVE TypeOK'
  BY <1>11, VisitExpiredType
<1>12. ASSUME NEW p \in Pollers, EndWrite(p) PROVE TypeOK'
  BY <1>12, EndWriteType
<1>13. ASSUME NEW p \in Pollers, RunClear(p) PROVE TypeOK'
  BY <1>13, RunClearType
<1>14. ASSUME NEW p \in Pollers, RunDealloc(p) PROVE TypeOK'
  BY <1>14, RunDeallocType
<1>15. ASSUME NEW p \in Pollers, NEW r \in Readers, ReleaseHere(p, r) PROVE TypeOK'
  BY <1>15, ReleaseHereType
<1>16. ASSUME NEW r \in Readers, ReleaseElsewhere(r) PROVE TypeOK'
  BY <1>16, ReleaseElsewhereType
<1>17. ASSUME NEW p \in Pollers, NEW d \in Dispatchers, DeleteDispatcher(p, d) PROVE TypeOK'
  BY <1>17, StoreWriteType, StoreTypes, JobType, JobFields, TaskType, TaskFields
     DEF IInv, TypeOK, Threads, Pending, Fresh, DeleteDispatcher, ringVars, dispVars,
         pollerVars, readerVars
<1>18. CASE UNCHANGED vars
  BY <1>18
     DEF IInv, TypeOK, Threads, Pending, Fresh, vars, ringVars, dispVars, pollerVars,
         readerVars
<1>19. QED
  BY <1>1, <1>2, <1>3, <1>4, <1>5, <1>6, <1>7, <1>8, <1>9, <1>10, <1>11, <1>12, <1>13,
     <1>14, <1>15, <1>16, <1>17, <1>18
     DEF Next, SourceStep, SessionStep, PollerStep

LEMMA OwnedStep == IInv /\ [Next]_vars => Owned'
<1> SUFFICES ASSUME IInv, [Next]_vars PROVE Owned'
  OBVIOUS
<1>1. ASSUME NEW key \in BOOLEAN, Write(key) PROVE Owned'
  BY <1>1, JobFields, TaskFields, NextTask, PostTask, PastType
     DEF IInv, Owned, TypeOK, Idle, WriteTask, ClearTask, DeallocTask, Write, ringVars,
         dispVars, pollerVars, readerVars
<1>2. CASE ClearCache
  BY <1>2, JobFields, TaskFields, NextTask, PostTask, PastType
     DEF IInv, Owned, TypeOK, Idle, WriteTask, ClearTask, DeallocTask, ClearCache,
         ringVars, dispVars, pollerVars, readerVars
<1>3. CASE DestroyRing
  BY <1>3, JobFields, TaskFields, NextTask, PostTask, PastType
     DEF IInv, Owned, TypeOK, Idle, WriteTask, ClearTask, DeallocTask, DestroyRing,
         ringVars, dispVars, pollerVars, readerVars
<1>4. ASSUME NEW p \in Pollers, NEW r \in Readers, AttachFind(p, r) PROVE Owned'
  BY <1>4, AttachFindOwned
<1>5. ASSUME NEW p \in Pollers, AttachReader(p) PROVE Owned'
  BY <1>5, JobFields, TaskFields, NextTask, PostTask, PastType
     DEF IInv, Owned, TypeOK, Idle, WriteTask, ClearTask, DeallocTask, AttachReader,
         SizeChanged, ringVars, dispVars, pollerVars, readerVars
<1>6. ASSUME NEW p \in Pollers, DropDispatcher(p) PROVE Owned'
  BY <1>6, JobFields, TaskFields, NextTask, PostTask, PastType
     DEF IInv, Owned, TypeOK, Idle, WriteTask, ClearTask, DeallocTask, DropDispatcher,
         ringVars, dispVars, pollerVars, readerVars
<1>7. ASSUME NEW p \in Pollers, CountReader(p) PROVE Owned'
  BY <1>7, JobFields, TaskFields, NextTask, PostTask, PastType
     DEF IInv, Owned, TypeOK, Idle, WriteTask, ClearTask, DeallocTask, CountReader,
         ringVars, dispVars, pollerVars, readerVars
<1>8. ASSUME NEW p \in Pollers, BeginWrite(p) PROVE Owned'
  BY <1>8, BeginWriteOwned
<1>9. ASSUME NEW p \in Pollers, NEW r \in Readers, VisitLive(p, r) PROVE Owned'
  BY <1>9, VisitLiveOwned
<1>10. ASSUME NEW p \in Pollers, NEW r \in Readers, VisitRelease(p, r) PROVE Owned'
  BY <1>10, VisitReleaseOwned
<1>11. ASSUME NEW p \in Pollers, NEW r \in Readers, VisitExpired(p, r) PROVE Owned'
  BY <1>11, VisitExpiredOwned
<1>12. ASSUME NEW p \in Pollers, EndWrite(p) PROVE Owned'
  BY <1>12, JobFields, TaskFields, NextTask, PostTask, PastType
     DEF IInv, Owned, TypeOK, Idle, WriteTask, ClearTask, DeallocTask, EndWrite, ringVars,
         dispVars, pollerVars, readerVars
<1>13. ASSUME NEW p \in Pollers, RunClear(p) PROVE Owned'
  BY <1>13, JobFields, TaskFields, NextTask, PostTask, PastType
     DEF IInv, Owned, TypeOK, Idle, WriteTask, ClearTask, DeallocTask, RunClear, Take,
         ringVars, dispVars, pollerVars, readerVars
<1>14. ASSUME NEW p \in Pollers, RunDealloc(p) PROVE Owned'
  BY <1>14, RunDeallocOwned
<1>15. ASSUME NEW p \in Pollers, NEW r \in Readers, ReleaseHere(p, r) PROVE Owned'
  BY <1>15, ReleaseHereOwned
<1>16. ASSUME NEW r \in Readers, ReleaseElsewhere(r) PROVE Owned'
  BY <1>16, JobFields, TaskFields, NextTask, PostTask, PastType
     DEF IInv, Owned, TypeOK, Idle, WriteTask, ClearTask, DeallocTask, ReleaseElsewhere,
         ringVars, dispVars, pollerVars, readerVars
<1>17. ASSUME NEW p \in Pollers, NEW d \in Dispatchers, DeleteDispatcher(p, d) PROVE Owned'
  BY <1>17, JobFields, TaskFields, NextTask, PostTask, PastType
     DEF IInv, Owned, TypeOK, Idle, WriteTask, ClearTask, DeallocTask, DeleteDispatcher,
         ringVars, dispVars, pollerVars, readerVars
<1>18. CASE UNCHANGED vars
  BY <1>18
     DEF IInv, Owned, TypeOK, Idle, WriteTask, ClearTask, DeallocTask, vars, ringVars,
         dispVars, pollerVars, readerVars
<1>19. QED
  BY <1>1, <1>2, <1>3, <1>4, <1>5, <1>6, <1>7, <1>8, <1>9, <1>10, <1>11, <1>12, <1>13,
     <1>14, <1>15, <1>16, <1>17, <1>18
     DEF Next, SourceStep, SessionStep, PollerStep

LEMMA ThreadsStep == IInv /\ [Next]_vars => Threads'
<1> SUFFICES ASSUME IInv, [Next]_vars PROVE Threads'
  OBVIOUS
<1>1. ASSUME NEW key \in BOOLEAN, Write(key) PROVE Threads'
  BY <1>1, JobFields, TaskFields
     DEF IInv, Threads, Idle, TypeOK, Write, ringVars, dispVars, pollerVars, readerVars
<1>2. CASE ClearCache
  BY <1>2, JobFields, TaskFields
     DEF IInv, Threads, Idle, TypeOK, ClearCache, ringVars, dispVars, pollerVars,
         readerVars
<1>3. CASE DestroyRing
  BY <1>3, JobFields, TaskFields
     DEF IInv, Threads, Idle, TypeOK, DestroyRing, ringVars, dispVars, pollerVars,
         readerVars
<1>4. ASSUME NEW p \in Pollers, NEW r \in Readers, AttachFind(p, r) PROVE Threads'
  BY <1>4, AttachFindThreads
<1>5. ASSUME NEW p \in Pollers, AttachReader(p) PROVE Threads'
  BY <1>5, AttachReaderThreads
<1>6. ASSUME NEW p \in Pollers, DropDispatcher(p) PROVE Threads'
  BY <1>6, JobFields, TaskFields
     DEF IInv, Threads, Idle, TypeOK, DropDispatcher, ringVars, dispVars, pollerVars,
         readerVars
<1>7. ASSUME NEW p \in Pollers, CountReader(p) PROVE Threads'
  BY <1>7, CountReaderThreads
<1>8. ASSUME NEW p \in Pollers, BeginWrite(p) PROVE Threads'
  BY <1>8, BeginWriteThreads
<1>9. ASSUME NEW p \in Pollers, NEW r \in Readers, VisitLive(p, r) PROVE Threads'
  BY <1>9, VisitLiveThreads
<1>10. ASSUME NEW p \in Pollers, NEW r \in Readers, VisitRelease(p, r) PROVE Threads'
  BY <1>10, VisitReleaseThreads
<1>11. ASSUME NEW p \in Pollers, NEW r \in Readers, VisitExpired(p, r) PROVE Threads'
  BY <1>11, VisitExpiredThreads
<1>12. ASSUME NEW p \in Pollers, EndWrite(p) PROVE Threads'
  BY <1>12, EndWriteThreads
<1>13. ASSUME NEW p \in Pollers, RunClear(p) PROVE Threads'
  BY <1>13, JobFields, TaskFields
     DEF IInv, Threads, Idle, TypeOK, RunClear, Take, ringVars, dispVars, pollerVars,
         readerVars
<1>14. ASSUME NEW p \in Pollers, RunDealloc(p) PROVE Threads'
  BY <1>14, RunDeallocMoves, DeallocThreads DEF RunDealloc, ringVars
<1>15. ASSUME NEW p \in Pollers, NEW r \in Readers, ReleaseHere(p, r) PROVE Threads'
  BY <1>15, DeallocThreads DEF ReleaseHere, ringVars
<1>16. ASSUME NEW r \in Readers, ReleaseElsewhere(r) PROVE Threads'
  BY <1>16, JobFields, TaskFields
     DEF IInv, Threads, Idle, TypeOK, ReleaseElsewhere, ringVars, dispVars, pollerVars,
         readerVars
<1>17. ASSUME NEW p \in Pollers, NEW d \in Dispatchers, DeleteDispatcher(p, d) PROVE Threads'
  BY <1>17, DeleteDispatcherThreads
<1>18. CASE UNCHANGED vars
  BY <1>18 DEF IInv, Threads, Idle, TypeOK, vars, ringVars, dispVars, pollerVars, readerVars
<1>19. QED
  BY <1>1, <1>2, <1>3, <1>4, <1>5, <1>6, <1>7, <1>8, <1>9, <1>10, <1>11, <1>12, <1>13,
     <1>14, <1>15, <1>16, <1>17, <1>18
     DEF Next, SourceStep, SessionStep, PollerStep

LEMMA HomesStep == IInv /\ [Next]_vars => Homes'
<1> SUFFICES ASSUME IInv, [Next]_vars PROVE Homes'
  OBVIOUS
<1>1. ASSUME NEW key \in BOOLEAN, Write(key) PROVE Homes'
  BY <1>1, JobFields, TaskFields, TaskValues, NextTask, PostTask, PastType
     DEF IInv, Homes, Threads, TypeOK, Write, ringVars, dispVars, pollerVars, readerVars
<1>2. CASE ClearCache
  BY <1>2, JobFields, TaskFields, TaskValues, NextTask, PostTask, PastType
     DEF IInv, Homes, Threads, TypeOK, ClearCache, ringVars, dispVars, pollerVars,
         readerVars
<1>3. CASE DestroyRing
  BY <1>3, JobFields, TaskFields, TaskValues, NextTask, PostTask, PastType
     DEF IInv, Homes, Threads, TypeOK, DestroyRing, ringVars, dispVars, pollerVars,
         readerVars
<1>4. ASSUME NEW p \in Pollers, NEW r \in Readers, AttachFind(p, r) PROVE Homes'
  BY <1>4, AttachFindHomes
<1>5. ASSUME NEW p \in Pollers, AttachReader(p) PROVE Homes'
  BY <1>5, AttachReaderHomes
<1>6. ASSUME NEW p \in Pollers, DropDispatcher(p) PROVE Homes'
  BY <1>6, JobFields, TaskFields, TaskValues, NextTask, PostTask, PastType
     DEF IInv, Homes, Threads, TypeOK, DropDispatcher, ringVars, dispVars, pollerVars,
         readerVars
<1>7. ASSUME NEW p \in Pollers, CountReader(p) PROVE Homes'
  BY <1>7, JobFields, TaskFields, TaskValues, NextTask, PostTask, PastType
     DEF IInv, Homes, Threads, TypeOK, CountReader, ringVars, dispVars, pollerVars,
         readerVars
<1>8. ASSUME NEW p \in Pollers, BeginWrite(p) PROVE Homes'
  BY <1>8, BeginWriteHomes
<1>9. ASSUME NEW p \in Pollers, NEW r \in Readers, VisitLive(p, r) PROVE Homes'
  BY <1>9, SMTT(20) DEF IInv, Homes, VisitLive, ringVars, dispVars
<1>10. ASSUME NEW p \in Pollers, NEW r \in Readers, VisitRelease(p, r) PROVE Homes'
  BY <1>10, PastHomes
<1>11. ASSUME NEW p \in Pollers, NEW r \in Readers, VisitExpired(p, r) PROVE Homes'
  BY <1>11, PastHomes
<1>12. ASSUME NEW p \in Pollers, EndWrite(p) PROVE Homes'
  BY <1>12, JobFields, TaskFields, TaskValues, NextTask, PostTask, PastType
     DEF IInv, Homes, Threads, TypeOK, EndWrite, ringVars, dispVars, pollerVars, readerVars
<1>13. ASSUME NEW p \in Pollers, RunClear(p) PROVE Homes'
  BY <1>13, JobFields, TaskFields, TaskValues, NextTask, PostTask, PastType
     DEF IInv, Homes, Threads, TypeOK, RunClear, Take, ringVars, dispVars, pollerVars,
         readerVars
<1>14. ASSUME NEW p \in Pollers, RunDealloc(p) PROVE Homes'
  BY <1>14, RunDeallocHomes
<1>15. ASSUME NEW p \in Pollers, NEW r \in Readers, ReleaseHere(p, r) PROVE Homes'
  BY <1>15, ReleaseHereHomes
<1>16. ASSUME NEW r \in Readers, ReleaseElsewhere(r) PROVE Homes'
  BY <1>16, ReleaseElsewhereHomes
<1>17. ASSUME NEW p \in Pollers, NEW d \in Dispatchers, DeleteDispatcher(p, d) PROVE Homes'
  <2>1. /\ \A e \in Dispatchers : attached'[e] \subseteq attached[e]
        /\ UNCHANGED <<queue, reader, home, owner, seen>>
    BY <1>17 DEF DeleteDispatcher, IInv, TypeOK, pollerVars
  <2>2. QED
    BY <2>1 DEF IInv, Homes
<1>18. CASE UNCHANGED vars
  BY <1>18 DEF IInv, Homes, Threads, TypeOK, vars, ringVars, dispVars, pollerVars, readerVars
<1>19. QED
  BY <1>1, <1>2, <1>3, <1>4, <1>5, <1>6, <1>7, <1>8, <1>9, <1>10, <1>11, <1>12, <1>13,
     <1>14, <1>15, <1>16, <1>17, <1>18
     DEF Next, SourceStep, SessionStep, PollerStep

LEMMA PendingStep == IInv /\ [Next]_vars => Pending'
<1> SUFFICES ASSUME IInv, [Next]_vars PROVE Pending'
  OBVIOUS
<1>1. ASSUME NEW key \in BOOLEAN, Write(key) PROVE Pending'
  BY <1>1, WritePending
<1>2. CASE ClearCache
  BY <1>2, ClearCachePending
<1>3. CASE DestroyRing
  BY <1>3, TaskFields, TaskValues, PostTask
     DEF IInv, Pending, Fresh, NoHole, InOrder, AllQueued, TypeOK, DestroyRing, ringVars,
         dispVars, pollerVars, readerVars
<1>4. ASSUME NEW p \in Pollers, NEW r \in Readers, AttachFind(p, r) PROVE Pending'
  BY <1>4, AttachFindPending
<1>5. ASSUME NEW p \in Pollers, AttachReader(p) PROVE Pending'
  BY <1>5, TaskFields, TaskValues, PostTask
     DEF IInv, Pending, Fresh, NoHole, InOrder, AllQueued, TypeOK, AttachReader,
         SizeChanged, ringVars, dispVars, pollerVars, readerVars
<1>6. ASSUME NEW p \in Pollers, DropDispatcher(p) PROVE Pending'
  BY <1>6, TaskFields, TaskValues, PostTask
     DEF IInv, Pending, Fresh, NoHole, InOrder, AllQueued, TypeOK, DropDispatcher,
         ringVars, dispVars, pollerVars, readerVars
<1>7. ASSUME NEW p \in Pollers, CountReader(p) PROVE Pending'
  BY <1>7, TaskFields, TaskValues, PostTask
     DEF IInv, Pending, Fresh, NoHole, InOrder, AllQueued, TypeOK, CountReader, ringVars,
         dispVars, pollerVars, readerVars
<1>8. ASSUME NEW p \in Pollers, BeginWrite(p) PROVE Pending'
  BY <1>8, BeginWritePending
<1>9. ASSUME NEW p \in Pollers, NEW r \in Readers, VisitLive(p, r) PROVE Pending'
  BY <1>9, TaskFields, TaskValues, PostTask
     DEF IInv, Pending, Fresh, NoHole, InOrder, AllQueued, TypeOK, VisitLive, Feed, Past,
         ringVars, dispVars, pollerVars, readerVars
<1>10. ASSUME NEW p \in Pollers, NEW r \in Readers, VisitRelease(p, r) PROVE Pending'
  BY <1>10, TaskFields, TaskValues, PostTask
     DEF IInv, Pending, Fresh, NoHole, InOrder, AllQueued, TypeOK, VisitRelease, Feed,
         Past, EraseReader, SizeChanged, ringVars, dispVars, pollerVars, readerVars
<1>11. ASSUME NEW p \in Pollers, NEW r \in Readers, VisitExpired(p, r) PROVE Pending'
  BY <1>11, TaskFields, TaskValues, PostTask
     DEF IInv, Pending, Fresh, NoHole, InOrder, AllQueued, TypeOK, VisitExpired, Past,
         EraseReader, SizeChanged, ringVars, dispVars, pollerVars, readerVars
<1>12. ASSUME NEW p \in Pollers, EndWrite(p) PROVE Pending'
  BY <1>12, TaskFields, TaskValues, PostTask
     DEF IInv, Pending, Fresh, NoHole, InOrder, AllQueued, TypeOK, EndWrite, ringVars,
         dispVars, pollerVars, readerVars
<1>13. ASSUME NEW p \in Pollers, RunClear(p) PROVE Pending'
  BY <1>13, RunClearPending
<1>14. ASSUME NEW p \in Pollers, RunDealloc(p) PROVE Pending'
  BY <1>14, RunDeallocPending
<1>15. ASSUME NEW p \in Pollers, NEW r \in Readers, ReleaseHere(p, r) PROVE Pending'
  BY <1>15, SMT DEF IInv, Pending, Fresh, NoHole, InOrder, AllQueued, ReleaseHere, ringVars
<1>16. ASSUME NEW r \in Readers, ReleaseElsewhere(r) PROVE Pending'
  BY <1>16, ReleaseElsewherePending
<1>17. ASSUME NEW p \in Pollers, NEW d \in Dispatchers, DeleteDispatcher(p, d) PROVE Pending'
  BY <1>17, TaskFields, TaskValues, PostTask
     DEF IInv, Pending, Fresh, NoHole, InOrder, AllQueued, TypeOK, DeleteDispatcher,
         ringVars, dispVars, pollerVars, readerVars
<1>18. CASE UNCHANGED vars
  BY <1>18
     DEF IInv, Pending, Fresh, NoHole, InOrder, AllQueued, TypeOK, vars, ringVars,
         dispVars, pollerVars, readerVars
<1>19. QED
  BY <1>1, <1>2, <1>3, <1>4, <1>5, <1>6, <1>7, <1>8, <1>9, <1>10, <1>11, <1>12, <1>13,
     <1>14, <1>15, <1>16, <1>17, <1>18
     DEF Next, SourceStep, SessionStep, PollerStep

LEMMA FeedsStep == IInv /\ [Next]_vars => Feeds'
<1> SUFFICES ASSUME IInv, [Next]_vars PROVE Feeds'
  OBVIOUS
<1>1. ASSUME NEW key \in BOOLEAN, Write(key) PROVE Feeds'
  BY <1>1, WriteFeeds
<1>2. CASE ClearCache
  BY <1>2, ClearCacheFeeds
<1>3. CASE DestroyRing
  BY <1>3, SameThreads, QuietFeeds
     DEF Feeds, DestroyRing, ringVars, dispVars, pollerVars, readerVars
<1>4. ASSUME NEW p \in Pollers, NEW r \in Readers, AttachFind(p, r) PROVE Feeds'
  BY <1>4, AttachFindFeeds
<1>5. ASSUME NEW p \in Pollers, AttachReader(p) PROVE Feeds'
  BY <1>5, AttachReaderFeeds
<1>6. ASSUME NEW p \in Pollers, DropDispatcher(p) PROVE Feeds'
  BY <1>6, SameThreads, QuietFeeds
     DEF Feeds, DropDispatcher, ringVars, dispVars, pollerVars, readerVars
<1>7. ASSUME NEW p \in Pollers, CountReader(p) PROVE Feeds'
  BY <1>7, CountReaderFeeds
<1>8. ASSUME NEW p \in Pollers, BeginWrite(p) PROVE Feeds'
  BY <1>8, BeginWriteFeeds
<1>9. ASSUME NEW p \in Pollers, NEW r \in Readers, VisitLive(p, r) PROVE Feeds'
  BY <1>9, VisitLiveFeeds
<1>10. ASSUME NEW p \in Pollers, NEW r \in Readers, VisitRelease(p, r) PROVE Feeds'
  BY <1>10, VisitReleaseFeeds
<1>11. ASSUME NEW p \in Pollers, NEW r \in Readers, VisitExpired(p, r) PROVE Feeds'
  BY <1>11, VisitExpiredFeeds
<1>12. ASSUME NEW p \in Pollers, EndWrite(p) PROVE Feeds'
  BY <1>12, EndWriteFeeds
<1>13. ASSUME NEW p \in Pollers, RunClear(p) PROVE Feeds'
  BY <1>13, RunClearFeeds
<1>14. ASSUME NEW p \in Pollers, RunDealloc(p) PROVE Feeds'
  BY <1>14, RunDeallocMoves, DeallocFeeds DEF RunDealloc, ringVars
<1>15. ASSUME NEW p \in Pollers, NEW r \in Readers, ReleaseHere(p, r) PROVE Feeds'
  BY <1>15, DeallocFeeds DEF ReleaseHere, ringVars
<1>16. ASSUME NEW r \in Readers, ReleaseElsewhere(r) PROVE Feeds'
  BY <1>16, ReleaseElsewhereFeeds
<1>17. ASSUME NEW p \in Pollers, NEW d \in Dispatchers, DeleteDispatcher(p, d) PROVE Feeds'
  BY <1>17, DeleteDispatcherFeeds
<1>18. CASE UNCHANGED vars
  BY <1>18, QuietFeeds, SameThreads
     DEF Busy, Due, vars, ringVars, dispVars, pollerVars, readerVars
<1>19. QED
  BY <1>1, <1>2, <1>3, <1>4, <1>5, <1>6, <1>7, <1>8, <1>9, <1>10, <1>11, <1>12, <1>13,
     <1>14, <1>15, <1>16, <1>17, <1>18
     DEF Next, SourceStep, SessionStep, PollerStep

LEMMA IInvStep == IInv /\ [Next]_vars => IInv'
  BY TypeStep, OwnedStep, ThreadsStep, HomesStep, PendingStep, FeedsStep DEF IInv

\* IInv is inductive, hence an invariant of the ring.
THEOREM Inductive == Spec => []IInv
<1>1. Init => IInv
  BY InitIInv
<1>2. IInv /\ [Next]_vars => IInv'
  BY IInvStep
<1>3. QED
  BY <1>1, <1>2, PTL DEF Spec

\* Every variable of the ring keeps its type, for any number of pollers,
\* readers and dispatchers and any cache size.
THEOREM TypeCorrect == Spec => []TypeOK
<1>1. IInv => TypeOK
  BY DEF IInv
<1>2. QED
  BY <1>1, Inductive, PTL

\* A player attached at any moment sees consecutive packets: the dispatcher's
\* cache it is given ends with the packet before the first one its poller
\* still has to hand out (Pending), wherever the threads are (Feeds).
THEOREM Gapless == Spec => []GaplessFeed
<1>1. IInv => GaplessFeed
  BY DEF IInv, Feeds
<1>2. QED
  BY <1>1, Inductive, PTL

-----------------------------------------------------------------------------
(* Registration. *)

\* A dispatcher counts its readers.
Sizes == \A d \in Dispatchers :
  IsFiniteSet(attached[d]) /\ size[d] = Cardinality(attached[d])

\* A dispatcher with readers is in the map, so is the one a reader is about
\* to be attached to, and the one about to be dropped has no reader.
Mapped == alive =>
  /\ \A d \in Dispatchers : attached[d] # {} => dmap[owner[d]] = d
  /\ \A p \in Pollers : pc[p] = "attach" => dmap[p] = cur[p].d
  /\ \A p \in Pollers : pc[p] = "drop" /\ dmap[p] # None => attached[dmap[p]] = {}

\* A reader that was told of the end is registered nowhere and never will be.
Gone == \A r \in Readers : detached[r] =>
  reader[r] # "none" /\ \A d \in Dispatchers : r \notin attached[d]

RInv == IInv /\ Sizes /\ Mapped /\ Gone

LEMMA InitRInv == Init => RInv
<1> SUFFICES ASSUME Init PROVE RInv
  OBVIOUS
<1>1. IInv
  BY InitIInv
<1>2. Sizes
  BY FS_EmptySet DEF Init, Sizes
<1>3. Mapped /\ Gone
  BY DEF Init, Mapped, Gone
<1>4. QED
  BY <1>1, <1>2, <1>3 DEF RInv

LEMMA SameRegistration ==
  ASSUME RInv, UNCHANGED <<attached, size, dmap, alive, owner>>,
         \A p \in Pollers : /\ pc'[p] = "attach" => pc[p] = "attach" /\ cur'[p] = cur[p]
                            /\ pc'[p] = "drop" => pc[p] = "drop"
  PROVE  Sizes' /\ Mapped'
  BY DEF RInv, Sizes, Mapped

LEMMA SameGone ==
  ASSUME RInv, detached' = detached,
         \A d \in Dispatchers : attached'[d] \subseteq attached[d],
         \A r \in Readers : reader'[r] = "none" => reader[r] = "none"
  PROVE  Gone'
  BY DEF RInv, Gone

LEMMA AttachFindRegistration ==
  ASSUME RInv, NEW p \in Pollers, NEW r \in Readers, AttachFind(p, r)
  PROVE  Sizes' /\ Mapped' /\ Gone'
<1>1. PICK d \in Dispatchers :
           /\ Moves(p, Attaching(d, r)) /\ pc'[p] = "attach"
           /\ owner'[d] = p /\ dmap'[p] = d
           /\ \A q \in Pollers \ {p} : dmap'[q] = dmap[q]
           /\ \A e \in Dispatchers \ {d} : owner'[e] = owner[e]
           /\ (dmap[p] = d /\ owner'[d] = owner[d]) \/ owner[d] = None
  BY AttachFindMoves DEF RInv
<1>2. UNCHANGED <<alive, attached, size, reader, detached>> /\ alive
  BY DEF AttachFind, readerVars
<1>3. dmap[p] = d \/ dmap[p] = None
  BY <1>1 DEF AttachFind, RInv, IInv, Owned, TypeOK
<1>4. Sizes' /\ Gone'
  BY <1>2, SameGone DEF RInv, Sizes
<1>5. ASSUME NEW e \in Dispatchers, attached[e] # {} PROVE dmap'[owner'[e]] = e
  <2>1. dmap[owner[e]] = e /\ owner[e] # None /\ owner[e] \in Pollers
    BY <1>2, <1>5 DEF RInv, Mapped, IInv, Homes, TypeOK
  <2>2. QED
    BY <1>1, <1>3, <2>1
<1>6. \A q \in Pollers : pc'[q] = "attach" => dmap'[q] = cur'[q].d
  BY <1>1, <1>2, JobValues DEF Moves, RInv, Mapped
<1>7. \A q \in Pollers : pc'[q] = "drop" /\ dmap'[q] # None => attached[dmap'[q]] = {}
  BY <1>1, <1>2 DEF Moves, RInv, Mapped
<1>8. QED
  BY <1>2, <1>4, <1>5, <1>6, <1>7 DEF Mapped

LEMMA AttachReaderRegistration ==
  ASSUME RInv, NEW p \in Pollers, AttachReader(p)
  PROVE  Sizes' /\ Mapped' /\ Gone'
<1>1. PICK d \in Dispatchers, r \in Readers : d = cur[p].d /\ r = cur[p].r /\ reader[r] = "none"
  BY AttachReaderMoves DEF RInv
<1>2. /\ pc[p] = "attach" /\ alive /\ alive' /\ UNCHANGED <<dmap, owner, detached>>
      /\ Moves(p, cur[p]) /\ owner[d] = p /\ dmap[p] = d
  BY <1>1, AttachReaderMoves DEF AttachReader, ringVars, RInv, Mapped, IInv, Threads, Owned
<1>3. /\ attached' = [attached EXCEPT ![d] = attached[d] \cup {r}]
      /\ size' = [size EXCEPT ![d] = size[d] + 1]
      /\ reader' = [reader EXCEPT ![r] = "live"]
      /\ pc'[p] = IF size[d] + 1 = 0 THEN "drop" ELSE "count"
  BY <1>1, <1>2 DEF AttachReader, SizeChanged, RInv, IInv, TypeOK
<1>4. \A e \in Dispatchers : r \notin attached[e]
  BY <1>1 DEF RInv, IInv, Homes
<1>5. IsFiniteSet(attached[d]) /\ size[d] = Cardinality(attached[d]) /\ Cardinality(attached[d]) \in Nat
  BY FS_CardinalityType DEF RInv, Sizes
<1>6. /\ IsFiniteSet(attached[d] \cup {r})
      /\ Cardinality(attached[d] \cup {r}) = Cardinality(attached[d]) + 1
  BY <1>4, <1>5, FS_AddElement
<1>7. Sizes'
  BY <1>3, <1>5, <1>6 DEF RInv, Sizes, IInv, TypeOK
<1>8. pc'[p] = "count" /\ \A q \in Pollers \ {p} : pc'[q] = pc[q] /\ cur'[q] = cur[q]
  BY <1>2, <1>3, <1>5 DEF Moves
<1>9. \A e \in Dispatchers \ {d} : attached'[e] = attached[e]
  BY <1>3 DEF RInv, IInv, TypeOK
<1>10. Mapped'
  <2>1. \A e \in Dispatchers : attached'[e] # {} => dmap[owner[e]] = e
    BY <1>2, <1>9 DEF RInv, Mapped
  <2>2. \A q \in Pollers : pc'[q] = "attach" => dmap[q] = cur'[q].d
    BY <1>2, <1>8 DEF RInv, Mapped
  <2>3. \A q \in Pollers \ {p} : dmap[q] # None => dmap[q] # d /\ dmap[q] \in Dispatchers
    BY <1>2 DEF RInv, IInv, Owned, TypeOK
  <2>4. \A q \in Pollers : pc'[q] = "drop" /\ dmap[q] # None => attached'[dmap[q]] = {}
    BY <1>2, <1>8, <1>9, <2>3 DEF RInv, Mapped
  <2>5. QED
    BY <1>2, <2>1, <2>2, <2>4 DEF Mapped
<1>11. Gone'
  <2>1. ~detached[r] /\ \A x \in Readers \ {r} : reader'[x] = reader[x]
    BY <1>1, <1>3 DEF RInv, Gone, IInv, TypeOK
  <2>2. \A x \in Readers \ {r} : \A e \in Dispatchers : x \in attached'[e] => x \in attached[e]
    BY <1>3 DEF RInv, IInv, TypeOK
  <2>3. QED
    BY <1>2, <2>1, <2>2 DEF RInv, Gone
<1>12. QED
  BY <1>7, <1>10, <1>11

LEMMA DropDispatcherRegistration ==
  ASSUME RInv, NEW p \in Pollers, DropDispatcher(p)
  PROVE  Sizes' /\ Mapped' /\ Gone'
<1>1. /\ pc[p] = "drop" /\ dmap' = [dmap EXCEPT ![p] = None] /\ pc' = [pc EXCEPT ![p] = "count"]
      /\ UNCHANGED <<alive, cur, owner, attached, size, reader, detached>>
  BY DEF DropDispatcher, dispVars, readerVars
<1>2. Sizes' /\ Gone'
  BY <1>1, SameGone DEF RInv, Sizes
<1>3. ASSUME alive PROVE Mapped'
  <2>1. dmap'[p] = None /\ pc'[p] = "count"
        /\ \A q \in Pollers \ {p} : dmap'[q] = dmap[q] /\ pc'[q] = pc[q]
    BY <1>1 DEF RInv, IInv, TypeOK
  <2>2. ASSUME NEW d \in Dispatchers, attached[d] # {} PROVE dmap'[owner[d]] = d
    <3>1. dmap[owner[d]] = d /\ owner[d] \in Pollers
      BY <1>3, <2>2 DEF RInv, Mapped, IInv, Homes, TypeOK
    <3>2. owner[d] # p
      BY <1>1, <1>3, <2>2, <3>1 DEF RInv, Mapped
    <3>3. QED
      BY <2>1, <3>1, <3>2
  <2>3. QED
    BY <1>1, <1>3, <2>1, <2>2 DEF RInv, Mapped
<1>4. QED
  BY <1>1, <1>2, <1>3 DEF Mapped

\* A reader leaves its dispatcher.
LEMMA EraseRegistration ==
  ASSUME RInv, NEW p \in Pollers, NEW d \in Dispatchers, NEW r \in attached[d], NEW next \in Job,
         EraseReader(p, d, r, next), owner[d] = p, pc[p] \in {"idle", "loop"},
         UNCHANGED <<alive, dmap, owner>>
  PROVE  Sizes' /\ Mapped' /\ \A e \in Dispatchers : attached'[e] \subseteq attached[e]
<1>1. /\ attached' = [attached EXCEPT ![d] = attached[d] \ {r}]
      /\ size' = [size EXCEPT ![d] = size[d] - 1]
      /\ Moves(p, next)
      /\ pc'[p] = "drop" => alive /\ size[d] - 1 = 0
      /\ pc'[p] # "attach"
  BY EraseReaderMoves DEF EraseReader, SizeChanged, RInv, IInv, TypeOK
<1>2. IsFiniteSet(attached[d]) /\ size[d] = Cardinality(attached[d])
  BY DEF RInv, Sizes
<1>3. /\ IsFiniteSet(attached[d] \ {r})
      /\ Cardinality(attached[d] \ {r}) = Cardinality(attached[d]) - 1
  BY <1>2, FS_RemoveElement
<1>4. /\ attached'[d] = attached[d] \ {r} /\ size'[d] = size[d] - 1
      /\ \A e \in Dispatchers \ {d} : attached'[e] = attached[e] /\ size'[e] = size[e]
  BY <1>1 DEF RInv, IInv, TypeOK
<1>5. Sizes'
  BY <1>2, <1>3, <1>4 DEF RInv, Sizes
<1>6. \A e \in Dispatchers : attached'[e] \subseteq attached[e]
  BY <1>4
<1>7. ASSUME alive PROVE Mapped'
  <2>1. dmap[p] = d
    BY <1>7 DEF RInv, Mapped
  <2>2. pc'[p] = "drop" => attached'[d] = {}
    BY <1>1, <1>2, <1>3, <1>4, FS_EmptySet
  <2>3. \A q \in Pollers \ {p} : pc[q] = "drop" /\ dmap[q] # None =>
          dmap[q] \in Dispatchers /\ attached[dmap[q]] = {}
    BY <1>7 DEF RInv, Mapped, IInv, TypeOK
  <2>4. \A q \in Pollers : pc'[q] = "drop" /\ dmap[q] # None => attached'[dmap[q]] = {}
    BY <1>1, <1>6, <2>1, <2>2, <2>3 DEF Moves
  <2>5. \A q \in Pollers : pc'[q] = "attach" => dmap[q] = cur'[q].d
    BY <1>1, <1>7 DEF Moves, RInv, Mapped
  <2>6. \A e \in Dispatchers : attached'[e] # {} => dmap[owner[e]] = e
    BY <1>6, <1>7 DEF RInv, Mapped
  <2>7. QED
    BY <1>7, <2>4, <2>5, <2>6 DEF Mapped
<1>8. QED
  BY <1>5, <1>6, <1>7 DEF Mapped

LEMMA PastRegistration ==
  ASSUME RInv, NEW p \in Pollers, NEW r \in Readers, VisitRelease(p, r) \/ VisitExpired(p, r)
  PROVE  Sizes' /\ Mapped' /\ Gone'
<1>1. pc[p] = "loop" /\ r \in cur[p].todo /\ EraseReader(p, cur[p].d, r, Past(p, r))
      /\ UNCHANGED <<alive, dmap, owner, detached>>
  BY DEF VisitRelease, VisitExpired, ringVars, readerVars
<1>2. /\ Past(p, r) \in Job /\ cur[p].d \in Dispatchers /\ owner[cur[p].d] = p
      /\ r \in attached[cur[p].d]
  BY <1>1, PastType, PastMoves DEF RInv
<1>3. Sizes' /\ Mapped' /\ \A e \in Dispatchers : attached'[e] \subseteq attached[e]
  BY <1>1, <1>2, EraseRegistration
<1>4. \A x \in Readers : reader'[x] = "none" => reader[x] = "none"
  BY DEF VisitRelease, VisitExpired, readerVars, RInv, IInv, TypeOK
<1>5. QED
  BY <1>1, <1>3, <1>4, SameGone

LEMMA DeallocRegistration ==
  ASSUME RInv, NEW p \in Pollers, NEW r \in Readers, Dealloc(p, r), pc[p] = "idle",
         reader[r] # "none", owner[home[r]] = p, home[r] \in Dispatchers,
         UNCHANGED <<alive, dmap, owner, detached>>
  PROVE  Sizes' /\ Mapped' /\ Gone'
<1>1. \A x \in Readers : reader'[x] = "none" => reader[x] = "none"
  BY DEF Dealloc, RInv, IInv, TypeOK
<1>2. CASE r \in attached[home[r]]
  <2>1. EraseReader(p, home[r], r, Idle) /\ Idle \in Job
    BY <1>2, JobType DEF Dealloc
  <2>2. Sizes' /\ Mapped' /\ \A e \in Dispatchers : attached'[e] \subseteq attached[e]
    BY <1>2, <2>1, EraseRegistration
  <2>3. QED
    BY <1>1, <2>2, SameGone
<1>3. CASE r \notin attached[home[r]]
  <2>1. UNCHANGED <<attached, size, pc, cur>>
    BY <1>3 DEF Dealloc
  <2>2. QED
    BY <1>1, <2>1, SameRegistration, SameGone
<1>4. QED
  BY <1>2, <1>3

LEMMA DeleteDispatcherRegistration ==
  ASSUME RInv, NEW p \in Pollers, NEW d \in Dispatchers, DeleteDispatcher(p, d)
  PROVE  Sizes' /\ Mapped' /\ Gone'
<1>1. /\ attached' = [attached EXCEPT ![d] = {}] /\ size' = [size EXCEPT ![d] = 0]
      /\ detached' = [r \in Readers |-> detached[r] \/ (r \in attached[d] /\ reader[r] = "live")]
      /\ UNCHANGED <<alive, dmap, owner, pc, cur, reader>>
  BY DEF DeleteDispatcher, ringVars, pollerVars
<1>2. /\ attached'[d] = {} /\ size'[d] = 0
      /\ \A e \in Dispatchers \ {d} : attached'[e] = attached[e] /\ size'[e] = size[e]
  BY <1>1 DEF RInv, IInv, TypeOK
<1>3. Sizes'
  BY <1>2, FS_EmptySet DEF RInv, Sizes
<1>4. Mapped'
  <2>1. \A q \in Pollers : dmap[q] # None => dmap[q] \in Dispatchers
    BY DEF RInv, IInv, TypeOK
  <2>2. QED
    BY <1>1, <1>2, <2>1 DEF RInv, Mapped
<1>5. Gone'
  <2> SUFFICES ASSUME NEW r \in Readers, detached'[r]
               PROVE  reader[r] # "none" /\ \A e \in Dispatchers : r \notin attached'[e]
    BY <1>1 DEF Gone
  <2>1. CASE detached[r]
    BY <1>2, <2>1 DEF RInv, Gone
  <2>2. CASE r \in attached[d] /\ reader[r] = "live"
    BY <1>2, <2>2 DEF RInv, IInv, Homes
  <2>3. QED
    BY <1>1, <2>1, <2>2
<1>6. QED
  BY <1>3, <1>4, <1>5

\* Steps that neither touch a registration nor a dispatcher's entry.
LEMMA QuietRegistration ==
  ASSUME RInv, UNCHANGED <<attached, size, dmap, alive, owner, detached>>,
         \A p \in Pollers : /\ pc'[p] = "attach" => pc[p] = "attach" /\ cur'[p] = cur[p]
                            /\ pc'[p] = "drop" => pc[p] = "drop",
         \A r \in Readers : reader'[r] = "none" => reader[r] = "none"
  PROVE  Sizes' /\ Mapped' /\ Gone'
  BY SameRegistration, SameGone

LEMMA RInvStep == RInv /\ [Next]_vars => RInv'
<1> SUFFICES ASSUME RInv, [Next]_vars PROVE Sizes' /\ Mapped' /\ Gone'
  BY IInvStep DEF RInv
<1> USE DEF ringVars, dispVars, pollerVars, readerVars
<1>1. ASSUME NEW key \in BOOLEAN, Write(key) PROVE Sizes' /\ Mapped' /\ Gone'
  BY <1>1, QuietRegistration DEF Write
<1>2. CASE ClearCache
  BY <1>2, QuietRegistration DEF ClearCache
<1>3. CASE DestroyRing
  BY <1>3, SameGone DEF DestroyRing, RInv, Sizes, Mapped
<1>4. ASSUME NEW p \in Pollers, NEW r \in Readers, AttachFind(p, r) PROVE Sizes' /\ Mapped' /\ Gone'
  BY <1>4, AttachFindRegistration
<1>5. ASSUME NEW p \in Pollers, AttachReader(p) PROVE Sizes' /\ Mapped' /\ Gone'
  BY <1>5, AttachReaderRegistration
<1>6. ASSUME NEW p \in Pollers, DropDispatcher(p) PROVE Sizes' /\ Mapped' /\ Gone'
  BY <1>6, DropDispatcherRegistration
<1>7. ASSUME NEW p \in Pollers, CountReader(p) PROVE Sizes' /\ Mapped' /\ Gone'
  BY <1>7, CountReaderMoves, QuietRegistration DEF CountReader, Moves, RInv
<1>8. ASSUME NEW p \in Pollers, BeginWrite(p) PROVE Sizes' /\ Mapped' /\ Gone'
  BY <1>8, QuietRegistration DEF BeginWrite, Take, RInv, IInv, TypeOK
<1>9. ASSUME NEW p \in Pollers, NEW r \in Readers, VisitLive(p, r) PROVE Sizes' /\ Mapped' /\ Gone'
  BY <1>9, VisitLiveMoves, QuietRegistration DEF VisitLive, Moves, RInv
<1>10. ASSUME NEW p \in Pollers, NEW r \in Readers, VisitRelease(p, r) PROVE Sizes' /\ Mapped' /\ Gone'
  BY <1>10, PastRegistration
<1>11. ASSUME NEW p \in Pollers, NEW r \in Readers, VisitExpired(p, r) PROVE Sizes' /\ Mapped' /\ Gone'
  BY <1>11, PastRegistration
<1>12. ASSUME NEW p \in Pollers, EndWrite(p) PROVE Sizes' /\ Mapped' /\ Gone'
  BY <1>12, QuietRegistration DEF EndWrite, RInv, IInv, TypeOK
<1>13. ASSUME NEW p \in Pollers, RunClear(p) PROVE Sizes' /\ Mapped' /\ Gone'
  BY <1>13, QuietRegistration DEF RunClear
<1>14. ASSUME NEW p \in Pollers, RunDealloc(p) PROVE Sizes' /\ Mapped' /\ Gone'
  BY <1>14, RunDeallocMoves, DeallocRegistration DEF RunDealloc, RInv
<1>15. ASSUME NEW p \in Pollers, NEW r \in Readers, ReleaseHere(p, r) PROVE Sizes' /\ Mapped' /\ Gone'
  BY <1>15, DeallocRegistration DEF ReleaseHere, RInv, IInv, Homes
<1>16. ASSUME NEW r \in Readers, ReleaseElsewhere(r) PROVE Sizes' /\ Mapped' /\ Gone'
  BY <1>16, QuietRegistration DEF ReleaseElsewhere, RInv, IInv, TypeOK
<1>17. ASSUME NEW p \in Pollers, NEW d \in Dispatchers, DeleteDispatcher(p, d) PROVE Sizes' /\ Mapped' /\ Gone'
  BY <1>17, DeleteDispatcherRegistration
<1>18. CASE UNCHANGED vars
  BY <1>18, QuietRegistration DEF vars
<1>19. QED
  BY <1>1, <1>2, <1>3, <1>4, <1>5, <1>6, <1>7, <1>8, <1>9, <1>10, <1>11, <1>12, <1>13, <1>14,
     <1>15, <1>16, <1>17, <1>18 DEF Next, SourceStep, SessionStep, PollerStep

THEOREM Registered == Spec => []RInv
<1>1. Init => RInv
  BY InitRInv
<1>2. RInv /\ [Next]_vars => RInv'
  BY RInvStep
<1>3. QED
  BY <1>1, <1>2, PTL DEF Spec

\* While the ring is there, a registered reader's dispatcher is the one the
\* map names for its poller, so that every further packet is posted to it.
THEOREM NoneStranded == Spec => []NoStrandedReader
<1>1. RInv => NoStrandedReader
  BY DEF RInv, Mapped, NoStrandedReader
<1>2. QED
  BY <1>1, Registered, PTL

LEMMA QuietForDetached ==
  ASSUME RInv, [Next]_vars, NEW r \in Readers, detached[r]
  PROVE  fed'[r] = fed[r] /\ detached'[r]
<1> USE DEF ringVars, dispVars, pollerVars, readerVars
<1>1. detached[r] /\ reader[r] # "none" /\ \A d \in Dispatchers : r \notin attached[d]
  BY DEF RInv, Gone
<1>2. \A p \in Pollers : pc[p] = "loop" => r \notin cur[p].todo
  BY <1>1, PastMoves DEF RInv
<1>3. ASSUME NEW key \in BOOLEAN, Write(key) PROVE fed' = fed /\ detached' = detached
  BY <1>3 DEF Write
<1>4. CASE ClearCache \/ DestroyRing
  BY <1>1, <1>4 DEF ClearCache, DestroyRing
<1>5. ASSUME NEW p \in Pollers, NEW q \in Readers, AttachFind(p, q) PROVE fed' = fed /\ detached' = detached
  BY <1>5 DEF AttachFind
<1>6. ASSUME NEW p \in Pollers, AttachReader(p) PROVE fed'[r] = fed[r] /\ detached' = detached
  BY <1>1, <1>6, AttachReaderMoves DEF AttachReader, RInv, IInv, TypeOK
<1>7. ASSUME NEW p \in Pollers, DropDispatcher(p) \/ CountReader(p) \/ BeginWrite(p) \/ EndWrite(p) \/ RunClear(p)
      PROVE  fed' = fed /\ detached' = detached
  BY <1>7 DEF DropDispatcher, CountReader, BeginWrite, EndWrite, RunClear
<1>8. ASSUME NEW p \in Pollers, NEW q \in Readers, VisitLive(p, q) \/ VisitRelease(p, q)
      PROVE  fed'[r] = fed[r] /\ detached' = detached
  BY <1>2, <1>8 DEF VisitLive, VisitRelease, Feed, RInv, IInv, TypeOK
<1>9. ASSUME NEW p \in Pollers, NEW q \in Readers, VisitExpired(p, q) \/ ReleaseHere(p, q)
      PROVE  fed' = fed /\ detached' = detached
  BY <1>9 DEF VisitExpired, ReleaseHere
<1>10. ASSUME NEW p \in Pollers, RunDealloc(p) PROVE fed' = fed /\ detached' = detached
  BY <1>10 DEF RunDealloc
<1>11. ASSUME NEW q \in Readers, ReleaseElsewhere(q) PROVE fed' = fed /\ detached' = detached
  BY <1>11 DEF ReleaseElsewhere
<1>12. ASSUME NEW p \in Pollers, NEW d \in Dispatchers, DeleteDispatcher(p, d)
       PROVE  fed' = fed /\ detached'[r]
  BY <1>1, <1>12 DEF DeleteDispatcher
<1>13. CASE UNCHANGED vars
  BY <1>1, <1>13 DEF vars
<1>14. QED
  BY <1>1, <1>3, <1>4, <1>5, <1>6, <1>7, <1>8, <1>9, <1>10, <1>11, <1>12, <1>13
     DEF Next, SourceStep, SessionStep, PollerStep

\* A reader whose detach callback has run gets no packet afterwards, from no
\* thread: it has left every dispatcher (Gone) and no write loop that runs or
\* that can start will visit it.
THEOREM DetachedStayQuiet == Spec => DetachIsLast
<1>1. RInv /\ [Next]_vars => [\A r \in Readers : detached[r] => fed'[r] = fed[r] /\ detached'[r]]_vars
  BY QuietForDetached
<1>2. QED
  BY <1>1, Registered, PTL DEF Spec, DetachIsLast
-----------------------------------------------------------------------------
(* The counter. *)

\* The threads that are still to count a reader in, and to count one off.
Adding  == {p \in Pollers : pc[p] \in {"drop", "count"} /\ cur[p].add}
Erasing == {p \in Pollers : pc[p] \in {"drop", "count"} /\ ~cur[p].add}

\* _total_count is behind by the readers that are still to be counted in and
\* ahead by those still to be counted off.
Counted == alive =>
  /\ IsFiniteSet(Adding) /\ IsFiniteSet(Erasing) /\ IsFiniteSet(Attached)
  /\ total + Cardinality(Adding) = Cardinality(Attached) + Cardinality(Erasing)

\* Who attaches will count a reader in.
Adds == \A p \in Pollers : pc[p] = "attach" => cur[p].add

CInv == RInv /\ Counted /\ Adds

LEMMA InitCInv == Init => CInv
<1> SUFFICES ASSUME Init PROVE CInv
  OBVIOUS
<1>1. Adding = {} /\ Erasing = {} /\ Attached = {} /\ total = 0
  BY DEF Init, Adding, Erasing, Attached
<1>2. QED
  BY <1>1, InitRInv, FS_EmptySet DEF CInv, Counted, Adds, Init

LEMMA SameCounted ==
  ASSUME CInv, Adding' = Adding, Erasing' = Erasing, UNCHANGED <<attached, total>>, alive' => alive
  PROVE  Counted'
<1>1. Attached' = Attached
  BY DEF Attached
<1>2. QED
  BY <1>1 DEF CInv, Counted

\* p begins to count the reader of next: in if next says so, otherwise off.
LEMMA Joins ==
  ASSUME CInv, alive, alive', NEW p \in Pollers, NEW next, Moves(p, next),
         pc[p] \notin {"drop", "count"}, pc'[p] \in {"drop", "count"}, next.add \in BOOLEAN
  PROVE  /\ next.add => /\ IsFiniteSet(Adding') /\ Cardinality(Adding') = Cardinality(Adding) + 1
                        /\ Erasing' = Erasing
         /\ ~next.add => /\ IsFiniteSet(Erasing') /\ Cardinality(Erasing') = Cardinality(Erasing) + 1
                         /\ Adding' = Adding
<1>1. p \notin Adding /\ p \notin Erasing /\ IsFiniteSet(Adding) /\ IsFiniteSet(Erasing)
  BY DEF Adding, Erasing, CInv, Counted
<1>2. next.add => Adding' = Adding \cup {p} /\ Erasing' = Erasing
  BY DEF Adding, Erasing, Moves
<1>3. ~next.add => Erasing' = Erasing \cup {p} /\ Adding' = Adding
  BY DEF Adding, Erasing, Moves
<1>4. QED
  BY <1>1, <1>2, <1>3, FS_AddElement

LEMMA AttachReaderCounted ==
  ASSUME CInv, NEW p \in Pollers, AttachReader(p)
  PROVE  Counted'
<1> DEFINE d == cur[p].d
           r == cur[p].r
<1>1. /\ pc[p] = "attach" /\ alive /\ alive' /\ total' = total /\ cur[p].add
      /\ Moves(p, cur[p]) /\ pc'[p] \in {"drop", "count"}
      /\ d \in Dispatchers /\ r \in Readers /\ reader[r] = "none"
  BY AttachReaderMoves DEF AttachReader, CInv, RInv, IInv, Threads, Adds, ringVars
<1>2. /\ IsFiniteSet(Adding') /\ Cardinality(Adding') = Cardinality(Adding) + 1
      /\ Erasing' = Erasing
  BY <1>1, Joins
<1>3. \A e \in Dispatchers : r \notin attached[e]
  BY <1>1 DEF CInv, RInv, IInv, Homes
<1>4. attached' = [attached EXCEPT ![d] = attached[d] \cup {r}]
  BY DEF AttachReader
<1>5. Attached' = Attached \cup {r} /\ r \notin Attached
  BY <1>1, <1>3, <1>4 DEF Attached, CInv, RInv, IInv, TypeOK
<1>6. IsFiniteSet(Attached') /\ Cardinality(Attached') = Cardinality(Attached) + 1
  BY <1>1, <1>5, FS_AddElement DEF CInv, Counted
<1>7. /\ total \in Int /\ Cardinality(Adding) \in Nat /\ Cardinality(Erasing) \in Nat
      /\ Cardinality(Attached) \in Nat
  BY <1>1, FS_CardinalityType DEF CInv, Counted, RInv, IInv, TypeOK
<1>8. total + Cardinality(Adding) = Cardinality(Attached) + Cardinality(Erasing) /\ IsFiniteSet(Erasing)
  BY <1>1 DEF CInv, Counted
<1>9. total' + Cardinality(Adding') = Cardinality(Attached') + Cardinality(Erasing')
  BY <1>1, <1>2, <1>6, <1>7, <1>8
<1>10. QED
  BY <1>2, <1>6, <1>8, <1>9 DEF Counted

LEMMA EraseCounted ==
  ASSUME CInv, NEW p \in Pollers, NEW d \in Dispatchers, NEW r \in attached[d], NEW next \in Job,
         EraseReader(p, d, r, next), pc[p] \in {"idle", "loop"}, next.add = FALSE,
         UNCHANGED <<alive, total>>
  PROVE  Counted'
<1> SUFFICES ASSUME alive, alive' PROVE Counted'
  BY DEF Counted
<1>1. Moves(p, next) /\ attached' = [attached EXCEPT ![d] = attached[d] \ {r}]
  BY EraseReaderMoves DEF CInv, RInv, IInv
<1>2. pc'[p] \in {"drop", "count"}
  BY DEF EraseReader, SizeChanged, CInv, RInv, IInv, TypeOK
<1>3. /\ IsFiniteSet(Erasing') /\ Cardinality(Erasing') = Cardinality(Erasing) + 1
      /\ Adding' = Adding
  BY <1>1, <1>2, Joins
<1>4. \A e \in Dispatchers : r \in attached[e] => e = d
  BY DEF CInv, RInv, IInv, Homes
<1>5. Attached' = Attached \ {r} /\ r \in Attached
  BY <1>1, <1>4 DEF Attached, CInv, RInv, IInv, TypeOK
<1>6. IsFiniteSet(Attached') /\ Cardinality(Attached') = Cardinality(Attached) - 1
  BY <1>5, FS_RemoveElement DEF CInv, Counted
<1>7. /\ total \in Int /\ Cardinality(Adding) \in Nat /\ Cardinality(Erasing) \in Nat
      /\ Cardinality(Attached) \in Nat
  BY FS_CardinalityType DEF CInv, Counted, RInv, IInv, TypeOK
<1>8. QED
  BY <1>3, <1>6, <1>7 DEF CInv, Counted

LEMMA JobsAdd ==
  /\ ~Idle.add
  /\ \A d, r : Attaching(d, r).add
  /\ \A d, n, todo : ~Writing(d, n, todo).add
  BY DEF Idle, Attaching, Writing

LEMMA PastCounted ==
  ASSUME CInv, NEW p \in Pollers, NEW r \in Readers, VisitRelease(p, r) \/ VisitExpired(p, r)
  PROVE  Counted'
<1>1. /\ pc[p] = "loop" /\ r \in cur[p].todo /\ EraseReader(p, cur[p].d, r, Past(p, r))
      /\ UNCHANGED <<alive, total>>
  BY DEF VisitRelease, VisitExpired, ringVars
<1>2. /\ Past(p, r) \in Job /\ cur[p].d \in Dispatchers /\ r \in attached[cur[p].d]
      /\ Past(p, r).add = FALSE
  BY <1>1, PastType, PastMoves, JobsAdd DEF CInv, RInv, Past
<1>3. QED
  BY <1>1, <1>2, EraseCounted

LEMMA DeallocCounted ==
  ASSUME CInv, NEW p \in Pollers, NEW r \in Readers, Dealloc(p, r), pc[p] = "idle",
         home[r] \in Dispatchers, UNCHANGED <<alive, total>>
  PROVE  Counted'
<1>1. CASE r \in attached[home[r]]
  <2>1. EraseReader(p, home[r], r, Idle) /\ Idle \in Job /\ Idle.add = FALSE
    BY <1>1, JobType DEF Dealloc, Idle
  <2>2. QED
    BY <1>1, <2>1, EraseCounted
<1>2. CASE r \notin attached[home[r]]
  <2>1. UNCHANGED <<attached, size, pc, cur>>
    BY <1>2 DEF Dealloc
  <2>2. QED
    BY <2>1, SameCounted DEF Adding, Erasing
<1>3. QED
  BY <1>1, <1>2

LEMMA CountReaderCounted ==
  ASSUME CInv, NEW p \in Pollers, CountReader(p)
  PROVE  Counted'
<1>1. /\ pc[p] = "count" /\ alive /\ alive' /\ attached' = attached
      /\ total' = IF cur[p].add THEN total + 1 ELSE total - 1
      /\ pc'[p] \in {"loop", "idle"} /\ cur[p].add \in BOOLEAN
      /\ \A q \in Pollers \ {p} : pc'[q] = pc[q] /\ cur'[q] = cur[q]
  BY DEF CountReader, CInv, RInv, IInv, Threads, TypeOK, Job, dispVars
<1>2. Attached' = Attached /\ IsFiniteSet(Attached) /\ IsFiniteSet(Adding) /\ IsFiniteSet(Erasing)
  BY <1>1 DEF Attached, CInv, Counted
<1>3. /\ total \in Int /\ Cardinality(Adding) \in Nat /\ Cardinality(Erasing) \in Nat
      /\ Cardinality(Attached) \in Nat
  BY <1>2, FS_CardinalityType DEF CInv, RInv, IInv, TypeOK
<1>4. CASE cur[p].add
  <2>1. Adding' = Adding \ {p} /\ p \in Adding /\ Erasing' = Erasing
    BY <1>1, <1>4 DEF Adding, Erasing
  <2>2. IsFiniteSet(Adding') /\ Cardinality(Adding') = Cardinality(Adding) - 1
    BY <1>2, <2>1, FS_RemoveElement
  <2>3. QED
    BY <1>1, <1>2, <1>3, <1>4, <2>1, <2>2 DEF CInv, Counted
<1>5. CASE ~cur[p].add
  <2>1. Erasing' = Erasing \ {p} /\ p \in Erasing /\ Adding' = Adding
    BY <1>1, <1>5 DEF Adding, Erasing
  <2>2. IsFiniteSet(Erasing') /\ Cardinality(Erasing') = Cardinality(Erasing) - 1
    BY <1>2, <2>1, FS_RemoveElement
  <2>3. QED
    BY <1>1, <1>2, <1>3, <1>5, <2>1, <2>2 DEF CInv, Counted
<1>6. QED
  BY <1>4, <1>5

\* Steps of a thread that is counting nobody, before or after.
LEMMA QuietCounted ==
  ASSUME CInv, NEW p \in Pollers, pc[p] \notin {"drop", "count"}, pc'[p] \notin {"drop", "count"},
         \A q \in Pollers \ {p} : pc'[q] = pc[q] /\ cur'[q] = cur[q],
         UNCHANGED <<attached, total, alive>>
  PROVE  Counted'
<1>1. Adding' = Adding /\ Erasing' = Erasing
  BY DEF Adding, Erasing
<1>2. QED
  BY <1>1, SameCounted

LEMMA CountedStep == CInv /\ [Next]_vars => Counted'
<1> SUFFICES ASSUME CInv, [Next]_vars PROVE Counted'
  OBVIOUS
<1> USE DEF ringVars, dispVars, pollerVars, readerVars
<1>1. ASSUME NEW key \in BOOLEAN, Write(key) PROVE Counted'
  BY <1>1, SameCounted DEF Write, Adding, Erasing
<1>2. CASE ClearCache
  BY <1>2, SameCounted DEF ClearCache, Adding, Erasing
<1>3. CASE DestroyRing
  BY <1>3 DEF DestroyRing, Counted
<1>4. ASSUME NEW p \in Pollers, NEW r \in Readers, AttachFind(p, r) PROVE Counted'
  <2>1. /\ pc[p] = "idle" /\ pc'[p] = "attach" /\ UNCHANGED <<attached, total, alive>>
        /\ \A q \in Pollers \ {p} : pc'[q] = pc[q] /\ cur'[q] = cur[q]
    BY <1>4, AttachFindMoves DEF AttachFind, Moves, CInv, RInv
  <2>2. QED
    BY <2>1, QuietCounted
<1>5. ASSUME NEW p \in Pollers, AttachReader(p) PROVE Counted'
  BY <1>5, AttachReaderCounted
<1>6. ASSUME NEW p \in Pollers, DropDispatcher(p) PROVE Counted'
  <2>1. \A q \in Pollers : pc'[q] \in {"drop", "count"} <=> pc[q] \in {"drop", "count"}
    BY <1>6 DEF DropDispatcher, CInv, RInv, IInv, TypeOK
  <2>2. QED
    BY <1>6, <2>1, SameCounted DEF DropDispatcher, Adding, Erasing
<1>7. ASSUME NEW p \in Pollers, CountReader(p) PROVE Counted'
  BY <1>7, CountReaderCounted
<1>8. ASSUME NEW p \in Pollers, BeginWrite(p) PROVE Counted'
  BY <1>8, QuietCounted DEF BeginWrite, Take, CInv, RInv, IInv, TypeOK
<1>9. ASSUME NEW p \in Pollers, NEW r \in Readers, VisitLive(p, r) PROVE Counted'
  BY <1>9, QuietCounted DEF VisitLive, CInv, RInv, IInv, TypeOK
<1>10. ASSUME NEW p \in Pollers, NEW r \in Readers, VisitRelease(p, r) \/ VisitExpired(p, r) PROVE Counted'
  BY <1>10, PastCounted
<1>11. ASSUME NEW p \in Pollers, EndWrite(p) PROVE Counted'
  BY <1>11, QuietCounted DEF EndWrite, CInv, RInv, IInv, TypeOK
<1>12. ASSUME NEW p \in Pollers, RunClear(p) PROVE Counted'
  BY <1>12, SameCounted DEF RunClear, Adding, Erasing
<1>13. ASSUME NEW p \in Pollers, RunDealloc(p) PROVE Counted'
  BY <1>13, RunDeallocMoves, DeallocCounted DEF RunDealloc, CInv, RInv
<1>14. ASSUME NEW p \in Pollers, NEW r \in Readers, ReleaseHere(p, r) PROVE Counted'
  BY <1>14, DeallocCounted DEF ReleaseHere, CInv, RInv, IInv, Homes
<1>15. ASSUME NEW r \in Readers, ReleaseElsewhere(r) PROVE Counted'
  BY <1>15, SameCounted DEF ReleaseElsewhere, Adding, Erasing
<1>16. ASSUME NEW p \in Pollers, NEW d \in Dispatchers, DeleteDispatcher(p, d) PROVE Counted'
  <2>1. ~alive
    BY <1>16 DEF DeleteDispatcher, Referenced, CInv, RInv, Mapped
  <2>2. QED
    BY <1>16, <2>1 DEF DeleteDispatcher, Counted
<1>17. CASE UNCHANGED vars
  BY <1>17, SameCounted DEF vars, Adding, Erasing
<1>18. QED
  BY <1>1, <1>2, <1>3, <1>4, <1>5, <1>6, <1>7, <1>8, <1>9, <1>10, <1>11, <1>12, <1>13, <1>14,
     <1>15, <1>16, <1>17 DEF Next, SourceStep, SessionStep, PollerStep

\* Only AttachFind brings a thread to "attach".
LEMMA AddsStep == CInv /\ [Next]_vars => Adds'
<1> SUFFICES ASSUME CInv, [Next]_vars PROVE Adds'
  OBVIOUS
<1> USE DEF ringVars, dispVars, pollerVars, readerVars
<1>1. CASE UNCHANGED <<pc, cur>>
  BY <1>1 DEF CInv, Adds
<1>2. ASSUME NEW p \in Pollers, \A q \in Pollers \ {p} : pc'[q] = pc[q] /\ cur'[q] = cur[q],
             pc'[p] # "attach" \/ cur'[p].add
      PROVE  Adds'
  BY <1>2 DEF CInv, Adds
<1>3. ASSUME NEW p \in Pollers, NEW d, NEW r, NEW next \in Job, EraseReader(p, d, r, next) PROVE Adds'
  <2>1. Moves(p, next) /\ pc'[p] # "attach"
    BY <1>3, EraseReaderMoves DEF CInv, RInv, IInv
  <2>2. QED
    BY <1>2, <2>1 DEF Moves
<1>4. ASSUME NEW p \in Pollers, NEW r, Dealloc(p, r) PROVE Adds'
  BY <1>1, <1>3, <1>4, JobType DEF Dealloc
<1>5. ASSUME NEW p \in Pollers, NEW r \in Readers, AttachFind(p, r) PROVE Adds'
  BY <1>2, <1>5, AttachFindMoves, JobsAdd DEF Moves, CInv, RInv
<1>6. ASSUME NEW p \in Pollers, AttachReader(p) PROVE Adds'
  BY <1>2, <1>6, AttachReaderMoves DEF Moves, CInv, RInv
<1>7. ASSUME NEW p \in Pollers, DropDispatcher(p) \/ CountReader(p) \/ BeginWrite(p) \/ EndWrite(p) PROVE Adds'
  BY <1>2, <1>7 DEF DropDispatcher, CountReader, BeginWrite, EndWrite, Take, CInv, RInv, IInv, TypeOK
<1>8. ASSUME NEW p \in Pollers, NEW r \in Readers, VisitLive(p, r) PROVE Adds'
  BY <1>2, <1>8 DEF VisitLive, CInv, RInv, IInv, TypeOK
<1>9. ASSUME NEW p \in Pollers, NEW r \in Readers, VisitRelease(p, r) \/ VisitExpired(p, r) PROVE Adds'
  BY <1>3, <1>9, PastType DEF VisitRelease, VisitExpired, CInv, RInv
<1>10. ASSUME NEW p \in Pollers, RunDealloc(p) PROVE Adds'
  BY <1>4, <1>10 DEF RunDealloc
<1>11. ASSUME NEW p \in Pollers, NEW r \in Readers, ReleaseHere(p, r) PROVE Adds'
  BY <1>4, <1>11 DEF ReleaseHere
<1>12. CASE SourceStep \/ (\E r \in Readers : ReleaseElsewhere(r)) \/ UNCHANGED vars
  BY <1>1, <1>12 DEF SourceStep, Write, ClearCache, DestroyRing, ReleaseElsewhere, vars
<1>13. ASSUME NEW p \in Pollers, RunClear(p) \/ \E d \in Dispatchers : DeleteDispatcher(p, d) PROVE Adds'
  BY <1>1, <1>13 DEF RunClear, DeleteDispatcher
<1>14. QED
  BY <1>5, <1>6, <1>7, <1>8, <1>9, <1>10, <1>11, <1>12, <1>13 DEF Next, SessionStep, PollerStep

\* The inductive invariant of the counter.
THEOREM CountKept == Spec => []CInv
<1>1. Init => CInv
  BY InitCInv
<1>2. CInv /\ [Next]_vars => CInv'
  BY RInvStep, CountedStep, AddsStep DEF CInv
<1>3. QED
  BY <1>1, <1>2, PTL DEF Spec

\* Whatever attaches, releases and expired readers have interleaved: when no
\* thread is between a map and the counter, _total_count and every
\* _reader_size are the numbers of readers that are registered.
THEOREM CountExact == Spec => []CountIsExact
<1>1. CInv => CountIsExact
  <2> SUFFICES ASSUME CInv, alive, \A p \in Pollers : pc[p] \in {"idle", "attach", "loop"}
               PROVE  total = Cardinality(Attached)
    BY DEF CountIsExact, CInv, RInv, Sizes
  <2>1. Adding = {} /\ Erasing = {}
    BY DEF Adding, Erasing
  <2>2. total \in Int /\ Cardinality(Attached) \in Nat
    BY FS_CardinalityType DEF CInv, Counted, RInv, IInv, TypeOK
  <2>3. QED
    BY <2>1, <2>2, FS_EmptySet DEF CInv, Counted
<1>2. QED
  BY <1>1, CountKept, PTL
-----------------------------------------------------------------------------
(* A storage that is never cleared starts at a key packet.  (clearCache,   *)
(* which leaves _have_idr, breaks this: MaxClears = 0 below.)              *)

KeyFirst(s, h) ==
  /\ s.have_idr => s.cache # <<>>
  /\ s.cache # <<>> => s.cache[1] \in DOMAIN h /\ h[s.cache[1]]

\* What is true as long as the caches are not cleared; a reader that is not
\* attached yet was fed nothing.
KeysKept ==
  /\ \A p \in Pollers : \A i \in DOMAIN queue[p] : queue[p][i].op # "clear"
  /\ KeyFirst(ring, hist)
  /\ \A d \in Dispatchers : KeyFirst(store[d], hist)
  /\ \A r \in Readers : reader[r] = "none" => fed[r] = <<>>

KInv == RInv /\ KeysKept

LEMMA InitKInv == Init => KInv
<1> SUFFICES ASSUME Init PROVE KInv
  OBVIOUS
<1>1. KeyFirst(EmptyStorage, hist)
  BY DEF KeyFirst, EmptyStorage
<1>2. QED
  BY <1>1, InitRInv DEF KInv, KeysKept, KeyFirst, Init

\* Writing the packet n keeps it.
LEMMA StoreWriteKey ==
  ASSUME NEW s \in Storage, NEW h, NEW n \in DOMAIN h, n \in Nat, NEW key \in BOOLEAN, key = h[n],
         KeyFirst(s, h), ~s.have_idr => s.cache = <<>>
  PROVE  KeyFirst(StoreWrite(s, n, key), h)
<1> DEFINE o == Opened(s, key)
           e == [cache |-> <<>>, have_idr |-> FALSE, pre_key |-> key]
<1>1. o \in Storage
  BY OpenedType
<1>2. o.cache \in Seq(Nat) /\ Len(o.cache) \in Nat
  BY <1>1, StoreTypes, LenProperties
<1>3. KeyFirst(e, h)
  BY DEF KeyFirst
<1>4. CASE key /\ ~s.pre_key
  <2>1. o = [cache |-> <<>>, have_idr |-> TRUE, pre_key |-> key]
    BY <1>4 DEF Opened
  <2>2. StoreWrite(s, n, key) = [o EXCEPT !.cache = Append(<<>>, n)]
    <3>1. o.have_idr /\ o.cache = <<>> /\ ~(Len(o.cache) + 1 > MaxSize)
      BY <2>1, RingAssumption
    <3>2. QED
      BY <3>1 DEF StoreWrite
  <2>3. StoreWrite(s, n, key).cache = <<n>>
    BY <2>1, <2>2
  <2>4. <<n>> # <<>> /\ <<n>>[1] = n /\ h[n]
    BY <1>4
  <2>5. QED
    BY <2>3, <2>4 DEF KeyFirst
<1>5. CASE ~(key /\ ~s.pre_key)
  <2>1. o = [s EXCEPT !.pre_key = key]
    BY <1>5 DEF Opened
  <2>2. o.cache = s.cache /\ o.have_idr = s.have_idr
    BY <2>1 DEF Storage
  <2>3. CASE ~o.have_idr
    BY <2>2, <2>3 DEF StoreWrite, KeyFirst
  <2>4. CASE o.have_idr /\ Len(o.cache) + 1 > MaxSize
    BY <1>3, <2>4 DEF StoreWrite
  <2>5. CASE o.have_idr /\ ~(Len(o.cache) + 1 > MaxSize)
    <3>1. StoreWrite(s, n, key) = [o EXCEPT !.cache = Append(o.cache, n)]
      BY <2>5 DEF StoreWrite
    <3>2. StoreWrite(s, n, key).cache = Append(o.cache, n)
      BY <1>1, <3>1 DEF Storage
    <3>3. o.cache # <<>> /\ o.cache[1] \in DOMAIN h /\ h[o.cache[1]]
      BY <2>2, <2>5 DEF KeyFirst
    <3>4. Append(o.cache, n)[1] = o.cache[1] /\ Append(o.cache, n) # <<>>
      BY <1>2, <3>3
    <3>5. QED
      BY <3>2, <3>3, <3>4 DEF KeyFirst
  <2>6. QED
    BY <2>3, <2>4, <2>5
<1>6. QED
  BY <1>4, <1>5

\* Steps that write nothing, clear nothing and attach nobody.
LEMMA SameKeys ==
  ASSUME KeysKept, UNCHANGED <<hist, ring, store>>,
         \A p \in Pollers : \A i \in DOMAIN queue'[p] : queue'[p][i].op # "clear",
         \A r \in Readers : reader'[r] = "none" => reader[r] = "none" /\ fed'[r] = fed[r]
  PROVE  KeysKept'
  BY DEF KeysKept, KeyFirst

\* Tasks that stay, go and come.
LEMMA QueuesClear ==
  ASSUME KInv, NEW p \in Pollers, NEW t \in Tasks, t.op # "clear",
         \/ queue' = queue
         \/ queue' = [queue EXCEPT ![p] = Append(queue[p], t)]
         \/ queue[p] # <<>> /\ queue' = [queue EXCEPT ![p] = Tail(queue[p])]
  PROVE  \A q \in Pollers : \A i \in DOMAIN queue'[q] : queue'[q][i].op # "clear"
<1>1. \A q \in Pollers : queue[q] \in Seq(Tasks) /\ \A i \in DOMAIN queue[q] : queue[q][i].op # "clear"
  BY DEF KInv, RInv, IInv, TypeOK, KeysKept
<1>2. CASE queue' = [queue EXCEPT ![p] = Append(queue[p], t)]
  <2>1. \A i \in DOMAIN Append(queue[p], t) : Append(queue[p], t)[i].op # "clear"
    BY <1>1, PostTask
  <2>2. \A q \in Pollers : queue'[q] = IF q = p THEN Append(queue[p], t) ELSE queue[q]
    BY <1>2 DEF KInv, RInv, IInv, TypeOK
  <2>3. QED
    BY <1>1, <2>1, <2>2
<1>3. CASE queue[p] # <<>> /\ queue' = [queue EXCEPT ![p] = Tail(queue[p])]
  <2>1. \A i \in DOMAIN Tail(queue[p]) : Tail(queue[p])[i].op # "clear"
    BY <1>1, <1>3, NextTask
  <2>2. \A q \in Pollers : queue'[q] = IF q = p THEN Tail(queue[p]) ELSE queue[q]
    BY <1>3 DEF KInv, RInv, IInv, TypeOK
  <2>3. QED
    BY <1>1, <2>1, <2>2
<1>4. QED
  BY <1>1, <1>2, <1>3

LEMMA WriteKeys ==
  ASSUME KInv, NEW key \in BOOLEAN, Write(key) PROVE KeysKept'
<1> DEFINE n == Len(hist) + 1
<1>1. /\ hist' = Append(hist, key) /\ ring' = StoreWrite(ring, n, key)
      /\ queue' = [p \in Pollers |-> IF dmap[p] = None THEN queue[p]
                                     ELSE Append(queue[p], WriteTask(dmap[p], n))]
      /\ UNCHANGED <<store, reader, fed>>
  BY DEF Write, dispVars, readerVars
<1>2. /\ hist \in Seq(BOOLEAN) /\ n \in Nat /\ n \in DOMAIN hist' /\ hist'[n] = key
      /\ \A i \in DOMAIN hist : i \in DOMAIN hist' /\ hist'[i] = hist[i]
  BY <1>1 DEF KInv, RInv, IInv, TypeOK
<1>3. \A s : KeyFirst(s, hist) => KeyFirst(s, hist')
  BY <1>2 DEF KeyFirst
<1>4. \A d \in Dispatchers : KeyFirst(store'[d], hist')
  BY <1>1, <1>3 DEF KInv, KeysKept
<1>5. KeyFirst(ring', hist')
  <2>1. ring \in Storage /\ (~ring.have_idr => ring.cache = <<>>) /\ KeyFirst(ring, hist')
    BY <1>3 DEF KInv, KeysKept, RInv, IInv, TypeOK, Feeds, CachesUpTo
  <2>2. KeyFirst(StoreWrite(ring, n, key), hist')
    BY <1>2, <2>1, StoreWriteKey
  <2>3. QED
    BY <1>1, <2>2
<1>6. \A p \in Pollers : \A i \in DOMAIN queue'[p] : queue'[p][i].op # "clear"
  <2> TAKE p \in Pollers
  <2>1. CASE dmap[p] = None
    BY <1>1, <2>1 DEF KInv, KeysKept
  <2>2. CASE dmap[p] # None
    <3>1. dmap[p] \in Dispatchers /\ queue[p] \in Seq(Tasks)
      BY <2>2 DEF KInv, RInv, IInv, TypeOK
    <3>2. queue'[p] = Append(queue[p], WriteTask(dmap[p], n)) /\ WriteTask(dmap[p], n) \in Tasks
          /\ WriteTask(dmap[p], n).op = "write"
      BY <1>1, <1>2, <2>2, <3>1, TaskType, TaskValues
    <3>3. QED
      BY <3>1, <3>2, PostTask DEF KInv, KeysKept
  <2>3. QED
    BY <2>1, <2>2
<1>7. QED
  BY <1>1, <1>4, <1>5, <1>6 DEF KInv, KeysKept

LEMMA AttachFindKeys ==
  ASSUME KInv, NEW p \in Pollers, NEW r \in Readers, AttachFind(p, r) PROVE KeysKept'
<1>1. UNCHANGED <<hist, ring, queue, reader, fed>>
  BY DEF AttachFind, readerVars
<1>2. KeyFirst(StoreClone(ring), hist)
  <2>1. StoreClone(ring).cache = ring.cache /\ StoreClone(ring).have_idr = ring.have_idr
    BY DEF StoreClone, KInv, RInv, IInv, TypeOK, Storage
  <2>2. QED
    BY <2>1 DEF KInv, KeysKept, KeyFirst
<1>3. \A d \in Dispatchers : store'[d] = store[d] \/ store'[d] = StoreClone(ring)
  BY AttachFindMoves DEF KInv, RInv
<1>4. \A d \in Dispatchers : KeyFirst(store'[d], hist')
  BY <1>1, <1>2, <1>3 DEF KInv, KeysKept, KeyFirst
<1>5. QED
  BY <1>1, <1>4 DEF KInv, KeysKept, KeyFirst

LEMMA EndWriteKeys ==
  ASSUME KInv, NEW p \in Pollers, EndWrite(p) PROVE KeysKept'
<1> DEFINE d == cur[p].d
           n == cur[p].n
<1>1. d \in Dispatchers /\ n \in Nat /\ n \in DOMAIN hist /\ hist[n] \in BOOLEAN
  BY EndWriteMoves DEF KInv, RInv, IInv, TypeOK
<1>2. /\ store' = [store EXCEPT ![d] = StoreWrite(store[d], n, hist[n])]
      /\ UNCHANGED <<hist, ring, queue, reader, fed>>
  BY DEF EndWrite, ringVars, readerVars
<1>3. store[d] \in Storage /\ KeyFirst(store[d], hist) /\ (~store[d].have_idr => store[d].cache = <<>>)
  BY <1>1 DEF KInv, RInv, IInv, TypeOK, KeysKept, Feeds, StoresKept, CachesUpTo
<1>4. KeyFirst(StoreWrite(store[d], n, hist[n]), hist)
  BY <1>1, <1>3, StoreWriteKey
<1>5. \A e \in Dispatchers : KeyFirst(store'[e], hist)
  <2>1. \A e \in Dispatchers : store'[e] = IF e = d THEN StoreWrite(store[d], n, hist[n]) ELSE store[e]
    BY <1>2 DEF KInv, RInv, IInv, TypeOK
  <2>2. QED
    BY <1>4, <2>1 DEF KInv, KeysKept
<1>6. \A e \in Dispatchers : KeyFirst(store'[e], hist')
  BY <1>2, <1>5
<1>7. QED
  BY <1>2, <1>6 DEF KInv, KeysKept, KeyFirst

LEMMA KeysStep ==
  ASSUME MaxClears = 0, KInv, [Next]_vars PROVE KeysKept'
<1> USE DEF ringVars, dispVars, pollerVars, readerVars
<1>1. KeysKept /\ TypeOK
  BY DEF KInv, RInv, IInv
<1>2. \A p \in Pollers : \A i \in DOMAIN queue[p] : queue[p][i].op # "clear"
  BY <1>1 DEF KeysKept
<1>3. ASSUME NEW p \in Pollers, NEW op, Take(p, op)
      PROVE  op # "clear" /\ \A q \in Pollers : \A i \in DOMAIN queue'[q] : queue'[q][i].op # "clear"
  <2>1. Head(queue[p]) = queue[p][1] /\ 1 \in DOMAIN queue[p] /\ Head(queue[p]) \in Tasks
    BY <1>1, <1>3, NextTask DEF Take, TypeOK
  <2>2. op # "clear"
    BY <1>2, <1>3, <2>1 DEF Take
  <2>3. QED
    BY <1>3, <2>1, <2>2, QueuesClear DEF Take
<1>4. ASSUME NEW key \in BOOLEAN, Write(key) PROVE KeysKept'
  BY <1>4, WriteKeys
<1>5. CASE ClearCache
  BY <1>1, <1>5 DEF ClearCache, TypeOK
<1>6. CASE DestroyRing
  BY <1>1, <1>2, <1>6, SameKeys DEF DestroyRing
<1>7. ASSUME NEW p \in Pollers, NEW r \in Readers, AttachFind(p, r) PROVE KeysKept'
  BY <1>7, AttachFindKeys
<1>8. ASSUME NEW p \in Pollers, AttachReader(p) PROVE KeysKept'
  <2>1. /\ reader' = [reader EXCEPT ![cur[p].r] = "live"]
        /\ fed' = [fed EXCEPT ![cur[p].r] = store[cur[p].d].cache]
        /\ UNCHANGED <<hist, ring, store, queue>>
    BY <1>8 DEF AttachReader
  <2>2. \A r \in Readers : reader'[r] = "none" => reader[r] = "none" /\ fed'[r] = fed[r]
    BY <1>1, <2>1 DEF TypeOK
  <2>3. QED
    BY <1>1, <1>2, <2>1, <2>2, SameKeys
<1>9. ASSUME NEW p \in Pollers, DropDispatcher(p) \/ CountReader(p) PROVE KeysKept'
  BY <1>1, <1>2, <1>9, SameKeys DEF DropDispatcher, CountReader
<1>10. ASSUME NEW p \in Pollers, BeginWrite(p) PROVE KeysKept'
  <2>1. /\ Take(p, "write") /\ UNCHANGED <<hist, ring, store, reader, fed>>
    BY <1>10 DEF BeginWrite
  <2>2. QED
    BY <1>1, <1>3, <2>1, SameKeys
<1>11. ASSUME NEW p \in Pollers, NEW r \in Readers, VisitLive(p, r) \/ VisitRelease(p, r) PROVE KeysKept'
  <2>1. /\ reader[r] = "live" /\ reader' \in {reader, [reader EXCEPT ![r] = "freed"]}
        /\ fed' = [fed EXCEPT ![r] = Append(fed[r], cur[p].n)]
        /\ UNCHANGED <<hist, ring, store, queue>>
    BY <1>11 DEF VisitLive, VisitRelease, Feed
  <2>2. \A x \in Readers : reader'[x] = "none" => reader[x] = "none" /\ fed'[x] = fed[x]
    BY <1>1, <2>1 DEF TypeOK
  <2>3. QED
    BY <1>1, <1>2, <2>1, <2>2, SameKeys
<1>12. ASSUME NEW p \in Pollers, NEW r \in Readers, VisitExpired(p, r) PROVE KeysKept'
  BY <1>1, <1>2, <1>12, SameKeys DEF VisitExpired
<1>13. ASSUME NEW p \in Pollers, EndWrite(p) PROVE KeysKept'
  BY <1>13, EndWriteKeys
<1>14. ASSUME NEW p \in Pollers, RunClear(p) PROVE KeysKept'
  BY <1>3, <1>14 DEF RunClear
<1>16. ASSUME NEW p \in Pollers, RunDealloc(p) PROVE KeysKept'
  <2>1. /\ Take(p, "dealloc") /\ UNCHANGED <<hist, ring, store, fed>>
        /\ \E r \in Readers : reader' = [reader EXCEPT ![r] = "freed"]
    BY <1>16, RunDeallocMoves DEF RunDealloc, Dealloc, KInv, RInv
  <2>2. \A x \in Readers : reader'[x] = "none" => reader[x] = "none"
    BY <1>1, <2>1 DEF TypeOK
  <2>3. QED
    BY <1>1, <1>3, <2>1, <2>2, SameKeys
<1>17. ASSUME NEW p \in Pollers, NEW r \in Readers, ReleaseHere(p, r) PROVE KeysKept'
  <2>1. reader' = [reader EXCEPT ![r] = "freed"] /\ UNCHANGED <<hist, ring, store, queue, fed>>
    BY <1>17 DEF ReleaseHere, Dealloc
  <2>2. \A x \in Readers : reader'[x] = "none" => reader[x] = "none"
    BY <1>1, <2>1 DEF TypeOK
  <2>3. QED
    BY <1>1, <1>2, <2>1, <2>2, SameKeys
<1>18. ASSUME NEW r \in Readers, ReleaseElsewhere(r) PROVE KeysKept'
  <2>1. /\ reader' = [reader EXCEPT ![r] = "expired"] /\ UNCHANGED <<hist, ring, store, fed>>
        /\ queue' = [queue EXCEPT ![owner[home[r]]] = Append(queue[owner[home[r]]], DeallocTask(r))]
        /\ owner[home[r]] \in Pollers
    BY <1>18 DEF ReleaseElsewhere, KInv, RInv, IInv, Homes
  <2>2. \A x \in Readers : reader'[x] = "none" => reader[x] = "none"
    BY <1>1, <2>1 DEF TypeOK
  <2>3. DeallocTask(r) \in Tasks /\ DeallocTask(r).op # "clear"
    BY TaskType, TaskValues
  <2>4. \A q \in Pollers : \A i \in DOMAIN queue'[q] : queue'[q][i].op # "clear"
    BY <2>1, <2>3, QueuesClear
  <2>5. QED
    BY <1>1, <2>1, <2>2, <2>4, SameKeys
<1>19. ASSUME NEW p \in Pollers, NEW d \in Dispatchers, DeleteDispatcher(p, d) PROVE KeysKept'
  BY <1>1, <1>2, <1>19, SameKeys DEF DeleteDispatcher
<1>20. CASE UNCHANGED vars
  BY <1>1, <1>2, <1>20, SameKeys DEF vars
<1>21. QED
  BY <1>4, <1>5, <1>6, <1>7, <1>8, <1>9, <1>10, <1>11, <1>12, <1>13, <1>14, <1>16, <1>17,
     <1>18, <1>19, <1>20 DEF Next, SourceStep, SessionStep, PollerStep

\* The inductive invariant of what a cache starts with.
THEOREM KeysInductive ==
  ASSUME MaxClears = 0
  PROVE  Spec => []KInv
<1>1. Init => KInv
  BY InitKInv
<1>2. KInv /\ [Next]_vars => KInv'
  BY RInvStep, KeysStep DEF KInv
<1>3. QED
  BY <1>1, <1>2, PTL DEF Spec

\* Who else is attached or let go does not matter: only the reader's own attach
\* feeds a reader that has no packets and is not attached.
LEMMA OnlyAttachFeeds ==
  ASSUME RInv, [Next]_vars, NEW r \in Readers, reader[r] = "none", fed'[r] # fed[r]
  PROVE  \E p \in Pollers : AttachReader(p) /\ cur[p].r = r
<1> USE DEF ringVars, dispVars, pollerVars, readerVars
<1>1. TypeOK
  BY DEF RInv, IInv
<1>2. ASSUME NEW p \in Pollers, AttachReader(p), cur[p].r # r PROVE fed'[r] = fed[r]
  BY <1>1, <1>2 DEF AttachReader, TypeOK
<1>3. ASSUME NEW p \in Pollers, NEW q \in Readers, VisitLive(p, q) \/ VisitRelease(p, q)
      PROVE  fed'[r] = fed[r]
  BY <1>1, <1>3 DEF VisitLive, VisitRelease, Feed, TypeOK
<1>4. CASE SourceStep \/ (\E q \in Readers : ReleaseElsewhere(q)) \/ UNCHANGED vars
  BY <1>4 DEF SourceStep, Write, ClearCache, DestroyRing, ReleaseElsewhere, vars
<1>5. ASSUME NEW p \in Pollers, NEW q \in Readers,
             AttachFind(p, q) \/ VisitExpired(p, q) \/ ReleaseHere(p, q)
      PROVE  fed' = fed
  BY <1>5 DEF AttachFind, VisitExpired, ReleaseHere
<1>6. ASSUME NEW p \in Pollers,
             \/ DropDispatcher(p) \/ CountReader(p) \/ BeginWrite(p) \/ EndWrite(p)
             \/ RunClear(p) \/ RunDealloc(p) \/ \E d \in Dispatchers : DeleteDispatcher(p, d)
      PROVE  fed' = fed
  BY <1>6 DEF DropDispatcher, CountReader, BeginWrite, EndWrite, RunClear, RunDealloc, DeleteDispatcher
<1>7. QED
  BY <1>2, <1>3, <1>4, <1>5, <1>6 DEF Next, SessionStep, PollerStep

\* While nobody clears the caches, a player that is given anything on attach is
\* given a key packet first, however late its dispatcher's clone was taken.
THEOREM KeyComesFirst ==
  ASSUME MaxClears = 0
  PROVE  Spec => StartsAtKey
<1>1. ASSUME KInv, [Next]_vars
      PROVE  [\A r \in Readers : fed[r] = <<>> /\ reader[r] = "none" /\ fed'[r] # <<>>
                => hist[fed'[r][1]]]_vars
  <2> SUFFICES ASSUME NEW r \in Readers, fed[r] = <<>>, reader[r] = "none", fed'[r] # <<>>
               PROVE  hist[fed'[r][1]]
    OBVIOUS
  <2>1. PICK p \in Pollers : AttachReader(p) /\ cur[p].r = r
    BY <1>1, OnlyAttachFeeds DEF KInv
  <2>2. fed'[r] = store[cur[p].d].cache /\ cur[p].d \in Dispatchers
    BY <1>1, <2>1, AttachReaderMoves DEF AttachReader, KInv, RInv, IInv, TypeOK
  <2>3. QED
    BY <1>1, <2>2 DEF KInv, KeysKept, KeyFirst
<1>2. QED
  BY <1>1, KeysInductive, PTL DEF Spec, StartsAtKey
-----------------------------------------------------------------------------
(* The refinement of GopFeed. *)

\* A run of consecutive packets is given by its first and its last.
LEMMA ConsecutiveRuns ==
  ASSUME NEW s \in Seq(Nat), Consecutive(s), NEW i \in 1 .. Len(s)
  PROVE  s[i] = s[1] + i - 1
<1> DEFINE T == {k \in 1 .. Len(s) : s[k] # s[1] + k - 1}
<1>1. Len(s) \in Nat /\ \A k \in 1 .. Len(s) : s[k] \in Nat
  OBVIOUS
<1>2. SUFFICES ASSUME T # {} PROVE FALSE
  OBVIOUS
<1>3. PICK n \in T : \A m \in T : n <= m
  <2>1. T \in SUBSET Nat
    BY <1>1
  <2>2. QED
    BY <1>2, <2>1, LeastOf
<1>4. n # 1
  BY <1>1, <1>3
<1>5. n - 1 \in 1 .. Len(s) /\ n - 1 \notin T
  BY <1>1, <1>3, <1>4
<1>6. s[n] = s[n - 1] + 1
  <2>1. n - 1 \in 1 .. Len(s) - 1 /\ n - 1 + 1 = n
    BY <1>1, <1>3, <1>5
  <2>2. QED
    BY <2>1 DEF Consecutive
<1>7. s[n - 1] = s[1] + (n - 1) - 1 /\ s[n] # s[1] + n - 1 /\ n \in Nat
  BY <1>1, <1>3, <1>5
<1>8. s[1] \in Nat /\ s[n - 1] \in Nat
  BY <1>1, <1>3, <1>5
<1>9. QED
  BY <1>6, <1>7, <1>8

LEMMA RunIsStretch ==
  ASSUME NEW s \in Seq(Nat), Consecutive(s), s # <<>>
  PROVE  s = Abstract!Stretch(s[1], s[Len(s)]) /\ s[1] <= s[Len(s)]
<1>1. Len(s) \in Nat /\ Len(s) >= 1 /\ \A k \in 1 .. Len(s) : s[k] \in Nat
  OBVIOUS
<1>2. \A k \in 1 .. Len(s) : s[k] = s[1] + k - 1
  BY ConsecutiveRuns
<1>3. s[Len(s)] - s[1] + 1 = Len(s)
  BY <1>1, <1>2
<1>4. DOMAIN s = 1 .. s[Len(s)] - s[1] + 1 /\ s = [k \in DOMAIN s |-> s[k]]
  BY <1>3
<1>5. s = [k \in 1 .. s[Len(s)] - s[1] + 1 |-> s[1] + k - 1]
  BY <1>2, <1>3, <1>4
<1>6. QED
  BY <1>1, <1>2, <1>5 DEF Abstract!Stretch

LEMMA InitRefines == Init => Abstract!Init
  BY DEF Init, Abstract!Init, PlayerView

\* Steps that a player does not see.
LEMMA Unseen ==
  ASSUME UNCHANGED <<hist, fed>>, \A r \in Readers : PlayerView'[r] = PlayerView[r]
  PROVE  UNCHANGED Abstract!vars
<1>1. PlayerView' = PlayerView
  BY DEF PlayerView
<1>2. QED
  BY <1>1 DEF Abstract!vars

LEMMA SameReaders ==
  ASSUME UNCHANGED <<hist, fed, reader, detached>>
  PROVE  UNCHANGED Abstract!vars
  BY Unseen DEF PlayerView

\* A reader that some write loop visits is on.
LEMMA VisitedIsOn ==
  ASSUME RInv, NEW p \in Pollers, NEW r \in Readers, pc[p] = "loop", r \in cur[p].todo, reader[r] = "live"
  PROVE  /\ PlayerView[r] = "on" /\ cur[p].n \in DOMAIN hist
         /\ fed[r] # <<>> => cur[p].n = fed[r][Len(fed[r])] + 1
<1>1. /\ cur[p].d \in Dispatchers /\ cur[p].n \in Nat /\ cur[p].n > 0 /\ cur[p].n = seen[cur[p].d]
      /\ r \in attached[cur[p].d]
  BY PastMoves DEF RInv
<1>2. ~detached[r]
  BY <1>1 DEF RInv, Gone
<1>3. cur[p].n \in DOMAIN hist
  BY <1>1 DEF RInv, IInv, TypeOK, Pending
<1>4. EndsAt(fed[r], cur[p].n - 1)
  BY <1>1 DEF RInv, IInv, Feeds, ReadersFed, Due
<1>5. QED
  BY <1>1, <1>2, <1>3, <1>4 DEF EndsAt, PlayerView

LEMMA VisitRefines ==
  ASSUME RInv, NEW p \in Pollers, NEW r \in Readers, VisitLive(p, r) \/ VisitRelease(p, r)
  PROVE  Abstract!Deliver(r)
<1>1. /\ pc[p] = "loop" /\ r \in cur[p].todo /\ reader[r] = "live"
      /\ fed' = [fed EXCEPT ![r] = Append(fed[r], cur[p].n)]
      /\ UNCHANGED <<hist, detached>>
      /\ reader' = reader \/ reader' = [reader EXCEPT ![r] = "freed"]
  BY DEF VisitLive, VisitRelease, Feed, ringVars
<1>2. /\ PlayerView[r] = "on" /\ cur[p].n \in DOMAIN hist
      /\ fed[r] # <<>> => cur[p].n = fed[r][Len(fed[r])] + 1
  BY <1>1, VisitedIsOn
<1>3. PlayerView' = PlayerView \/ PlayerView' = [PlayerView EXCEPT ![r] = "off"]
  <2>1. CASE reader' = reader
    BY <1>1, <2>1 DEF PlayerView
  <2>2. CASE reader' = [reader EXCEPT ![r] = "freed"]
    BY <1>1, <2>2 DEF PlayerView, RInv, IInv, TypeOK
  <2>3. QED
    BY <1>1, <2>1, <2>2
<1>4. QED
  BY <1>1, <1>2, <1>3 DEF Abstract!Deliver

LEMMA AttachReaderRefines ==
  ASSUME KInv, NEW p \in Pollers, AttachReader(p)
  PROVE  \E r \in Readers : Abstract!Subscribe(r)
<1> DEFINE d == cur[p].d
           r == cur[p].r
           c == store[d].cache
<1>1. /\ d \in Dispatchers /\ r \in Readers /\ reader[r] = "none"
      /\ reader' = [reader EXCEPT ![r] = "live"]
      /\ fed' = [fed EXCEPT ![r] = c]
      /\ UNCHANGED <<hist, detached>>
  BY AttachReaderMoves DEF AttachReader, KInv, RInv, ringVars
<1>2. ~detached[r] /\ fed[r] = <<>> /\ fed \in [Readers -> Seq(Nat)] /\ reader \in [Readers -> {"none", "live", "expired", "freed"}]
  BY <1>1 DEF KInv, RInv, Gone, KeysKept, IInv, TypeOK
<1>3. PlayerView[r] = "none" /\ PlayerView' = [PlayerView EXCEPT ![r] = "on"]
  BY <1>1, <1>2 DEF PlayerView
<1>4. CASE c = <<>>
  <2>1. fed' = fed
    BY <1>1, <1>2, <1>4
  <2>2. QED
    BY <1>1, <1>3, <2>1 DEF Abstract!Subscribe
<1>5. CASE c # <<>>
  <2>1. c \in Seq(Nat) /\ Consecutive(c) /\ c[Len(c)] <= Len(hist)
    <3>1. /\ store[d] \in Storage /\ CachesUpTo(store[d], IF Busy(d) THEN seen[d] - 1 ELSE seen[d])
          /\ seen[d] <= Len(hist) /\ seen[d] \in Nat /\ Len(hist) \in Nat
      BY <1>1 DEF KInv, RInv, IInv, TypeOK, Feeds, StoresKept, Pending
    <3>2. c \in Seq(Nat)
      BY <3>1, StoreTypes
    <3>3. QED
      BY <1>5, <3>1, <3>2 DEF CachesUpTo, EndsAt
  <2>2. c[1] \in DOMAIN hist /\ hist[c[1]]
    BY <1>1, <1>5 DEF KInv, KeysKept, KeyFirst
  <2>3. c = Abstract!Stretch(c[1], c[Len(c)]) /\ c[1] <= c[Len(c)]
    BY <1>5, <2>1, RunIsStretch
  <2>4. c[Len(c)] \in DOMAIN hist /\ c[1] \in 1 .. c[Len(c)]
    <3>1. DOMAIN hist = 1 .. Len(hist) /\ Len(hist) \in Nat
      BY DEF KInv, RInv, IInv, TypeOK
    <3>2. Len(c) \in Nat /\ Len(c) >= 1 /\ c[Len(c)] \in Nat
      BY <1>5, <2>1
    <3>3. QED
      BY <2>1, <2>2, <2>3, <3>1, <3>2
  <2> HIDE DEF c, r
  <2>5. fed' = [fed EXCEPT ![r] = Abstract!Stretch(c[1], c[Len(c)])]
    BY <1>1, <2>3
  <2>6. QED
    BY <1>1, <1>3, <2>2, <2>4, <2>5 DEF Abstract!Subscribe
<1>6. QED
  BY <1>4, <1>5

LEMMA LeaveRefines ==
  ASSUME NEW r \in Readers, reader \in [Readers -> {"none", "live", "expired", "freed"}],
         reader[r] # "none", NEW s \in {"expired", "freed"},
         reader' = [reader EXCEPT ![r] = s], UNCHANGED <<hist, fed, detached>>
  PROVE  UNCHANGED Abstract!vars \/ Abstract!Leave({r})
<1>1. PlayerView'[r] = "off" /\ \A x \in Readers \ {r} : PlayerView'[x] = PlayerView[x]
  BY DEF PlayerView
<1>2. PlayerView[r] \in {"on", "off"}
  BY DEF PlayerView
<1>3. CASE PlayerView[r] = "off"
  BY <1>1, <1>3, Unseen
<1>4. CASE PlayerView[r] = "on"
  <2>1. PlayerView' = [x \in Readers |-> IF x \in {r} THEN "off" ELSE PlayerView[x]]
    BY <1>1 DEF PlayerView
  <2>2. QED
    BY <1>4, <2>1 DEF Abstract!Leave
<1>5. QED
  BY <1>2, <1>3, <1>4

LEMMA DeleteRefines ==
  ASSUME RInv, NEW p \in Pollers, NEW d \in Dispatchers, DeleteDispatcher(p, d)
  PROVE  \E S \in SUBSET Readers : Abstract!Leave(S)
<1> DEFINE S == {r \in Readers : r \in attached[d] /\ reader[r] = "live"}
<1>1. /\ detached' = [r \in Readers |-> detached[r] \/ (r \in attached[d] /\ reader[r] = "live")]
      /\ UNCHANGED <<hist, fed, reader>>
  BY DEF DeleteDispatcher, ringVars
<1>2. \A r \in S : PlayerView[r] = "on"
  BY DEF PlayerView, RInv, Gone
<1>3. PlayerView' = [r \in Readers |-> IF r \in S THEN "off" ELSE PlayerView[r]]
  BY <1>1 DEF PlayerView
<1>4. QED
  BY <1>1, <1>2, <1>3 DEF Abstract!Leave

LEMMA StepRefines ==
  ASSUME MaxClears = 0, KInv, [Next]_vars
  PROVE  [Abstract!Next]_Abstract!vars
<1> USE DEF ringVars, dispVars, pollerVars, readerVars
<1>1. RInv /\ reader \in [Readers -> {"none", "live", "expired", "freed"}]
  BY DEF KInv, RInv, IInv, TypeOK
<1>2. ASSUME NEW key \in BOOLEAN, Write(key) PROVE Abstract!Next
  <2>1. PlayerView' = PlayerView
    BY <1>2 DEF Write, PlayerView
  <2>2. Abstract!Publish(key)
    BY <1>2, <2>1 DEF Write, Abstract!Publish
  <2>3. QED
    BY <2>2 DEF Abstract!Next
<1>3. CASE ClearCache \/ DestroyRing
  BY <1>3, SameReaders DEF ClearCache, DestroyRing
<1>4. ASSUME NEW p \in Pollers, NEW r \in Readers, AttachFind(p, r) \/ VisitExpired(p, r)
      PROVE  UNCHANGED Abstract!vars
  BY <1>4, SameReaders DEF AttachFind, VisitExpired
<1>5. ASSUME NEW p \in Pollers, AttachReader(p) PROVE Abstract!Next
  BY <1>5, AttachReaderRefines DEF Abstract!Next
<1>6. ASSUME NEW p \in Pollers,
             \/ DropDispatcher(p) \/ CountReader(p) \/ BeginWrite(p) \/ EndWrite(p) \/ RunClear(p)
      PROVE  UNCHANGED Abstract!vars
  BY <1>6, SameReaders DEF DropDispatcher, CountReader, BeginWrite, EndWrite, RunClear
<1>7. ASSUME NEW p \in Pollers, NEW r \in Readers, VisitLive(p, r) \/ VisitRelease(p, r)
      PROVE  Abstract!Next
  BY <1>1, <1>7, VisitRefines DEF Abstract!Next
<1>8. ASSUME NEW p \in Pollers, RunDealloc(p) PROVE UNCHANGED Abstract!vars \/ Abstract!Next
  <2>1. PICK r \in Readers : reader[r] \in {"expired", "freed"} /\ reader' = [reader EXCEPT ![r] = "freed"]
    BY <1>1, <1>8, RunDeallocMoves DEF Dealloc, RInv
  <2>2. UNCHANGED <<hist, fed, detached>>
    BY <1>8 DEF RunDealloc
  <2>3. UNCHANGED Abstract!vars \/ Abstract!Leave({r})
    BY <1>1, <2>1, <2>2, LeaveRefines
  <2>4. QED
    BY <2>3 DEF Abstract!Next
<1>9. ASSUME NEW p \in Pollers, NEW r \in Readers, ReleaseHere(p, r) PROVE UNCHANGED Abstract!vars \/ Abstract!Next
  <2>1. /\ reader[r] = "live" /\ reader' = [reader EXCEPT ![r] = "freed"]
        /\ UNCHANGED <<hist, fed, detached>>
    BY <1>9 DEF ReleaseHere, Dealloc
  <2>2. UNCHANGED Abstract!vars \/ Abstract!Leave({r})
    BY <1>1, <2>1, LeaveRefines
  <2>3. QED
    BY <2>2 DEF Abstract!Next
<1>10. ASSUME NEW r \in Readers, ReleaseElsewhere(r) PROVE UNCHANGED Abstract!vars \/ Abstract!Next
  <2>1. /\ reader[r] = "live" /\ reader' = [reader EXCEPT ![r] = "expired"]
        /\ UNCHANGED <<hist, fed, detached>>
    BY <1>10 DEF ReleaseElsewhere
  <2>2. UNCHANGED Abstract!vars \/ Abstract!Leave({r})
    BY <1>1, <2>1, LeaveRefines
  <2>3. QED
    BY <2>2 DEF Abstract!Next
<1>11. ASSUME NEW p \in Pollers, NEW d \in Dispatchers, DeleteDispatcher(p, d) PROVE Abstract!Next
  BY <1>1, <1>11, DeleteRefines DEF Abstract!Next
<1>12. CASE UNCHANGED vars
  BY <1>12, SameReaders DEF vars
<1>13. QED
  BY <1>2, <1>3, <1>4, <1>5, <1>6, <1>7, <1>8, <1>9, <1>10, <1>11, <1>12
     DEF Next, SourceStep, SessionStep, PollerStep

\* While nobody clears the caches, every player's view of the ring is that of
\* GopFeed: an empty or a key-led run of past packets on attach, then the packets
\* that follow, one by one, until it leaves or is cut off.
THEOREM ImplementsGopFeed ==
  ASSUME MaxClears = 0
  PROVE  Spec => RefinesGopFeed
<1>1. Init => Abstract!Init
  BY InitRefines
<1>2. KInv /\ [Next]_vars => [Abstract!Next]_Abstract!vars
  BY StepRefines
<1>3. QED
  BY <1>1, <1>2, KeysInductive, PTL DEF Spec, RefinesGopFeed, Abstract!Spec
=============================================================================
