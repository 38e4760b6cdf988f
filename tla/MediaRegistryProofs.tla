------------------------ MODULE MediaRegistryProofs ------------------------
(***************************************************************************)
(* Theorems about MediaRegistry for any number of sources, sessions,       *)
(* requests and dispatchers.  IInv adds to the invariants of the runs what *)
(* a thread in the middle of an operation holds and whom it has made deaf  *)
(* (Fits), that only requests that are past addListener listen             *)
(* (Listeners), and that a request is answered only when its listener is   *)
(* out of reach (Answers).  HInv, for a request that is alone, says where  *)
(* it is in relation to a broadcast it is due to hear.                     *)
(***************************************************************************)
EXTENDS MediaRegistry, TLAPS

\* The request's own thread is on its way to addListener.
Adding(r) ==
  thread[SessionOf[r]].pc \in {"listen", "add"} /\ thread[SessionOf[r]].r = r

Settled(r) == r \in Asked /\ ~Adding(r)

\* The broadcasts to come do not reach the listener of r.
Deaf(r) == event # None => r \notin listening[event]

\* What thread t may rely on when its local state is x.
Fits(t, x) ==
  /\ x.pc \in {"listen", "add"} => t \in Sessions /\ x.r \in Requests /\ SessionOf[x.r] = t
  /\ x.pc \in {"add", "erase", "drop", "copy"} => x.d \in made
  /\ x.pc \in {"del", "erase", "drop", "deleted"} => x.r \in Requests /\ Settled(x.r)
  /\ x.r \in Requests => x.r \in Asked
  /\ \A r \in x.todo : Settled(r)
  /\ x.pc = "erase" => event = x.d \/ Deaf(x.r)
  /\ x.pc \in {"drop", "deleted"} => Deaf(x.r)

Fitting == \A t \in Threads : Fits(t, thread[t])

\* The registry's entry of a stream is one of its own sources.
Latest ==
  /\ LatestIsFound
  /\ \A i \in Streams : latest[i] # None => StreamOf[latest[i]] = i

Listeners == \A d \in Dispatchers :
  /\ \A r \in listening[d] : Settled(r)
  /\ d \notin made => listening[d] = {}

Answers == \A r \in Requests :
  /\ timer[r] # "none" => r \in Asked
  /\ posted[r] > 0 \/ answers[r] # <<>> => Settled(r) /\ Deaf(r)

IInv == TypeOK /\ Latest /\ Fitting /\ Listeners /\ Answers
-----------------------------------------------------------------------------

USE RegistryAssumption

LEMMA Put ==
  ASSUME TypeOK, NEW t \in Threads, NEW x \in Local
  PROVE  /\ [thread EXCEPT ![t] = x] \in [Threads -> Local]
         /\ [thread EXCEPT ![t] = x][t] = x
         /\ \A u \in Threads \ {t} : [thread EXCEPT ![t] = x][u] = thread[u]
  BY DEF TypeOK

LEMMA Locals == TypeOK => \A t \in Threads : thread[t] \in Local
  BY DEF TypeOK

LEMMA IdleFits == Idle \in Local /\ \A t \in Threads : Fits(t, Idle)
  BY DEF Idle, Local, Fits

\* A thread that does nothing loses nothing.
LEMMA FitsKept ==
  ASSUME TypeOK, NEW t \in Threads, NEW x \in Local, Fits(t, x),
         made \subseteq made', Asked \subseteq Asked',
         \A r \in Requests : Settled(r) => Settled(r)',
         \A r \in Requests : Settled(r) /\ Deaf(r) => Deaf(r)',
         event' = event \/ event = None \/ event' = None
  PROVE  Fits(t, x)'
<1>1. x.pc \in {"listen", "add"} => t \in Sessions /\ x.r \in Requests /\ SessionOf[x.r] = t
  BY DEF Fits
<1>2. x.pc \in {"add", "erase", "drop", "copy"} => x.d \in made'
  BY DEF Fits
<1>3. x.pc \in {"del", "erase", "drop", "deleted"} => x.r \in Requests /\ Settled(x.r)'
  BY DEF Fits
<1>4. x.r \in Requests => x.r \in Asked'
  BY DEF Fits
<1>5. \A r \in x.todo : Settled(r)'
  BY DEF Fits, Local
<1>6. ASSUME x.pc = "erase" PROVE event' = x.d \/ Deaf(x.r)'
  <2>1. x.r \in Requests /\ Settled(x.r) /\ x.d \in made /\ (event = x.d \/ Deaf(x.r))
    BY <1>6 DEF Fits
  <2>2. None \notin made
    BY DEF TypeOK, Notice!NoticeTypeOK
  <2>3. CASE Deaf(x.r)
    BY <2>1, <2>3
  <2>4. CASE event' = event
    BY <2>1, <2>3, <2>4
  <2>5. CASE event = None
    BY <2>1, <2>2, <2>3, <2>5
  <2>6. CASE event' = None
    BY <2>6 DEF Deaf
  <2>7. QED
    BY <2>4, <2>5, <2>6
<1>7. x.pc \in {"drop", "deleted"} => Deaf(x.r)'
  BY DEF Fits
<1>8. QED
  BY <1>1, <1>2, <1>3, <1>4, <1>5, <1>6, <1>7 DEF Fits

\* A step of thread t alone, to a state that is not on its way to addListener.
LEMMA QuietStep ==
  ASSUME IInv, NEW t \in Threads, NEW x \in Local, Fits(t, x),
         x.pc \notin {"listen", "add"},
         thread' = [thread EXCEPT ![t] = x],
         UNCHANGED <<noticeVars, asked>>,
         \A r \in Requests : timer'[r] # "none" => r \in Asked,
         \A r \in Requests : posted'[r] > 0 \/ answers'[r] # <<>> => Settled(r) /\ Deaf(r)
  PROVE  Fitting' /\ Listeners' /\ Answers'
<1>1. thread'[t] = x /\ \A u \in Threads \ {t} : thread'[u] = thread[u]
  BY Put DEF IInv
<1>2. Asked' = Asked
  BY DEF Asked
<1>3. \A r \in Requests : Settled(r) => Settled(r)'
  <2>1. SUFFICES ASSUME NEW r \in Requests, Settled(r) PROVE Settled(r)'
    OBVIOUS
  <2>2. SessionOf[r] \in Threads
    BY DEF Threads
  <2>3. CASE SessionOf[r] = t
    BY <1>1, <1>2, <2>1, <2>3 DEF Settled, Adding
  <2>4. CASE SessionOf[r] # t
    BY <1>1, <1>2, <2>1, <2>2, <2>4 DEF Settled, Adding
  <2>5. QED
    BY <2>3, <2>4
<1>4. \A r : Deaf(r) <=> Deaf(r)'
  BY DEF Deaf, noticeVars
<1>5. \A u \in Threads : \A y \in Local : Fits(u, y) => Fits(u, y)'
  <2>1. SUFFICES ASSUME NEW u \in Threads, NEW y \in Local, Fits(u, y) PROVE Fits(u, y)'
    OBVIOUS
  <2>2. QED
    BY FitsKept, <1>2, <1>3, <1>4, <2>1 DEF noticeVars, IInv
<1>6. Fitting'
  <2>1. SUFFICES ASSUME NEW u \in Threads PROVE Fits(u, thread[u])'
    BY DEF Fitting
  <2>2. PICK y \in Local : Fits(u, y) /\ thread'[u] = y
    BY <1>1, Locals DEF IInv, Fitting
  <2>3. Fits(u, y)'
    BY <1>5, <2>2
  <2>4. QED
    BY <2>2, <2>3 DEF Fits
<1>7. Listeners'
  BY <1>3 DEF IInv, Listeners, noticeVars, TypeOK, Notice!NoticeTypeOK
<1>8. Answers'
  BY <1>2, <1>3, <1>4 DEF Answers
<1>9. QED
  BY <1>6, <1>7, <1>8

\* A step that moves no thread.
LEMMA StillStep ==
  ASSUME IInv, UNCHANGED <<noticeVars, asked, thread>>,
         \A r \in Requests : timer'[r] # "none" => r \in Asked,
         \A r \in Requests : posted'[r] > 0 \/ answers'[r] # <<>> => Settled(r) /\ Deaf(r)
  PROVE  Fitting' /\ Listeners' /\ Answers'
<1>1. Asked' = Asked
  BY DEF Asked
<1>2. \A r : (Settled(r) <=> Settled(r)') /\ (Deaf(r) <=> Deaf(r)')
  BY <1>1 DEF Settled, Adding, Deaf, noticeVars
<1>3. Fitting'
  BY <1>1, <1>2 DEF IInv, Fitting, Fits, noticeVars
<1>4. Listeners'
  BY <1>2 DEF IInv, Listeners, noticeVars
<1>5. Answers'
  BY <1>1, <1>2 DEF Answers
<1>6. QED
  BY <1>3, <1>4, <1>5
\* A thread on its way to addListener goes on with the same request.
LEMMA SettledStays ==
  ASSUME TypeOK, NEW t \in Threads, NEW x \in Local, thread' = [thread EXCEPT ![t] = x], asked' = asked,
         x.pc \in {"listen", "add"} => thread[t].pc \in {"listen", "add"} /\ x.r = thread[t].r
  PROVE  Asked' = Asked /\ \A r \in Requests : Settled(r) => Settled(r)'
<1>1. Asked' = Asked
  BY DEF Asked
<1>2. thread'[t] = x /\ \A u \in Threads \ {t} : thread'[u] = thread[u]
  BY Put
<1>3. ASSUME NEW r \in Requests, Settled(r) PROVE Settled(r)'
  <2>1. SessionOf[r] \in Threads
    BY DEF Threads
  <2>2. CASE SessionOf[r] = t
    BY <1>1, <1>2, <1>3, <2>2 DEF Settled, Adding
  <2>3. CASE SessionOf[r] # t
    BY <1>1, <1>2, <1>3, <2>1, <2>3 DEF Settled, Adding
  <2>4. QED
    BY <2>2, <2>3
<1>4. QED
  BY <1>1, <1>3

\* What thread t does suits the others.
LEMMA OthersFit ==
  ASSUME IInv, NEW t \in Threads, NEW x \in Local, Fits(t, x)',
         thread' = [thread EXCEPT ![t] = x],
         made \subseteq made', Asked \subseteq Asked',
         \A r \in Requests : Settled(r) => Settled(r)',
         \A r \in Requests : Settled(r) /\ Deaf(r) => Deaf(r)',
         event' = event \/ event = None \/ event' = None
  PROVE  Fitting'
<1>1. thread'[t] = x /\ \A u \in Threads \ {t} : thread'[u] = thread[u]
  BY Put DEF IInv
<1>2. SUFFICES ASSUME NEW u \in Threads PROVE Fits(u, thread[u])'
  BY DEF Fitting
<1>3. CASE u = t
  BY <1>1, <1>3 DEF Fits
<1>4. CASE u # t
  <2>1. PICK y \in Local : Fits(u, y) /\ thread'[u] = y
    BY <1>1, <1>4, Locals DEF IInv, Fitting
  <2>2. Fits(u, y)'
    BY <2>1, FitsKept DEF IInv
  <2>3. QED
    BY <2>1, <2>2 DEF Fits
<1>5. QED
  BY <1>3, <1>4

\* A search leaves the latest source where it is.
LEMMA SearchKeepsLatest ==
  ASSUME TypeOK, Latest, NEW i \in Streams, map' = Searched(i) \/ map' = map, UNCHANGED <<phase, latest>>
  PROVE  Latest'
<1>1. SUFFICES ASSUME NEW j \in Streams, Locked(latest[j]) # None PROVE map'[j] = latest[j]
  BY DEF Latest, LatestIsFound, Locked
<1>2. map[j] = latest[j]
  BY <1>1 DEF Latest, LatestIsFound
<1>3. Found(j) = map[j]
  BY <1>1, <1>2 DEF Found, Locked
<1>4. QED
  BY <1>2, <1>3 DEF Searched, TypeOK

LEMMA AskedGrows ==
  ASSUME TypeOK, NEW r \in Requests, asked' = [asked EXCEPT ![SessionOf[r]] = Append(@, r)]
  PROVE  Asked' = Asked \cup {r}
<1>1. PICK p \in Sessions : p = SessionOf[r]
  OBVIOUS
<1>2. asked[p] \in Seq(Requests) /\ asked'[p] = Append(asked[p], r)
      /\ \A q \in Sessions \ {p} : asked'[q] = asked[q]
  BY <1>1 DEF TypeOK
<1>3. /\ DOMAIN asked[p] = 1 .. Len(asked[p])
      /\ DOMAIN asked'[p] = 1 .. Len(asked[p]) + 1
      /\ asked'[p][Len(asked[p]) + 1] = r
      /\ \A k \in 1 .. Len(asked[p]) : asked'[p][k] = asked[p][k]
  BY <1>2
<1>4. Asked' \subseteq Asked \cup {r}
  BY <1>2, <1>3 DEF Asked
<1>5. r \in Asked'
  BY <1>2, <1>3 DEF Asked
<1>6. Asked \subseteq Asked'
  <2>1. SUFFICES ASSUME NEW q \in Requests, NEW o \in Sessions, NEW k \in DOMAIN asked[o], asked[o][k] = q
                 PROVE  \E m \in DOMAIN asked'[o] : asked'[o][m] = q
    BY DEF Asked
  <2>2. CASE o = p
    BY <1>2, <1>3, <2>1, <2>2
  <2>3. CASE o # p
    BY <1>2, <2>1, <2>3
  <2>4. QED
    BY <2>2, <2>3
<1>7. QED
  BY <1>4, <1>5, <1>6
-----------------------------------------------------------------------------
(* Each step keeps IInv: types, the registry, and the three parts above. *)

\* Sources.
LEMMA RegistKept == ASSUME IInv, NEW s \in Sources, Regist(s) PROVE IInv'
<1>1. TypeOK /\ s \in Threads
  BY DEF IInv, Threads
<1> DEFINE x == [Idle EXCEPT !.pc = "emit", !.says = "regist"]
<1>2. x \in Local /\ Fits(s, x) /\ x.pc = "emit"
  BY DEF Idle, Local, Fits
<1>3. thread' = [thread EXCEPT ![s] = x]
  BY DEF Regist
<1>4. TypeOK'
  <2>1. thread' \in [Threads -> Local]
    BY <1>1, <1>2, <1>3, Put
  <2>2. QED
    BY <1>1, <2>1 DEF Regist, TypeOK, Notice!NoticeTypeOK, noticeVars, requestVars
<1>5. Latest'
  <2>1. /\ map' = [map EXCEPT ![StreamOf[s]] = s] /\ latest' = [latest EXCEPT ![StreamOf[s]] = s]
        /\ phase' = [phase EXCEPT ![s] = "live"]
    BY DEF Regist
  <2>2. SUFFICES ASSUME NEW i \in Streams
                 PROVE  /\ Locked(latest[i])' # None => map'[i] = latest'[i]
                        /\ latest'[i] # None => StreamOf[latest'[i]] = i
    BY DEF Latest, LatestIsFound
  <2>3. CASE i = StreamOf[s]
    BY <1>1, <2>1, <2>3 DEF TypeOK
  <2>4. CASE i # StreamOf[s]
    <3>1. latest'[i] = latest[i] /\ map'[i] = map[i] /\ latest[i] # s
      BY <1>1, <2>1, <2>4 DEF IInv, Latest, TypeOK
    <3>2. Locked(latest[i])' = Locked(latest[i])
      BY <1>1, <2>1, <3>1 DEF Locked, TypeOK
    <3>3. QED
      BY <3>1, <3>2 DEF IInv, Latest, LatestIsFound
  <2>5. QED
    BY <2>3, <2>4
<1>6. Fitting' /\ Listeners' /\ Answers'
  BY <1>1, <1>2, <1>3, QuietStep DEF Regist, IInv, Answers, requestVars
<1>7. QED
  BY <1>4, <1>5, <1>6 DEF IInv

LEMMA ExpireKept == ASSUME IInv, NEW s \in Sources, Expire(s) PROVE IInv'
<1>1. TypeOK'
  BY DEF IInv, Expire, TypeOK, Notice!NoticeTypeOK, noticeVars, requestVars
<1>2. Latest'
  BY DEF IInv, Expire, Latest, LatestIsFound, Locked, TypeOK
<1>3. Fitting' /\ Listeners' /\ Answers'
  BY StillStep DEF Expire, IInv, Answers, requestVars
<1>4. QED
  BY <1>1, <1>2, <1>3 DEF IInv

LEMMA UnregistKept == ASSUME IInv, NEW s \in Sources, Unregist(s) PROVE IInv'
<1>1. TypeOK /\ s \in Threads /\ StreamOf[s] \in Streams
  BY DEF IInv, Threads
<1> DEFINE x == [Idle EXCEPT !.pc = "emit", !.says = "unregist"]
<1>2. x \in Local /\ Fits(s, x) /\ x.pc = "emit"
  BY DEF Idle, Local, Fits
<1>3. Latest'
  <2>1. phase[s] = "expired" /\ phase' = [phase EXCEPT ![s] = "gone"] /\ latest' = latest
    BY DEF Unregist
  <2>2. \A i \in Streams : Locked(latest[i])' # None => Locked(latest[i]) # None
    BY <1>1, <2>1 DEF Locked, TypeOK
  <2>3. CASE Erasable(s) /\ map' = [map EXCEPT ![StreamOf[s]] = None]
    <3>1. Locked(latest[StreamOf[s]]) = None
      BY <1>1, <2>1, <2>3 DEF IInv, Latest, LatestIsFound, Erasable, Found, Locked, TypeOK
    <3>2. QED
      BY <1>1, <2>1, <2>2, <2>3, <3>1 DEF IInv, Latest, LatestIsFound, TypeOK
  <2>4. CASE map' = map
    BY <2>1, <2>2, <2>4 DEF IInv, Latest, LatestIsFound
  <2>5. QED
    BY <2>3, <2>4 DEF Unregist
<1>4. CASE Erasable(s)
  <2>1. thread' = [thread EXCEPT ![s] = x]
    BY <1>4 DEF Unregist
  <2>2. thread' \in [Threads -> Local]
    BY <1>1, <1>2, <2>1, Put
  <2>3. TypeOK'
    BY <1>1, <1>4, <2>2 DEF Unregist, TypeOK, Notice!NoticeTypeOK, noticeVars, requestVars
  <2>4. Fitting' /\ Listeners' /\ Answers'
    BY <1>1, <1>2, <2>1, QuietStep DEF Unregist, IInv, Answers, requestVars
  <2>5. QED
    BY <1>3, <2>3, <2>4 DEF IInv
<1>5. CASE ~Erasable(s)
  <2>1. TypeOK'
    BY <1>1, <1>5 DEF Unregist, TypeOK, Notice!NoticeTypeOK, noticeVars, requestVars
  <2>2. Fitting' /\ Listeners' /\ Answers'
    BY <1>5, StillStep DEF Unregist, IInv, Answers, requestVars
  <2>3. QED
    BY <1>3, <2>1, <2>2 DEF IInv
<1>6. QED
  BY <1>4, <1>5

LEMMA EmitGetKept == ASSUME IInv, NEW s \in Sources, EmitGet(s) PROVE IInv'
<1>1. TypeOK /\ s \in Threads /\ thread[s] \in Local /\ Fits(s, thread[s])
  BY Locals DEF IInv, Fitting, Threads
<1> DEFINE x == IF event = None THEN Idle ELSE [thread[s] EXCEPT !.pc = "copy", !.d = event]
<1>2. x \in Local
  <2>1. \A y \in Local : event # None => [y EXCEPT !.pc = "copy", !.d = event] \in Local
    BY <1>1 DEF Local, TypeOK, Notice!NoticeTypeOK
  <2>2. QED
    BY <1>1, <2>1, IdleFits
<1>3. Fits(s, x) /\ x.pc \notin {"listen", "add"}
  <2>1. CASE event = None
    BY <1>1, <2>1, IdleFits DEF Idle
  <2>2. CASE event # None
    <3>1. /\ x.pc = "copy" /\ x.d = event /\ event \in made
          /\ x.r = thread[s].r /\ x.todo = thread[s].todo
      BY <1>1, <2>2 DEF Local, TypeOK, Notice!NoticeTypeOK
    <3>2. QED
      BY <1>1, <3>1 DEF Fits
  <2>3. QED
    BY <2>1, <2>2
<1>4. thread' = [thread EXCEPT ![s] = x]
  BY DEF EmitGet
<1>5. TypeOK'
  <2>1. thread' \in [Threads -> Local]
    BY <1>1, <1>2, <1>4, Put
  <2>2. QED
    BY <1>1, <2>1 DEF EmitGet, TypeOK, Notice!NoticeTypeOK, noticeVars, sourceVars, requestVars, Waiting, Local
<1>6. Latest'
  BY DEF EmitGet, sourceVars, IInv, Latest, LatestIsFound, Locked
<1>7. Fitting' /\ Listeners' /\ Answers'
  BY <1>1, <1>2, <1>3, <1>4, QuietStep DEF EmitGet, IInv, Answers, requestVars
<1>8. QED
  BY <1>5, <1>6, <1>7 DEF IInv

LEMMA EmitCopyKept == ASSUME IInv, NEW s \in Sources, EmitCopy(s) PROVE IInv'
<1>1. TypeOK /\ s \in Threads /\ thread[s] \in Local /\ Fits(s, thread[s])
  BY Locals DEF IInv, Fitting, Threads
<1> DEFINE x == [thread[s] EXCEPT !.pc = "visit", !.todo = listening[thread[s].d]]
<1>2. x \in Local
  <2>1. thread[s].d \in Dispatchers /\ listening[thread[s].d] \in SUBSET Requests
    BY <1>1 DEF EmitCopy, Fits, TypeOK, Notice!NoticeTypeOK
  <2>2. \A y \in Local : \A z \in SUBSET Requests : [y EXCEPT !.pc = "visit", !.todo = z] \in Local
    BY DEF Local
  <2>3. QED
    BY <1>1, <2>1, <2>2
<1>3. Fits(s, x) /\ x.pc \notin {"listen", "add"}
  <2>1. x.pc = "visit" /\ x.r = thread[s].r /\ x.todo = listening[thread[s].d]
    BY <1>1 DEF Local
  <2>2. \A r \in listening[thread[s].d] : Settled(r)
    BY <1>1 DEF EmitCopy, Fits, IInv, Listeners, TypeOK, Notice!NoticeTypeOK
  <2>3. QED
    BY <1>1, <2>1, <2>2 DEF Fits
<1>4. thread' = [thread EXCEPT ![s] = x]
  BY DEF EmitCopy
<1>5. TypeOK'
  <2>1. thread' \in [Threads -> Local]
    BY <1>1, <1>2, <1>4, Put
  <2>2. QED
    BY <1>1, <2>1 DEF EmitCopy, TypeOK, Notice!NoticeTypeOK, noticeVars, sourceVars, requestVars
<1>6. Latest'
  BY DEF EmitCopy, sourceVars, IInv, Latest, LatestIsFound, Locked
<1>7. Fitting' /\ Listeners' /\ Answers'
  BY <1>1, <1>2, <1>3, <1>4, QuietStep DEF EmitCopy, IInv, Answers, requestVars
<1>8. QED
  BY <1>5, <1>6, <1>7 DEF IInv

LEMMA EmitEndKept == ASSUME IInv, NEW s \in Sources, EmitEnd(s) PROVE IInv'
<1>1. TypeOK /\ s \in Threads /\ thread[s] \in Local /\ Fits(s, thread[s])
  BY Locals DEF IInv, Fitting, Threads
<1> DEFINE x == Idle
<1>2. x \in Local
  BY IdleFits
<1>3. Fits(s, x) /\ x.pc \notin {"listen", "add"}
  BY <1>1, IdleFits DEF Idle
<1>4. thread' = [thread EXCEPT ![s] = x]
  BY DEF EmitEnd, Rests
<1>5. TypeOK'
  <2>1. thread' \in [Threads -> Local]
    BY <1>1, <1>2, <1>4, Put
  <2>2. QED
    BY <1>1, <2>1 DEF EmitEnd, Rests, TypeOK, Notice!NoticeTypeOK, noticeVars, sourceVars, requestVars
<1>6. Latest'
  BY DEF EmitEnd, Rests, sourceVars, IInv, Latest, LatestIsFound, Locked
<1>7. Fitting' /\ Listeners' /\ Answers'
  BY <1>1, <1>2, <1>3, <1>4, QuietStep DEF EmitEnd, Rests, IInv, Answers, requestVars
<1>8. QED
  BY <1>5, <1>6, <1>7 DEF IInv

LEMMA VisitGoneKept == ASSUME IInv, NEW s \in Sources, NEW r \in Requests, VisitGone(s, r) PROVE IInv'
<1>1. TypeOK /\ s \in Threads /\ thread[s] \in Local /\ Fits(s, thread[s])
  BY Locals DEF IInv, Fitting, Threads
<1> DEFINE x == [thread[s] EXCEPT !.pc = "del", !.r = r, !.todo = thread[s].todo \ {r}]
<1>2. x \in Local
  <2>1. \A y \in Local : \A z \in SUBSET Requests :
          [y EXCEPT !.pc = "del", !.r = r, !.todo = z] \in Local
    BY DEF Local
  <2>2. thread[s].todo \ {r} \in SUBSET Requests
    BY <1>1 DEF Local
  <2>3. QED
    BY <1>1, <2>1, <2>2
<1>3. Fits(s, x) /\ x.pc \notin {"listen", "add"}
  <2>1. x.pc = "del" /\ x.r = r /\ x.todo = thread[s].todo \ {r}
    BY <1>1 DEF Local
  <2>2. Settled(r)
    BY <1>1 DEF VisitGone, Fits
  <2>3. QED
    BY <1>1, <2>1, <2>2 DEF Fits, Settled
<1>4. thread' = [thread EXCEPT ![s] = x]
  BY DEF VisitGone, CancelAll, Cancelled
<1>5. TypeOK'
  <2>1. thread' \in [Threads -> Local]
    BY <1>1, <1>2, <1>4, Put
  <2>2. QED
    BY <1>1, <2>1 DEF VisitGone, CancelAll, Cancelled, TypeOK, Notice!NoticeTypeOK, noticeVars, sourceVars
<1>6. Latest'
  BY DEF VisitGone, CancelAll, Cancelled, sourceVars, IInv, Latest, LatestIsFound, Locked
<1>7. Fitting' /\ Listeners' /\ Answers'
  <2>1. Settled(r)
    BY <1>1 DEF VisitGone, Fits
  <2>2. \A q \in Requests : timer'[q] # "none" => q \in Asked
    BY <1>1, <2>1 DEF VisitGone, CancelAll, Cancelled, IInv, Answers, TypeOK, Settled
  <2>3. QED
    BY <1>1, <1>2, <1>3, <1>4, <2>2, QuietStep DEF VisitGone, CancelAll, IInv, Answers
<1>8. QED
  BY <1>5, <1>6, <1>7 DEF IInv

LEMMA VisitHeardKept == ASSUME IInv, NEW s \in Sources, NEW r \in Requests, VisitHeard(s, r) PROVE IInv'
<1>1. TypeOK /\ s \in Threads /\ thread[s] \in Local /\ Fits(s, thread[s])
  BY Locals DEF IInv, Fitting, Threads
<1> DEFINE x == [thread[s] EXCEPT !.pc = "del", !.r = r, !.todo = thread[s].todo \ {r}]
<1>2. x \in Local
  <2>1. \A y \in Local : \A z \in SUBSET Requests :
          [y EXCEPT !.pc = "del", !.r = r, !.todo = z] \in Local
    BY DEF Local
  <2>2. thread[s].todo \ {r} \in SUBSET Requests
    BY <1>1 DEF Local
  <2>3. QED
    BY <1>1, <2>1, <2>2
<1>3. Fits(s, x) /\ x.pc \notin {"listen", "add"}
  <2>1. x.pc = "del" /\ x.r = r /\ x.todo = thread[s].todo \ {r}
    BY <1>1 DEF Local
  <2>2. Settled(r)
    BY <1>1 DEF VisitHeard, Fits
  <2>3. QED
    BY <1>1, <2>1, <2>2 DEF Fits, Settled
<1>4. thread' = [thread EXCEPT ![s] = x]
  BY DEF VisitHeard, CancelAll, Cancelled
<1>5. TypeOK'
  <2>1. thread' \in [Threads -> Local]
    BY <1>1, <1>2, <1>4, Put
  <2>2. QED
    BY <1>1, <2>1 DEF VisitHeard, CancelAll, Cancelled, TypeOK, Notice!NoticeTypeOK, noticeVars, sourceVars
<1>6. Latest'
  BY DEF VisitHeard, CancelAll, Cancelled, sourceVars, IInv, Latest, LatestIsFound, Locked
<1>7. Fitting' /\ Listeners' /\ Answers'
  <2>1. Settled(r)
    BY <1>1 DEF VisitHeard, Fits
  <2>2. \A q \in Requests : timer'[q] # "none" => q \in Asked
    BY <1>1, <2>1 DEF VisitHeard, CancelAll, Cancelled, IInv, Answers, TypeOK, Settled
  <2>3. QED
    BY <1>1, <1>2, <1>3, <1>4, <2>2, QuietStep DEF VisitHeard, CancelAll, IInv, Answers
<1>8. QED
  BY <1>5, <1>6, <1>7 DEF IInv

LEMMA VisitIgnoredKept == ASSUME IInv, NEW s \in Sources, NEW r \in Requests, VisitIgnored(s, r) PROVE IInv'
<1>1. TypeOK /\ s \in Threads /\ thread[s] \in Local /\ Fits(s, thread[s])
  BY Locals DEF IInv, Fitting, Threads
<1> DEFINE x == [thread[s] EXCEPT !.todo = thread[s].todo \ {r}]
<1>2. x \in Local
  <2>1. \A y \in Local : \A z \in SUBSET Requests : [y EXCEPT !.todo = z] \in Local
    BY DEF Local
  <2>2. thread[s].todo \ {r} \in SUBSET Requests
    BY <1>1 DEF Local
  <2>3. QED
    BY <1>1, <2>1, <2>2
<1>3. Fits(s, x) /\ x.pc \notin {"listen", "add"}
  <2>1. x.pc = "visit" /\ x.r = thread[s].r /\ x.todo = thread[s].todo \ {r}
    BY <1>1 DEF Local, VisitIgnored
  <2>2. QED
    BY <1>1, <2>1 DEF Fits
<1>4. thread' = [thread EXCEPT ![s] = x]
  BY DEF VisitIgnored
<1>5. TypeOK'
  <2>1. thread' \in [Threads -> Local]
    BY <1>1, <1>2, <1>4, Put
  <2>2. QED
    BY <1>1, <2>1 DEF VisitIgnored, TypeOK, Notice!NoticeTypeOK, noticeVars, sourceVars, requestVars
<1>6. Latest'
  BY DEF VisitIgnored, sourceVars, IInv, Latest, LatestIsFound, Locked
<1>7. Fitting' /\ Listeners' /\ Answers'
  BY <1>1, <1>2, <1>3, <1>4, QuietStep DEF VisitIgnored, IInv, Answers, requestVars
<1>8. QED
  BY <1>5, <1>6, <1>7 DEF IInv

LEMMA PostAnswerKept == ASSUME IInv, NEW s \in Sources, PostAnswer(s) PROVE IInv'
<1>1. TypeOK /\ s \in Threads /\ thread[s] \in Local /\ Fits(s, thread[s])
  BY Locals DEF IInv, Fitting, Threads
<1> DEFINE x == [thread[s] EXCEPT !.pc = "visit", !.r = None, !.d = None]
<1>2. x \in Local
  <2>1. \A y \in Local : [y EXCEPT !.pc = "visit", !.r = None, !.d = None] \in Local
    BY DEF Local
  <2>2. QED
    BY <1>1, <2>1
<1>3. Fits(s, x) /\ x.pc \notin {"listen", "add"}
  <2>1. x.pc = "visit" /\ x.r = None /\ x.todo = thread[s].todo
    BY <1>1 DEF Local
  <2>2. QED
    BY <1>1, <2>1 DEF Fits
<1>4. thread' = [thread EXCEPT ![s] = x]
  BY DEF PostAnswer
<1>5. TypeOK'
  <2>1. thread' \in [Threads -> Local]
    BY <1>1, <1>2, <1>4, Put
  <2>2. posted' \in [Requests -> Nat]
    <3>1. PICK r \in Requests : r = thread[s].r
      BY <1>1 DEF PostAnswer, Fits
    <3>2. posted[r] \in Nat /\ posted \in [Requests -> Nat]
      BY <1>1 DEF TypeOK
    <3>3. posted' = [posted EXCEPT ![r] = posted[r] + 1] \/ posted' = posted
      BY <3>1, <3>2 DEF PostAnswer
    <3>4. QED
      BY <3>1, <3>2, <3>3
  <2>3. QED
    BY <1>1, <2>1, <2>2 DEF PostAnswer, TypeOK, Notice!NoticeTypeOK, noticeVars, sourceVars
<1>6. Latest'
  BY DEF PostAnswer, sourceVars, IInv, Latest, LatestIsFound, Locked
<1>7. Fitting' /\ Listeners' /\ Answers'
  <2>1. thread[s].r \in Requests /\ Settled(thread[s].r) /\ Deaf(thread[s].r)
    BY <1>1 DEF PostAnswer, Fits
  <2>2. \A q \in Requests : posted'[q] > 0 \/ answers'[q] # <<>> => Settled(q) /\ Deaf(q)
    BY <1>1, <2>1 DEF PostAnswer, IInv, Answers, TypeOK
  <2>3. QED
    BY <1>1, <1>2, <1>3, <1>4, <2>2, QuietStep DEF PostAnswer, IInv, Answers
<1>8. QED
  BY <1>5, <1>6, <1>7 DEF IInv

\* Deletions.

LEMMA DelGetKept == ASSUME IInv, NEW t \in Threads, DelGet(t) PROVE IInv'
<1>1. TypeOK /\ t \in Threads /\ thread[t] \in Local /\ Fits(t, thread[t])
  BY Locals DEF IInv, Fitting, Threads
<1> DEFINE x == [thread[t] EXCEPT !.pc = IF event = None THEN "deleted" ELSE "erase", !.d = event]
<1>2. x \in Local
  <2>1. \A y \in Local : [y EXCEPT !.pc = IF event = None THEN "deleted" ELSE "erase", !.d = event] \in Local
    BY <1>1 DEF Local, TypeOK, Notice!NoticeTypeOK
  <2>2. QED
    BY <1>1, <2>1
<1>3. Fits(t, x) /\ x.pc \notin {"listen", "add"}
  <2>1. /\ x.pc = IF event = None THEN "deleted" ELSE "erase"
        /\ x.d = event /\ x.r = thread[t].r /\ x.todo = thread[t].todo
    BY <1>1 DEF Local
  <2>2. x.r \in Requests /\ Settled(x.r)
    BY <1>1, <2>1 DEF DelGet, Fits
  <2>3. event # None => event \in made
    BY <1>1 DEF TypeOK, Notice!NoticeTypeOK
  <2>4. QED
    BY <1>1, <2>1, <2>2, <2>3 DEF Fits, Deaf
<1>4. thread' = [thread EXCEPT ![t] = x]
  BY DEF DelGet
<1>5. TypeOK'
  <2>1. thread' \in [Threads -> Local]
    BY <1>1, <1>2, <1>4, Put
  <2>2. QED
    BY <1>1, <2>1 DEF DelGet, TypeOK, Notice!NoticeTypeOK, noticeVars, sourceVars, requestVars
<1>6. Latest'
  BY DEF DelGet, sourceVars, IInv, Latest, LatestIsFound, Locked
<1>7. Fitting' /\ Listeners' /\ Answers'
  BY <1>1, <1>2, <1>3, <1>4, QuietStep DEF DelGet, IInv, Answers, requestVars
<1>8. QED
  BY <1>5, <1>6, <1>7 DEF IInv

LEMMA DelEraseKept == ASSUME IInv, NEW t \in Threads, DelErase(t) PROVE IInv'
<1>1. TypeOK /\ t \in Threads /\ thread[t] \in Local /\ Fits(t, thread[t])
  BY Locals DEF IInv, Fitting
<1>2. PICK d \in Dispatchers, r \in Requests : d = thread[t].d /\ r = thread[t].r
  BY <1>1 DEF DelErase, Fits, TypeOK, Notice!NoticeTypeOK
<1>3. /\ d \in made /\ Settled(r) /\ (event = d \/ Deaf(r))
  BY <1>1, <1>2 DEF DelErase, Fits
<1> DEFINE left == Notice!Others(d, r)
<1>4. listening' = [listening EXCEPT ![d] = left] /\ UNCHANGED <<event, made>>
  BY <1>2 DEF DelErase, Notice!DelListener
<1>5. left \subseteq listening[d] /\ r \notin left
  BY DEF Notice!Others
<1>6. PICK x \in Local : x = [thread[t] EXCEPT !.pc = IF left = {} THEN "drop" ELSE "deleted"]
  <2>1. \A y \in Local : [y EXCEPT !.pc = IF left = {} THEN "drop" ELSE "deleted"] \in Local
    BY DEF Local
  <2>2. QED
    BY <1>1, <2>1
<1>7. x.pc \in {"drop", "deleted"} /\ x.d = d /\ x.r = r /\ x.todo = thread[t].todo
  BY <1>1, <1>2, <1>6 DEF Local
<1>8. thread' = [thread EXCEPT ![t] = x]
  BY <1>2, <1>6 DEF DelErase, Goes
<1>9. Asked' = Asked /\ \A q \in Requests : Settled(q) => Settled(q)'
  BY <1>1, <1>6, <1>7, <1>8, SettledStays DEF DelErase, requestVars
<1>10. \A q : Deaf(q) => Deaf(q)'
  BY <1>1, <1>4, <1>5 DEF Deaf, TypeOK, Notice!NoticeTypeOK
<1>11. Deaf(r)'
  BY <1>1, <1>3, <1>4, <1>5, <1>10 DEF Deaf, TypeOK, Notice!NoticeTypeOK
<1>12. Fits(t, x)'
  <2>1. \A q \in x.todo : Settled(q)'
    BY <1>1, <1>7, <1>9 DEF Fits, Local
  <2>2. QED
    BY <1>3, <1>4, <1>7, <1>9, <1>11, <2>1 DEF Fits, Settled
<1>13. TypeOK'
  <2>1. thread' \in [Threads -> Local]
    BY <1>1, <1>6, <1>8, Put
  <2>2. Notice!NoticeTypeOK'
    BY <1>1, <1>4, <1>5 DEF TypeOK, Notice!NoticeTypeOK
  <2>3. QED
    BY <1>1, <2>1, <2>2 DEF DelErase, TypeOK, sourceVars, requestVars
<1>14. Latest'
  BY DEF DelErase, sourceVars, IInv, Latest, LatestIsFound, Locked
<1>15. Fitting'
  BY <1>4, <1>6, <1>8, <1>9, <1>10, <1>12, OthersFit
<1>16. Listeners'
  <2>1. \A e \in Dispatchers : listening'[e] \subseteq listening[e]
    BY <1>1, <1>4, <1>5 DEF TypeOK, Notice!NoticeTypeOK
  <2>2. QED
    BY <1>1, <1>4, <1>9, <2>1 DEF IInv, Listeners, TypeOK, Notice!NoticeTypeOK
<1>17. Answers'
  BY <1>9, <1>10 DEF DelErase, IInv, Answers, requestVars
<1>18. QED
  BY <1>13, <1>14, <1>15, <1>16, <1>17 DEF IInv

LEMMA DelDropKept == ASSUME IInv, NEW t \in Threads, DelDrop(t) PROVE IInv'
<1>1. TypeOK /\ thread[t] \in Local /\ Fits(t, thread[t])
  BY Locals DEF IInv, Fitting
<1>2. PICK x \in Local : x = [thread[t] EXCEPT !.pc = "deleted"]
  <2>1. \A y \in Local : [y EXCEPT !.pc = "deleted"] \in Local
    BY DEF Local
  <2>2. QED
    BY <1>1, <2>1
<1>3. x.pc = "deleted" /\ x.d = thread[t].d /\ x.r = thread[t].r /\ x.todo = thread[t].todo
  BY <1>1, <1>2 DEF Local
<1>4. thread' = [thread EXCEPT ![t] = x]
  BY <1>2 DEF DelDrop, Goes
<1>5. event' \in {event, None} /\ UNCHANGED <<made, listening>>
  BY DEF DelDrop, Notice!DelDispatcher
<1>6. Asked' = Asked /\ \A q \in Requests : Settled(q) => Settled(q)'
  BY <1>1, <1>2, <1>3, <1>4, SettledStays DEF DelDrop, requestVars
<1>7. \A q : Deaf(q) => Deaf(q)'
  BY <1>5 DEF Deaf
<1>8. Fits(t, x)'
  <2>1. x.r \in Requests /\ Settled(x.r)' /\ Deaf(x.r)'
    BY <1>1, <1>3, <1>6, <1>7 DEF DelDrop, Fits
  <2>2. \A q \in x.todo : Settled(q)'
    BY <1>1, <1>3, <1>6 DEF Fits, Local
  <2>3. QED
    BY <1>3, <2>1, <2>2 DEF Fits, Settled
<1>9. TypeOK'
  <2>1. thread' \in [Threads -> Local]
    BY <1>1, <1>2, <1>4, Put
  <2>2. Notice!NoticeTypeOK'
    BY <1>1, <1>5 DEF TypeOK, Notice!NoticeTypeOK
  <2>3. QED
    BY <1>1, <2>1, <2>2 DEF DelDrop, TypeOK, sourceVars, requestVars
<1>10. Latest'
  BY DEF DelDrop, sourceVars, IInv, Latest, LatestIsFound, Locked
<1>11. Fitting'
  BY <1>2, <1>4, <1>5, <1>6, <1>7, <1>8, OthersFit
<1>12. Listeners'
  BY <1>1, <1>5, <1>6 DEF IInv, Listeners, TypeOK, Notice!NoticeTypeOK
<1>13. Answers'
  BY <1>6, <1>7 DEF DelDrop, IInv, Answers, requestVars
<1>14. QED
  BY <1>9, <1>10, <1>11, <1>12, <1>13 DEF IInv

\* Sessions.
LEMMA SessionOpensKept == ASSUME IInv, NEW p \in Sessions, SessionOpens(p) PROVE IInv'
<1>1. TypeOK'
  BY DEF IInv, SessionOpens, TypeOK, Notice!NoticeTypeOK, noticeVars, sourceVars, requestVars
<1>2. Latest'
  BY DEF SessionOpens, sourceVars, IInv, Latest, LatestIsFound, Locked
<1>3. Fitting' /\ Listeners' /\ Answers'
  BY StillStep DEF SessionOpens, IInv, Answers, requestVars
<1>4. QED
  BY <1>1, <1>2, <1>3 DEF IInv

LEMMA SessionClosesKept == ASSUME IInv, NEW p \in Sessions, SessionCloses(p) PROVE IInv'
<1>1. TypeOK'
  BY DEF IInv, SessionCloses, TypeOK, Notice!NoticeTypeOK, noticeVars, sourceVars, requestVars
<1>2. Latest'
  BY DEF SessionCloses, sourceVars, IInv, Latest, LatestIsFound, Locked
<1>3. Fitting' /\ Listeners' /\ Answers'
  BY StillStep DEF SessionCloses, IInv, Answers, requestVars
<1>4. QED
  BY <1>1, <1>2, <1>3 DEF IInv

LEMMA RunAnswerKept == ASSUME IInv, NEW r \in Requests, RunAnswer(r) PROVE IInv'
<1>1. TypeOK /\ StreamOf[r] \in Streams /\ posted[r] \in Nat /\ posted[r] > 0
  BY DEF IInv, TypeOK, RunAnswer
<1>2. /\ posted' = [posted EXCEPT ![r] = @ - 1]
      /\ answers' = [answers EXCEPT ![r] = Append(@, Found(StreamOf[r]))] \/ answers' = answers
      /\ map' = Searched(StreamOf[r]) \/ map' = map
  BY DEF RunAnswer
<1>3. Found(StreamOf[r]) \in Sources \cup {None}
  BY <1>1 DEF Found, Locked, TypeOK
<1>4. TypeOK'
  <2>1. posted' \in [Requests -> Nat]
    BY <1>1, <1>2 DEF TypeOK
  <2>2. answers' \in [Requests -> Seq(Sources \cup {None})]
    <3>1. Append(answers[r], Found(StreamOf[r])) \in Seq(Sources \cup {None})
      BY <1>1, <1>3 DEF TypeOK
    <3>2. answers \in [Requests -> Seq(Sources \cup {None})]
      BY <1>1 DEF TypeOK
    <3>3. CASE answers' = [answers EXCEPT ![r] = Append(answers[r], Found(StreamOf[r]))]
      BY <3>1, <3>2, <3>3
    <3>4. QED
      BY <1>2, <3>2, <3>3
  <2>3. map' \in [Streams -> Sources \cup {None}]
    BY <1>1, <1>2, <1>3 DEF TypeOK, Searched
  <2>4. QED
    BY <1>1, <2>1, <2>2, <2>3 DEF RunAnswer, TypeOK, Notice!NoticeTypeOK, noticeVars
<1>5. Latest'
  BY <1>1, <1>2, SearchKeepsLatest DEF RunAnswer, IInv
<1>6. \A q \in Requests : posted'[q] > 0 \/ answers'[q] # <<>> => Settled(q) /\ Deaf(q)
  BY <1>1, <1>2 DEF IInv, Answers, TypeOK
<1>7. Fitting' /\ Listeners' /\ Answers'
  BY <1>6, StillStep DEF RunAnswer, IInv, Answers
<1>8. QED
  BY <1>4, <1>5, <1>7 DEF IInv

LEMMA TimerFiresKept == ASSUME IInv, NEW r \in Requests, TimerFires(r) PROVE IInv'
<1>1. PICK p \in Sessions : p = SessionOf[r]
  OBVIOUS
<1>2. TypeOK /\ p \in Threads /\ thread[p] \in Local /\ Fits(p, thread[p])
  BY Locals DEF IInv, Fitting, Threads
<1>3. Settled(r)
  BY <1>1, <1>2 DEF TimerFires, IInv, Answers, Settled, Adding
<1> DEFINE x == [thread[p] EXCEPT !.pc = "del", !.r = r]
<1>4. x \in Local
  <2>1. \A y \in Local : [y EXCEPT !.pc = "del", !.r = r] \in Local
    BY DEF Local
  <2>2. QED
    BY <1>2, <2>1
<1>5. x.pc = "del" /\ x.r = r /\ x.todo = thread[p].todo
  BY <1>2 DEF Local
<1>6. Fits(p, x) /\ x.pc \notin {"listen", "add"}
  BY <1>2, <1>3, <1>5 DEF Fits, Settled
<1>7. thread' = [thread EXCEPT ![p] = x] /\ timer' = [timer EXCEPT ![r] = "fired"]
  BY <1>1 DEF TimerFires
<1>8. TypeOK'
  <2>1. thread' \in [Threads -> Local]
    BY <1>2, <1>4, <1>7, Put
  <2>2. QED
    BY <1>2, <1>7, <2>1 DEF TimerFires, TypeOK, Notice!NoticeTypeOK, noticeVars, sourceVars
<1>9. Latest'
  BY DEF TimerFires, sourceVars, IInv, Latest, LatestIsFound, Locked
<1>10. \A q \in Requests : timer'[q] # "none" => q \in Asked
  BY <1>2, <1>3, <1>7 DEF IInv, Answers, TypeOK, Settled
<1>11. Fitting' /\ Listeners' /\ Answers'
  BY <1>2, <1>4, <1>6, <1>7, <1>10, QuietStep DEF TimerFires, IInv, Answers
<1>12. QED
  BY <1>8, <1>9, <1>11 DEF IInv

LEMMA AnswerTimeoutKept == ASSUME IInv, NEW p \in Sessions, AnswerTimeout(p) PROVE IInv'
<1>1. TypeOK /\ p \in Threads /\ thread[p] \in Local /\ Fits(p, thread[p])
  BY Locals DEF IInv, Fitting, Threads
<1>2. PICK r \in Requests : r = thread[p].r /\ Settled(r) /\ Deaf(r)
  BY <1>1 DEF AnswerTimeout, Fits
<1>3. thread' = [thread EXCEPT ![p] = Idle] /\ answers' = [answers EXCEPT ![r] = Append(@, None)]
  BY <1>2 DEF AnswerTimeout, Rests
<1>4. TypeOK'
  <2>1. thread' \in [Threads -> Local]
    BY <1>1, <1>3, IdleFits, Put
  <2>2. answers' \in [Requests -> Seq(Sources \cup {None})]
    BY <1>1, <1>3 DEF TypeOK
  <2>3. QED
    BY <1>1, <2>1, <2>2 DEF AnswerTimeout, TypeOK, Notice!NoticeTypeOK, noticeVars, sourceVars
<1>5. Latest'
  BY DEF AnswerTimeout, sourceVars, IInv, Latest, LatestIsFound, Locked
<1>6. \A q \in Requests : posted'[q] > 0 \/ answers'[q] # <<>> => Settled(q) /\ Deaf(q)
  BY <1>1, <1>2, <1>3 DEF AnswerTimeout, IInv, Answers, TypeOK
<1>7. Idle.pc \notin {"listen", "add"} /\ Idle \in Local /\ Fits(p, Idle)
  BY <1>1, IdleFits DEF Idle
<1>8. Fitting' /\ Listeners' /\ Answers'
  BY <1>1, <1>3, <1>6, <1>7, QuietStep DEF AnswerTimeout, IInv, Answers
<1>9. QED
  BY <1>4, <1>5, <1>8 DEF IInv

LEMMA ListenGetKept == ASSUME IInv, NEW p \in Sessions, ListenGet(p) PROVE IInv'
<1>1. TypeOK /\ p \in Threads /\ thread[p] \in Local /\ Fits(p, thread[p])
  BY Locals DEF IInv, Fitting, Threads
<1>2. PICK d \in Dispatchers : /\ Notice!GetDispatcher(d)
                               /\ thread' = [thread EXCEPT ![p] = [@ EXCEPT !.pc = "add", !.d = d]]
  BY DEF ListenGet
<1>3. PICK x \in Local : x = [thread[p] EXCEPT !.pc = "add", !.d = d]
  <2>1. \A y \in Local : [y EXCEPT !.pc = "add", !.d = d] \in Local
    BY DEF Local
  <2>2. QED
    BY <1>1, <2>1
<1>4. x.pc = "add" /\ x.d = d /\ x.r = thread[p].r /\ x.todo = thread[p].todo
  BY <1>1, <1>3 DEF Local
<1>5. thread' = [thread EXCEPT ![p] = x]
  BY <1>2, <1>3
<1>6. /\ made \subseteq made' /\ d \in made' /\ listening' = listening
      /\ event' = event \/ (event = None /\ event' = d /\ d \notin made)
  BY <1>1, <1>2 DEF Notice!GetDispatcher, TypeOK, Notice!NoticeTypeOK
<1>7. Asked' = Asked /\ \A q \in Requests : Settled(q) => Settled(q)'
  BY <1>1, <1>3, <1>4, <1>5, SettledStays DEF ListenGet, requestVars
<1>8. \A q : Deaf(q) => Deaf(q)'
  BY <1>6 DEF Deaf, IInv, Listeners
<1>9. Fits(p, x)'
  <2>1. \A q \in x.todo : Settled(q)'
    BY <1>1, <1>4, <1>7 DEF Fits, Local
  <2>2. QED
    BY <1>1, <1>4, <1>6, <1>7, <2>1 DEF ListenGet, Fits
<1>10. TypeOK'
  <2>1. thread' \in [Threads -> Local]
    BY <1>1, <1>3, <1>5, Put
  <2>2. Notice!NoticeTypeOK'
    BY <1>1, <1>2 DEF TypeOK, Notice!GetDispatcher, Notice!NoticeTypeOK
  <2>3. UNCHANGED <<sourceVars, session, requestVars, due, told>>
    BY DEF ListenGet
  <2>4. QED
    BY <1>1, <2>1, <2>2, <2>3 DEF TypeOK, sourceVars, requestVars
<1>11. Latest'
  BY DEF ListenGet, sourceVars, IInv, Latest, LatestIsFound, Locked
<1>12. Fitting'
  <2>1. made \subseteq made' /\ Asked \subseteq Asked'
        /\ (event' = event \/ event = None \/ event' = None)
    BY <1>6, <1>7
  <2>2. QED
    BY <1>1, <1>3, <1>5, <1>7, <1>8, <1>9, <2>1, OthersFit
<1>13. Listeners'
  BY <1>1, <1>6, <1>7 DEF IInv, Listeners, TypeOK, Notice!NoticeTypeOK
<1>14. Answers'
  BY <1>7, <1>8 DEF ListenGet, IInv, Answers, requestVars
<1>15. QED
  BY <1>10, <1>11, <1>12, <1>13, <1>14 DEF IInv

LEMMA ListenAddKept == ASSUME IInv, NEW p \in Sessions, ListenAdd(p) PROVE IInv'
<1>1. TypeOK /\ p \in Threads /\ thread[p] \in Local /\ Fits(p, thread[p])
  BY Locals DEF IInv, Fitting, Threads
<1>2. PICK d \in Dispatchers, r \in Requests : d = thread[p].d /\ r = thread[p].r
  BY <1>1 DEF ListenAdd, Fits, TypeOK, Notice!NoticeTypeOK
<1>3. d \in made /\ r \in Asked /\ SessionOf[r] = p /\ Adding(r)
  BY <1>1, <1>2 DEF ListenAdd, Fits, Adding
<1>4. /\ listening' = [listening EXCEPT ![d] = @ \cup {r}] /\ UNCHANGED <<event, made>>
      /\ thread' = [thread EXCEPT ![p] = Idle]
  BY <1>2 DEF ListenAdd, Notice!AddListener, Rests
<1>5. Idle \in Local /\ Idle.pc = "idle"
  BY IdleFits DEF Idle
<1>6. Asked' = Asked /\ \A q \in Requests : Settled(q) => Settled(q)'
  BY <1>1, <1>4, <1>5, SettledStays DEF ListenAdd, requestVars
<1>7. \A q \in Requests : Settled(q) /\ Deaf(q) => Deaf(q)'
  BY <1>1, <1>3, <1>4 DEF Settled, Deaf, TypeOK, Notice!NoticeTypeOK
<1>8. Settled(r)'
  BY <1>1, <1>3, <1>4, <1>5, <1>6, Put DEF Settled, Adding
<1>9. Fits(p, Idle)'
  BY DEF Fits, Idle
<1>10. TypeOK'
  <2>1. thread' \in [Threads -> Local]
    BY <1>1, <1>4, <1>5, Put
  <2>2. Notice!NoticeTypeOK'
    BY <1>1, <1>4 DEF TypeOK, Notice!NoticeTypeOK
  <2>3. QED
    BY <1>1, <2>1, <2>2 DEF ListenAdd, TypeOK, sourceVars, requestVars
<1>11. Latest'
  BY DEF ListenAdd, sourceVars, IInv, Latest, LatestIsFound, Locked
<1>12. Fitting'
  <2>1. PICK x \in Local : x = Idle
    BY <1>5
  <2>2. Fits(p, x)'
    BY <1>9, <2>1 DEF Fits
  <2>3. QED
    BY <1>1, <1>4, <1>6, <1>7, <2>1, <2>2, OthersFit
<1>13. Listeners'
  <2>1. \A e \in Dispatchers : listening'[e] = listening[e] \/ (e = d /\ listening'[e] = listening[e] \cup {r})
    BY <1>1, <1>4 DEF TypeOK, Notice!NoticeTypeOK
  <2>2. QED
    BY <1>1, <1>3, <1>4, <1>6, <1>8, <2>1 DEF IInv, Listeners, TypeOK, Notice!NoticeTypeOK
<1>14. Answers'
  BY <1>6, <1>7 DEF ListenAdd, IInv, Answers, requestVars
<1>15. QED
  BY <1>10, <1>11, <1>12, <1>13, <1>14 DEF IInv

LEMMA FindAsyncKept == ASSUME IInv, NEW r \in Requests, FindAsync(r) PROVE IInv'
<1>1. PICK p \in Sessions, i \in Streams : p = SessionOf[r] /\ i = StreamOf[r]
  OBVIOUS
<1>2. TypeOK /\ p \in Threads /\ thread[p] \in Local /\ Fits(p, thread[p])
  BY Locals DEF IInv, Fitting, Threads
<1>3. /\ thread[p].pc = "idle" /\ r \notin Asked /\ map' = Searched(i)
      /\ asked' = [asked EXCEPT ![SessionOf[r]] = Append(@, r)]
      /\ UNCHANGED <<noticeVars, phase, regists, latest, session, posted, due, told>>
  BY <1>1 DEF FindAsync
<1>4. Found(i) \in Sources \cup {None}
  BY <1>2 DEF Found, Locked, TypeOK
<1>5. asked' \in [Sessions -> Seq(Requests)] /\ map' \in [Streams -> Sources \cup {None}]
  BY <1>2, <1>3, <1>4 DEF TypeOK, Searched
<1>6. Latest'
  BY <1>2, <1>3, SearchKeepsLatest DEF IInv
<1>7. Asked' = Asked \cup {r}
  BY <1>2, <1>3, AskedGrows
<1>8. \A q : Deaf(q) <=> Deaf(q)'
  BY <1>3 DEF Deaf, noticeVars
<1>9. CASE Found(i) # None
  <2>1. thread' = thread /\ timer' = timer /\ answers' = [answers EXCEPT ![r] = Append(@, Found(i))]
    BY <1>1, <1>9 DEF FindAsync
  <2>2. TypeOK'
    <3>1. Append(answers[r], Found(i)) \in Seq(Sources \cup {None})
      BY <1>2, <1>4 DEF TypeOK
    <3>2. QED
      BY <1>2, <1>3, <1>5, <2>1, <3>1 DEF TypeOK, Notice!NoticeTypeOK, noticeVars
  <2>3. \A q \in Requests : Settled(q) => Settled(q)'
    BY <1>7, <2>1 DEF Settled, Adding
  <2>4. Settled(r)' /\ Deaf(r)'
    <3>1. Settled(r)'
      BY <1>1, <1>3, <1>7, <2>1 DEF Settled, Adding
    <3>2. Deaf(r)
      BY <1>2, <1>3 DEF IInv, Listeners, Settled, Deaf, TypeOK, Notice!NoticeTypeOK
    <3>3. QED
      BY <1>8, <3>1, <3>2
  <2>5. Fitting'
    <3>1. SUFFICES ASSUME NEW u \in Threads PROVE Fits(u, thread[u])'
      BY DEF Fitting
    <3>2. PICK y \in Local : Fits(u, y) /\ thread'[u] = y
      BY <2>1, Locals DEF IInv, Fitting
    <3>3. Fits(u, y)'
      BY <1>2, <1>3, <1>7, <1>8, <2>3, <3>2, FitsKept DEF noticeVars
    <3>4. QED
      BY <3>2, <3>3 DEF Fits
  <2>6. Listeners'
    BY <1>2, <1>3, <2>3 DEF IInv, Listeners, noticeVars, TypeOK, Notice!NoticeTypeOK
  <2>7. Answers'
    BY <1>2, <1>3, <1>7, <1>8, <2>1, <2>3, <2>4 DEF IInv, Answers, TypeOK
  <2>8. QED
    BY <1>6, <2>2, <2>5, <2>6, <2>7 DEF IInv
<1>10. CASE Found(i) = None
  <2>1. PICK x \in Local : x = [thread[p] EXCEPT !.pc = "listen", !.r = r]
    <3>1. \A y \in Local : [y EXCEPT !.pc = "listen", !.r = r] \in Local
      BY DEF Local
    <3>2. QED
      BY <1>2, <3>1
  <2>2. x.pc = "listen" /\ x.r = r /\ x.todo = thread[p].todo
    BY <1>2, <2>1 DEF Local
  <2>3. thread' = [thread EXCEPT ![p] = x] /\ timer' = [timer EXCEPT ![r] = "armed"] /\ answers' = answers
    BY <1>1, <1>10, <2>1 DEF FindAsync
  <2>4. thread'[p] = x /\ \A u \in Threads \ {p} : thread'[u] = thread[u]
    BY <1>2, <2>3, Put
  <2>5. TypeOK'
    <3>1. thread' \in [Threads -> Local]
      BY <1>2, <2>3, Put
    <3>2. QED
      BY <1>2, <1>3, <1>5, <2>3, <3>1 DEF TypeOK, Notice!NoticeTypeOK, noticeVars
  <2>6. \A q \in Requests : Settled(q) => Settled(q)'
    <3>1. SUFFICES ASSUME NEW q \in Requests, Settled(q) PROVE Settled(q)'
      OBVIOUS
    <3>2. q # r /\ SessionOf[q] \in Threads
      BY <1>3, <3>1 DEF Settled, Threads
    <3>3. CASE SessionOf[q] = p
      BY <1>7, <2>2, <2>4, <3>1, <3>2, <3>3 DEF Settled, Adding
    <3>4. CASE SessionOf[q] # p
      BY <1>7, <2>4, <3>1, <3>2, <3>4 DEF Settled, Adding
    <3>5. QED
      BY <3>3, <3>4
  <2>7. Fits(p, x)'
    <3>1. \A q \in x.todo : Settled(q)'
      BY <1>2, <2>2, <2>6 DEF Fits, Local
    <3>2. QED
      BY <1>1, <1>7, <2>2, <3>1 DEF Fits
  <2>8. Fitting'
    BY <1>2, <1>3, <1>7, <1>8, <2>3, <2>6, <2>7, OthersFit DEF noticeVars
  <2>9. Listeners'
    BY <1>2, <1>3, <2>6 DEF IInv, Listeners, noticeVars, TypeOK, Notice!NoticeTypeOK
  <2>10. Answers'
    BY <1>2, <1>3, <1>7, <1>8, <2>3, <2>6 DEF IInv, Answers, TypeOK
  <2>11. QED
    BY <1>6, <2>5, <2>8, <2>9, <2>10 DEF IInv
<1>11. QED
  BY <1>9, <1>10
-----------------------------------------------------------------------------
LEMMA InitKeeps == Init => IInv
<1> SUFFICES ASSUME Init PROVE IInv
  OBVIOUS
<1>1. TypeOK
  BY IdleFits DEF Init, TypeOK, Notice!NoticeInit, Notice!NoticeTypeOK
<1>2. Latest
  BY DEF Init, Latest, LatestIsFound, Locked
<1>3. Fitting
  BY IdleFits DEF Init, Fitting
<1>4. Listeners
  BY DEF Init, Notice!NoticeInit, Listeners
<1>5. Answers
  BY DEF Init, Answers
<1>6. QED
  BY <1>1, <1>2, <1>3, <1>4, <1>5 DEF IInv

LEMMA StutterKeeps == ASSUME IInv, UNCHANGED vars PROVE IInv'
<1>1. TypeOK'
  BY DEF IInv, TypeOK, Notice!NoticeTypeOK, vars, noticeVars, sourceVars, requestVars
<1>2. Latest'
  BY DEF IInv, Latest, LatestIsFound, Locked, vars, sourceVars
<1>3. Fitting' /\ Listeners' /\ Answers'
  BY StillStep DEF IInv, Answers, vars, requestVars
<1>4. QED
  BY <1>1, <1>2, <1>3 DEF IInv

LEMMA NextKeeps == IInv /\ [Next]_vars => IInv'
<1> SUFFICES ASSUME IInv, [Next]_vars PROVE IInv'
  OBVIOUS
<1>1. ASSUME NEW s \in Sources, Regist(s) \/ Expire(s) \/ Unregist(s) PROVE IInv'
  BY <1>1, RegistKept, ExpireKept, UnregistKept
<1>2. ASSUME NEW s \in Sources, Broadcast(s) PROVE IInv'
  BY <1>2, EmitGetKept, EmitCopyKept, EmitEndKept, PostAnswerKept, VisitGoneKept, VisitIgnoredKept,
     VisitHeardKept DEF Broadcast
<1>3. ASSUME NEW t \in Threads, Deletion(t) PROVE IInv'
  BY <1>3, DelGetKept, DelEraseKept, DelDropKept DEF Deletion
<1>4. ASSUME NEW p \in Sessions, SessionOpens(p) \/ SessionCloses(p) PROVE IInv'
  BY <1>4, SessionOpensKept, SessionClosesKept
<1>5. ASSUME NEW p \in Sessions, Polling(p) PROVE IInv'
  BY <1>3, <1>5, ListenGetKept, ListenAddKept, AnswerTimeoutKept, TimerFiresKept, RunAnswerKept
     DEF Polling, Threads
<1>6. ASSUME NEW r \in Requests, FindAsync(r) PROVE IInv'
  BY <1>6, FindAsyncKept
<1>7. CASE UNCHANGED vars
  BY <1>7, StutterKeeps
<1>8. QED
  BY <1>1, <1>2, <1>3, <1>4, <1>5, <1>6, <1>7 DEF Next, Threads

\* The inductive invariant behind the theorems.
THEOREM Inductive == Spec => []IInv
<1>1. QED
  BY InitKeeps, NextKeeps, PTL DEF Spec

\* Every variable keeps its type: a thread of the registry or of NoticeCenter
\* holds what the next line of its code uses.
THEOREM TypeCorrect == Spec => []TypeOK
<1>1. IInv => TypeOK
  BY DEF IInv
<1>2. QED
  BY <1>1, Inductive, PTL

\* find_l and unregist never take away the entry of the source that registered
\* last, as long as it lives.
THEOREM LatestFound == Spec => []LatestIsFound
<1>1. IInv => LatestIsFound
  BY DEF IInv, Latest
<1>2. QED
  BY <1>1, Inductive, PTL

\* on_timeout and cancel_all take the listener out of reach before cb is called.
THEOREM AnsweredStayDeaf == Spec => []AnsweredIsDeaf
<1>1. IInv => AnsweredIsDeaf
  BY DEF IInv, Answers, AnsweredIsDeaf, Deaf
<1>2. QED
  BY <1>1, Inductive, PTL

-----------------------------------------------------------------------------
\* The lines of delListener.
Removing == {"del", "erase", "drop", "deleted"}

\* Nobody removes the listener of a request whose timer runs.
Spared ==
  \A t \in Threads : thread[t].pc \in Removing => timer[thread[t].r] # "armed"

\* A request on its way to addListener has its timer armed, and the dispatcher it was
\* given is still the one of the event.
Underway ==
  \A p \in Sessions : thread[p].pc \in {"listen", "add"} =>
    timer[thread[p].r] = "armed" /\ (thread[p].pc = "add" => thread[p].d = event)

\* Past addListener a request whose timer runs is listening.
InPlace ==
  \A r \in Requests : timer[r] = "armed" /\ thread[SessionOf[r]].r # r =>
    event # None /\ r \in listening[event]

\* Whoever is due and was not answered yet is still ahead of the broadcast.
Ahead(s, x) ==
  \A r \in due[s] :
    /\ timer[r] # "none"
    /\ timer[r] = "armed" /\ StreamOf[s] = StreamOf[r] =>
         /\ x.says = "regist"
         /\ \/ x.pc = "copy" /\ r \in listening[x.d]
            \/ x.pc = "visit" /\ r \in x.todo

\* The entry of a stream is one of its own sources.
Owns == \A i \in Streams : map[i] # None => StreamOf[map[i]] = i

\* The inductive invariant of HeardInTime.
HInv == Spared /\ Underway /\ InPlace /\ Owns /\ \A s \in Sources : Ahead(s, thread[s])

\* The server has one request at most.
Alone == \A q, r \in Requests : q = r

\* HInv holds when the process starts.
LEMMA HInit == Init => HInv
<1> SUFFICES ASSUME Init PROVE HInv
  OBVIOUS
<1>1. \A t \in Threads : thread[t] = Idle
  BY DEF Init
<1>2. Spared /\ Underway
  BY <1>1 DEF Spared, Underway, Idle, Removing, Threads
<1>3. InPlace /\ Owns
  BY DEF Init, InPlace, Owns
<1>4. \A s \in Sources : Ahead(s, thread[s])
  BY DEF Init, Ahead
<1> QED
  BY <1>2, <1>3, <1>4 DEF HInv

\* A step of one thread that adds no listener and removes none.
LEMMA ThreadStep ==
  ASSUME TypeOK, HInv, NEW t \in Threads, NEW x \in Local, thread' = [thread EXCEPT ![t] = x],
         UNCHANGED noticeVars, Owns',
         x.pc \notin {"listen", "add"},
         x.pc \in Removing => timer'[x.r] # "armed",
         \A r \in Requests : timer'[r] = "armed" => timer[r] = "armed",
         \A r \in Requests : timer[r] # "none" => timer'[r] # "none",
         \A p \in Sessions \ {t} : thread[p].pc \in {"listen", "add"} => timer'[thread[p].r] = "armed",
         \A r \in Requests : SessionOf[r] = t /\ timer'[r] = "armed" /\ x.r # r => thread[t].r # r,
         \A s \in Sources \ {t} : due'[s] = due[s],
         \A t2 \in Threads : thread[t2].pc \in Removing => thread[t2].r \in Requests,
         t \in Sources => Ahead(t, x)'
  PROVE  HInv'
<1>1. thread'[t] = x /\ \A u \in Threads \ {t} : thread'[u] = thread[u]
  BY Put
<1>2. Spared'
  BY <1>1 DEF HInv, Spared
<1>3. Underway'
  BY <1>1 DEF HInv, Underway, Threads, noticeVars
<1>4. InPlace'
  <2> SUFFICES ASSUME NEW r \in Requests, timer'[r] = "armed", thread'[SessionOf[r]].r # r
               PROVE  event' # None /\ r \in listening'[event']
    BY DEF InPlace
  <2>1. SessionOf[r] \in Threads
    BY DEF Threads
  <2>2. timer[r] = "armed" /\ thread[SessionOf[r]].r # r
    BY <1>1, <2>1
  <2> QED
    BY <2>2 DEF HInv, InPlace, noticeVars
<1>5. \A s \in Sources : Ahead(s, thread[s])'
  <2> TAKE s \in Sources
  <2>1. CASE s = t
    BY <1>1, <2>1 DEF Ahead
  <2>2. CASE s # t
    <3>1. thread'[s] = thread[s] /\ due'[s] = due[s] /\ due[s] \in SUBSET Requests
      BY <1>1, <2>2 DEF Threads, TypeOK
    <3>2. Ahead(s, thread[s])
      BY DEF HInv
    <3> QED
      BY <3>1, <3>2 DEF Ahead, noticeVars
  <2> QED
    BY <2>1, <2>2
<1> QED
  BY <1>2, <1>3, <1>4, <1>5 DEF HInv

\* A step without a thread's.
LEMMA OtherStep ==
  ASSUME HInv, UNCHANGED <<noticeVars, timer, thread, due>>, Owns'
  PROVE  HInv'
  BY DEF HInv, Spared, Underway, InPlace, Ahead, noticeVars

\* What IInv says of a thread.
LEMMA Knows ==
  ASSUME IInv, NEW t \in Threads
  PROVE  /\ thread[t] \in Local
         /\ thread[t].pc \in Removing \cup {"listen", "add"} => thread[t].r \in Requests
         /\ thread[t].r \in Requests => thread[t].r \in Asked
         /\ \A r \in thread[t].todo : r \in Requests /\ ~Adding(r) /\ r \in Asked
         /\ thread[t].pc \in {"listen", "add"} => t \in Sessions /\ SessionOf[thread[t].r] = t
<1>1. TypeOK /\ Fits(t, thread[t]) /\ thread[t] \in Local
  BY DEF IInv, Fitting, TypeOK
<1> QED
  BY <1>1 DEF Fits, Settled, Local, Removing

\* Sources and sessions are threads of two kinds.
LEMMA Apart == Sources \cap Sessions = {} /\ Sources \subseteq Threads /\ Sessions \subseteq Threads
  BY DEF Threads

\* regist, unregist and the look-up of the dispatcher by emitEvent.
LEMMA RegistHeard ==
  ASSUME IInv, HInv, NEW s \in Sources, Regist(s) \/ Unregist(s) \/ EmitGet(s)
  PROVE  HInv'
<1>1. TypeOK /\ s \in Threads /\ s \notin Sessions
  BY Apart DEF IInv
<1>2. thread[s].pc \in {"idle", "emit"} /\ thread[s] \in Local
  BY <1>1, Knows DEF Regist, Unregist, EmitGet
<1>3. PICK x \in Local : /\ thread' = [thread EXCEPT ![s] = x] /\ x.pc \in {"idle", "emit", "copy"}
                         /\ EmitGet(s) => \/ x = Idle /\ event = None
                                          \/ event # None /\ x.pc = "copy" /\ x.d = event /\ x.says = thread[s].says
  <2>1. CASE Regist(s)
    <3>1. [Idle EXCEPT !.pc = "emit", !.says = "regist"] \in Local
      BY DEF Idle, Local
    <3>2. ~EmitGet(s)
      BY <2>1 DEF Regist, EmitGet
    <3> QED
      BY <2>1, <3>1, <3>2 DEF Regist, Idle
  <2>2. CASE Unregist(s)
    <3>1. [Idle EXCEPT !.pc = "emit", !.says = "unregist"] \in Local
      BY DEF Idle, Local
    <3>2. thread' = [thread EXCEPT ![s] = thread[s]] \/ thread' = [thread EXCEPT ![s] = [Idle EXCEPT !.pc = "emit", !.says = "unregist"]]
      BY <1>1, <2>2 DEF Unregist, TypeOK
    <3>3. ~EmitGet(s)
      BY <2>2 DEF Unregist, EmitGet
    <3> QED
      BY <1>2, <3>1, <3>2, <3>3 DEF Idle
  <2>3. CASE EmitGet(s)
    <3>1. event # None => [thread[s] EXCEPT !.pc = "copy", !.d = event] \in Local
      BY <1>1, <1>2 DEF Local, TypeOK, Notice!NoticeTypeOK
    <3>2. CASE event = None
      BY <2>3, <3>2, IdleFits DEF EmitGet, Idle
    <3>3. CASE event # None
      <4> DEFINE x == [thread[s] EXCEPT !.pc = "copy", !.d = event]
      <4>1. x.pc = "copy" /\ x.d = event /\ x.says = thread[s].says
        BY <1>2 DEF Local
      <4> QED
        BY <2>3, <3>1, <3>3, <4>1 DEF EmitGet
    <3> QED
      BY <3>2, <3>3
  <2> QED
    BY <2>1, <2>2, <2>3
<1>4. /\ UNCHANGED noticeVars /\ timer' = timer
      /\ \A u \in Sources \ {s} : due'[u] = due[u]
  BY <1>1 DEF Regist, Unregist, EmitGet, requestVars, TypeOK
<1>5. Owns'
  BY <1>1 DEF HInv, Owns, Regist, Unregist, EmitGet, sourceVars, TypeOK
<1>6. Ahead(s, x)'
  <2>1. CASE Regist(s)
    BY <1>1, <2>1 DEF Ahead, Regist, TypeOK
  <2>2. CASE Unregist(s)
    <3>1. due' = due /\ due[s] \in SUBSET Requests /\ thread[s].pc = "idle"
      BY <1>1, <2>2 DEF Unregist, TypeOK
    <3> QED
      BY <1>4, <3>1 DEF HInv, Ahead
  <2>3. CASE EmitGet(s)
    <3>1. due'[s] = IF thread[s].says = "regist" THEN Waiting ELSE {}
      BY <1>1, <2>3 DEF EmitGet, TypeOK
    <3>2. \A r \in Waiting : r \in Requests /\ timer[r] = "armed" /\ event # None /\ r \in listening[event]
      BY DEF HInv, InPlace, Waiting
    <3> QED
      BY <1>3, <1>4, <2>3, <3>1, <3>2 DEF Ahead, noticeVars
  <2> QED
    BY <2>1, <2>2, <2>3
<1>7. \A p \in Sessions \ {s} : thread[p].pc \in {"listen", "add"} => timer'[thread[p].r] = "armed"
  BY <1>4 DEF HInv, Underway
<1>8. \A r \in Requests : SessionOf[r] # s
  BY <1>1
<1>9. \A u \in Threads : thread[u].pc \in Removing => thread[u].r \in Requests
  BY Knows
<1> QED
  BY <1>1, <1>3, <1>4, <1>5, <1>6, <1>7, <1>8, <1>9, ThreadStep DEF Removing

\* The rest of a broadcast, but for on_regist.
LEMMA BroadcastHeard ==
  ASSUME IInv, HInv, NEW s \in Sources,
         EmitCopy(s) \/ EmitEnd(s) \/ PostAnswer(s) \/ \E r \in Requests : VisitIgnored(s, r)
  PROVE  HInv'
<1>1. TypeOK /\ s \in Threads /\ s \notin Sessions
  BY Apart DEF IInv
<1>2. thread[s].pc \in {"copy", "visit", "deleted"} /\ thread[s] \in Local
  BY <1>1, Knows DEF EmitCopy, EmitEnd, PostAnswer, VisitIgnored
<1>3. /\ UNCHANGED noticeVars /\ timer' = timer /\ due' = due /\ map' = map
      /\ due[s] \in SUBSET Requests
  BY <1>1 DEF EmitCopy, EmitEnd, PostAnswer, VisitIgnored, requestVars, sourceVars, TypeOK
<1>4. Ahead(s, thread[s])
  BY DEF HInv
<1>5. PICK x \in Local : thread' = [thread EXCEPT ![s] = x] /\ x.pc \in {"idle", "visit"} /\ Ahead(s, x)'
  <2>1. CASE EmitCopy(s)
    <3>1. thread[s].d \in Dispatchers
      BY <1>1, <1>2, <2>1 DEF EmitCopy, IInv, Fitting, Fits, TypeOK, Notice!NoticeTypeOK
    <3> PICK x : x = [thread[s] EXCEPT !.pc = "visit", !.todo = listening[thread[s].d]]
      OBVIOUS
    <3>2. x \in Local /\ x.pc = "visit" /\ x.todo = listening[thread[s].d] /\ x.says = thread[s].says
      BY <1>1, <1>2, <3>1 DEF Local, TypeOK, Notice!NoticeTypeOK
    <3>3. thread' = [thread EXCEPT ![s] = x] /\ thread[s].pc = "copy"
      BY <2>1 DEF EmitCopy
    <3>4. Ahead(s, x)'
      BY <1>3, <1>4, <3>2, <3>3 DEF Ahead, noticeVars
    <3> QED
      BY <3>2, <3>3, <3>4
  <2>2. CASE EmitEnd(s)
    <3>1. Ahead(s, Idle)'
      BY <1>3, <1>4, <2>2 DEF Ahead, EmitEnd
    <3> QED
      BY <2>2, <3>1, IdleFits DEF EmitEnd, Rests, Idle
  <2>3. CASE PostAnswer(s)
    <3> PICK x : x = [thread[s] EXCEPT !.pc = "visit", !.r = None, !.d = None]
      OBVIOUS
    <3>1. x \in Local /\ x.pc = "visit"
      BY <1>2 DEF Local
    <3>2. thread' = [thread EXCEPT ![s] = x] /\ thread[s].pc = "deleted"
      BY <2>3 DEF PostAnswer
    <3>3. Ahead(s, x)'
      BY <1>3, <1>4, <3>2 DEF Ahead
    <3> QED
      BY <3>1, <3>2, <3>3
  <2>4. CASE \E r \in Requests : VisitIgnored(s, r)
    <3>0. PICK r \in Requests : VisitIgnored(s, r)
      BY <2>4
    <3> PICK x : x = [thread[s] EXCEPT !.todo = thread[s].todo \ {r}]
      OBVIOUS
    <3>1. x \in Local /\ x.pc = "visit" /\ x.todo = thread[s].todo \ {r} /\ x.says = thread[s].says
      BY <1>2, <3>0 DEF Local, VisitIgnored
    <3>2. thread' = [thread EXCEPT ![s] = x] /\ thread[s].pc = "visit" /\ ~(thread[s].says = "regist" /\ StreamOf[s] = StreamOf[r])
      BY <3>0 DEF VisitIgnored, Interesting
    <3>3. Ahead(s, x)'
      BY <1>3, <1>4, <3>1, <3>2 DEF Ahead
    <3> QED
      BY <3>1, <3>2, <3>3
  <2> QED
    BY <2>1, <2>2, <2>3, <2>4
<1>6. Owns'
  BY <1>3 DEF HInv, Owns
<1>7. \A p \in Sessions \ {s} : thread[p].pc \in {"listen", "add"} => timer'[thread[p].r] = "armed"
  BY <1>3 DEF HInv, Underway
<1>8. \A r \in Requests : SessionOf[r] # s
  BY <1>1
<1>9. \A u \in Threads : thread[u].pc \in Removing => thread[u].r \in Requests
  BY Knows
<1> QED
  BY <1>1, <1>3, <1>5, <1>6, <1>7, <1>8, <1>9, ThreadStep DEF Removing

\* on_regist cancels the timer before it goes on to delListener.
LEMMA CancelHeard ==
  ASSUME IInv, HInv, Alone, NEW s \in Sources, NEW r \in Requests, VisitGone(s, r) \/ VisitHeard(s, r)
  PROVE  HInv'
<1>1. TypeOK /\ s \in Threads /\ s \notin Sessions
  BY Apart DEF IInv
<1>2. r \in thread[s].todo /\ CancelAll(s, r) /\ thread[s] \in Local
  BY <1>1, Knows DEF VisitGone, VisitHeard
<1> PICK x : x = [thread[s] EXCEPT !.pc = "del", !.r = r, !.todo = thread[s].todo \ {r}]
  OBVIOUS
<1>3. x \in Local /\ x.pc = "del" /\ x.r = r /\ thread' = [thread EXCEPT ![s] = x]
  BY <1>2 DEF Local, CancelAll
<1>4. UNCHANGED noticeVars /\ due' = due /\ map' = map
  BY <1>2 DEF CancelAll, sourceVars
<1>5. \A q \in Requests : timer'[q] # "armed" /\ (timer[q] # "none" => timer'[q] # "none")
  BY <1>1, <1>2 DEF CancelAll, Cancelled, TypeOK, Alone
<1>6. Ahead(s, x)'
  <2>1. Ahead(s, thread[s]) /\ due[s] \in SUBSET Requests
    BY <1>1 DEF HInv, TypeOK
  <2> QED
    BY <1>4, <1>5, <2>1 DEF Ahead
<1>7. \A p \in Sessions : thread[p].pc \notin {"listen", "add"}
  <2> SUFFICES ASSUME NEW p \in Sessions, thread[p].pc \in {"listen", "add"} PROVE FALSE
    OBVIOUS
  <2>1. thread[p].r \in Requests /\ SessionOf[thread[p].r] = p
    BY Knows, Apart
  <2>2. ~Adding(r)
    BY <1>1, <1>2, Knows
  <2> QED
    BY <2>1, <2>2 DEF Alone, Adding
<1>8. Owns'
  BY <1>4 DEF HInv, Owns
<1>9. \A u \in Threads : thread[u].pc \in Removing => thread[u].r \in Requests
  BY Knows
<1> QED
  BY <1>1, <1>3, <1>4, <1>5, <1>6, <1>7, <1>8, <1>9, ThreadStep DEF Removing

\* The time-out: its timer is no longer armed.
LEMMA TimerHeard ==
  ASSUME IInv, HInv, Alone, NEW r \in Requests, TimerFires(r)
  PROVE  HInv'
<1> DEFINE p == SessionOf[r]
<1>1. TypeOK /\ p \in Threads /\ p \in Sessions /\ p \notin Sources
  BY Apart DEF IInv
<1>2. thread[p].pc = "idle" /\ thread[p] \in Local /\ timer' = [timer EXCEPT ![r] = "fired"]
  BY <1>1, Knows DEF TimerFires
<1> PICK x : x = [thread[p] EXCEPT !.pc = "del", !.r = r]
  OBVIOUS
<1>3. x \in Local /\ x.pc = "del" /\ x.r = r /\ thread' = [thread EXCEPT ![p] = x]
  BY <1>2 DEF Local, TimerFires
<1>4. UNCHANGED noticeVars /\ due' = due /\ map' = map
  BY DEF TimerFires, sourceVars
<1>5. \A q \in Requests : timer'[q] # "armed" /\ timer'[q] # "none"
  BY <1>1, <1>2 DEF TypeOK, Alone
<1>7. \A u \in Sessions \ {p} : thread[u].pc \notin {"listen", "add"}
  <2> SUFFICES ASSUME NEW u \in Sessions \ {p}, thread[u].pc \in {"listen", "add"} PROVE FALSE
    OBVIOUS
  <2>1. thread[u].r \in Requests /\ SessionOf[thread[u].r] = u
    BY Knows, Apart
  <2> QED
    BY <2>1 DEF Alone
<1>8. Owns'
  BY <1>4 DEF HInv, Owns
<1>9. \A u \in Threads : thread[u].pc \in Removing => thread[u].r \in Requests
  BY Knows
<1> HIDE DEF p
<1> QED
  BY <1>1, <1>3, <1>4, <1>5, <1>7, <1>8, <1>9, ThreadStep DEF Removing

\* delListener, whoever calls it: with one request no timer runs meanwhile.
LEMMA DeletionHeard ==
  ASSUME IInv, HInv, Alone, NEW t \in Threads, Deletion(t)
  PROVE  HInv'
<1>1. TypeOK /\ thread[t] \in Local
  BY Knows DEF IInv
<1>2. thread[t].pc \in {"del", "erase", "drop"}
  BY DEF Deletion, DelGet, DelErase, DelDrop
<1>3. timer' = timer /\ due' = due /\ map' = map
  BY DEF Deletion, DelGet, DelErase, DelDrop, sourceVars, requestVars
<1>4. \A r \in Requests : timer[r] # "armed"
  <2>1. thread[t].r \in Requests /\ timer[thread[t].r] # "armed"
    BY <1>2, Knows DEF HInv, Spared, Removing
  <2> QED
    BY <2>1 DEF Alone
<1>5. PICK x \in Local : thread' = [thread EXCEPT ![t] = x] /\ x.pc \in Removing /\ x.r = thread[t].r
  <2>1. \A pc \in Removing : LET y == [thread[t] EXCEPT !.pc = pc] IN y \in Local /\ y.pc = pc /\ y.r = thread[t].r
    BY <1>1 DEF Local, Removing
  <2>2. \A pc \in Removing : LET y == [thread[t] EXCEPT !.pc = pc, !.d = event] IN
          (event # None => y \in Local) /\ y.pc = pc /\ y.r = thread[t].r
    BY <1>1 DEF Local, Removing, TypeOK, Notice!NoticeTypeOK
  <2>3. LET y == [thread[t] EXCEPT !.pc = "deleted", !.d = None] IN y \in Local /\ y.pc = "deleted" /\ y.r = thread[t].r
    BY <1>1 DEF Local
  <2>4. CASE DelGet(t)
    <3>1. CASE event = None
      BY <2>3, <2>4, <3>1 DEF DelGet, Removing
    <3>2. CASE event # None
      BY <2>2, <2>4, <3>2 DEF DelGet, Removing
    <3> QED
      BY <3>1, <3>2
  <2>5. CASE DelErase(t)
    BY <2>1, <2>5 DEF DelErase, Goes, Removing
  <2>6. CASE DelDrop(t)
    BY <2>1, <2>6 DEF DelDrop, Goes, Removing
  <2> QED
    BY <2>4, <2>5, <2>6 DEF Deletion
<1>6. thread'[t] = x /\ \A u \in Threads \ {t} : thread'[u] = thread[u]
  BY <1>1, <1>5, Put
<1>7. Spared'
  <2> SUFFICES ASSUME NEW u \in Threads, thread'[u].pc \in Removing PROVE timer'[thread'[u].r] # "armed"
    BY DEF Spared
  <2>1. thread'[u].r \in Requests
    BY <1>2, <1>5, <1>6, Knows DEF Removing
  <2> QED
    BY <1>3, <1>4, <2>1
<1>8. Underway'
  <2> SUFFICES ASSUME NEW p \in Sessions, thread'[p].pc \in {"listen", "add"} PROVE FALSE
    BY DEF Underway
  <2>1. p # t /\ thread'[p] = thread[p]
    BY <1>5, <1>6, Apart DEF Removing
  <2>2. thread[p].r \in Requests /\ timer[thread[p].r] = "armed"
    BY <2>1, Knows, Apart DEF HInv, Underway
  <2> QED
    BY <1>4, <2>2
<1>9. InPlace' /\ Owns'
  BY <1>3, <1>4 DEF HInv, InPlace, Owns
<1>10. \A s \in Sources : Ahead(s, thread[s])'
  BY <1>1, <1>3, <1>4 DEF HInv, Ahead, TypeOK
<1> QED
  BY <1>7, <1>8, <1>9, <1>10 DEF HInv

\* cb(nullptr), after delListener.
LEMMA TimeoutHeard ==
  ASSUME IInv, HInv, NEW p \in Sessions, AnswerTimeout(p)
  PROVE  HInv'
<1>1. TypeOK /\ p \in Threads /\ p \notin Sources
  BY Apart DEF IInv
<1>2. /\ thread[p].pc = "deleted" /\ thread' = [thread EXCEPT ![p] = Idle]
      /\ UNCHANGED noticeVars /\ timer' = timer /\ due' = due /\ map' = map
  BY DEF AnswerTimeout, Rests, sourceVars
<1>3. thread[p].r \in Requests /\ timer[thread[p].r] # "armed"
  BY <1>1, <1>2, Knows DEF HInv, Spared, Removing
<1>4. Owns'
  BY <1>2 DEF HInv, Owns
<1>5. PICK x \in Local : x = Idle /\ x.pc = "idle"
  BY IdleFits DEF Idle
<1>6. thread' = [thread EXCEPT ![p] = x]
  BY <1>2, <1>5
<1>7. thread'[p] = x /\ \A u \in Threads \ {p} : thread'[u] = thread[u]
  BY <1>1, <1>6, Put
<1>8. Spared'
  BY <1>2, <1>5, <1>7 DEF HInv, Spared, Removing
<1>9. Underway'
  <2> SUFFICES ASSUME NEW u \in Sessions, thread'[u].pc \in {"listen", "add"}
               PROVE  timer'[thread'[u].r] = "armed" /\ (thread'[u].pc = "add" => thread'[u].d = event')
    BY DEF Underway
  <2>1. u # p
    BY <1>5, <1>7
  <2>2. thread'[u] = thread[u]
    BY <1>7, <2>1, Apart
  <2> QED
    BY <1>2, <2>2 DEF HInv, Underway, noticeVars
<1>10. InPlace'
  <2> SUFFICES ASSUME NEW q \in Requests, timer'[q] = "armed", thread'[SessionOf[q]].r # q
               PROVE  event' # None /\ q \in listening'[event']
    BY DEF InPlace
  <2>1. SessionOf[q] \in Threads
    BY DEF Threads
  <2>2. timer[q] = "armed" /\ thread[SessionOf[q]].r # q
    BY <1>2, <1>3, <1>7, <2>1
  <2> QED
    BY <1>2, <2>2 DEF HInv, InPlace, noticeVars
<1>11. \A s \in Sources : Ahead(s, thread[s])'
  <2> SUFFICES ASSUME NEW s \in Sources PROVE Ahead(s, thread[s])'
    OBVIOUS
  <2>1. thread'[s] = thread[s] /\ Ahead(s, thread[s])
    BY <1>1, <1>7, Apart DEF HInv
  <2> QED
    BY <1>2, <2>1 DEF Ahead, noticeVars
<1> QED
  BY <1>4, <1>8, <1>9, <1>10, <1>11 DEF HInv

\* addListener: the dispatcher it was given stays the event's until the listener is in it.
LEMMA ListenHeard ==
  ASSUME IInv, HInv, Alone, NEW p \in Sessions, ListenGet(p) \/ ListenAdd(p)
  PROVE  HInv'
<1> DEFINE r == thread[p].r
<1>1. TypeOK /\ p \in Threads /\ p \notin Sources
  BY Apart DEF IInv
<1>2. /\ thread[p].pc \in {"listen", "add"} /\ thread[p] \in Local /\ r \in Requests /\ SessionOf[r] = p
      /\ timer[r] = "armed" /\ (thread[p].pc = "add" => thread[p].d = event)
  BY <1>1, Knows DEF ListenGet, ListenAdd, HInv, Underway
<1>3. timer' = timer /\ due' = due /\ map' = map
  BY DEF ListenGet, ListenAdd, sourceVars, requestVars
<1>4. /\ event # None => event' = event
      /\ event' # None /\ \A d \in Dispatchers : listening[d] \subseteq listening'[d]
      /\ \/ /\ ListenGet(p)
            /\ \E d : /\ d = event' /\ thread' = [thread EXCEPT ![p] = [@ EXCEPT !.pc = "add", !.d = d]]
                      /\ d \in Dispatchers
         \/ /\ ListenAdd(p)
            /\ thread' = [thread EXCEPT ![p] = Idle] /\ r \in listening'[event']
  <2>1. CASE ListenGet(p)
    <3>1. PICK d \in Dispatchers : /\ Notice!GetDispatcher(d)
                                   /\ thread' = [thread EXCEPT ![p] = [@ EXCEPT !.pc = "add", !.d = d]]
      BY <2>1 DEF ListenGet
    <3>2. d = event' /\ listening' = listening /\ (event # None => event' = event) /\ event' # None
      BY <3>1 DEF Notice!GetDispatcher
    <3> QED
      BY <2>1, <3>1, <3>2
  <2>2. CASE ListenAdd(p)
    <3>1. thread[p].d = event /\ thread[p].d \in made
      BY <1>1, <1>2, <2>2 DEF ListenAdd, IInv, Fitting, Fits
    <3>2. event \in Dispatchers /\ event # None
      BY <1>1, <3>1 DEF TypeOK, Notice!NoticeTypeOK
    <3>3. listening' = [listening EXCEPT ![event] = @ \cup {r}] /\ event' = event
      BY <2>2, <3>1 DEF ListenAdd, Notice!AddListener
    <3> QED
      BY <1>1, <2>2, <3>2, <3>3 DEF ListenAdd, Rests, TypeOK, Notice!NoticeTypeOK
  <2> QED
    BY <2>1, <2>2
<1>5. PICK x \in Local : /\ thread' = [thread EXCEPT ![p] = x]
                         /\ \/ x.pc = "add" /\ x.d = event' /\ x.r = r
                            \/ x.pc = "idle" /\ r \in listening'[event']
  <2>1. \A d \in Dispatchers : LET y == [thread[p] EXCEPT !.pc = "add", !.d = d] IN
          y \in Local /\ y.pc = "add" /\ y.d = d /\ y.r = r
    BY <1>2 DEF Local
  <2>2. Idle \in Local /\ Idle.pc = "idle"
    BY IdleFits DEF Idle
  <2>3. CASE \E d \in Dispatchers : d = event' /\ thread' = [thread EXCEPT ![p] = [@ EXCEPT !.pc = "add", !.d = d]]
    <3>1. PICK d \in Dispatchers : d = event' /\ thread' = [thread EXCEPT ![p] = [@ EXCEPT !.pc = "add", !.d = d]]
      BY <2>3
    <3> PICK y : y = [thread[p] EXCEPT !.pc = "add", !.d = d]
      OBVIOUS
    <3>2. thread' = [thread EXCEPT ![p] = y]
      BY <3>1
    <3>3. y \in Local /\ y.pc = "add" /\ y.d = d /\ y.r = r
      BY <2>1
    <3> QED
      BY <3>1, <3>2, <3>3
  <2>4. CASE thread' = [thread EXCEPT ![p] = Idle] /\ r \in listening'[event']
    BY <2>2, <2>4
  <2> QED
    BY <1>4, <2>3, <2>4
<1> HIDE DEF r
<1>6. thread'[p] = x /\ \A u \in Threads \ {p} : thread'[u] = thread[u]
  BY <1>1, <1>5, Put
<1>7. Spared'
  BY <1>3, <1>5, <1>6 DEF HInv, Spared, Removing
<1>8. Underway'
  <2> SUFFICES ASSUME NEW u \in Sessions, thread'[u].pc \in {"listen", "add"}
               PROVE  timer'[thread'[u].r] = "armed" /\ (thread'[u].pc = "add" => thread'[u].d = event')
    BY DEF Underway
  <2>1. u = p
    <3>1. CASE u # p
      <4>1. thread'[u] = thread[u]
        BY <1>6, <3>1, Apart
      <4>2. thread[u].r \in Requests /\ SessionOf[thread[u].r] = u
        BY <4>1, Knows, Apart
      <4> QED
        BY <1>2, <3>1, <4>2 DEF Alone
    <3> QED
      BY <3>1
  <2> QED
    BY <1>2, <1>3, <1>5, <1>6, <2>1
<1>9. InPlace'
  <2> SUFFICES ASSUME NEW q \in Requests, timer'[q] = "armed", thread'[SessionOf[q]].r # q
               PROVE  event' # None /\ q \in listening'[event']
    BY DEF InPlace
  <2>1. q = r
    BY <1>2 DEF Alone
  <2> QED
    BY <1>2, <1>4, <1>5, <1>6, <2>1
<1>10. \A s \in Sources : Ahead(s, thread[s])'
  <2> SUFFICES ASSUME NEW s \in Sources PROVE Ahead(s, thread[s])'
    OBVIOUS
  <2>1. thread'[s] = thread[s] /\ Ahead(s, thread[s]) /\ due[s] \in SUBSET Requests
    BY <1>1, <1>6, Apart DEF HInv, TypeOK
  <2>2. thread[s].pc = "copy" => thread[s].d \in Dispatchers
    BY <1>1, Apart DEF IInv, Fitting, Fits, TypeOK, Notice!NoticeTypeOK
  <2> QED
    BY <1>3, <1>4, <2>1, <2>2 DEF Ahead
<1>11. Owns'
  BY <1>3 DEF HInv, Owns
<1> QED
  BY <1>7, <1>8, <1>9, <1>10, <1>11 DEF HInv

\* findAsync_l of the one request: nobody removes its listener yet.
LEMMA FindHeard ==
  ASSUME IInv, HInv, Alone, NEW r \in Requests, FindAsync(r)
  PROVE  HInv'
<1> DEFINE p == SessionOf[r]
<1>1. TypeOK /\ p \in Threads /\ p \in Sessions /\ p \notin Sources
  BY Apart DEF IInv
<1>2. thread[p].pc = "idle" /\ r \notin Asked /\ thread[p] \in Local
  BY <1>1, Knows DEF FindAsync
<1>3. timer[r] = "none"
  BY <1>1, <1>2 DEF IInv, Answers, TypeOK
<1>4. UNCHANGED noticeVars /\ due' = due /\ map' = Searched(StreamOf[r])
  BY DEF FindAsync
<1>5. Owns'
  BY <1>1, <1>4 DEF HInv, Owns, Searched, Found, Locked, TypeOK
<1>6. CASE timer' = timer /\ thread' = thread
  BY <1>4, <1>5, <1>6, OtherStep
<1>7. CASE ~(timer' = timer /\ thread' = thread)
  <2>0. /\ timer' = [timer EXCEPT ![r] = "armed"]
        /\ thread' = [thread EXCEPT ![p] = [@ EXCEPT !.pc = "listen", !.r = r]]
    BY <1>7 DEF FindAsync
  <2> PICK x : x = [thread[p] EXCEPT !.pc = "listen", !.r = r]
    OBVIOUS
  <2>1. x \in Local /\ x.pc = "listen" /\ x.r = r /\ thread' = [thread EXCEPT ![p] = x]
    BY <1>1, <1>2, <2>0 DEF Local
  <2>2. thread'[p] = x /\ \A u \in Threads \ {p} : thread'[u] = thread[u]
    BY <1>1, <2>1, Put
  <2>3. timer'[r] = "armed"
    BY <1>1, <2>0 DEF TypeOK
  <2>4. Spared'
    <3> SUFFICES ASSUME NEW u \in Threads, thread'[u].pc \in Removing PROVE FALSE
      BY DEF Spared
    <3>1. thread'[u] = thread[u]
      BY <2>1, <2>2 DEF Removing
    <3>2. thread[u].r \in Requests /\ thread[u].r \in Asked
      BY <3>1, Knows
    <3> QED
      BY <1>2, <3>2 DEF Alone
  <2>5. Underway'
    <3> SUFFICES ASSUME NEW u \in Sessions, thread'[u].pc \in {"listen", "add"}
                 PROVE  timer'[thread'[u].r] = "armed" /\ (thread'[u].pc = "add" => thread'[u].d = event')
      BY DEF Underway
    <3>1. CASE u = p
      BY <2>1, <2>2, <2>3, <3>1
    <3>2. CASE u # p
      <4>1. thread'[u] = thread[u]
        BY <2>2, <3>2, Apart
      <4>2. thread[u].r \in Requests /\ SessionOf[thread[u].r] = u
        BY <4>1, Knows, Apart
      <4> QED
        BY <3>2, <4>2 DEF Alone
    <3> QED
      BY <3>1, <3>2
  <2>6. InPlace'
    <3> SUFFICES ASSUME NEW q \in Requests PROVE thread'[SessionOf[q]].r = q
      BY DEF InPlace
    <3> QED
      BY <2>1, <2>2 DEF Alone
  <2>7. \A s \in Sources : Ahead(s, thread[s])'
    <3> SUFFICES ASSUME NEW s \in Sources PROVE due[s] = {}
      BY <1>4 DEF Ahead
    <3> QED
      BY <1>1, <1>3 DEF HInv, Ahead, TypeOK, Alone
  <2> QED
    BY <1>5, <2>4, <2>5, <2>6, <2>7 DEF HInv
<1> QED
  BY <1>6, <1>7

\* A step that moves no thread and tells no request.
LEMMA StillHeard ==
  ASSUME IInv, HInv, \/ \E s \in Sources : Expire(s)
                     \/ \E p \in Sessions : SessionOpens(p) \/ SessionCloses(p)
                     \/ \E r \in Requests : RunAnswer(r)
                     \/ UNCHANGED vars
  PROVE  HInv'
<1>1. UNCHANGED <<noticeVars, timer, thread, due>>
  BY DEF Expire, SessionOpens, SessionCloses, RunAnswer, requestVars, vars
<1>2. map' = map \/ \E r \in Requests : map' = Searched(StreamOf[r])
  BY DEF Expire, SessionOpens, SessionCloses, RunAnswer, sourceVars, vars
<1>3. Owns'
  BY <1>2 DEF HInv, Owns, IInv, TypeOK, Searched, Found, Locked
<1> QED
  BY <1>1, <1>3, OtherStep

\* Every step of the system keeps HInv.
LEMMA NextHeard ==
  ASSUME IInv, HInv, Alone, [Next]_vars
  PROVE  HInv'
<1>1. ASSUME NEW s \in Sources, Broadcast(s) PROVE HInv'
  BY <1>1, RegistHeard, BroadcastHeard, CancelHeard DEF Broadcast
<1>2. ASSUME NEW t \in Threads, Deletion(t) PROVE HInv'
  BY <1>2, DeletionHeard
<1>3. ASSUME NEW p \in Sessions, Polling(p) PROVE HInv'
  BY <1>2, <1>3, Apart, ListenHeard, TimeoutHeard, TimerHeard, StillHeard DEF Polling
<1>4. ASSUME NEW s \in Sources, Regist(s) \/ Unregist(s) PROVE HInv'
  BY <1>4, RegistHeard
<1> QED
  BY <1>1, <1>2, <1>3, <1>4, Apart, StillHeard, FindHeard DEF Next

\* A player that is alone in asking for a stream is answered with at once: however
\* many sources register, expire and announce themselves in whatever interleaving, its
\* time-out does not come after the whole broadcast of a source that is registered.
THEOREM HeardAlone ==
  ASSUME Alone
  PROVE  Spec => HeardInTime
<1>1. Init => HInv
  BY HInit
<1>2. IInv /\ HInv /\ [Next]_vars => HInv'
  BY NextHeard
<1>3. HInv /\ [Next]_vars =>
        [\A r \in Requests : timer[r] = "armed" /\ timer'[r] = "fired" /\ Asked = {r} =>
           \A s \in Sources : ~(/\ thread[s].pc = "idle" /\ r \in due[s]
                                /\ map[StreamOf[r]] = s /\ phase[s] = "live")]_vars
  <2> SUFFICES ASSUME HInv, NEW r \in Requests, timer[r] = "armed",
                      NEW s \in Sources, thread[s].pc = "idle", r \in due[s], map[StreamOf[r]] = s
               PROVE  FALSE
    OBVIOUS
  <2>1. StreamOf[s] = StreamOf[r]
    BY DEF HInv, Owns
  <2> QED
    BY <2>1 DEF HInv, Ahead
<1> QED
  BY <1>1, <1>2, <1>3, Inductive, PTL DEF Spec, HeardInTime
=============================================================================
