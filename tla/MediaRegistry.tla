--------------------------- MODULE MediaRegistry ---------------------------
(***************************************************************************)
(* The global registry of media sources and the asynchronous look-up of a  *)
(* player's stream (MediaSource.cpp).  Sources register and, when their    *)
(* last reference goes, unregister themselves under s_media_source_mtx;    *)
(* outside the lock both are broadcast by NoticeCenter.  A session that    *)
(* asks for a stream that is not there arms a timer on its poller and      *)
(* listens to the broadcast; the source's thread answers by posting to the *)
(* session's poller, the timer answers with null.                          *)
(*                                                                         *)
(* Threads are the sources' and the sessions' own.  The weak reference in  *)
(* the registry has expired when the source it names is not live any more. *)
(* Time is left out: an armed timer may fire whenever its thread is idle   *)
(* and the timers the session armed before it are done: all wait equally   *)
(* long.                                                                   *)
(***************************************************************************)
EXTENDS Naturals, Sequences, FiniteSets

CONSTANTS
  Sources,      \* media source objects
  Streams,      \* schema, vhost, app and id of a stream
  StreamOf,     \* the stream of a source or a request
  Sessions,     \* TcpSession objects
  Addresses,    \* memory
  Address,      \* the memory a session occupies: the tag of its listeners
  Requests,     \* calls of findAsync
  SessionOf,    \* the session a request is made for
  Dispatchers,  \* EventDispatcher objects
  None,         \* the null pointer
  MaxRegists    \* bound: regist calls of a source

ASSUME RegistryAssumption ==
  /\ None \notin Sources \cup Sessions \cup Requests \cup Dispatchers \cup Streams
  /\ Sources \cap Sessions = {}
  /\ StreamOf \in [Sources \cup Requests -> Streams]
  /\ SessionOf \in [Requests -> Sessions]
  /\ Address \in [Sessions -> Addresses]
  /\ MaxRegists \in Nat

VARIABLES
  event, made, listening,  \* NoticeCenter: the kBroadcastMediaChanged event
  map,          \* s_media_source_map
  phase,        \* life of a source: new, live, expired, gone
  regists,      \* regist calls of each source
  session,      \* life of a session: none, live, gone
  asked,        \* requests made by each session, in order
  timer,        \* on_timeout of each request: none, armed, cancelled, fired
  posted,       \* answers posted to the session's poller and not yet run
  answers,      \* history: the arguments cb was called with
  thread,       \* what each thread is in the middle of
  latest,       \* history: the last source to register for each stream
  due,          \* history: who listened when a source last announced itself
  told          \* history: the last event broadcast by each source

noticeVars  == <<event, made, listening>>
sourceVars  == <<map, phase, regists, latest>>
requestVars == <<asked, timer, posted, answers>>
vars == <<noticeVars, sourceVars, session, requestVars, thread, due, told>>

Tag(r) == Address[SessionOf[r]]

Notice == INSTANCE NoticeCenter

Threads == Sources \cup Sessions

\* r: the request a thread works on; d: the dispatcher it holds; todo: the
\* listeners it has still to call; says: the event it broadcasts.
Local == [pc : {"idle", "listen", "add", "del", "erase", "drop", "deleted",
                "emit", "copy", "visit"},
          r : Requests \cup {None}, d : Dispatchers \cup {None},
          todo : SUBSET Requests, says : {"nothing", "regist", "unregist"}]

Idle == [pc |-> "idle", r |-> None, d |-> None, todo |-> {}, says |-> "nothing"]

Init ==
  /\ Notice!NoticeInit
  /\ map = [i \in Streams |-> None]
  /\ phase = [s \in Sources |-> "new"]
  /\ regists = [s \in Sources |-> 0]
  /\ session = [p \in Sessions |-> "none"]
  /\ asked = [p \in Sessions |-> <<>>]
  /\ timer = [r \in Requests |-> "none"]
  /\ posted = [r \in Requests |-> 0]
  /\ answers = [r \in Requests |-> <<>>]
  /\ thread = [t \in Threads |-> Idle]
  /\ latest = [i \in Streams |-> None]
  /\ due = [s \in Sources |-> {}]
  /\ told = [s \in Sources |-> "nothing"]

\* weak_ptr::lock of the registry's entry.
Locked(s) == IF s # None /\ phase[s] = "live" THEN s ELSE None

\* find_l: what it returns, and the registry it leaves.
Found(i) == Locked(map[i])
Searched(i) == [map EXCEPT ![i] = Found(i)]

Asked == {r \in Requests : \E p \in Sessions : \E k \in DOMAIN asked[p] : asked[p][k] = r}

\* Whether p asked for q before it asked for r.
AskedBefore(p, q, r) ==
  \E j, k \in DOMAIN asked[p] : j < k /\ asked[p][j] = q /\ asked[p][k] = r

Goes(t, pc) == thread' = [thread EXCEPT ![t] = [@ EXCEPT !.pc = pc]]
Rests(t)    == thread' = [thread EXCEPT ![t] = Idle]
-----------------------------------------------------------------------------
(* Sources. *)

\* regist: the map under the lock, then emitEvent(true).
Regist(s) ==
  /\ thread[s].pc = "idle" /\ phase[s] \in {"new", "live"} /\ regists[s] < MaxRegists
  /\ map' = [map EXCEPT ![StreamOf[s]] = s]
  /\ phase' = [phase EXCEPT ![s] = "live"]
  /\ regists' = [regists EXCEPT ![s] = @ + 1]
  /\ latest' = [latest EXCEPT ![StreamOf[s]] = s]
  /\ thread' = [thread EXCEPT ![s] = [Idle EXCEPT !.pc = "emit", !.says = "regist"]]
  /\ due' = [due EXCEPT ![s] = {}]
  /\ UNCHANGED <<noticeVars, session, requestVars, told>>

\* The last reference to the source goes.
Expire(s) ==
  /\ thread[s].pc = "idle" /\ phase[s] \in {"new", "live"}
  /\ phase' = [phase EXCEPT ![s] = "expired"]
  /\ UNCHANGED <<noticeVars, map, regists, latest, session, requestVars, thread, due, told>>

\* Faulty form: the destructor does not look whose entry it is.
ErasableAny(s) == map[StreamOf[s]] # None

\* unregist: whose entry the destructor of s may erase: its own, and what
\* another source that is gone has left.
Erasable(s) == map[StreamOf[s]] # None /\ Found(StreamOf[s]) \in {None, s}

\* The destructor calls unregist: the map under the lock, then emitEvent(false).
Unregist(s) ==
  /\ thread[s].pc = "idle" /\ phase[s] = "expired"
  /\ phase' = [phase EXCEPT ![s] = "gone"]
  /\ IF Erasable(s)
       THEN /\ map' = [map EXCEPT ![StreamOf[s]] = None]
            /\ thread' = [thread EXCEPT ![s] = [Idle EXCEPT !.pc = "emit", !.says = "unregist"]]
       ELSE UNCHANGED <<map, thread>>
  /\ UNCHANGED <<noticeVars, regists, latest, session, requestVars, due, told>>

\* Requests whose listener is in place.
Waiting == {r \in Requests : timer[r] = "armed" /\ thread[SessionOf[r]].r # r}

\* emitEvent: no dispatcher, no listener; or the dispatcher at hand.
EmitGet(s) ==
  /\ thread[s].pc = "emit"
  /\ thread' = [thread EXCEPT ![s] = IF event = None THEN Idle
                                     ELSE [@ EXCEPT !.pc = "copy", !.d = event]]
  /\ due' = [due EXCEPT ![s] = IF thread[s].says = "regist" THEN Waiting ELSE {}]
  /\ told' = [told EXCEPT ![s] = thread[s].says]
  /\ UNCHANGED <<noticeVars, sourceVars, session, requestVars>>

\* EventDispatcher::emitEvent copies the listeners under its lock.
EmitCopy(s) ==
  /\ thread[s].pc = "copy"
  /\ thread' = [thread EXCEPT ![s] = [@ EXCEPT !.pc = "visit", !.todo = listening[thread[s].d]]]
  /\ UNCHANGED <<noticeVars, sourceVars, session, requestVars, due, told>>

EmitEnd(s) ==
  /\ thread[s].pc = "visit" /\ thread[s].todo = {}
  /\ Rests(s)
  /\ UNCHANGED <<noticeVars, sourceVars, session, requestVars, due, told>>
-----------------------------------------------------------------------------
(* on_regist, the listener of request r, called by the thread of source s. *)

\* Faulty form: the timer goes on.
CancelledNever(r) == timer

\* on_timeout->cancel(): a timer that already runs is not stopped.
Cancelled(r) == [timer EXCEPT ![r] = IF @ = "armed" THEN "cancelled" ELSE @]

\* cancel_all begins: the timer, then delListener.
CancelAll(s, r) ==
  /\ timer' = Cancelled(r)
  /\ thread' = [thread EXCEPT ![s] = [@ EXCEPT !.pc = "del", !.r = r, !.todo = thread[s].todo \ {r}]]
  /\ UNCHANGED <<noticeVars, sourceVars, session, asked, posted, answers, due, told>>

\* The session is gone: nobody to answer.
VisitGone(s, r) ==
  /\ thread[s].pc = "visit" /\ r \in thread[s].todo
  /\ session[SessionOf[r]] = "gone"
  /\ CancelAll(s, r)

Interesting(s, r) == thread[s].says = "regist" /\ StreamOf[s] = StreamOf[r]

VisitIgnored(s, r) ==
  /\ thread[s].pc = "visit" /\ r \in thread[s].todo
  /\ session[SessionOf[r]] = "live" /\ ~Interesting(s, r)
  /\ thread' = [thread EXCEPT ![s] = [@ EXCEPT !.todo = thread[s].todo \ {r}]]
  /\ UNCHANGED <<noticeVars, sourceVars, session, requestVars, due, told>>

VisitHeard(s, r) ==
  /\ thread[s].pc = "visit" /\ r \in thread[s].todo
  /\ session[SessionOf[r]] = "live" /\ Interesting(s, r)
  /\ CancelAll(s, r)

\* After cancel_all: the answer is posted to the session's poller.
PostAnswer(s) ==
  LET r == thread[s].r IN
  /\ thread[s].pc = "deleted"
  /\ posted' = [posted EXCEPT ![r] = IF session[SessionOf[r]] = "live" THEN @ + 1 ELSE @]
  /\ thread' = [thread EXCEPT ![s] = [@ EXCEPT !.pc = "visit", !.r = None, !.d = None]]
  /\ UNCHANGED <<noticeVars, sourceVars, session, asked, timer, answers, due, told>>
-----------------------------------------------------------------------------
(* NoticeCenter::delListener(tag, event), called by any thread t. *)

DelGet(t) ==
  /\ thread[t].pc = "del"
  /\ thread' = [thread EXCEPT
                 ![t] = [@ EXCEPT !.pc = IF event = None THEN "deleted" ELSE "erase", !.d = event]]
  /\ UNCHANGED <<noticeVars, sourceVars, session, requestVars, due, told>>

DelErase(t) ==
  LET d == thread[t].d  r == thread[t].r IN
  /\ thread[t].pc = "erase"
  /\ Notice!DelListener(d, r)
  /\ Goes(t, IF Notice!Others(d, r) = {} THEN "drop" ELSE "deleted")
  /\ UNCHANGED <<sourceVars, session, requestVars, due, told>>

DelDrop(t) ==
  /\ thread[t].pc = "drop"
  /\ Notice!DelDispatcher(thread[t].d)
  /\ Goes(t, "deleted")
  /\ UNCHANGED <<sourceVars, session, requestVars, due, told>>
-----------------------------------------------------------------------------
(* Sessions, each on its poller. *)

\* Two sessions at one address do not live at the same time.
SessionOpens(p) ==
  /\ session[p] = "none"
  /\ \A q \in Sessions : session[q] = "live" => Address[q] # Address[p]
  /\ session' = [session EXCEPT ![p] = "live"]
  /\ UNCHANGED <<noticeVars, sourceVars, requestVars, thread, due, told>>

\* Who holds a strong reference: findAsync, and on_regist in a source's thread.
Holding(t, p) == thread[t].r # None /\ SessionOf[thread[t].r] = p

\* The last reference to the session goes; its timers stay armed.
SessionCloses(p) ==
  /\ session[p] = "live" /\ thread[p].pc \notin {"listen", "add"}
  /\ \A s \in Sources : ~Holding(s, p)
  /\ session' = [session EXCEPT ![p] = "gone"]
  /\ UNCHANGED <<noticeVars, sourceVars, requestVars, thread, due, told>>

\* findAsync: the source is there, or the timer is armed and the thread goes
\* on to listen.
FindAsync(r) ==
  LET p == SessionOf[r]  s == Found(StreamOf[r]) IN
  /\ session[p] = "live" /\ thread[p].pc = "idle" /\ r \notin Asked
  /\ asked' = [asked EXCEPT ![p] = Append(@, r)]
  /\ map' = Searched(StreamOf[r])
  /\ IF s # None
       THEN /\ answers' = [answers EXCEPT ![r] = Append(@, s)]
            /\ UNCHANGED <<timer, thread>>
       ELSE /\ timer' = [timer EXCEPT ![r] = "armed"]
            /\ thread' = [thread EXCEPT ![p] = [@ EXCEPT !.pc = "listen", !.r = r]]
            /\ UNCHANGED answers
  /\ UNCHANGED <<noticeVars, phase, regists, latest, session, posted, due, told>>

\* addListener: getDispatcher(event, true), then the dispatcher's own.
ListenGet(p) ==
  /\ thread[p].pc = "listen"
  /\ \E d \in Dispatchers :
       /\ Notice!GetDispatcher(d)
       /\ thread' = [thread EXCEPT ![p] = [@ EXCEPT !.pc = "add", !.d = d]]
  /\ UNCHANGED <<sourceVars, session, requestVars, due, told>>

ListenAdd(p) ==
  /\ thread[p].pc = "add"
  /\ Notice!AddListener(thread[p].d, thread[p].r)
  /\ Rests(p)
  /\ UNCHANGED <<sourceVars, session, requestVars, due, told>>

\* Faulty form: the listener stays.
TimerFiresOnly(r) ==
  LET p == SessionOf[r] IN
  /\ timer[r] = "armed" /\ thread[p].pc = "idle"
  /\ \A q \in Requests : AskedBefore(p, q, r) => timer[q] # "armed"
  /\ timer' = [timer EXCEPT ![r] = "fired"]
  /\ thread' = [thread EXCEPT ![p] = [@ EXCEPT !.pc = "deleted", !.r = r]]
  /\ UNCHANGED <<noticeVars, sourceVars, session, asked, posted, answers, due, told>>

\* on_timeout begins: delListener, then cb(nullptr).
TimerFires(r) ==
  LET p == SessionOf[r] IN
  /\ timer[r] = "armed" /\ thread[p].pc = "idle"
  /\ \A q \in Requests : AskedBefore(p, q, r) => timer[q] # "armed"
  /\ timer' = [timer EXCEPT ![r] = "fired"]
  /\ thread' = [thread EXCEPT ![p] = [@ EXCEPT !.pc = "del", !.r = r]]
  /\ UNCHANGED <<noticeVars, sourceVars, session, asked, posted, answers, due, told>>

\* Faulty form: nobody is told.
AnswerTimeoutNever(p) ==
  /\ thread[p].pc = "deleted"
  /\ Rests(p)
  /\ UNCHANGED <<noticeVars, sourceVars, session, requestVars, due, told>>

AnswerTimeout(p) ==
  /\ thread[p].pc = "deleted"
  /\ answers' = [answers EXCEPT ![thread[p].r] = Append(@, None)]
  /\ Rests(p)
  /\ UNCHANGED <<noticeVars, sourceVars, session, asked, timer, posted, due, told>>

\* Faulty form: a task that has run is run again.
RunAnswerAgain(r) ==
  LET p == SessionOf[r]  i == StreamOf[r] IN
  /\ thread[p].pc = "idle" /\ posted[r] + Len(answers[r]) > 0
  /\ posted' = [posted EXCEPT ![r] = @ - 1]
  /\ IF session[p] = "live"
       THEN answers' = [answers EXCEPT ![r] = Append(@, Found(i))] /\ map' = Searched(i)
       ELSE UNCHANGED <<answers, map>>
  /\ UNCHANGED <<noticeVars, phase, regists, latest, session, asked, timer, thread, due, told>>

\* The posted task: findAsync_l without retry, if the session is still there.
RunAnswer(r) ==
  LET p == SessionOf[r]  i == StreamOf[r] IN
  /\ thread[p].pc = "idle" /\ posted[r] > 0
  /\ posted' = [posted EXCEPT ![r] = @ - 1]
  /\ IF session[p] = "live"
       THEN answers' = [answers EXCEPT ![r] = Append(@, Found(i))] /\ map' = Searched(i)
       ELSE UNCHANGED <<answers, map>>
  /\ UNCHANGED <<noticeVars, phase, regists, latest, session, asked, timer, thread, due, told>>
-----------------------------------------------------------------------------
Broadcast(s) ==
  \/ EmitGet(s) \/ EmitCopy(s) \/ EmitEnd(s) \/ PostAnswer(s)
  \/ \E r \in Requests : VisitGone(s, r) \/ VisitIgnored(s, r) \/ VisitHeard(s, r)

Deletion(t) == DelGet(t) \/ DelErase(t) \/ DelDrop(t)

\* What a session's poller does unless it is busy for ever.
Polling(p) ==
  \/ ListenGet(p) \/ ListenAdd(p) \/ AnswerTimeout(p) \/ Deletion(p)
  \/ \E r \in Requests : SessionOf[r] = p /\ (TimerFires(r) \/ RunAnswer(r))

Next ==
  \/ \E s \in Sources : Regist(s) \/ Expire(s) \/ Unregist(s) \/ Broadcast(s) \/ Deletion(s)
  \/ \E p \in Sessions : SessionOpens(p) \/ SessionCloses(p) \/ Polling(p)
  \/ \E r \in Requests : FindAsync(r)

Spec == Init /\ [][Next]_vars

\* A thread in a call goes on, and so does a poller.
Fairness ==
  /\ \A s \in Sources : WF_vars(Broadcast(s) \/ Deletion(s))
  /\ \A p \in Sessions : WF_vars(Polling(p))
-----------------------------------------------------------------------------
TypeOK ==
  /\ Notice!NoticeTypeOK
  /\ map \in [Streams -> Sources \cup {None}]
  /\ phase \in [Sources -> {"new", "live", "expired", "gone"}]
  /\ regists \in [Sources -> 0 .. MaxRegists]
  /\ latest \in [Streams -> Sources \cup {None}]
  /\ session \in [Sessions -> {"none", "live", "gone"}]
  /\ asked \in [Sessions -> Seq(Requests)]
  /\ timer \in [Requests -> {"none", "armed", "cancelled", "fired"}]
  /\ posted \in [Requests -> Nat]
  /\ answers \in [Requests -> Seq(Sources \cup {None})]
  /\ thread \in [Threads -> Local]
  /\ due \in [Sources -> SUBSET Requests]
  /\ told \in [Sources -> {"nothing", "regist", "unregist"}]

\* The source that registered last for a stream is found as long as it lives:
\* neither another source's destructor nor a search that cleans the registry
\* takes its entry away (find_l, unregist).
LatestIsFound ==
  \A i \in Streams : Locked(latest[i]) # None => map[i] = latest[i]

\* A request that was answered listens no more, so that a registration to come
\* does not answer it again (on_timeout, cancel_all).
AnsweredIsDeaf ==
  \A r \in Requests : answers[r] # <<>> /\ event # None => r \notin listening[event]

\* Every request of a session is answered, or the session goes (findAsync_l).
EveryoneAnswered ==
  \A r \in Requests :
    r \in Asked ~> answers[r] # <<>> \/ session[SessionOf[r]] = "gone"

\* config.h: a stream that registers while a request waits is answered with at
\* once.  A request that is the only one so far, and times out, has not listened
\* through the whole broadcast of a source that is still registered.
HeardInTime ==
  [][\A r \in Requests : timer[r] = "armed" /\ timer'[r] = "fired" /\ Asked = {r} =>
       \A s \in Sources : ~(/\ thread[s].pc = "idle" /\ r \in due[s]
                            /\ map[StreamOf[r]] = s /\ phase[s] = "live")]_vars

\* config.h, MediaSource.cpp: null is answered after the time-out only if the
\* stream did not register.  A request never times out while its stream is
\* registered and its broadcast over.
NotFoundIsTrue ==
  [][\A r \in Requests : timer[r] = "armed" /\ timer'[r] = "fired" =>
       \A s \in Sources : ~(/\ thread[s].pc = "idle"
                            /\ map[StreamOf[r]] = s /\ phase[s] = "live")]_vars

\* MediaSource.cpp, findAsync_l: the timer is cancelled so that cb is not called
\* more than once.
CalledBackOnce == \A r \in Requests : Len(answers[r]) <= 1

\* config.h: registering and unregistering are both broadcast.  A source that
\* announced itself and is gone has announced that too, unless another source
\* has taken its place.
GoneIsAnnounced ==
  \A s \in Sources :
    phase[s] = "gone" /\ thread[s].pc = "idle" /\ told[s] = "regist" =>
      latest[StreamOf[s]] # s
=============================================================================
