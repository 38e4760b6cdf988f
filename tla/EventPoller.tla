---------------------------- MODULE EventPoller ----------------------------
(***************************************************************************)
(* One event loop of the server (ZLToolKit EventPoller.cpp).  Other        *)
(* threads hand it jobs: async appends to _list_task, async_first puts in  *)
(* front, sync appends and blocks, doDelayTask puts in front a task that   *)
(* enters a timer into _delay_task_map.  Each then writes a byte to the    *)
(* internal pipe, watched edge-triggered, to end the loop's epoll_wait.    *)
(* The destructor, run by whoever drops the last reference, posts the task *)
(* that ends the loop, joins it and runs what is left.                     *)
(*                                                                         *)
(* A job is run once and a timer armed once, so both are named by their    *)
(* objects; a timer may repeat.  The clock counts milliseconds of          *)
(* getCurrentMillisecond, which never goes back.  Socket events are not    *)
(* part of this module: their callbacks do what those of jobs may do.      *)
(***************************************************************************)
EXTENDS Integers, Sequences, FiniteSets

CONSTANTS
  Callers,    \* threads other than the loop's own
  Jobs,       \* functions given to async, async_first and sync
  Timers,     \* DelayTask objects
  Delays,     \* delays in milliseconds given to doDelayTask or returned
  Horizon,    \* bound: the last millisecond; no deadline lies behind it
  None        \* nothing

ASSUME PollerAssumption ==
  /\ Horizon \in Nat
  /\ Delays \subseteq Nat \ {0}
  /\ None \notin Jobs \cup Timers

VARIABLES
  list,       \* _list_task
  unread,     \* bytes are in the pipe
  loop,       \* what the loop thread is about to do
  batch,      \* _list_swap: what is left of it
  map,        \* _delay_task_map, by deadline and then by insertion
  expired,    \* task_copy: what is left of it
  flushed,    \* now_time of flushDelayTask, 0 outside it
  until,      \* when epoll_wait times out; -1: never, or it is not waiting
  clock,      \* the time in milliseconds
  timer,      \* life of each timer: new, armed, cancelled, done
  caller,     \* what each other thread is in the middle of
  leaving,    \* shutdown: no, asked, seen, last (the destructor's own turn)
  posted,     \* history: jobs appended by async and sync, in order
  ran         \* history: jobs run, in order

taskVars  == <<list, unread, batch>>
delayVars == <<map, expired, flushed, timer>>
history   == <<posted, ran>>
vars == <<taskVars, delayVars, loop, until, clock, caller, leaving, history>>
-----------------------------------------------------------------------------
Never == -1
Entry == [at : 0 .. Horizon, t : Timers]

Job(j) == [op |-> "job", j |-> j, e |-> None]
Arm(e) == [op |-> "arm", j |-> None, e |-> e]
Exit   == [op |-> "exit", j |-> None, e |-> None]
Task   == {Job(j) : j \in Jobs} \cup {Arm(e) : e \in Entry} \cup {Exit}

Idle == [pc |-> "idle", j |-> None]

\* Faulty form: the map is not kept in order.
EmplaceBack(m, e) == Append(m, e)

\* multimap::emplace: behind the entries that are due no later.
Emplace(m, e) ==
  LET n == Cardinality({i \in DOMAIN m : m[i].at <= e.at})
  IN [i \in 1 .. Len(m) + 1 |-> IF i <= n THEN m[i] ELSE IF i = n + 1 THEN e ELSE m[i - 1]]

\* A deadline d milliseconds from now that the horizon allows.
Within(now, d) == now + d <= Horizon

Init ==
  /\ list = <<>> /\ unread = FALSE /\ batch = <<>>
  /\ map = <<>> /\ expired = <<>> /\ flushed = 0
  /\ timer = [t \in Timers |-> "new"]
  /\ loop = "top" /\ until = Never /\ clock = 0
  /\ caller = [c \in Callers |-> Idle]
  /\ leaving = "no"
  /\ posted = <<>> /\ ran = <<>>
-----------------------------------------------------------------------------
(* Other threads.                                                          *)

\* async_l after pushing: the caller has still to write to the pipe; after
\* sync it will wait for the job.
Pushed(c, pc, j) == caller' = [caller EXCEPT ![c] = [pc |-> pc, j |-> j]]

Fresh(j) == /\ \A i \in DOMAIN ran : ran[i] # j
            /\ \A i \in DOMAIN list : list[i].j # j
            /\ \A i \in DOMAIN batch : batch[i].j # j

Async(c, j) ==
  /\ caller[c] = Idle /\ leaving = "no" /\ Fresh(j)
  /\ list' = Append(list, Job(j))
  /\ posted' = Append(posted, j)
  /\ \E pc \in {"wake", "wake sync"} : Pushed(c, pc, j)
  /\ UNCHANGED <<unread, batch, delayVars, loop, until, clock, leaving, ran>>

AsyncFirst(c, j) ==
  /\ caller[c] = Idle /\ leaving = "no" /\ Fresh(j)
  /\ list' = <<Job(j)>> \o list
  /\ Pushed(c, "wake", j)
  /\ UNCHANGED <<unread, batch, delayVars, loop, until, clock, leaving, history>>

\* Faulty form: the delay is taken for seconds.
DoDelayTaskSeconds(c, t, d) ==
  /\ caller[c] = Idle /\ leaving = "no"
  /\ timer[t] = "new" /\ Within(clock, d)
  /\ timer' = [timer EXCEPT ![t] = "armed"]
  /\ list' = <<Arm([at |-> clock + 1000 * d, t |-> t])>> \o list
  /\ Pushed(c, "wake", None)
  /\ UNCHANGED <<unread, batch, map, expired, flushed, loop, until, clock, leaving, history>>

DoDelayTask(c, t, d) ==
  /\ caller[c] = Idle /\ leaving = "no"
  /\ timer[t] = "new" /\ Within(clock, d)
  /\ timer' = [timer EXCEPT ![t] = "armed"]
  /\ list' = <<Arm([at |-> clock + d, t |-> t])>> \o list
  /\ Pushed(c, "wake", None)
  /\ UNCHANGED <<unread, batch, map, expired, flushed, loop, until, clock, leaving, history>>

Wake(c) ==
  /\ caller[c].pc \in {"wake", "wake sync"}
  /\ unread' = TRUE
  /\ caller' = [caller EXCEPT ![c] = IF @.pc = "wake" THEN Idle
                                     ELSE [pc |-> "blocked", j |-> @.j]]
  /\ UNCHANGED <<list, batch, delayVars, loop, until, clock, leaving, history>>

\* sem.wait of sync, posted when the job is done.
SyncReturns(c) ==
  /\ caller[c].pc = "blocked"
  /\ \E i \in DOMAIN ran : ran[i] = caller[c].j
  /\ caller' = [caller EXCEPT ![c] = Idle]
  /\ UNCHANGED <<taskVars, delayVars, loop, until, clock, leaving, history>>

\* cancel, by any thread that holds the timer, this loop's callbacks included.
Cancel(t) ==
  /\ timer[t] = "armed"
  /\ timer' = [timer EXCEPT ![t] = "cancelled"]
  /\ UNCHANGED <<taskVars, map, expired, flushed, loop, until, clock, caller, leaving, history>>

\* The last reference is dropped: nobody else uses the poller any more.
Shutdown ==
  /\ leaving = "no"
  /\ \A c \in Callers : caller[c] = Idle
  /\ leaving' = "asked"
  /\ list' = <<Exit>> \o list
  /\ unread' = TRUE
  /\ UNCHANGED <<batch, delayVars, loop, until, clock, caller, history>>
-----------------------------------------------------------------------------
(* The loop thread.                                                        *)

\* The time-out of epoll_wait for the first entry of m; a distance of zero
\* would mean that there is no timer.
SleepFor(m, now) ==
  until' = IF m = <<>> \/ Head(m).at = now THEN Never
           ELSE IF Within(clock, Head(m).at - now) THEN clock + Head(m).at - now
           ELSE Horizon

Expired(m, now) == m # <<>> /\ Head(m).at <= now

\* getMinDelay, when nothing is due.
MinDelay ==
  /\ loop = "top"
  /\ ~Expired(map, clock)
  /\ loop' = "wait"
  /\ SleepFor(map, clock)
  /\ UNCHANGED <<taskVars, delayVars, clock, caller, leaving, history>>

\* getMinDelay and the start of flushDelayTask.
BeginFlush ==
  /\ loop = "top"
  /\ Expired(map, clock)
  /\ loop' = "flush"
  /\ expired' = map /\ map' = <<>> /\ flushed' = clock
  /\ UNCHANGED <<taskVars, timer, until, clock, caller, leaving, history>>

Due == loop = "flush" /\ Expired(expired, flushed)

\* What a callback on the loop thread may arm besides: the timer enters the map
\* at once, because the thread is the loop's own.
Armable == {None} \cup {e \in Entry : timer[e.t] = "new" /\ \E d \in Delays : e.at = clock + d}

\* And what it may hand over with may_sync switched off, as a write of a
\* RingBuffer does: only while somebody refers to the poller.
Postable == {None} \cup {j \in Jobs : leaving = "no" /\ Fresh(j)}

Posts(j) ==
  IF j = None THEN UNCHANGED <<list, unread, posted>>
  ELSE list' = Append(list, Job(j)) /\ posted' = Append(posted, j) /\ unread' = TRUE

WithMap(e)  == IF e = None THEN map ELSE Emplace(map, e)
WithLife(e) == IF e = None THEN timer ELSE [timer EXCEPT ![e.t] = "armed"]

\* The first expired timer runs; it is over, or asks to run d later.
RunTimer ==
  /\ Due /\ timer[Head(expired).t] = "armed"
  /\ expired' = Tail(expired)
  /\ LET t == Head(expired).t
     IN \E e \in Armable :
          \/ map' = WithMap(e) /\ timer' = [WithLife(e) EXCEPT ![t] = "done"]
          \/ \E d \in Delays :
               /\ Within(flushed, d)
               /\ map' = Emplace(WithMap(e), [at |-> flushed + d, t |-> t])
               /\ timer' = WithLife(e)
  /\ \E j \in Postable : Posts(j)
  /\ UNCHANGED <<batch, flushed, loop, until, clock, caller, leaving, ran>>

\* A cancelled one is only dropped.
SkipTimer ==
  /\ Due /\ timer[Head(expired).t] = "cancelled"
  /\ expired' = Tail(expired)
  /\ UNCHANGED <<taskVars, map, flushed, timer, loop, until, clock, caller, leaving, history>>

\* Faulty form: what was entered meanwhile is not taken back.
MergeTimerDrop ==
  /\ loop = "flush" /\ ~Due /\ map # <<>>
  /\ map' = <<>>
  /\ UNCHANGED <<taskVars, expired, flushed, timer, loop, until, clock, caller, leaving, history>>

\* What is left of the copy takes back, one by one, what was entered meanwhile;
\* all of it lies behind now_time.
MergeTimer ==
  /\ loop = "flush" /\ ~Due /\ map # <<>>
  /\ expired' = Emplace(expired, Head(map)) /\ map' = Tail(map)
  /\ UNCHANGED <<taskVars, flushed, timer, loop, until, clock, caller, leaving, history>>

\* Faulty form: the sleep is computed for the timers that were due.
EndFlushStale ==
  /\ loop = "flush" /\ ~Due /\ map = <<>>
  /\ map' = expired /\ expired' = <<>>
  /\ loop' = "wait"
  /\ SleepFor(map, flushed) /\ flushed' = 0
  /\ UNCHANGED <<taskVars, timer, clock, caller, leaving, history>>

EndFlush ==
  /\ loop = "flush" /\ ~Due /\ map = <<>>
  /\ map' = expired /\ expired' = <<>>
  /\ loop' = "wait"
  /\ SleepFor(expired, flushed) /\ flushed' = 0
  /\ UNCHANGED <<taskVars, timer, clock, caller, leaving, history>>

\* epoll_wait returns without an event.
TimeOut ==
  /\ loop = "wait" /\ until # Never /\ clock >= until
  /\ loop' = "top"
  /\ until' = Never
  /\ UNCHANGED <<taskVars, delayVars, clock, caller, leaving, history>>

\* epoll_wait returns the pipe: onPipeEvent begins.
PipeReadable ==
  /\ loop = "wait" /\ unread
  /\ loop' = "drain"
  /\ until' = Never
  /\ UNCHANGED <<taskVars, delayVars, clock, caller, leaving, history>>

\* The pipe is read until it is empty, and only then the list is taken.
Drain ==
  /\ loop = "drain"
  /\ unread' = FALSE
  /\ loop' = "take"
  /\ UNCHANGED <<list, batch, delayVars, until, clock, caller, leaving, history>>

\* Faulty form: the list is copied and not swapped.
TakeCopy ==
  /\ loop = "take"
  /\ batch' = list
  /\ loop' = "batch"
  /\ UNCHANGED <<list, unread, delayVars, until, clock, caller, leaving, history>>

Take ==
  /\ loop = "take"
  /\ batch' = list /\ list' = <<>>
  /\ loop' = "batch"
  /\ UNCHANGED <<unread, delayVars, until, clock, caller, leaving, history>>

Running(op) == loop = "batch" /\ batch # <<>> /\ Head(batch).op = op

RunJob ==
  /\ Running("job")
  /\ batch' = Tail(batch)
  /\ ran' = Append(ran, Head(batch).j)
  /\ \E e \in Armable : map' = WithMap(e) /\ timer' = WithLife(e)
  /\ \E j \in Postable : Posts(j)
  /\ UNCHANGED <<expired, flushed, loop, until, clock, caller, leaving>>

RunArm ==
  /\ Running("arm")
  /\ batch' = Tail(batch)
  /\ map' = Emplace(map, Head(batch).e)
  /\ UNCHANGED <<list, unread, expired, flushed, timer, loop, until, clock, caller, leaving, history>>

\* Faulty form: the rest of the batch is given up.
RunExitAtOnce ==
  /\ Running("exit")
  /\ batch' = <<>>
  /\ leaving' = "seen"
  /\ UNCHANGED <<list, unread, delayVars, loop, until, clock, caller, history>>

\* ExitException: _exit_flag is set and the rest of the batch still runs.
RunExit ==
  /\ Running("exit")
  /\ batch' = Tail(batch)
  /\ leaving' = "seen"
  /\ UNCHANGED <<list, unread, delayVars, loop, until, clock, caller, history>>

\* Faulty form: the pipe is emptied once more after the batch.
EndBatchDrain ==
  /\ loop = "batch" /\ batch = <<>>
  /\ unread' = FALSE
  /\ \/ leaving \in {"no", "asked"} /\ loop' = "top" /\ UNCHANGED leaving
     \/ leaving = "seen" /\ loop' = "drain" /\ leaving' = "last"
     \/ leaving = "last" /\ loop' = "gone" /\ UNCHANGED leaving
  /\ UNCHANGED <<list, batch, delayVars, until, clock, caller, history>>

\* The loop turns, ends and is joined by the destructor, which runs what is
\* left, or the destructor is through.
EndBatch ==
  /\ loop = "batch" /\ batch = <<>>
  /\ \/ leaving \in {"no", "asked"} /\ loop' = "top" /\ UNCHANGED leaving
     \/ leaving = "seen" /\ loop' = "drain" /\ leaving' = "last"
     \/ leaving = "last" /\ loop' = "gone" /\ UNCHANGED leaving
  /\ UNCHANGED <<taskVars, delayVars, until, clock, caller, history>>

Tick ==
  /\ clock < Horizon
  /\ clock' = clock + 1
  /\ UNCHANGED <<taskVars, delayVars, loop, until, caller, leaving, history>>
-----------------------------------------------------------------------------
LoopStep ==
  \/ MinDelay \/ BeginFlush \/ RunTimer \/ SkipTimer \/ MergeTimer \/ EndFlush
  \/ TimeOut \/ PipeReadable \/ Drain \/ Take
  \/ RunJob \/ RunArm \/ RunExit \/ EndBatch

Calls(c) ==
  \/ \E j \in Jobs : Async(c, j) \/ AsyncFirst(c, j)
  \/ \E t \in Timers, d \in Delays : DoDelayTask(c, t, d)

Next ==
  \/ LoopStep \/ Tick \/ Shutdown
  \/ \E c \in Callers : Calls(c) \/ Wake(c) \/ SyncReturns(c)
  \/ \E t \in Timers : Cancel(t)

Spec == Init /\ [][Next]_vars

\* The loop thread and a thread inside a call keep running, and time passes;
\* nobody has to call.
FairSpec ==
  /\ Spec
  /\ WF_vars(LoopStep) /\ WF_vars(Tick)
  /\ \A c \in Callers : WF_vars(Wake(c)) /\ WF_vars(SyncReturns(c))
-----------------------------------------------------------------------------
Lives  == {"new", "armed", "cancelled", "done"}
Phases == {"top", "flush", "wait", "drain", "take", "batch", "gone"}

TypeOK ==
  /\ list \in Seq(Task) /\ batch \in Seq(Task)
  /\ map \in Seq(Entry) /\ expired \in Seq(Entry)
  /\ unread \in BOOLEAN
  /\ flushed \in 0 .. Horizon /\ clock \in 0 .. Horizon /\ until \in -1 .. Horizon
  /\ loop \in Phases
  /\ timer \in [Timers -> Lives]
  /\ caller \in [Callers -> [pc : {"idle", "wake", "wake sync", "blocked"}, j : Jobs \cup {None}]]
  /\ leaving \in {"no", "asked", "seen", "last"}
  /\ posted \in Seq(Jobs) /\ ran \in Seq(Jobs)

\* No job runs twice, and those appended by async run in the order in which
\* they were appended, whatever async_first puts in front of them: the writers
\* of a RingBuffer rely on it.
RunInOrder ==
  /\ \A p, q \in DOMAIN ran : ran[p] = ran[q] => p = q
  /\ \A i, k \in DOMAIN posted, q \in DOMAIN ran :
       i < k /\ ran[q] = posted[k] => \E p \in 1 .. q - 1 : ran[p] = posted[i]

\* The entries of a timer, still to be entered, in the map or in the copy.
Entries(t) ==
  {<<"list", i>> : i \in {k \in DOMAIN list : list[k].op = "arm" /\ list[k].e.t = t}}
  \cup {<<"batch", i>> : i \in {k \in DOMAIN batch : batch[k].op = "arm" /\ batch[k].e.t = t}}
  \cup {<<"map", i>> : i \in {k \in DOMAIN map : map[k].t = t}}
  \cup {<<"expired", i>> : i \in {k \in DOMAIN expired : expired[k].t = t}}

\* An armed timer has exactly one entry, through every swap of the list and of
\* the map; one that is over has none.
ArmedIsScheduled ==
  \A t \in Timers :
    /\ timer[t] = "armed" => \E x \in Entries(t) : Entries(t) = {x}
    /\ timer[t] \in {"new", "done"} => Entries(t) = {}

\* When the destructor is through, every job that was handed over has run.
NothingLeftBehind ==
  loop = "gone" => list = <<>> /\ batch = <<>> /\ \A i \in DOMAIN posted : \E k \in DOMAIN ran : ran[k] = posted[i]

\* A timer runs when it is due and before every timer that is due later.
EarliestFirst ==
  [][RunTimer => LET x == Head(expired)
                 IN /\ x.at <= clock
                    /\ \A i \in DOMAIN expired : x.at <= expired[i].at
                    /\ \A i \in DOMAIN map : x.at <= map[i].at]_vars

\* No wake-up is lost: what is handed over is run, even if the loop was about to
\* sleep without a time-out, and a sync call comes back.
EveryoneServed ==
  /\ \A j \in Jobs :
       (\E i \in DOMAIN list : list[i].j = j) ~> (\E i \in DOMAIN ran : ran[i] = j)
  /\ \A c \in Callers : (caller[c] # Idle) ~> (caller[c] = Idle)

\* An armed timer runs to its end, unless it is cancelled or the poller is
\* destroyed: the loop never sleeps past a deadline for good.
TimersFire ==
  \A t \in Timers :
    (timer[t] = "armed" /\ leaving = "no") ~> (timer[t] # "armed" \/ leaving # "no")
=============================================================================
