------------------------- MODULE EventPollerProofs -------------------------
(***************************************************************************)
(* Proofs about EventPoller, for any number of callers, jobs and timers:   *)
(* type correctness, that a job runs once and in the order of async, that  *)
(* the destructor leaves no job behind, that an armed timer is scheduled   *)
(* once and that the timer due earliest runs first.                        *)
(* For the jobs the argument is about the line in which a job moves: the   *)
(* list, the batch, ran.  At any time it is in one place of the line       *)
(* (Once), everything appended by async is in the line (Present), with     *)
(* what was appended before it ahead of it (Ordered).  For the timers it   *)
(* is about where the entry of an armed one is (Books) and about the order *)
(* of the map and of the batch that is being flushed (InOrder).            *)
(***************************************************************************)
EXTENDS EventPoller, SequenceFacts

USE DEF Never

\* The three kinds of task and their fields.
LEMMA TaskKinds ==
  /\ \A j \in Jobs : Job(j) \in Task /\ Job(j).op = "job" /\ Job(j).j = j
  /\ \A e \in Entry : Arm(e) \in Task /\ Arm(e).op = "arm" /\ Arm(e).e = e
  /\ Exit \in Task /\ Exit.op = "exit"
  /\ \A x \in Task : /\ x.op = "job" => x.j \in Jobs /\ x = Job(x.j)
                     /\ x.op = "arm" => x.e \in Entry
                     /\ x.op \in {"job", "arm", "exit"}
  BY DEF Task, Job, Arm, Exit

\* Entering a timer gives a map again.
LEMMA EmplaceType ==
  ASSUME NEW m \in Seq(Entry), NEW e \in Entry
  PROVE  Emplace(m, e) \in Seq(Entry)
<1> DEFINE S == {i \in DOMAIN m : m[i].at <= e.at}
           n == Cardinality(S)
<1>1. Len(m) \in Nat /\ DOMAIN m = 1 .. Len(m)
  OBVIOUS
<1>2. IsFiniteSet(1 .. Len(m)) /\ Cardinality(1 .. Len(m)) = Len(m)
  BY <1>1, FS_Interval
<1>3. S \in SUBSET (1 .. Len(m))
  BY <1>1
<1>4. n \in Nat /\ n <= Len(m)
  BY <1>2, <1>3, FS_Subset, FS_CardinalityType
<1> DEFINE f == [i \in 1 .. Len(m) + 1 |-> IF i <= n THEN m[i] ELSE IF i = n + 1 THEN e ELSE m[i - 1]]
<1>5. Emplace(m, e) = f
  BY DEF Emplace
<1> HIDE DEF n
<1>6. \A i \in 1 .. Len(m) + 1 : f[i] \in Entry
  <2> TAKE i \in 1 .. Len(m) + 1
  <2>1. CASE i <= n
    BY <2>1, <1>1, <1>4
  <2>2. CASE i = n + 1
    BY <2>2, <1>4
  <2>3. CASE i > n + 1
    <3>1. i - 1 \in 1 .. Len(m)
      BY <2>3, <1>1, <1>4
    <3> QED
      BY <2>3, <3>1, <1>4
  <2> QED
    BY <2>1, <2>2, <2>3, <1>4
<1>7. f \in Seq(Entry)
  <2>1. f \in [1 .. Len(m) + 1 -> Entry]
    BY <1>6
  <2> QED
    BY <2>1, <1>1
<1> QED
  BY <1>5, <1>7
-----------------------------------------------------------------------------
(* Types.                                                                  *)

\* The sequences of a state.
LEMMA QueuesType ==
  ASSUME TypeOK
  PROVE  /\ list \in Seq(Task) /\ batch \in Seq(Task)
         /\ map \in Seq(Entry) /\ expired \in Seq(Entry)
         /\ posted \in Seq(Jobs) /\ ran \in Seq(Jobs)
  BY DEF TypeOK

LEMMA InitType == Init => TypeOK
<1> SUFFICES ASSUME Init PROVE TypeOK
  OBVIOUS
<1>1. /\ list \in Seq(Task) /\ batch \in Seq(Task)
      /\ map \in Seq(Entry) /\ expired \in Seq(Entry)
      /\ posted \in Seq(Jobs) /\ ran \in Seq(Jobs)
  BY DEF Init
<1>2. timer \in [Timers -> Lives] /\ loop \in Phases /\ unread \in BOOLEAN
  BY DEF Init, Lives, Phases
<1>3. flushed \in 0 .. Horizon /\ clock \in 0 .. Horizon /\ until \in -1 .. Horizon
  BY PollerAssumption DEF Init, PollerAssumption
<1>4. caller \in [Callers -> [pc : {"idle", "wake", "wake sync", "blocked"}, j : Jobs \cup {None}]]
  BY DEF Init, Idle
<1>5. leaving \in {"no", "asked", "seen", "last"}
  BY DEF Init
<1> QED
  BY <1>1, <1>2, <1>3, <1>4, <1>5 DEF TypeOK

LEMMA FrontType ==
  ASSUME TypeOK, NEW x \in Task
  PROVE  <<x>> \o list \in Seq(Task)
  BY InFront DEF TypeOK

LEMMA DeadlineType ==
  ASSUME PollerAssumption, NEW now \in 0 .. Horizon, NEW d \in Delays, Within(now, d)
  PROVE  now + d \in 0 .. Horizon
  BY DEF PollerAssumption, Within

LEMMA SleepType ==
  ASSUME PollerAssumption, TypeOK, NEW m \in Seq(Entry), NEW now \in 0 .. Horizon,
         m = <<>> \/ Head(m).at >= now, SleepFor(m, now)
  PROVE  until' \in -1 .. Horizon
<1>1. CASE m = <<>> \/ Head(m).at = now
  BY <1>1 DEF SleepFor, PollerAssumption
<1>2. CASE ~(m = <<>> \/ Head(m).at = now)
  <2>1. Head(m) \in Entry
    BY <1>2
  <2>2. Head(m).at \in 0 .. Horizon
    BY <2>1 DEF Entry
  <2>3. clock \in 0 .. Horizon /\ Horizon \in Nat
    BY DEF TypeOK, PollerAssumption
  <2> QED
    BY <1>2, <2>2, <2>3 DEF SleepFor, Within
<1> QED
  BY <1>1, <1>2

\* What a callback may arm and hand over.
LEMMA ArmableType ==
  ASSUME PollerAssumption, TypeOK, NEW e \in Armable
  PROVE  WithMap(e) \in Seq(Entry) /\ WithLife(e) \in [Timers -> Lives]
<1>1. CASE e = None
  BY <1>1 DEF WithMap, WithLife, TypeOK
<1>2. CASE e # None
  <2>1. e \in Entry /\ e.t \in Timers
    BY <1>2 DEF Armable, Entry
  <2>2. WithMap(e) \in Seq(Entry)
    BY <1>2, <2>1, EmplaceType DEF WithMap, TypeOK
  <2>3. WithLife(e) \in [Timers -> Lives]
    BY <1>2, <2>1 DEF WithLife, TypeOK, Lives
  <2> QED
    BY <2>2, <2>3
<1> QED
  BY <1>1, <1>2

LEMMA PostsType ==
  ASSUME TypeOK, NEW j \in Postable, Posts(j)
  PROVE  list' \in Seq(Task) /\ posted' \in Seq(Jobs) /\ unread' \in BOOLEAN
<1>1. CASE j = None
  BY <1>1 DEF Posts, TypeOK
<1>2. CASE j # None
  <2>1. j \in Jobs /\ Job(j) \in Task
    BY <1>2, TaskKinds DEF Postable
  <2>2. list' = Append(list, Job(j)) /\ posted' = Append(posted, j) /\ unread'
    BY <1>2 DEF Posts
  <2>3. list' \in Seq(Task)
    BY <2>1, <2>2, QueuesType, AppendProperties
  <2>4. posted' \in Seq(Jobs)
    BY <2>1, <2>2, QueuesType, AppendProperties
  <2>5. unread' \in BOOLEAN
    BY <1>2, Zenon DEF Posts
  <2> QED
    BY <2>3, <2>4, <2>5
<1> QED
  BY <1>1, <1>2

\* What a call leaves the calling thread in.
LEMMA PushedType ==
  ASSUME TypeOK, NEW c \in Callers, NEW pc \in {"wake", "wake sync"}, NEW j \in Jobs \cup {None},
         Pushed(c, pc, j)
  PROVE  caller' \in [Callers -> [pc : {"idle", "wake", "wake sync", "blocked"}, j : Jobs \cup {None}]]
  BY DEF Pushed, TypeOK

LEMMA CallsType ==
  ASSUME PollerAssumption, TypeOK, NEW c \in Callers, Calls(c) \/ Wake(c) \/ SyncReturns(c)
  PROVE  TypeOK'
<1>1. ASSUME NEW j \in Jobs, Async(c, j) PROVE TypeOK'
  <2>1. list' \in Seq(Task)
    BY <1>1, TaskKinds, QueuesType, AppendProperties DEF Async
  <2>2. posted' \in Seq(Jobs)
    BY <1>1, QueuesType, AppendProperties DEF Async
  <2>3. caller' \in [Callers -> [pc : {"idle", "wake", "wake sync", "blocked"}, j : Jobs \cup {None}]]
    BY <1>1, PushedType DEF Async
  <2>4. UNCHANGED <<unread, batch, delayVars, loop, until, clock, leaving, ran>>
    BY <1>1 DEF Async
  <2> QED
    BY <2>1, <2>2, <2>3, <2>4 DEF TypeOK, delayVars
<1>2. ASSUME NEW j \in Jobs, AsyncFirst(c, j) PROVE TypeOK'
  <2>1. list' \in Seq(Task)
    BY <1>2, TaskKinds, FrontType DEF AsyncFirst
  <2>2. caller' \in [Callers -> [pc : {"idle", "wake", "wake sync", "blocked"}, j : Jobs \cup {None}]]
    BY <1>2, PushedType DEF AsyncFirst
  <2>3. UNCHANGED <<unread, batch, delayVars, loop, until, clock, leaving, history>>
    BY <1>2 DEF AsyncFirst
  <2> QED
    BY <2>1, <2>2, <2>3 DEF TypeOK, delayVars, history
<1>3. ASSUME NEW t \in Timers, NEW d \in Delays, DoDelayTask(c, t, d) PROVE TypeOK'
  <2>1. [at |-> clock + d, t |-> t] \in Entry
    BY <1>3, DeadlineType DEF DoDelayTask, Entry, TypeOK
  <2>2. list' \in Seq(Task)
    BY <1>3, <2>1, TaskKinds, FrontType DEF DoDelayTask
  <2>3. caller' \in [Callers -> [pc : {"idle", "wake", "wake sync", "blocked"}, j : Jobs \cup {None}]]
    BY <1>3, PushedType DEF DoDelayTask
  <2>4. timer' \in [Timers -> Lives]
    BY <1>3 DEF DoDelayTask, TypeOK, Lives
  <2>5. UNCHANGED <<unread, batch, map, expired, flushed, loop, until, clock, leaving, history>>
    BY <1>3 DEF DoDelayTask
  <2> QED
    BY <2>2, <2>3, <2>4, <2>5 DEF TypeOK, history
<1>4. ASSUME Wake(c) PROVE TypeOK'
  <2>1. caller' \in [Callers -> [pc : {"idle", "wake", "wake sync", "blocked"}, j : Jobs \cup {None}]]
    BY <1>4 DEF Wake, TypeOK, Idle
  <2>2. unread' \in BOOLEAN
    BY <1>4, Zenon DEF Wake
  <2>3. UNCHANGED <<list, batch, delayVars, loop, until, clock, leaving, history>>
    BY <1>4 DEF Wake
  <2> QED
    BY <2>1, <2>2, <2>3 DEF TypeOK, delayVars, history
<1>5. ASSUME SyncReturns(c) PROVE TypeOK'
  <2>1. caller' \in [Callers -> [pc : {"idle", "wake", "wake sync", "blocked"}, j : Jobs \cup {None}]]
    BY <1>5 DEF SyncReturns, TypeOK, Idle
  <2>2. UNCHANGED <<taskVars, delayVars, loop, until, clock, leaving, history>>
    BY <1>5 DEF SyncReturns
  <2> QED
    BY <2>1, <2>2 DEF TypeOK, taskVars, delayVars, history
<1> QED
  BY <1>1, <1>2, <1>3, <1>4, <1>5 DEF Calls

LEMMA OthersType ==
  ASSUME PollerAssumption, TypeOK, Tick \/ Shutdown \/ \E t \in Timers : Cancel(t)
  PROVE  TypeOK'
<1>1. CASE Tick
  <2>1. clock' \in 0 .. Horizon
    <3>1. clock \in 0 .. Horizon /\ clock < Horizon /\ clock' = clock + 1
      BY <1>1 DEF Tick, TypeOK
    <3>2. Horizon \in Nat
      BY DEF PollerAssumption
    <3> QED
      BY <3>1, <3>2
  <2> QED
    BY <1>1, <2>1 DEF Tick, TypeOK, taskVars, delayVars, history
<1>2. CASE Shutdown
  <2>1. list' \in Seq(Task)
    BY <1>2, TaskKinds, FrontType DEF Shutdown
  <2>2. unread' \in BOOLEAN /\ leaving' \in {"no", "asked", "seen", "last"}
    BY <1>2, Zenon DEF Shutdown
  <2>3. UNCHANGED <<batch, delayVars, loop, until, clock, caller, history>>
    BY <1>2 DEF Shutdown
  <2> QED
    BY <2>1, <2>2, <2>3 DEF TypeOK, delayVars, history
<1>3. ASSUME NEW t \in Timers, Cancel(t) PROVE TypeOK'
  <2>1. timer' \in [Timers -> Lives]
    BY <1>3 DEF Cancel, TypeOK, Lives
  <2> QED
    BY <1>3, <2>1 DEF Cancel, TypeOK, taskVars, history
<1> QED
  BY <1>1, <1>2, <1>3

\* A deadline in a map is not behind a time at which the map is not expired.
LEMMA NotExpired ==
  ASSUME PollerAssumption, NEW m \in Seq(Entry), NEW now \in 0 .. Horizon, ~Expired(m, now)
  PROVE  m = <<>> \/ Head(m).at >= now
<1>1. m # <<>> => Head(m).at \in 0 .. Horizon
  <2> SUFFICES ASSUME m # <<>> PROVE Head(m).at \in 0 .. Horizon
    OBVIOUS
  <2>1. Head(m) \in Entry
    BY HeadTailProperties
  <2> QED
    BY <2>1 DEF Entry
<1> QED
  BY <1>1 DEF Expired, PollerAssumption

LEMMA LoopType ==
  ASSUME PollerAssumption, TypeOK, LoopStep
  PROVE  TypeOK'
<1>1. CASE MinDelay
  <2>1. until' \in -1 .. Horizon
    BY <1>1, NotExpired, SleepType DEF MinDelay, TypeOK
  <2> QED
    BY <1>1, <2>1 DEF MinDelay, TypeOK, Phases, taskVars, delayVars, history
<1>2. CASE BeginFlush
  <2>1. map' \in Seq(Entry) /\ expired' \in Seq(Entry)
    BY <1>2, QueuesType, EmptySeq DEF BeginFlush
  <2>2. flushed' \in 0 .. Horizon /\ loop' \in Phases
    BY <1>2 DEF BeginFlush, TypeOK, Phases
  <2>3. UNCHANGED <<taskVars, timer, until, clock, caller, leaving, history>>
    BY <1>2 DEF BeginFlush
  <2> QED
    BY <2>1, <2>2, <2>3 DEF TypeOK, taskVars, history
<1>3. CASE RunTimer
  <2> DEFINE t == Head(expired).t
  <2>1. expired # <<>> /\ Head(expired) \in Entry /\ t \in Timers
    <3>1. expired # <<>>
      BY <1>3 DEF RunTimer, Due, Expired
    <3>2. Head(expired) \in Entry
      BY <3>1, QueuesType, HeadTailProperties
    <3> QED
      BY <3>1, <3>2 DEF Entry
  <2>2. expired' \in Seq(Entry)
    BY <1>3, <2>1, QueuesType, HeadTailProperties DEF RunTimer
  <2>3. PICK e \in Armable :
          \/ map' = WithMap(e) /\ timer' = [WithLife(e) EXCEPT ![t] = "done"]
          \/ \E d \in Delays :
               /\ Within(flushed, d)
               /\ map' = Emplace(WithMap(e), [at |-> flushed + d, t |-> t])
               /\ timer' = WithLife(e)
    BY <1>3 DEF RunTimer
  <2>4. WithMap(e) \in Seq(Entry) /\ WithLife(e) \in [Timers -> Lives]
    BY ArmableType
  <2>5. map' \in Seq(Entry) /\ timer' \in [Timers -> Lives]
    <3>1. CASE map' = WithMap(e) /\ timer' = [WithLife(e) EXCEPT ![t] = "done"]
      BY <3>1, <2>4 DEF Lives
    <3>2. ASSUME NEW d \in Delays, Within(flushed, d),
                 map' = Emplace(WithMap(e), [at |-> flushed + d, t |-> t]), timer' = WithLife(e)
          PROVE  map' \in Seq(Entry) /\ timer' \in [Timers -> Lives]
      <4>1. [at |-> flushed + d, t |-> t] \in Entry
        BY <3>2, <2>1, DeadlineType DEF Entry, TypeOK
      <4> QED
        BY <3>2, <4>1, <2>4, EmplaceType
    <3> QED
      BY <2>3, <3>1, <3>2
  <2>6. list' \in Seq(Task) /\ posted' \in Seq(Jobs) /\ unread' \in BOOLEAN
    BY <1>3, PostsType DEF RunTimer
  <2>7. UNCHANGED <<batch, flushed, loop, until, clock, caller, leaving, ran>>
    BY <1>3 DEF RunTimer
  <2> QED
    BY <2>2, <2>5, <2>6, <2>7 DEF TypeOK
<1>4. CASE SkipTimer
  <2>1. expired' \in Seq(Entry)
    BY <1>4, QueuesType, HeadTailProperties DEF SkipTimer, Due, Expired
  <2> QED
    BY <1>4, <2>1 DEF SkipTimer, TypeOK, taskVars, history
<1>5. CASE MergeTimer
  <2>1. Head(map) \in Entry /\ map' \in Seq(Entry)
    BY <1>5, QueuesType, HeadTailProperties DEF MergeTimer
  <2>2. expired' \in Seq(Entry)
    BY <1>5, <2>1, EmplaceType DEF MergeTimer, TypeOK
  <2> QED
    BY <1>5, <2>1, <2>2 DEF MergeTimer, TypeOK, taskVars, history
<1>6. CASE EndFlush
  <2>1. ~Expired(expired, flushed)
    BY <1>6 DEF EndFlush, Due
  <2>2. until' \in -1 .. Horizon
    BY <1>6, <2>1, NotExpired, SleepType DEF EndFlush, TypeOK
  <2>3. flushed' \in 0 .. Horizon
    BY <1>6 DEF EndFlush, PollerAssumption
  <2> QED
    BY <1>6, <2>2, <2>3 DEF EndFlush, TypeOK, Phases, taskVars, history
<1>7. CASE TimeOut \/ PipeReadable
  <2>1. until' \in -1 .. Horizon
    BY <1>7 DEF TimeOut, PipeReadable, PollerAssumption
  <2> QED
    BY <1>7, <2>1 DEF TimeOut, PipeReadable, TypeOK, Phases, taskVars, delayVars, history
<1>8. CASE Drain \/ Take
  <2>1. unread' \in BOOLEAN
    BY <1>8, Zenon DEF Drain, Take, TypeOK
  <2>2. list' \in Seq(Task) /\ batch' \in Seq(Task)
    BY <1>8, QueuesType, EmptySeq DEF Drain, Take
  <2>3. loop' \in Phases
    BY <1>8 DEF Drain, Take, Phases
  <2>4. UNCHANGED <<delayVars, until, clock, caller, leaving, history>>
    BY <1>8 DEF Drain, Take
  <2> QED
    BY <2>1, <2>2, <2>3, <2>4 DEF TypeOK, delayVars, history
<1>9. CASE RunJob
  <2>1. batch # <<>> /\ Head(batch) \in Task /\ Head(batch).j \in Jobs
    BY <1>9, TaskKinds, QueuesType, HeadTailProperties DEF RunJob, Running
  <2>2. batch' \in Seq(Task) /\ ran' \in Seq(Jobs)
    BY <1>9, <2>1, QueuesType, HeadTailProperties, AppendProperties DEF RunJob
  <2>3. map' \in Seq(Entry) /\ timer' \in [Timers -> Lives]
    BY <1>9, ArmableType DEF RunJob
  <2>4. list' \in Seq(Task) /\ posted' \in Seq(Jobs) /\ unread' \in BOOLEAN
    BY <1>9, PostsType DEF RunJob
  <2>5. UNCHANGED <<expired, flushed, loop, until, clock, caller, leaving>>
    BY <1>9 DEF RunJob
  <2> QED
    BY <2>2, <2>3, <2>4, <2>5 DEF TypeOK
<1>10. CASE RunArm
  <2>1. batch # <<>> /\ Head(batch) \in Task /\ Head(batch).e \in Entry
    BY <1>10, TaskKinds, QueuesType, HeadTailProperties DEF RunArm, Running
  <2>2. batch' \in Seq(Task) /\ map' \in Seq(Entry)
    BY <1>10, <2>1, EmplaceType, QueuesType, HeadTailProperties DEF RunArm
  <2> QED
    BY <1>10, <2>2 DEF RunArm, TypeOK, history
<1>11. CASE RunExit
  <2>1. batch' \in Seq(Task)
    BY <1>11, QueuesType, HeadTailProperties DEF RunExit, Running
  <2> QED
    BY <1>11, <2>1 DEF RunExit, TypeOK, delayVars, history
<1>12. CASE EndBatch
  BY <1>12 DEF EndBatch, TypeOK, Phases, taskVars, delayVars, history
<1> QED
  BY <1>1, <1>2, <1>3, <1>4, <1>5, <1>6, <1>7, <1>8, <1>9, <1>10, <1>11, <1>12 DEF LoopStep

\* Every variable keeps its type, however many threads call: the loop of runLoop
\* is never in an undefined phase and no entry lies behind the horizon.
THEOREM TypeCorrect == Spec => []TypeOK
<1>1. Init => TypeOK
  BY InitType
<1>2. TypeOK /\ [Next]_vars => TypeOK'
  <2> SUFFICES ASSUME TypeOK, [Next]_vars PROVE TypeOK'
    OBVIOUS
  <2>1. CASE LoopStep
    BY <2>1, LoopType, PollerAssumption
  <2>2. CASE Tick \/ Shutdown \/ \E t \in Timers : Cancel(t)
    BY <2>2, OthersType, PollerAssumption
  <2>3. ASSUME NEW c \in Callers, Calls(c) \/ Wake(c) \/ SyncReturns(c) PROVE TypeOK'
    BY <2>3, CallsType, PollerAssumption
  <2>4. CASE UNCHANGED vars
    BY <2>4 DEF vars, taskVars, delayVars, history, TypeOK
  <2> QED
    BY <2>1, <2>2, <2>3, <2>4 DEF Next
<1> QED
  BY <1>1, <1>2, PTL DEF Spec
-----------------------------------------------------------------------------
(* The line: list l, batch b, jobs run r, jobs posted o.                   *)

Holds(s, j) == \E i \in DOMAIN s : s[i].j = j

Ran(r, j) == \E p \in DOMAIN r : r[p] = j

\* j is in s before position q.
Ahead(s, j, q) == \E i \in DOMAIN s : i < q /\ s[i].j = j

\* No job twice in a queue.
Single(s) == \A i, k \in DOMAIN s : s[i].j \in Jobs /\ s[i].j = s[k].j => i = k

Once(l, b, r) ==
  /\ \A p, q \in DOMAIN r : r[p] = r[q] => p = q
  /\ Single(l) /\ Single(b)
  /\ \A j \in Jobs : /\ Ran(r, j) => ~Holds(b, j) /\ ~Holds(l, j)
                     /\ Holds(b, j) => ~Holds(l, j)

Present(l, b, r, o) ==
  \A i \in DOMAIN o : Ran(r, o[i]) \/ Holds(b, o[i]) \/ Holds(l, o[i])

RanInOrder(r, o) ==
  \A i, k \in DOMAIN o, q \in DOMAIN r :
    i < k /\ r[q] = o[k] => \E p \in 1 .. q - 1 : r[p] = o[i]

Ordered(l, b, r, o) ==
  /\ RanInOrder(r, o)
  /\ \A i, k \in DOMAIN o, q \in DOMAIN b :
       i < k /\ b[q].j = o[k] => Ran(r, o[i]) \/ Ahead(b, o[i], q)
  /\ \A i, k \in DOMAIN o, q \in DOMAIN l :
       i < k /\ l[q].j = o[k] => Ran(r, o[i]) \/ Holds(b, o[i]) \/ Ahead(l, o[i], q)

Line(l, b, r, o) == Once(l, b, r) /\ Present(l, b, r, o) /\ Ordered(l, b, r, o)

\* async: a job that is nowhere in the line joins it at the end.
LEMMA AppendKeeps ==
  ASSUME NEW l \in Seq(Task), NEW b \in Seq(Task), NEW r \in Seq(Jobs), NEW o \in Seq(Jobs),
         Line(l, b, r, o), NEW j \in Jobs, ~Ran(r, j), ~Holds(b, j), ~Holds(l, j)
  PROVE  Line(Append(l, Job(j)), b, r, Append(o, j))
<1> DEFINE m == Append(l, Job(j))
           n == Append(o, j)
<1>1. /\ m \in Seq(Task) /\ Len(m) = Len(l) + 1 /\ Len(l) \in Nat
      /\ \A i \in 1 .. Len(l) : m[i] = l[i]
      /\ m[Len(l) + 1].j = j
  BY TaskKinds, AppendProperties, LenProperties
<1>2. /\ n \in Seq(Jobs) /\ Len(n) = Len(o) + 1 /\ Len(o) \in Nat
      /\ \A i \in 1 .. Len(o) : n[i] = o[i]
      /\ n[Len(o) + 1] = j
  BY AppendProperties, LenProperties
<1>3. DOMAIN m = 1 .. Len(l) + 1 /\ DOMAIN n = 1 .. Len(o) + 1
      /\ DOMAIN l = 1 .. Len(l) /\ DOMAIN o = 1 .. Len(o)
  BY <1>1, <1>2
<1> HIDE DEF m, n
<1>0. /\ \A i \in DOMAIN l : i \in DOMAIN m /\ i < Len(l) + 1 /\ m[i] = l[i]
      /\ Len(l) + 1 \in DOMAIN m
      /\ \A i \in DOMAIN m : i \in DOMAIN l \/ i = Len(l) + 1
      /\ \A i \in DOMAIN o : i \in DOMAIN n /\ n[i] = o[i]
      /\ \A i \in DOMAIN n : i \in DOMAIN o \/ i = Len(o) + 1
      /\ \A i, k \in DOMAIN n : i < k => i \in DOMAIN o
  BY <1>1, <1>2, <1>3
<1>4. \A x : Holds(m, x) <=> Holds(l, x) \/ x = j
  <2> TAKE x
  <2>1. Holds(m, x) => Holds(l, x) \/ x = j
    BY <1>0, <1>1 DEF Holds
  <2>2. Holds(l, x) => Holds(m, x)
    BY <1>0 DEF Holds
  <2>3. x = j => Holds(m, x)
    BY <1>0, <1>1 DEF Holds
  <2> QED
    BY <2>1, <2>2, <2>3
<1>5. Once(m, b, r)
  <2>1. Single(m)
    <3>1. Single(l) /\ \A i \in DOMAIN l : l[i].j # j
      BY DEF Line, Once, Holds
    <3>2. \A i \in DOMAIN m : (i \in DOMAIN l /\ m[i] = l[i]) \/ (i = Len(l) + 1 /\ m[i].j = j)
      BY <1>0, <1>1
    <3> QED
      BY <3>1, <3>2 DEF Single
  <2> QED
    BY <2>1, <1>4 DEF Line, Once
<1>6. Present(m, b, r, n)
  <2> SUFFICES ASSUME NEW i \in DOMAIN n PROVE Ran(r, n[i]) \/ Holds(b, n[i]) \/ Holds(m, n[i])
    BY DEF Present
  <2>1. CASE i \in DOMAIN o
    BY <2>1, <1>0, <1>4 DEF Line, Present
  <2>2. CASE i = Len(o) + 1
    BY <2>2, <1>2, <1>4
  <2> QED
    BY <2>1, <2>2, <1>0
<1>7. \A i \in DOMAIN o : o[i] # j /\ o[i] \in Jobs
  BY <1>3 DEF Line, Present, Holds, Ran
<1>8. RanInOrder(r, n)
  <2> SUFFICES ASSUME NEW i \in DOMAIN n, NEW k \in DOMAIN n, NEW q \in DOMAIN r, i < k, r[q] = n[k]
               PROVE  \E p \in 1 .. q - 1 : r[p] = n[i]
    BY DEF RanInOrder
  <2>1. i \in DOMAIN o /\ n[i] = o[i]
    BY <1>0
  <2>2. k \in DOMAIN o /\ n[k] = o[k]
    BY <1>0, <1>2 DEF Ran
  <2>3. RanInOrder(r, o)
    BY DEF Line, Ordered
  <2> QED
    BY <2>1, <2>2, <2>3 DEF RanInOrder
<1>9. \A i, k \in DOMAIN n, q \in DOMAIN b :
        i < k /\ b[q].j = n[k] => Ran(r, n[i]) \/ Ahead(b, n[i], q)
  <2> SUFFICES ASSUME NEW i \in DOMAIN n, NEW k \in DOMAIN n, NEW q \in DOMAIN b, i < k, b[q].j = n[k]
               PROVE  Ran(r, n[i]) \/ Ahead(b, n[i], q)
    OBVIOUS
  <2>1. i \in DOMAIN o /\ n[i] = o[i]
    BY <1>0
  <2>2. k \in DOMAIN o /\ n[k] = o[k]
    BY <1>0, <1>2 DEF Holds
  <2> QED
    BY <2>1, <2>2 DEF Line, Ordered
<1>10. ASSUME NEW i \in DOMAIN n, NEW k \in DOMAIN n, NEW q \in DOMAIN m, i < k, m[q].j = n[k]
       PROVE  Ran(r, n[i]) \/ Holds(b, n[i]) \/ Ahead(m, n[i], q)
  <2>1. i \in DOMAIN o /\ n[i] = o[i]
    BY <1>10, <1>2, <1>3
  <2>2. CASE k = Len(o) + 1
    <3>1. q = Len(l) + 1
      <4>1. m[q].j = j
        BY <2>2, <1>10, <1>2
      <4>2. q \notin DOMAIN l
        BY <4>1, <1>0 DEF Holds
      <4> QED
        BY <4>2, <1>0
    <3>2. Ran(r, o[i]) \/ Holds(b, o[i]) \/ Holds(l, o[i])
      BY <2>1 DEF Line, Present
    <3>3. Holds(l, o[i]) => Ahead(m, o[i], q)
      BY <3>1, <1>0 DEF Holds, Ahead
    <3> QED
      BY <2>1, <3>2, <3>3
  <2>3. CASE k # Len(o) + 1
    <3>1. k \in DOMAIN o /\ n[k] = o[k] /\ o[k] # j
      BY <2>3, <1>2, <1>3, <1>7
    <3>2. q \in DOMAIN l /\ l[q].j = o[k]
      BY <3>1, <1>10, <1>1, <1>3
    <3>3. Ran(r, o[i]) \/ Holds(b, o[i]) \/ Ahead(l, o[i], q)
      BY <2>1, <3>1, <3>2, <1>10 DEF Line, Ordered
    <3>4. Ahead(l, o[i], q) => Ahead(m, o[i], q)
      BY <1>1, <1>3 DEF Ahead
    <3> QED
      BY <2>1, <3>3, <3>4
  <2> QED
    BY <2>2, <2>3
<1>11. Ordered(m, b, r, n)
  BY <1>8, <1>9, <1>10 DEF Ordered
<1> QED
  BY <1>5, <1>6, <1>11 DEF Line, m, n

\* async_first, doDelayTask and shutdown: what was not posted is put in front.
LEMMA FrontKeeps ==
  ASSUME NEW l \in Seq(Task), NEW b \in Seq(Task), NEW r \in Seq(Jobs), NEW o \in Seq(Jobs),
         Line(l, b, r, o), NEW x \in Task,
         x.j \in Jobs => ~Ran(r, x.j) /\ ~Holds(b, x.j) /\ ~Holds(l, x.j)
  PROVE  Line(<<x>> \o l, b, r, o)
<1> DEFINE m == <<x>> \o l
<1>1. /\ m \in Seq(Task) /\ Len(m) = Len(l) + 1 /\ Len(l) \in Nat
      /\ m[1] = x
      /\ \A i \in 1 .. Len(l) : m[i + 1] = l[i]
      /\ \A i \in 2 .. Len(l) + 1 : m[i] = l[i - 1]
  BY InFront, LenProperties
<1>2. DOMAIN m = 1 .. Len(l) + 1 /\ DOMAIN l = 1 .. Len(l) /\ DOMAIN o = 1 .. Len(o)
  BY <1>1
<1> HIDE DEF m
<1>3. \A y : Holds(m, y) <=> Holds(l, y) \/ y = x.j
  <2> TAKE y
  <2>1. Holds(m, y) => Holds(l, y) \/ y = x.j
    <3> SUFFICES ASSUME NEW i \in DOMAIN m, m[i].j = y, y # x.j PROVE Holds(l, y)
      BY DEF Holds
    <3>1. i - 1 \in DOMAIN l /\ l[i - 1].j = y
      BY <1>1, <1>2
    <3> QED
      BY <3>1 DEF Holds
  <2>2. Holds(l, y) => Holds(m, y)
    <3> SUFFICES ASSUME NEW i \in DOMAIN l, l[i].j = y PROVE Holds(m, y)
      BY DEF Holds
    <3>1. i + 1 \in DOMAIN m /\ m[i + 1].j = y
      BY <1>1, <1>2
    <3> QED
      BY <3>1 DEF Holds
  <2>3. y = x.j => Holds(m, y)
    BY <1>1, <1>2 DEF Holds
  <2> QED
    BY <2>1, <2>2, <2>3
<1>4. Once(m, b, r)
  <2>1. Single(m)
    <3> SUFFICES ASSUME NEW i \in DOMAIN m, NEW k \in DOMAIN m, m[i].j \in Jobs, m[i].j = m[k].j
                 PROVE  i = k
      BY DEF Single
    <3>1. CASE i = 1 \/ k = 1
      <4>1. \A y \in DOMAIN m : y = 1 \/ (y - 1 \in DOMAIN l /\ m[y] = l[y - 1])
        BY <1>1, <1>2
      <4>2. \A y \in DOMAIN m : m[y].j = x.j /\ x.j \in Jobs => y = 1
        BY <4>1 DEF Holds
      <4> QED
        BY <3>1, <4>2, <1>1
    <3>2. CASE i # 1 /\ k # 1
      <4>1. i - 1 \in DOMAIN l /\ k - 1 \in DOMAIN l /\ m[i] = l[i - 1] /\ m[k] = l[k - 1]
        BY <3>2, <1>1, <1>2
      <4>2. i - 1 = k - 1
        BY <4>1 DEF Line, Once, Single
      <4> QED
        BY <4>2, <1>2
    <3> QED
      BY <3>1, <3>2
  <2> QED
    BY <2>1, <1>3 DEF Line, Once
<1>5. Present(m, b, r, o)
  BY <1>3 DEF Line, Present
<1>6. \A i \in DOMAIN o : o[i] # x.j /\ o[i] \in Jobs
  BY <1>2 DEF Line, Present
<1>7. ASSUME NEW i \in DOMAIN o, NEW k \in DOMAIN o, NEW q \in DOMAIN m, i < k, m[q].j = o[k]
      PROVE  Ran(r, o[i]) \/ Holds(b, o[i]) \/ Ahead(m, o[i], q)
  <2>1. q - 1 \in DOMAIN l /\ l[q - 1].j = o[k]
    BY <1>7, <1>1, <1>2, <1>6
  <2>2. Ran(r, o[i]) \/ Holds(b, o[i]) \/ Ahead(l, o[i], q - 1)
    BY <1>7, <2>1 DEF Line, Ordered
  <2>3. ASSUME Ahead(l, o[i], q - 1) PROVE Ahead(m, o[i], q)
    <3>1. PICK p \in DOMAIN l : p < q - 1 /\ l[p].j = o[i]
      BY <2>3 DEF Ahead
    <3>2. p + 1 \in DOMAIN m /\ p + 1 < q /\ m[p + 1].j = o[i]
      BY <3>1, <1>1, <1>2
    <3> QED
      BY <3>2 DEF Ahead
  <2> QED
    BY <2>2, <2>3
<1>8. Ordered(m, b, r, o)
  BY <1>7 DEF Line, Ordered
<1> QED
  BY <1>4, <1>5, <1>8 DEF Line, m

\* The rest of a queue, by position.
LEMMA RestOf ==
  ASSUME NEW b \in Seq(Task), b # <<>>
  PROVE  /\ Tail(b) \in Seq(Task) /\ Head(b) \in Task /\ Head(b) = b[1] /\ 1 \in DOMAIN b
         /\ \A i \in DOMAIN Tail(b) : i + 1 \in DOMAIN b /\ Tail(b)[i] = b[i + 1]
         /\ \A i \in DOMAIN b : i = 1 \/ (i - 1 \in DOMAIN Tail(b) /\ b[i] = Tail(b)[i - 1])
         /\ \A i \in DOMAIN Tail(b) : i \in Nat
         /\ \A i \in DOMAIN b : i \in Nat /\ i >= 1
<1>1. /\ Tail(b) \in Seq(Task) /\ Head(b) \in Task /\ Len(Tail(b)) = Len(b) - 1
      /\ \A i \in 1 .. Len(Tail(b)) : Tail(b)[i] = b[i + 1]
  BY HeadTailProperties
<1>2. Len(b) \in Nat \ {0} /\ DOMAIN b = 1 .. Len(b) /\ DOMAIN Tail(b) = 1 .. Len(b) - 1
  BY <1>1, EmptySeq, LenProperties
<1>3. Head(b) = b[1]
  OBVIOUS
<1>4. \A i \in DOMAIN b : i = 1 \/ (i - 1 \in DOMAIN Tail(b) /\ b[i] = Tail(b)[i - 1])
  BY <1>1, <1>2
<1> QED
  BY <1>1, <1>2, <1>3, <1>4

\* What the head of a batch leaves in its rest.
LEMMA RestHolds ==
  ASSUME NEW b \in Seq(Task), b # <<>>
  PROVE  /\ \A j : Holds(b, j) <=> Holds(Tail(b), j) \/ j = Head(b).j
         /\ Single(b) => Single(Tail(b))
         /\ Single(b) /\ Head(b).j \in Jobs => ~Holds(Tail(b), Head(b).j)
<1>1. ASSUME NEW j PROVE Holds(b, j) <=> Holds(Tail(b), j) \/ j = Head(b).j
  <2>1. Holds(b, j) => Holds(Tail(b), j) \/ j = Head(b).j
    BY RestOf DEF Holds
  <2>2. Holds(Tail(b), j) => Holds(b, j)
    BY RestOf DEF Holds
  <2>3. j = Head(b).j => Holds(b, j)
    BY RestOf DEF Holds
  <2> QED
    BY <2>1, <2>2, <2>3
<1>2. ASSUME Single(b) PROVE Single(Tail(b))
  <2> SUFFICES ASSUME NEW i \in DOMAIN Tail(b), NEW k \in DOMAIN Tail(b),
                      Tail(b)[i].j \in Jobs, Tail(b)[i].j = Tail(b)[k].j
               PROVE  i = k
    BY DEF Single
  <2>1. i + 1 \in DOMAIN b /\ k + 1 \in DOMAIN b /\ b[i + 1].j \in Jobs /\ b[i + 1].j = b[k + 1].j
    BY RestOf
  <2>2. i + 1 = k + 1
    BY <1>2, <2>1 DEF Single
  <2> QED
    BY <2>2, RestOf
<1>3. ASSUME Single(b), Head(b).j \in Jobs, Holds(Tail(b), Head(b).j) PROVE FALSE
  <2>1. PICK i \in DOMAIN Tail(b) : Tail(b)[i].j = Head(b).j
    BY <1>3 DEF Holds
  <2>2. i + 1 \in DOMAIN b /\ 1 \in DOMAIN b /\ b[i + 1].j = b[1].j /\ b[1].j \in Jobs
    BY <1>3, <2>1, RestOf
  <2>3. i + 1 = 1
    BY <1>3, <2>2 DEF Single
  <2> QED
    BY <2>1, <2>3, RestOf
<1> QED
  BY <1>1, <1>2, <1>3

\* A timer entered into the map or the task that ends the loop leaves the line.
LEMMA DropKeeps ==
  ASSUME NEW l \in Seq(Task), NEW b \in Seq(Task), NEW r \in Seq(Jobs), NEW o \in Seq(Jobs),
         Line(l, b, r, o), b # <<>>, Head(b).j \notin Jobs
  PROVE  Line(l, Tail(b), r, o)
<1> DEFINE c == Tail(b)
<1>1. \A j \in Jobs : Holds(c, j) <=> Holds(b, j)
  BY RestHolds
<1>2. \A i \in DOMAIN o : o[i] \in Jobs
  OBVIOUS
<1>3. Once(l, c, r)
  BY <1>1, RestHolds DEF Line, Once
<1>4. Present(l, c, r, o)
  BY <1>1, <1>2 DEF Line, Present
<1>5. ASSUME NEW i \in DOMAIN o, NEW k \in DOMAIN o, NEW q \in DOMAIN c, i < k, c[q].j = o[k]
      PROVE  Ran(r, o[i]) \/ Ahead(c, o[i], q)
  <2>1. q + 1 \in DOMAIN b /\ b[q + 1].j = o[k]
    BY <1>5, RestOf
  <2>2. Ran(r, o[i]) \/ Ahead(b, o[i], q + 1)
    BY <1>5, <2>1 DEF Line, Ordered
  <2>3. ASSUME Ahead(b, o[i], q + 1) PROVE Ahead(c, o[i], q)
    <3>1. PICK p \in DOMAIN b : p < q + 1 /\ b[p].j = o[i]
      BY <2>3 DEF Ahead
    <3>2. p # 1
      BY <3>1, <1>2, RestOf
    <3>3. p - 1 \in DOMAIN c /\ c[p - 1].j = o[i]
      BY <3>1, <3>2, RestOf
    <3>4. p - 1 < q
      BY <3>1, RestOf
    <3> QED
      BY <3>3, <3>4 DEF Ahead
  <2> QED
    BY <2>2, <2>3
<1>6. Ordered(l, c, r, o)
  BY <1>1, <1>2, <1>5 DEF Line, Ordered
<1> QED
  BY <1>3, <1>4, <1>6 DEF Line

\* The job at the head of the batch runs.
LEMMA RunKeeps ==
  ASSUME NEW l \in Seq(Task), NEW b \in Seq(Task), NEW r \in Seq(Jobs), NEW o \in Seq(Jobs),
         Line(l, b, r, o), b # <<>>, Head(b).j \in Jobs
  PROVE  Line(l, Tail(b), Append(r, Head(b).j), o)
<1> DEFINE c == Tail(b)
           h == Head(b).j
           s == Append(r, h)
<1>1. /\ s \in Seq(Jobs) /\ Len(r) \in Nat
      /\ \A p \in DOMAIN r : p \in DOMAIN s /\ s[p] = r[p] /\ p < Len(r) + 1 /\ p \in Nat
      /\ Len(r) + 1 \in DOMAIN s /\ s[Len(r) + 1] = h
      /\ \A p \in DOMAIN s : p \in DOMAIN r \/ p = Len(r) + 1
      /\ \A p \in DOMAIN r : p \in 1 .. Len(r)
  BY AppendProperties, LenProperties
<1>2. ~Ran(r, h) /\ ~Holds(l, h) /\ ~Holds(c, h) /\ Holds(b, h)
  BY RestHolds DEF Line, Once
<1>3. \A j : Holds(b, j) <=> Holds(c, j) \/ j = h
  BY RestHolds
<1>4. \A i \in DOMAIN o : o[i] \in Jobs
  OBVIOUS
<1> HIDE DEF s
<1>5. \A j : Ran(s, j) <=> Ran(r, j) \/ j = h
  BY <1>1 DEF Ran
<1>6. Once(l, c, s)
  <2>1. \A p, q \in DOMAIN s : s[p] = s[q] => p = q
    BY <1>1, <1>2 DEF Line, Once, Ran
  <2>2. Single(l) /\ Single(c)
    BY RestHolds DEF Line, Once
  <2>3. ASSUME NEW j \in Jobs
        PROVE  /\ Ran(s, j) => ~Holds(c, j) /\ ~Holds(l, j)
               /\ Holds(c, j) => ~Holds(l, j)
    BY <1>2, <1>3, <1>5 DEF Line, Once
  <2> QED
    BY <2>1, <2>2, <2>3 DEF Once
<1>7. Present(l, c, s, o)
  BY <1>3, <1>5 DEF Line, Present
<1>8. ASSUME NEW i \in DOMAIN o, NEW k \in DOMAIN o, NEW q \in DOMAIN c, i < k, c[q].j = o[k]
      PROVE  Ran(s, o[i]) \/ Ahead(c, o[i], q)
  <2>1. q + 1 \in DOMAIN b /\ b[q + 1].j = o[k]
    BY <1>8, RestOf
  <2>2. Ran(r, o[i]) \/ Ahead(b, o[i], q + 1)
    BY <1>8, <2>1 DEF Line, Ordered
  <2>3. ASSUME Ahead(b, o[i], q + 1), o[i] # h PROVE Ahead(c, o[i], q)
    <3>1. PICK p \in DOMAIN b : p < q + 1 /\ b[p].j = o[i]
      BY <2>3 DEF Ahead
    <3>2. p # 1
      BY <3>1, <2>3, RestOf
    <3>3. p - 1 \in DOMAIN c /\ c[p - 1].j = o[i]
      BY <3>1, <3>2, RestOf
    <3>4. p - 1 < q
      BY <3>1, RestOf
    <3> QED
      BY <3>3, <3>4 DEF Ahead
  <2> QED
    BY <2>2, <2>3, <1>5
<1>9. RanInOrder(s, o)
  <2> SUFFICES ASSUME NEW i \in DOMAIN o, NEW k \in DOMAIN o, NEW q \in DOMAIN s, i < k, s[q] = o[k]
               PROVE  \E p \in 1 .. q - 1 : s[p] = o[i]
    BY DEF RanInOrder
  <2>1. CASE q \in DOMAIN r
    <3>1. PICK p \in 1 .. q - 1 : r[p] = o[i]
      BY <2>1, <1>1 DEF Line, Ordered, RanInOrder
    <3>2. p \in DOMAIN r
      BY <2>1, <1>1
    <3> QED
      BY <3>1, <3>2, <1>1
  <2>2. CASE q = Len(r) + 1
    <3>1. o[k] = h
      BY <2>2, <1>1
    <3>2. Ran(r, o[i])
      <4>1. Ran(r, o[i]) \/ Ahead(b, o[i], 1)
        BY <3>1, RestOf DEF Line, Ordered
      <4>2. ~Ahead(b, o[i], 1)
        BY RestOf DEF Ahead
      <4> QED
        BY <4>1, <4>2
    <3>3. PICK p \in DOMAIN r : r[p] = o[i]
      BY <3>2 DEF Ran
    <3>4. p \in 1 .. q - 1
      BY <3>3, <2>2, <1>1
    <3> QED
      BY <3>3, <3>4, <1>1
  <2> QED
    BY <2>1, <2>2, <1>1
<1>10. Ordered(l, c, s, o)
  <2>1. ASSUME NEW i \in DOMAIN o, NEW k \in DOMAIN o, NEW q \in DOMAIN l, i < k, l[q].j = o[k]
        PROVE  Ran(s, o[i]) \/ Holds(c, o[i]) \/ Ahead(l, o[i], q)
    <3>1. Ran(r, o[i]) \/ Holds(b, o[i]) \/ Ahead(l, o[i], q)
      BY <2>1 DEF Line, Ordered
    <3> QED
      BY <3>1, <1>3, <1>5
  <2> QED
    BY <2>1, <1>8, <1>9 DEF Ordered
<1> QED
  BY <1>6, <1>7, <1>10 DEF Line, s

\* The loop takes the list.
LEMMA TakeKeeps ==
  ASSUME NEW l \in Seq(Task), NEW r \in Seq(Jobs), NEW o \in Seq(Jobs), Line(l, <<>>, r, o)
  PROVE  Line(<<>>, l, r, o)
<1>1. \A j : ~Holds(<<>>, j)
  BY DEF Holds
<1>2. Once(<<>>, l, r)
  BY <1>1 DEF Line, Once, Single
<1>3. Present(<<>>, l, r, o)
  BY <1>1 DEF Line, Present
<1>4. Ordered(<<>>, l, r, o)
  BY <1>1 DEF Line, Ordered
<1> QED
  BY <1>2, <1>3, <1>4 DEF Line
-----------------------------------------------------------------------------
(* The state.                                                              *)

Ends(s) == \E i \in DOMAIN s : s[i].op = "exit"

\* What has been closed by the time the loop is told to end: nobody posts after
\* shutdown, and the batch that ends the loop is the last that holds anything.
Closing ==
  /\ Ends(list) => leaving # "no"
  /\ Ends(batch) => list = <<>> /\ leaving # "no"
  /\ leaving \in {"seen", "last"} => list = <<>>
  /\ batch # <<>> => loop = "batch"
  /\ loop = "gone" => leaving = "last"

LineInv == TypeOK /\ Line(list, batch, ran, posted) /\ Closing

LEMMA NoJob == Exit.j \notin Jobs /\ Exit.op = "exit" /\ \A e : Arm(e).j \notin Jobs /\ Arm(e).op = "arm"
  BY PollerAssumption DEF PollerAssumption, Exit, Arm

LEMMA FreshIsNew ==
  ASSUME NEW j \in Jobs, Fresh(j)
  PROVE  ~Ran(ran, j) /\ ~Holds(batch, j) /\ ~Holds(list, j)
  BY DEF Fresh, Ran, Holds

\* What joins a queue in which nothing ends the loop.
LEMMA EndsOf ==
  ASSUME NEW s \in Seq(Task), NEW x \in Task
  PROVE  /\ Ends(Append(s, x)) => Ends(s) \/ x.op = "exit"
         /\ Ends(<<x>> \o s) => Ends(s) \/ x.op = "exit"
<1>1. Ends(Append(s, x)) => Ends(s) \/ x.op = "exit"
  <2>1. \A i \in DOMAIN Append(s, x) : (i \in DOMAIN s /\ Append(s, x)[i] = s[i]) \/ Append(s, x)[i] = x
    BY AppendProperties, LenProperties
  <2> QED
    BY <2>1 DEF Ends
<1>2. Ends(<<x>> \o s) => Ends(s) \/ x.op = "exit"
  <2>1. \A i \in DOMAIN (<<x>> \o s) : (i - 1 \in DOMAIN s /\ (<<x>> \o s)[i] = s[i - 1]) \/ (<<x>> \o s)[i] = x
    BY InFront, LenProperties
  <2> QED
    BY <2>1 DEF Ends
<1> QED
  BY <1>1, <1>2

LEMMA InitLine == Init => LineInv
<1> SUFFICES ASSUME Init PROVE LineInv
  OBVIOUS
<1>1. TypeOK
  BY InitType
<1>2. Line(list, batch, ran, posted)
  BY DEF Init, Line, Once, Single, Present, Ordered, RanInOrder, Holds, Ran
<1>3. Closing
  BY DEF Init, Closing, Ends
<1> QED
  BY <1>1, <1>2, <1>3 DEF LineInv

LEMMA CallsLine ==
  ASSUME LineInv, NEW c \in Callers, Calls(c)
  PROVE  Line(list, batch, ran, posted)' /\ Closing'
<1>1. ASSUME NEW j \in Jobs, Async(c, j) PROVE Line(list, batch, ran, posted)' /\ Closing'
  <2>1. list' = Append(list, Job(j)) /\ posted' = Append(posted, j) /\ UNCHANGED <<batch, ran, loop, leaving>>
        /\ Fresh(j) /\ leaving = "no"
    BY <1>1 DEF Async
  <2>2. Line(list, batch, ran, posted)'
    BY <2>1, FreshIsNew, AppendKeeps, QueuesType DEF LineInv
  <2>3. Ends(list') => Ends(list)
    BY <2>1, EndsOf, TaskKinds, QueuesType DEF LineInv
  <2> QED
    BY <2>1, <2>2, <2>3 DEF LineInv, Closing, Ends
<1>2. ASSUME NEW j \in Jobs, AsyncFirst(c, j) PROVE Line(list, batch, ran, posted)' /\ Closing'
  <2>1. list' = <<Job(j)>> \o list /\ UNCHANGED <<batch, ran, posted, loop, leaving>>
        /\ Fresh(j) /\ leaving = "no"
    BY <1>2 DEF AsyncFirst, history
  <2>2. Line(list, batch, ran, posted)'
    BY <2>1, FreshIsNew, FrontKeeps, TaskKinds, QueuesType DEF LineInv
  <2>3. Ends(list') => Ends(list)
    BY <2>1, EndsOf, TaskKinds, QueuesType DEF LineInv
  <2> QED
    BY <2>1, <2>2, <2>3 DEF LineInv, Closing, Ends
<1>3. ASSUME NEW t \in Timers, NEW d \in Delays, DoDelayTask(c, t, d)
      PROVE  Line(list, batch, ran, posted)' /\ Closing'
  <2> DEFINE e == [at |-> clock + d, t |-> t]
  <2>1. list' = <<Arm(e)>> \o list /\ UNCHANGED <<batch, ran, posted, loop, leaving>>
        /\ leaving = "no" /\ Within(clock, d)
    BY <1>3 DEF DoDelayTask, history
  <2>2. e \in Entry
    BY <2>1, DeadlineType, PollerAssumption DEF LineInv, Entry, TypeOK
  <2>3. Line(list, batch, ran, posted)'
    BY <2>1, <2>2, NoJob, FrontKeeps, TaskKinds, QueuesType DEF LineInv
  <2>4. Ends(list') => Ends(list)
    <3>1. Arm(e) \in Task /\ Arm(e).op = "arm" /\ list \in Seq(Task)
      BY <2>2, TaskKinds, QueuesType DEF LineInv
    <3> HIDE DEF e
    <3>2. Ends(<<Arm(e)>> \o list) => Ends(list)
      BY <3>1, EndsOf
    <3> QED
      BY <2>1, <3>2 DEF Ends
  <2> QED
    BY <2>1, <2>3, <2>4 DEF LineInv, Closing, Ends
<1> QED
  BY <1>1, <1>2, <1>3 DEF Calls

LEMMA ShutdownLine ==
  ASSUME LineInv, Shutdown
  PROVE  Line(list, batch, ran, posted)' /\ Closing'
<1>1. list' = <<Exit>> \o list /\ UNCHANGED <<batch, ran, posted, loop>> /\ leaving = "no" /\ leaving' = "asked"
  BY DEF Shutdown, history
<1>2. Line(list, batch, ran, posted)'
  BY <1>1, NoJob, FrontKeeps, TaskKinds, QueuesType DEF LineInv
<1> QED
  BY <1>1, <1>2 DEF LineInv, Closing, Ends

\* A callback on the loop thread hands over a job.
LEMMA PostsLine ==
  ASSUME TypeOK, NEW b \in Seq(Task), NEW r \in Seq(Jobs), Line(list, b, r, posted),
         NEW j \in Postable, Posts(j),
         j # None => ~Ran(r, j) /\ ~Holds(b, j)
  PROVE  /\ Line(list', b, r, posted')
         /\ Ends(list') => Ends(list)
         /\ list' # list => leaving = "no"
<1>1. CASE j = None
  BY <1>1 DEF Posts
<1>2. CASE j # None
  <2>1. j \in Jobs /\ leaving = "no" /\ Fresh(j)
    BY <1>2 DEF Postable
  <2>2. list' = Append(list, Job(j)) /\ posted' = Append(posted, j)
    BY <1>2 DEF Posts
  <2>3. Line(list', b, r, posted')
    BY <1>2, <2>1, <2>2, FreshIsNew, AppendKeeps, QueuesType
  <2>4. Ends(list') => Ends(list)
    BY <2>1, <2>2, EndsOf, TaskKinds, QueuesType
  <2> QED
    BY <2>1, <2>3, <2>4
<1> QED
  BY <1>1, <1>2

LEMMA TimerLine ==
  ASSUME LineInv, RunTimer
  PROVE  Line(list, batch, ran, posted)' /\ Closing'
<1>1. UNCHANGED <<batch, ran, loop, leaving>> /\ loop = "flush"
  BY DEF RunTimer, Due
<1>2. PICK j \in Postable : Posts(j)
  BY DEF RunTimer
<1>3. j # None => ~Ran(ran, j) /\ ~Holds(batch, j)
  BY FreshIsNew DEF Postable
<1>4. /\ Line(list', batch, ran, posted')
      /\ Ends(list') => Ends(list)
      /\ list' # list => leaving = "no"
  BY <1>2, <1>3, PostsLine, QueuesType DEF LineInv
<1> QED
  BY <1>1, <1>4 DEF LineInv, Closing, Ends

LEMMA JobLine ==
  ASSUME LineInv, RunJob
  PROVE  Line(list, batch, ran, posted)' /\ Closing'
<1> DEFINE h == Head(batch).j
<1>1. /\ loop = "batch" /\ batch # <<>> /\ Head(batch).op = "job"
      /\ batch' = Tail(batch) /\ ran' = Append(ran, h)
      /\ UNCHANGED <<loop, leaving>>
  BY DEF RunJob, Running
<1>2. h \in Jobs
  BY <1>1, RestOf, TaskKinds, QueuesType DEF LineInv
<1>3. batch' \in Seq(Task) /\ ran' \in Seq(Jobs)
  BY <1>1, <1>2, RestOf, AppendProperties, QueuesType DEF LineInv
<1>4. Line(list, batch', ran', posted)
  BY <1>1, <1>2, RunKeeps, QueuesType DEF LineInv
<1>5. PICK j \in Postable : Posts(j)
  BY DEF RunJob
<1>6. j # None => ~Ran(ran', j) /\ ~Holds(batch', j)
  <2> SUFFICES ASSUME j # None PROVE ~Ran(ran', j) /\ ~Holds(batch', j)
    OBVIOUS
  <2>1. ~Ran(ran, j) /\ ~Holds(batch, j)
    BY FreshIsNew DEF Postable
  <2>2. j # h /\ ~Holds(batch', j)
    BY <1>1, <2>1, RestHolds, QueuesType DEF LineInv
  <2>3. \A p \in DOMAIN ran' : (p \in DOMAIN ran /\ ran'[p] = ran[p]) \/ ran'[p] = h
    BY <1>1, <1>2, AppendProperties, LenProperties, QueuesType DEF LineInv
  <2> QED
    BY <2>1, <2>2, <2>3 DEF Ran
<1>7. /\ Line(list', batch', ran', posted')
      /\ Ends(list') => Ends(list)
      /\ list' # list => leaving = "no"
  BY <1>3, <1>4, <1>5, <1>6, PostsLine DEF LineInv
<1>8. Ends(batch') => Ends(batch)
  BY <1>1, RestOf, QueuesType DEF LineInv, Ends
<1> QED
  BY <1>1, <1>7, <1>8 DEF LineInv, Closing, Ends

LEMMA DropLine ==
  ASSUME LineInv, RunArm \/ RunExit
  PROVE  Line(list, batch, ran, posted)' /\ Closing'
<1>1. /\ loop = "batch" /\ batch # <<>> /\ batch' = Tail(batch)
      /\ UNCHANGED <<list, ran, posted, loop>>
      /\ leaving' = leaving \/ (leaving' = "seen" /\ Head(batch).op = "exit")
      /\ Head(batch).op \in {"arm", "exit"}
  BY DEF RunArm, RunExit, Running, history
<1>2. Head(batch) \in Task
  BY <1>1, RestOf, QueuesType DEF LineInv
<1>3. Head(batch).j \notin Jobs
  BY <1>1, <1>2, PollerAssumption DEF PollerAssumption, Task, Job, Arm, Exit
<1>4. Line(list, batch, ran, posted)'
  BY <1>1, <1>3, DropKeeps, QueuesType DEF LineInv
<1>5. Ends(batch') => Ends(batch)
  BY <1>1, RestOf, QueuesType DEF LineInv, Ends
<1>6. Head(batch).op = "exit" => Ends(batch)
  BY <1>1, RestOf, QueuesType DEF LineInv, Ends
<1> QED
  BY <1>1, <1>4, <1>5, <1>6 DEF LineInv, Closing, Ends

LEMMA TakeLine ==
  ASSUME LineInv, Take
  PROVE  Line(list, batch, ran, posted)' /\ Closing'
<1>1. /\ batch' = list /\ list' = <<>> /\ UNCHANGED <<ran, posted, leaving>>
      /\ loop = "take" /\ loop' = "batch"
  BY DEF Take, history
<1>2. batch = <<>>
  BY <1>1 DEF LineInv, Closing
<1>3. Line(list, batch, ran, posted)'
  BY <1>1, <1>2, TakeKeeps, QueuesType DEF LineInv
<1> QED
  BY <1>1, <1>3 DEF LineInv, Closing, Ends

\* The steps that leave the line alone.
LEMMA RestLine ==
  ASSUME LineInv, UNCHANGED <<list, batch, ran, posted>>,
         \/ UNCHANGED <<loop, leaving>>
         \/ UNCHANGED leaving /\ loop # "batch" /\ loop' # "gone"
         \/ EndBatch
  PROVE  Line(list, batch, ran, posted)' /\ Closing'
<1>1. Line(list, batch, ran, posted)'
  BY DEF LineInv
<1>2. Closing'
  BY DEF LineInv, Closing, EndBatch, Ends
<1> QED
  BY <1>1, <1>2

LEMMA LoopLine ==
  ASSUME LineInv, LoopStep
  PROVE  Line(list, batch, ran, posted)' /\ Closing'
<1>1. CASE RunTimer
  BY <1>1, TimerLine
<1>2. CASE RunJob
  BY <1>2, JobLine
<1>3. CASE RunArm \/ RunExit
  BY <1>3, DropLine
<1>4. CASE Take
  BY <1>4, TakeLine
<1>5. CASE EndBatch
  BY <1>5, RestLine DEF EndBatch, taskVars, history
<1>6. CASE MinDelay \/ BeginFlush \/ EndFlush \/ TimeOut \/ PipeReadable \/ Drain
  <2>1. UNCHANGED <<list, batch, ran, posted, leaving>> /\ loop # "batch" /\ loop' # "gone"
    BY <1>6 DEF MinDelay, BeginFlush, EndFlush, TimeOut, PipeReadable, Drain, taskVars, history
  <2> QED
    BY <2>1, RestLine
<1>7. CASE SkipTimer \/ MergeTimer
  BY <1>7, RestLine DEF SkipTimer, MergeTimer, taskVars, history
<1> QED
  BY <1>1, <1>2, <1>3, <1>4, <1>5, <1>6, <1>7 DEF LoopStep

LEMMA LineIsInvariant == Spec => []LineInv
<1>1. Init => LineInv
  BY InitLine
<1>2. LineInv /\ [Next]_vars => LineInv'
  <2> SUFFICES ASSUME LineInv, [Next]_vars PROVE LineInv'
    OBVIOUS
  <2>1. TypeOK'
    <3>1. CASE LoopStep
      BY <3>1, LoopType, PollerAssumption DEF LineInv
    <3>2. CASE Tick \/ Shutdown \/ \E t \in Timers : Cancel(t)
      BY <3>2, OthersType, PollerAssumption DEF LineInv
    <3>3. ASSUME NEW c \in Callers, Calls(c) \/ Wake(c) \/ SyncReturns(c) PROVE TypeOK'
      BY <3>3, CallsType, PollerAssumption DEF LineInv
    <3>4. CASE UNCHANGED vars
      BY <3>4 DEF LineInv, vars, taskVars, delayVars, history, TypeOK
    <3> QED
      BY <3>1, <3>2, <3>3, <3>4 DEF Next
  <2>2. Line(list, batch, ran, posted)' /\ Closing'
    <3>1. CASE LoopStep
      BY <3>1, LoopLine
    <3>2. CASE Shutdown
      BY <3>2, ShutdownLine
    <3>3. CASE Tick \/ \E t \in Timers : Cancel(t)
      BY <3>3, RestLine DEF Tick, Cancel, taskVars, history
    <3>4. ASSUME NEW c \in Callers, Calls(c) PROVE Line(list, batch, ran, posted)' /\ Closing'
      BY <3>4, CallsLine
    <3>5. ASSUME NEW c \in Callers, Wake(c) \/ SyncReturns(c)
          PROVE  Line(list, batch, ran, posted)' /\ Closing'
      BY <3>5, RestLine DEF Wake, SyncReturns, taskVars, history
    <3>6. CASE UNCHANGED vars
      BY <3>6, RestLine DEF vars, taskVars, history
    <3> QED
      BY <3>1, <3>2, <3>3, <3>4, <3>5, <3>6 DEF Next
  <2> QED
    BY <2>1, <2>2 DEF LineInv
<1> QED
  BY <1>1, <1>2, PTL DEF Spec

\* However many threads call async, async_first and doDelayTask at once, onPipeEvent
\* runs no job twice, and those of async in the order in which they were appended.
THEOREM OnceInOrder == Spec => []RunInOrder
<1>1. LineInv => RunInOrder
  BY DEF LineInv, Line, Once, Ordered, RanInOrder, RunInOrder
<1> QED
  BY <1>1, LineIsInvariant, PTL

\* When the destructor of the poller is through, both queues are empty and every
\* job that async or sync appended has run.
THEOREM NoneLeft == Spec => []NothingLeftBehind
<1>1. LineInv => NothingLeftBehind
  <2> SUFFICES ASSUME LineInv, loop = "gone"
               PROVE  list = <<>> /\ batch = <<>> /\ \A i \in DOMAIN posted : \E k \in DOMAIN ran : ran[k] = posted[i]
    BY DEF NothingLeftBehind
  <2>1. list = <<>> /\ batch = <<>>
    BY DEF LineInv, Closing
  <2>2. \A i \in DOMAIN posted : Ran(ran, posted[i])
    BY <2>1 DEF LineInv, Line, Present, Holds
  <2> QED
    BY <2>1, <2>2 DEF Ran
<1> QED
  BY <1>1, LineIsInvariant, PTL
-----------------------------------------------------------------------------
(* Timers.  An armed timer has one entry, which moves from the list to the *)
(* batch, the map and the copy; the map and the copy are sorted by         *)
(* deadline, and what is entered during a flush is due after it.           *)

\* The entries of the timer t among the tasks, and in the map.
ArmOf(t)   == {x \in Task : x.op = "arm" /\ x.e.t = t}
EntryOf(t) == {e \in Entry : e.t = t}

Sorted(m) == \A i, k \in DOMAIN m : i <= k => m[i].at <= m[k].at

\* In the list l, the batch b, the map m and the copy x: none, or one in one of them.
NoneIn(l, b, m, x, t) ==
  No(l, ArmOf(t)) /\ No(b, ArmOf(t)) /\ No(m, EntryOf(t)) /\ No(x, EntryOf(t))

OneIn(l, b, m, x, t) ==
  \/ One(l, ArmOf(t)) /\ No(b, ArmOf(t)) /\ No(m, EntryOf(t)) /\ No(x, EntryOf(t))
  \/ No(l, ArmOf(t)) /\ One(b, ArmOf(t)) /\ No(m, EntryOf(t)) /\ No(x, EntryOf(t))
  \/ No(l, ArmOf(t)) /\ No(b, ArmOf(t)) /\ One(m, EntryOf(t)) /\ No(x, EntryOf(t))
  \/ No(l, ArmOf(t)) /\ No(b, ArmOf(t)) /\ No(m, EntryOf(t)) /\ One(x, EntryOf(t))

Books(l, b, m, x, f) ==
  \A t \in Timers : /\ f[t] = "armed" => OneIn(l, b, m, x, t)
                    /\ f[t] \in {"new", "done"} => NoneIn(l, b, m, x, t)

InOrder ==
  /\ Sorted(map) /\ Sorted(expired)
  /\ flushed <= clock
  /\ loop # "flush" => expired = <<>>
  /\ loop = "flush" => \A i \in DOMAIN map : flushed < map[i].at

TimerInv == Books(list, batch, map, expired, timer) /\ InOrder

\* How many entries are due no later, whatever the order.
LEMMA EmplaceShape ==
  ASSUME NEW m \in Seq(Entry), NEW e \in Entry
  PROVE  \E n \in 0 .. Len(m) :
           /\ n = Cardinality({i \in DOMAIN m : m[i].at <= e.at})
           /\ Len(Emplace(m, e)) = Len(m) + 1
           /\ \A i \in 1 .. Len(m) + 1 :
                Emplace(m, e)[i] = IF i <= n THEN m[i] ELSE IF i = n + 1 THEN e ELSE m[i - 1]
<1> DEFINE S == {i \in DOMAIN m : m[i].at <= e.at}
           n == Cardinality(S)
<1>1. Len(m) \in Nat /\ DOMAIN m = 1 .. Len(m)
  OBVIOUS
<1>2. IsFiniteSet(1 .. Len(m)) /\ Cardinality(1 .. Len(m)) = Len(m)
  BY <1>1, FS_Interval
<1>3. S \in SUBSET (1 .. Len(m))
  BY <1>1
<1>4. n \in 0 .. Len(m)
  BY <1>1, <1>2, <1>3, FS_Subset, FS_CardinalityType
<1>5. Emplace(m, e) = [i \in 1 .. Len(m) + 1 |-> IF i <= n THEN m[i] ELSE IF i = n + 1 THEN e ELSE m[i - 1]]
  BY DEF Emplace
<1>6. Emplace(m, e) \in Seq(Entry)
  BY EmplaceType
<1> HIDE DEF n
<1>7. Len(Emplace(m, e)) = Len(m) + 1
  BY <1>1, <1>5, <1>6, LenProperties
<1>8. \A i \in 1 .. Len(m) + 1 :
        Emplace(m, e)[i] = IF i <= n THEN m[i] ELSE IF i = n + 1 THEN e ELSE m[i - 1]
  BY <1>5
<1>9. n = Cardinality({i \in DOMAIN m : m[i].at <= e.at})
  BY DEF n
<1> QED
  BY <1>4, <1>7, <1>8, <1>9

LEMMA Emplaced ==
  ASSUME NEW m \in Seq(Entry), NEW e \in Entry, NEW A
  PROVE  /\ e \in A /\ No(m, A) => One(Emplace(m, e), A)
         /\ e \notin A /\ No(m, A) => No(Emplace(m, e), A)
         /\ e \notin A /\ One(m, A) => One(Emplace(m, e), A)
<1>1. PICK n \in 0 .. Len(m) :
        /\ Len(Emplace(m, e)) = Len(m) + 1
        /\ \A i \in 1 .. Len(m) + 1 :
             Emplace(m, e)[i] = IF i <= n THEN m[i] ELSE IF i = n + 1 THEN e ELSE m[i - 1]
  BY EmplaceShape
<1>2. Emplace(m, e) \in Seq(Entry)
  BY EmplaceType
<1> QED
  BY <1>1, <1>2, Inserted

\* Entering a timer keeps the map sorted.
LEMMA EmplaceSorts ==
  ASSUME PollerAssumption, NEW m \in Seq(Entry), NEW e \in Entry, Sorted(m)
  PROVE  /\ Sorted(Emplace(m, e))
         /\ \A x : (\A i \in DOMAIN m : x < m[i].at) /\ x < e.at => \A i \in DOMAIN Emplace(m, e) : x < Emplace(m, e)[i].at
<1> DEFINE S == {i \in DOMAIN m : m[i].at <= e.at}
<1>1. PICK n \in 0 .. Len(m) :
        /\ n = Cardinality(S)
        /\ Len(Emplace(m, e)) = Len(m) + 1
        /\ \A i \in 1 .. Len(m) + 1 :
             Emplace(m, e)[i] = IF i <= n THEN m[i] ELSE IF i = n + 1 THEN e ELSE m[i - 1]
  BY EmplaceShape
<1>2. Len(m) \in Nat /\ DOMAIN m = 1 .. Len(m) /\ DOMAIN Emplace(m, e) = 1 .. Len(m) + 1
  BY <1>1, EmplaceType, LenProperties
<1>3. e.at \in Nat /\ \A i \in DOMAIN m : m[i].at \in Nat
  <2>1. \A x \in Entry : x.at \in Nat
    BY DEF Entry, PollerAssumption
  <2> QED
    BY <2>1, ElementOfSeq, <1>2
<1>4. \A i \in S : \A k \in 1 .. i : k \in S
  BY <1>2, <1>3 DEF Sorted
<1>5. S = 1 .. n
  BY <1>1, <1>2, <1>4, StartOf
<1>6. \A i \in 1 .. Len(m) : (i <= n => m[i].at <= e.at) /\ (i > n => e.at <= m[i].at)
  BY <1>2, <1>5, <1>3
<1> HIDE DEF S
<1>7. \A i \in DOMAIN Emplace(m, e) :
        \/ i <= n /\ i \in DOMAIN m /\ Emplace(m, e)[i] = m[i]
        \/ i = n + 1 /\ Emplace(m, e)[i] = e
        \/ i > n + 1 /\ i - 1 \in DOMAIN m /\ i - 1 > n /\ Emplace(m, e)[i] = m[i - 1]
  BY <1>1, <1>2
<1>8. ASSUME NEW i \in DOMAIN Emplace(m, e), NEW k \in DOMAIN Emplace(m, e), i <= k
      PROVE  Emplace(m, e)[i].at <= Emplace(m, e)[k].at
  <2>1. CASE i <= n
    BY <2>1, <1>2, <1>3, <1>6, <1>7, <1>8 DEF Sorted
  <2>2. CASE i = n + 1
    BY <2>2, <1>2, <1>3, <1>6, <1>7, <1>8 DEF Sorted
  <2>3. CASE i > n + 1
    BY <2>3, <1>2, <1>3, <1>6, <1>7, <1>8 DEF Sorted
  <2> QED
    BY <2>1, <2>2, <2>3, <1>1, <1>2
<1> QED
  BY <1>7, <1>8 DEF Sorted

LEMMA TailSorts ==
  ASSUME NEW m \in Seq(Entry), m # <<>>, Sorted(m)
  PROVE  /\ Sorted(Tail(m))
         /\ \A i \in DOMAIN Tail(m) : i + 1 \in DOMAIN m /\ Tail(m)[i] = m[i + 1]
         /\ \A i \in DOMAIN m : Head(m).at <= m[i].at
<1>1. /\ Len(m) \in Nat /\ Len(m) >= 1 /\ DOMAIN m = 1 .. Len(m) /\ Head(m) = m[1]
      /\ DOMAIN Tail(m) = 1 .. Len(m) - 1
      /\ \A i \in 1 .. Len(m) - 1 : Tail(m)[i] = m[i + 1]
  BY HeadTailProperties, LenProperties, EmptySeq
<1> QED
  BY <1>1 DEF Sorted

-----------------------------------------------------------------------------
(* What the operations on the queues do to the books.                      *)

LEMMA ArmedWhere ==
  ASSUME NEW t \in Timers, NEW e \in Entry
  PROVE  /\ Arm(e) \in ArmOf(t) <=> e.t = t
         /\ e \in EntryOf(t) <=> e.t = t
         /\ \A k : k.op # "arm" => k \notin ArmOf(t)
  BY TaskKinds DEF ArmOf, EntryOf

\* A task that arms nothing joins the list at either end.
LEMMA OtherJoins ==
  ASSUME NEW l \in Seq(Task), NEW b, NEW m, NEW x, NEW f, Books(l, b, m, x, f),
         NEW k \in Task, k.op # "arm"
  PROVE  Books(Append(l, k), b, m, x, f) /\ Books(<<k>> \o l, b, m, x, f)
<1>1. \A t \in Timers : /\ No(l, ArmOf(t)) => No(Append(l, k), ArmOf(t)) /\ No(<<k>> \o l, ArmOf(t))
                        /\ One(l, ArmOf(t)) => One(Append(l, k), ArmOf(t)) /\ One(<<k>> \o l, ArmOf(t))
  <2> TAKE t \in Timers
  <2>1. k \notin ArmOf(t)
    BY DEF ArmOf
  <2> QED
    BY <2>1, Appended, Fronted
<1> QED
  BY <1>1 DEF Books, OneIn, NoneIn

\* doDelayTask off the loop's thread.
LEMMA TimerJoinsList ==
  ASSUME NEW l \in Seq(Task), NEW b, NEW m, NEW x, NEW f \in [Timers -> Lives], Books(l, b, m, x, f),
         NEW e \in Entry, f[e.t] = "new"
  PROVE  Books(<<Arm(e)>> \o l, b, m, x, [f EXCEPT ![e.t] = "armed"])
<1> SUFFICES ASSUME NEW t \in Timers
             PROVE  LET g == [f EXCEPT ![e.t] = "armed"]
                        r == <<Arm(e)>> \o l
                    IN /\ g[t] = "armed" => OneIn(r, b, m, x, t)
                       /\ g[t] \in {"new", "done"} => NoneIn(r, b, m, x, t)
  BY DEF Books
<1>1. e.t \in Timers /\ Arm(e) \in Task
  BY TaskKinds DEF Entry
<1>2. CASE e.t = t
  <2>1. NoneIn(l, b, m, x, t)
    BY <1>2 DEF Books
  <2>2. Arm(e) \in ArmOf(t)
    BY <1>2, ArmedWhere
  <2>3. One(<<Arm(e)>> \o l, ArmOf(t))
    BY <1>1, <2>1, <2>2, Fronted DEF NoneIn
  <2> QED
    BY <1>1, <1>2, <2>1, <2>3 DEF OneIn, NoneIn
<1>3. CASE e.t # t
  <2>1. Arm(e) \notin ArmOf(t)
    BY <1>3, ArmedWhere
  <2>2. /\ No(l, ArmOf(t)) => No(<<Arm(e)>> \o l, ArmOf(t))
        /\ One(l, ArmOf(t)) => One(<<Arm(e)>> \o l, ArmOf(t))
    BY <1>1, <2>1, Fronted
  <2> QED
    BY <1>1, <1>3, <2>2 DEF Books, OneIn, NoneIn
<1> QED
  BY <1>2, <1>3

\* And on it.
LEMMA TimerJoinsMap ==
  ASSUME NEW l, NEW b, NEW m \in Seq(Entry), NEW x, NEW f \in [Timers -> Lives], Books(l, b, m, x, f),
         NEW e \in Entry, f[e.t] = "new"
  PROVE  Books(l, b, Emplace(m, e), x, [f EXCEPT ![e.t] = "armed"])
<1> SUFFICES ASSUME NEW t \in Timers
             PROVE  LET g == [f EXCEPT ![e.t] = "armed"]
                        r == Emplace(m, e)
                    IN /\ g[t] = "armed" => OneIn(l, b, r, x, t)
                       /\ g[t] \in {"new", "done"} => NoneIn(l, b, r, x, t)
  BY DEF Books
<1>1. e.t \in Timers
  BY DEF Entry
<1>2. CASE e.t = t
  <2>1. NoneIn(l, b, m, x, t)
    BY <1>2 DEF Books
  <2>2. One(Emplace(m, e), EntryOf(t))
    BY <1>2, <2>1, ArmedWhere, Emplaced DEF NoneIn
  <2> QED
    BY <1>1, <1>2, <2>1, <2>2 DEF OneIn, NoneIn
<1>3. CASE e.t # t
  <2>1. e \notin EntryOf(t)
    BY <1>3, ArmedWhere
  <2>2. /\ No(m, EntryOf(t)) => No(Emplace(m, e), EntryOf(t))
        /\ One(m, EntryOf(t)) => One(Emplace(m, e), EntryOf(t))
    BY <2>1, Emplaced
  <2> QED
    BY <1>1, <1>3, <2>2 DEF Books, OneIn, NoneIn
<1> QED
  BY <1>2, <1>3

\* The batch loses a head that arms nothing.
LEMMA OtherRuns ==
  ASSUME NEW l, NEW b \in Seq(Task), b # <<>>, NEW m, NEW x, NEW f, Books(l, b, m, x, f),
         Head(b).op # "arm"
  PROVE  Books(l, Tail(b), m, x, f)
<1>1. \A t \in Timers : /\ No(b, ArmOf(t)) => No(Tail(b), ArmOf(t))
                        /\ One(b, ArmOf(t)) => One(Tail(b), ArmOf(t))
  <2> TAKE t \in Timers
  <2>1. Head(b) \notin ArmOf(t)
    BY DEF ArmOf
  <2> QED
    BY <2>1, Beheaded
<1> QED
  BY <1>1 DEF Books, OneIn, NoneIn

\* The batch's head enters its timer into the map.
LEMMA TimerMoves ==
  ASSUME NEW l, NEW b \in Seq(Task), b # <<>>, NEW m \in Seq(Entry), NEW x, NEW f, Books(l, b, m, x, f),
         Head(b).op = "arm"
  PROVE  Books(l, Tail(b), Emplace(m, Head(b).e), x, f)
<1>1. Head(b) \in Task /\ Head(b).e \in Entry
  BY HeadTailProperties, TaskKinds
<1> DEFINE e == Head(b).e
<1> SUFFICES ASSUME NEW t \in Timers
             PROVE  LET r == Emplace(m, e)
                    IN /\ f[t] = "armed" => OneIn(l, Tail(b), r, x, t)
                       /\ f[t] \in {"new", "done"} => NoneIn(l, Tail(b), r, x, t)
  BY DEF Books
<1>2. Head(b) \in ArmOf(t) <=> e \in EntryOf(t)
  BY <1>1 DEF ArmOf, EntryOf
<1> HIDE DEF e
<1>3. CASE e \in EntryOf(t)
  <2>1. b[1] \in ArmOf(t) /\ 1 \in DOMAIN b
    BY <1>2, <1>3, HeadTailProperties, EmptySeq, LenProperties
  <2>2. ~No(b, ArmOf(t))
    BY <2>1 DEF No
  <2>3. One(b, ArmOf(t)) => No(Tail(b), ArmOf(t))
    BY <1>2, <1>3, Beheaded
  <2>4. No(m, EntryOf(t)) => One(Emplace(m, e), EntryOf(t))
    BY <1>1, <1>3, Emplaced DEF e
  <2> QED
    BY <2>2, <2>3, <2>4 DEF Books, OneIn, NoneIn
<1>4. CASE e \notin EntryOf(t)
  <2>1. /\ No(b, ArmOf(t)) => No(Tail(b), ArmOf(t))
        /\ One(b, ArmOf(t)) => One(Tail(b), ArmOf(t))
    BY <1>2, <1>4, Beheaded
  <2>2. /\ No(m, EntryOf(t)) => No(Emplace(m, e), EntryOf(t))
        /\ One(m, EntryOf(t)) => One(Emplace(m, e), EntryOf(t))
    BY <1>1, <1>4, Emplaced DEF e
  <2> QED
    BY <2>1, <2>2 DEF Books, OneIn, NoneIn
<1> QED
  BY <1>3, <1>4

\* The copy's head is over, is entered again or was cancelled.
LEMMA TimerRuns ==
  ASSUME NEW l, NEW b, NEW m \in Seq(Entry), NEW x \in Seq(Entry), x # <<>>,
         NEW f \in [Timers -> Lives], Books(l, b, m, x, f), f[Head(x).t] = "armed"
  PROVE  /\ Books(l, b, m, Tail(x), [f EXCEPT ![Head(x).t] = "done"])
         /\ \A e \in Entry : e.t = Head(x).t => Books(l, b, Emplace(m, e), Tail(x), f)
<1>1. Head(x) \in Entry /\ Head(x).t \in Timers /\ x[1] = Head(x) /\ 1 \in DOMAIN x
  <2>1. Head(x) \in Entry /\ x[1] = Head(x) /\ 1 \in DOMAIN x
    BY HeadTailProperties, EmptySeq, LenProperties
  <2> QED
    BY <2>1 DEF Entry
<1> DEFINE h == Head(x).t
<1>2. ASSUME NEW t \in Timers, t = h
      PROVE  /\ No(l, ArmOf(t)) /\ No(b, ArmOf(t)) /\ No(m, EntryOf(t)) /\ No(Tail(x), EntryOf(t))
             /\ \A e \in Entry : e.t = h => One(Emplace(m, e), EntryOf(t))
  <2>1. Head(x) \in EntryOf(t)
    BY <1>1, <1>2 DEF EntryOf
  <2>2. ~No(x, EntryOf(t))
    BY <1>1, <2>1 DEF No
  <2>3. OneIn(l, b, m, x, t)
    BY <1>2 DEF Books
  <2>4. No(l, ArmOf(t)) /\ No(b, ArmOf(t)) /\ No(m, EntryOf(t)) /\ One(x, EntryOf(t))
    BY <2>2, <2>3 DEF OneIn
  <2>5. No(Tail(x), EntryOf(t))
    BY <2>1, <2>4, Beheaded
  <2>6. ASSUME NEW e \in Entry, e.t = h PROVE One(Emplace(m, e), EntryOf(t))
    BY <1>2, <2>4, <2>6, ArmedWhere, Emplaced
  <2> QED
    BY <2>4, <2>5, <2>6
<1>3. ASSUME NEW t \in Timers, t # h
      PROVE  /\ No(x, EntryOf(t)) => No(Tail(x), EntryOf(t))
             /\ One(x, EntryOf(t)) => One(Tail(x), EntryOf(t))
             /\ \A e \in Entry : e.t = h => /\ No(m, EntryOf(t)) => No(Emplace(m, e), EntryOf(t))
                                            /\ One(m, EntryOf(t)) => One(Emplace(m, e), EntryOf(t))
  <2>1. Head(x) \notin EntryOf(t)
    BY <1>3 DEF EntryOf
  <2>2. ASSUME NEW e \in Entry, e.t = h
        PROVE  /\ No(m, EntryOf(t)) => No(Emplace(m, e), EntryOf(t))
               /\ One(m, EntryOf(t)) => One(Emplace(m, e), EntryOf(t))
    BY <1>3, <2>2, ArmedWhere, Emplaced
  <2> QED
    BY <2>1, <2>2, Beheaded
<1>4. Books(l, b, m, Tail(x), [f EXCEPT ![h] = "done"])
  <2> SUFFICES ASSUME NEW t \in Timers
               PROVE  LET g == [f EXCEPT ![h] = "done"]
                      IN /\ g[t] = "armed" => OneIn(l, b, m, Tail(x), t)
                         /\ g[t] \in {"new", "done"} => NoneIn(l, b, m, Tail(x), t)
    BY DEF Books
  <2>1. CASE t = h
    BY <1>1, <1>2, <2>1 DEF NoneIn
  <2>2. CASE t # h
    BY <1>1, <1>3, <2>2 DEF Books, OneIn, NoneIn
  <2> QED
    BY <2>1, <2>2
<1>5. ASSUME NEW e \in Entry, e.t = h PROVE Books(l, b, Emplace(m, e), Tail(x), f)
  <2> SUFFICES ASSUME NEW t \in Timers
               PROVE  /\ f[t] = "armed" => OneIn(l, b, Emplace(m, e), Tail(x), t)
                      /\ f[t] \in {"new", "done"} => NoneIn(l, b, Emplace(m, e), Tail(x), t)
    BY DEF Books
  <2>1. CASE t = h
    BY <1>2, <1>5, <2>1 DEF OneIn
  <2>2. CASE t # h
    BY <1>3, <1>5, <2>2 DEF Books, OneIn, NoneIn
  <2> QED
    BY <2>1, <2>2
<1> QED
  BY <1>4, <1>5

LEMMA TimerSkipped ==
  ASSUME NEW l, NEW b, NEW m, NEW x \in Seq(Entry), x # <<>>,
         NEW f, Books(l, b, m, x, f), f[Head(x).t] = "cancelled"
  PROVE  Books(l, b, m, Tail(x), f)
<1>1. \A t \in Timers : f[t] # "cancelled" => /\ No(x, EntryOf(t)) => No(Tail(x), EntryOf(t))
                                              /\ One(x, EntryOf(t)) => One(Tail(x), EntryOf(t))
  <2> SUFFICES ASSUME NEW t \in Timers, f[t] # "cancelled"
               PROVE  /\ No(x, EntryOf(t)) => No(Tail(x), EntryOf(t))
                      /\ One(x, EntryOf(t)) => One(Tail(x), EntryOf(t))
    OBVIOUS
  <2>1. Head(x) \notin EntryOf(t)
    BY DEF EntryOf
  <2> QED
    BY <2>1, Beheaded
<1> QED
  BY <1>1 DEF Books, OneIn, NoneIn

\* mergeTimer: the head of the map goes back into the copy.
LEMMA TimerGoesBack ==
  ASSUME NEW l, NEW b, NEW m \in Seq(Entry), m # <<>>, NEW x \in Seq(Entry), NEW f, Books(l, b, m, x, f)
  PROVE  Books(l, b, Tail(m), Emplace(x, Head(m)), f)
<1>1. Head(m) \in Entry /\ m[1] = Head(m) /\ 1 \in DOMAIN m
  BY HeadTailProperties, EmptySeq, LenProperties
<1> SUFFICES ASSUME NEW t \in Timers
             PROVE  /\ f[t] = "armed" => OneIn(l, b, Tail(m), Emplace(x, Head(m)), t)
                    /\ f[t] \in {"new", "done"} => NoneIn(l, b, Tail(m), Emplace(x, Head(m)), t)
  BY DEF Books
<1>2. CASE Head(m) \in EntryOf(t)
  <2>1. ~No(m, EntryOf(t))
    BY <1>1, <1>2 DEF No
  <2>2. One(m, EntryOf(t)) => No(Tail(m), EntryOf(t))
    BY <1>2, Beheaded
  <2>3. No(x, EntryOf(t)) => One(Emplace(x, Head(m)), EntryOf(t))
    BY <1>1, <1>2, Emplaced
  <2> QED
    BY <2>1, <2>2, <2>3 DEF Books, OneIn, NoneIn
<1>3. CASE Head(m) \notin EntryOf(t)
  <2>1. /\ No(m, EntryOf(t)) => No(Tail(m), EntryOf(t))
        /\ One(m, EntryOf(t)) => One(Tail(m), EntryOf(t))
    BY <1>3, Beheaded
  <2>2. /\ No(x, EntryOf(t)) => No(Emplace(x, Head(m)), EntryOf(t))
        /\ One(x, EntryOf(t)) => One(Emplace(x, Head(m)), EntryOf(t))
    BY <1>1, <1>3, Emplaced
  <2> QED
    BY <2>1, <2>2 DEF Books, OneIn, NoneIn
<1> QED
  BY <1>2, <1>3

\* A whole queue changes its place.
LEMMA QueuesSwap ==
  ASSUME NEW l, NEW b, NEW m, NEW x, NEW f, Books(l, b, m, x, f)
  PROVE  /\ b = <<>> => Books(<<>>, l, m, x, f)
         /\ x = <<>> => Books(l, b, <<>>, m, f)
         /\ m = <<>> => Books(l, b, x, <<>>, f)
<1>1. \A A : No(<<>>, A) /\ ~One(<<>>, A)
  BY NoneOfNone
<1>2. ASSUME b = <<>> PROVE Books(<<>>, l, m, x, f)
  BY <1>1, <1>2 DEF Books, OneIn, NoneIn
<1>3. ASSUME x = <<>> PROVE Books(l, b, <<>>, m, f)
  BY <1>1, <1>3 DEF Books, OneIn, NoneIn
<1>4. ASSUME m = <<>> PROVE Books(l, b, x, <<>>, f)
  BY <1>1, <1>4 DEF Books, OneIn, NoneIn
<1> QED
  BY <1>2, <1>3, <1>4

-----------------------------------------------------------------------------
(* Each step keeps the books and the order of deadlines.                   *)

LEMMA TimesType ==
  ASSUME PollerAssumption, TypeOK
  PROVE  flushed \in Nat /\ clock \in Nat /\ \A d \in Delays : d \in Nat /\ d > 0
<1>1. flushed \in 0 .. Horizon /\ clock \in 0 .. Horizon
  BY DEF TypeOK
<1>2. Horizon \in Nat /\ Delays \subseteq Nat \ {0}
  BY DEF PollerAssumption
<1> QED
  BY <1>1, <1>2

\* What a callback may arm and post besides.
LEMMA ArmedAside ==
  ASSUME PollerAssumption, TypeOK, NEW l, NEW b, NEW x, NEW e \in Armable,
         Books(l, b, map, x, timer), Sorted(map), flushed <= clock
  PROVE  /\ Books(l, b, WithMap(e), x, WithLife(e))
         /\ Sorted(WithMap(e))
         /\ (\A i \in DOMAIN map : flushed < map[i].at) => \A i \in DOMAIN WithMap(e) : flushed < WithMap(e)[i].at
         /\ \A t \in Timers : timer[t] = "armed" => WithLife(e)[t] = "armed"
<1>1. CASE e = None
  BY <1>1 DEF WithMap, WithLife
<1>2. CASE e # None
  <2>1. e \in Entry /\ timer[e.t] = "new" /\ e.t \in Timers
    BY <1>2 DEF Armable, Entry
  <2>2. map \in Seq(Entry) /\ timer \in [Timers -> Lives]
    BY DEF TypeOK
  <2>3. WithMap(e) = Emplace(map, e) /\ WithLife(e) = [timer EXCEPT ![e.t] = "armed"]
    BY <1>2 DEF WithMap, WithLife
  <2>4. flushed < e.at
    <3>1. PICK d \in Delays : e.at = clock + d
      BY <1>2 DEF Armable
    <3> QED
      BY <3>1, TimesType
  <2>5. Books(l, b, WithMap(e), x, WithLife(e))
    <3>1. Books(l, b, Emplace(map, e), x, [timer EXCEPT ![e.t] = "armed"])
      BY <2>1, <2>2, TimerJoinsMap
    <3> QED
      BY <3>1, <2>3
  <2>6. /\ Sorted(WithMap(e))
        /\ (\A i \in DOMAIN map : flushed < map[i].at) => \A i \in DOMAIN WithMap(e) : flushed < WithMap(e)[i].at
    BY <2>1, <2>2, <2>3, <2>4, EmplaceSorts
  <2>7. \A t \in Timers : timer[t] = "armed" => WithLife(e)[t] = "armed"
    BY <2>1, <2>2, <2>3
  <2> QED
    BY <2>5, <2>6, <2>7
<1> QED
  BY <1>1, <1>2

LEMMA PostedAside ==
  ASSUME TypeOK, NEW b, NEW m, NEW x, NEW f, Books(list, b, m, x, f), NEW j \in Postable, Posts(j)
  PROVE  Books(list', b, m, x, f)
<1>1. CASE j = None
  BY <1>1 DEF Posts
<1>2. CASE j # None
  <2>1. Job(j) \in Task /\ Job(j).op # "arm" /\ list' = Append(list, Job(j))
    BY <1>2, TaskKinds DEF Postable, Posts
  <2> QED
    BY <2>1, OtherJoins, QueuesType
<1> QED
  BY <1>1, <1>2

LEMMA RunTimerBooks ==
  ASSUME PollerAssumption, TypeOK, TimerInv, RunTimer
  PROVE  TimerInv'
<1> DEFINE t == Head(expired).t
<1>1. expired # <<>> /\ loop = "flush" /\ timer[t] = "armed"
  BY DEF RunTimer, Due, Expired
<1>2. expired \in Seq(Entry) /\ map \in Seq(Entry) /\ t \in Timers
  <2>1. Head(expired) \in Entry
    BY <1>1, QueuesType, HeadTailProperties
  <2> QED
    BY <2>1, QueuesType DEF Entry
<1>3. PICK e \in Armable :
        \/ map' = WithMap(e) /\ timer' = [WithLife(e) EXCEPT ![t] = "done"]
        \/ \E d \in Delays :
             /\ Within(flushed, d)
             /\ map' = Emplace(WithMap(e), [at |-> flushed + d, t |-> t])
             /\ timer' = WithLife(e)
  BY DEF RunTimer
<1>4. WithMap(e) \in Seq(Entry) /\ WithLife(e) \in [Timers -> Lives]
  BY ArmableType
<1>5. /\ Books(list, batch, WithMap(e), expired, WithLife(e))
      /\ Sorted(WithMap(e))
      /\ \A i \in DOMAIN WithMap(e) : flushed < WithMap(e)[i].at
      /\ WithLife(e)[t] = "armed"
  BY <1>1, <1>2, ArmedAside DEF TimerInv, InOrder
<1>6. /\ Books(list, batch, map', Tail(expired), timer')
      /\ Sorted(map') /\ \A i \in DOMAIN map' : flushed < map'[i].at
  <2>1. CASE map' = WithMap(e) /\ timer' = [WithLife(e) EXCEPT ![t] = "done"]
    BY <2>1, <1>1, <1>2, <1>4, <1>5, TimerRuns
  <2>2. ASSUME NEW d \in Delays, Within(flushed, d),
               map' = Emplace(WithMap(e), [at |-> flushed + d, t |-> t]), timer' = WithLife(e)
        PROVE  /\ Books(list, batch, map', Tail(expired), timer')
               /\ Sorted(map') /\ \A i \in DOMAIN map' : flushed < map'[i].at
    <3> DEFINE h == [at |-> flushed + d, t |-> t]
    <3>1. h \in Entry /\ h.t = t /\ h.at = flushed + d
      BY <2>2, <1>2, DeadlineType DEF Entry, TypeOK
    <3>2. flushed < h.at
      BY <3>1, TimesType
    <3> HIDE DEF h
    <3>3. Books(list, batch, Emplace(WithMap(e), h), Tail(expired), WithLife(e))
      BY <3>1, <1>1, <1>2, <1>4, <1>5, TimerRuns
    <3>4. Sorted(Emplace(WithMap(e), h)) /\ \A i \in DOMAIN Emplace(WithMap(e), h) : flushed < Emplace(WithMap(e), h)[i].at
      BY <3>1, <3>2, <1>4, <1>5, EmplaceSorts
    <3> QED
      BY <2>2, <3>3, <3>4 DEF h
  <2> QED
    BY <1>3, <2>1, <2>2
<1>7. PICK j \in Postable : Posts(j)
  BY DEF RunTimer
<1>8. Books(list', batch, map', Tail(expired), timer')
  BY <1>6, <1>7, PostedAside
<1>9. Sorted(Tail(expired))
  BY <1>1, <1>2, TailSorts DEF TimerInv, InOrder
<1>10. expired' = Tail(expired) /\ UNCHANGED <<batch, flushed, clock, loop>>
  BY DEF RunTimer
<1> QED
  BY <1>1, <1>6, <1>8, <1>9, <1>10 DEF TimerInv, InOrder

LEMMA FlushBooks ==
  ASSUME PollerAssumption, TypeOK, TimerInv, BeginFlush \/ SkipTimer \/ MergeTimer \/ EndFlush
  PROVE  TimerInv'
<1>1. Sorted(<<>>)
  BY DEF Sorted
<1>2. CASE BeginFlush
  <2>1. expired = <<>> /\ loop # "flush" /\ loop' = "flush"
    BY <1>2 DEF BeginFlush, TimerInv, InOrder
  <2>2. expired' = map /\ map' = <<>> /\ flushed' = clock /\ UNCHANGED <<list, batch, timer, clock>>
    BY <1>2 DEF BeginFlush, taskVars
  <2>3. Books(list, batch, <<>>, map, timer)
    BY <2>1, QueuesSwap DEF TimerInv
  <2>4. clock <= clock
    BY TimesType
  <2> QED
    BY <1>1, <2>1, <2>2, <2>3, <2>4 DEF TimerInv, InOrder
<1>3. CASE SkipTimer
  <2>1. loop = "flush" /\ expired # <<>> /\ timer[Head(expired).t] = "cancelled"
    BY <1>3 DEF SkipTimer, Due, Expired
  <2>2. expired' = Tail(expired) /\ UNCHANGED <<list, batch, map, timer, flushed, clock, loop>>
    BY <1>3 DEF SkipTimer, taskVars
  <2>3. Books(list, batch, map, Tail(expired), timer) /\ Sorted(Tail(expired))
    BY <2>1, QueuesType, TimerSkipped, TailSorts DEF TimerInv, InOrder
  <2> QED
    BY <2>1, <2>2, <2>3 DEF TimerInv, InOrder
<1>4. CASE MergeTimer
  <2>1. loop = "flush" /\ map # <<>>
    BY <1>4 DEF MergeTimer
  <2>2. expired' = Emplace(expired, Head(map)) /\ map' = Tail(map)
        /\ UNCHANGED <<list, batch, timer, flushed, clock, loop>>
    BY <1>4 DEF MergeTimer, taskVars
  <2>3. Head(map) \in Entry
    BY <2>1, QueuesType, HeadTailProperties
  <2>4. Books(list, batch, Tail(map), Emplace(expired, Head(map)), timer)
    BY <2>1, QueuesType, TimerGoesBack DEF TimerInv
  <2>5. Sorted(Emplace(expired, Head(map))) /\ Sorted(Tail(map))
    BY <2>1, <2>3, QueuesType, EmplaceSorts, TailSorts DEF TimerInv, InOrder
  <2>6. \A i \in DOMAIN Tail(map) : flushed < Tail(map)[i].at
    BY <2>1, QueuesType, TailSorts DEF TimerInv, InOrder
  <2> QED
    BY <2>1, <2>2, <2>4, <2>5, <2>6 DEF TimerInv, InOrder
<1>5. CASE EndFlush
  <2>1. map = <<>> /\ map' = expired /\ expired' = <<>> /\ flushed' = 0 /\ loop' = "wait"
        /\ UNCHANGED <<list, batch, timer, clock>>
    BY <1>5 DEF EndFlush, taskVars
  <2>2. Books(list, batch, expired, <<>>, timer)
    BY <2>1, QueuesSwap DEF TimerInv
  <2>3. 0 <= clock
    BY TimesType
  <2> QED
    BY <1>1, <2>1, <2>2, <2>3 DEF TimerInv, InOrder
<1> QED
  BY <1>2, <1>3, <1>4, <1>5

LEMMA BatchBooks ==
  ASSUME PollerAssumption, LineInv, TimerInv, Take \/ RunJob \/ RunArm \/ RunExit
  PROVE  TimerInv'
<1> USE DEF LineInv
<1>1. CASE Take
  <2>1. batch = <<>> /\ loop = "take" /\ loop' = "batch"
    BY <1>1 DEF Take, Closing
  <2>2. batch' = list /\ list' = <<>> /\ UNCHANGED <<map, expired, timer, flushed, clock>>
    BY <1>1 DEF Take, delayVars
  <2>3. Books(<<>>, list, map, expired, timer)
    BY <2>1, QueuesSwap DEF TimerInv
  <2> QED
    BY <2>1, <2>2, <2>3 DEF TimerInv, InOrder
<1>2. CASE RunJob
  <2>1. loop = "batch" /\ batch # <<>> /\ Head(batch).op # "arm" /\ batch' = Tail(batch)
        /\ UNCHANGED <<expired, flushed, loop, clock>>
    BY <1>2 DEF RunJob, Running
  <2>2. PICK e \in Armable : map' = WithMap(e) /\ timer' = WithLife(e)
    BY <1>2 DEF RunJob
  <2>3. PICK j \in Postable : Posts(j)
    BY <1>2 DEF RunJob
  <2>4. Books(list, Tail(batch), map, expired, timer)
    BY <2>1, QueuesType, OtherRuns DEF TimerInv
  <2>5. Books(list, Tail(batch), map', expired, timer') /\ Sorted(map')
    BY <2>2, <2>4, ArmedAside DEF TimerInv, InOrder
  <2>6. Books(list', Tail(batch), map', expired, timer')
    BY <2>3, <2>5, PostedAside
  <2> QED
    BY <2>1, <2>5, <2>6 DEF TimerInv, InOrder
<1>3. CASE RunArm
  <2>1. loop = "batch" /\ batch # <<>> /\ Head(batch).op = "arm" /\ batch' = Tail(batch)
        /\ map' = Emplace(map, Head(batch).e) /\ UNCHANGED <<list, expired, flushed, timer, loop, clock>>
    BY <1>3 DEF RunArm, Running
  <2>2. Head(batch).e \in Entry
    BY <2>1, QueuesType, HeadTailProperties, TaskKinds
  <2>3. Books(list, Tail(batch), Emplace(map, Head(batch).e), expired, timer)
    BY <2>1, QueuesType, TimerMoves DEF TimerInv
  <2>4. Sorted(Emplace(map, Head(batch).e))
    BY <2>2, QueuesType, EmplaceSorts DEF TimerInv, InOrder
  <2> QED
    BY <2>1, <2>3, <2>4 DEF TimerInv, InOrder
<1>4. CASE RunExit
  <2>1. batch # <<>> /\ Head(batch).op # "arm" /\ batch' = Tail(batch)
        /\ UNCHANGED <<list, map, expired, flushed, timer, loop, clock>>
    BY <1>4 DEF RunExit, Running, delayVars
  <2>2. Books(list, Tail(batch), map, expired, timer)
    BY <2>1, QueuesType, OtherRuns DEF TimerInv
  <2> QED
    BY <2>1, <2>2 DEF TimerInv, InOrder
<1> QED
  BY <1>1, <1>2, <1>3, <1>4

LEMMA RestBooks ==
  ASSUME TimerInv, UNCHANGED <<list, batch, map, expired, timer, flushed, clock>>,
         loop' = "flush" <=> loop = "flush"
  PROVE  TimerInv'
  BY DEF TimerInv, InOrder

LEMMA CallsBooks ==
  ASSUME PollerAssumption, TypeOK, TimerInv, NEW c \in Callers, Calls(c)
  PROVE  TimerInv'
<1>1. ASSUME NEW j \in Jobs, Async(c, j) \/ AsyncFirst(c, j) PROVE TimerInv'
  <2>1. Job(j) \in Task /\ Job(j).op # "arm"
    BY TaskKinds
  <2>2. list' = Append(list, Job(j)) \/ list' = <<Job(j)>> \o list
    BY <1>1 DEF Async, AsyncFirst
  <2>3. Books(list', batch, map, expired, timer)
    BY <2>1, <2>2, QueuesType, OtherJoins DEF TimerInv
  <2>4. UNCHANGED <<batch, map, expired, flushed, timer, loop, clock>>
    BY <1>1 DEF Async, AsyncFirst, delayVars
  <2> QED
    BY <2>3, <2>4 DEF TimerInv, InOrder
<1>2. ASSUME NEW t \in Timers, NEW d \in Delays, DoDelayTask(c, t, d) PROVE TimerInv'
  <2> DEFINE e == [at |-> clock + d, t |-> t]
  <2>1. e \in Entry /\ e.t = t
    BY <1>2, DeadlineType DEF DoDelayTask, Entry, TypeOK
  <2>2. timer[t] = "new" /\ timer' = [timer EXCEPT ![t] = "armed"] /\ list' = <<Arm(e)>> \o list
        /\ UNCHANGED <<batch, map, expired, flushed, loop, clock>>
    BY <1>2 DEF DoDelayTask
  <2> HIDE DEF e
  <2>3. Books(<<Arm(e)>> \o list, batch, map, expired, [timer EXCEPT ![e.t] = "armed"])
    BY <2>1, <2>2, QueuesType, TimerJoinsList DEF TimerInv, TypeOK
  <2> QED
    BY <2>1, <2>2, <2>3 DEF TimerInv, InOrder
<1> QED
  BY <1>1, <1>2 DEF Calls

LEMMA OthersBooks ==
  ASSUME PollerAssumption, TypeOK, TimerInv, Tick \/ Shutdown \/ \E t \in Timers : Cancel(t)
  PROVE  TimerInv'
<1>1. CASE Tick
  <2>1. clock' = clock + 1 /\ UNCHANGED <<list, batch, map, expired, timer, flushed, loop>>
    BY <1>1 DEF Tick, taskVars, delayVars
  <2>2. flushed <= clock'
    BY <2>1, TimesType DEF TimerInv, InOrder
  <2> QED
    BY <2>1, <2>2 DEF TimerInv, InOrder
<1>2. CASE Shutdown
  <2>1. list' = <<Exit>> \o list /\ UNCHANGED <<batch, map, expired, timer, flushed, loop, clock>>
    BY <1>2 DEF Shutdown, delayVars
  <2>2. Books(list', batch, map, expired, timer)
    BY <2>1, QueuesType, TaskKinds, OtherJoins DEF TimerInv
  <2> QED
    BY <2>1, <2>2 DEF TimerInv, InOrder
<1>3. ASSUME NEW t \in Timers, Cancel(t) PROVE TimerInv'
  <2>1. timer' = [timer EXCEPT ![t] = "cancelled"]
        /\ UNCHANGED <<list, batch, map, expired, flushed, loop, clock>>
    BY <1>3 DEF Cancel, taskVars
  <2>2. Books(list, batch, map, expired, timer')
    BY <2>1 DEF TimerInv, Books, TypeOK
  <2> QED
    BY <2>1, <2>2 DEF TimerInv, InOrder
<1> QED
  BY <1>1, <1>2, <1>3

LEMMA TimersStep ==
  ASSUME LineInv, TimerInv, [Next]_vars
  PROVE  TimerInv'
<1>0. PollerAssumption /\ TypeOK
  BY PollerAssumption DEF LineInv
<1>1. CASE RunTimer
  BY <1>0, <1>1, RunTimerBooks
<1>2. CASE BeginFlush \/ SkipTimer \/ MergeTimer \/ EndFlush
  BY <1>0, <1>2, FlushBooks
<1>3. CASE Take \/ RunJob \/ RunArm \/ RunExit
  BY <1>0, <1>3, BatchBooks
<1>4. CASE MinDelay \/ TimeOut \/ PipeReadable \/ Drain \/ EndBatch
  <2>1. UNCHANGED <<list, batch, map, expired, timer, flushed, clock>> /\ loop # "flush" /\ loop' # "flush"
    BY <1>4 DEF MinDelay, TimeOut, PipeReadable, Drain, EndBatch, taskVars, delayVars
  <2> QED
    BY <2>1, RestBooks
<1>5. CASE Tick \/ Shutdown \/ \E t \in Timers : Cancel(t)
  BY <1>0, <1>5, OthersBooks
<1>6. ASSUME NEW c \in Callers, Calls(c) PROVE TimerInv'
  BY <1>0, <1>6, CallsBooks
<1>7. ASSUME NEW c \in Callers, Wake(c) \/ SyncReturns(c) PROVE TimerInv'
  BY <1>7, RestBooks DEF Wake, SyncReturns, taskVars, delayVars
<1>8. CASE UNCHANGED vars
  BY <1>8, RestBooks DEF vars, taskVars, delayVars
<1> QED
  BY <1>1, <1>2, <1>3, <1>4, <1>5, <1>6, <1>7, <1>8 DEF Next, LoopStep

LEMMA InitTimers == Init => TimerInv
<1> SUFFICES ASSUME Init PROVE TimerInv
  OBVIOUS
<1>1. Books(list, batch, map, expired, timer)
  BY NoneOfNone DEF Init, Books, NoneIn
<1>2. InOrder
  BY DEF Init, InOrder, Sorted
<1> QED
  BY <1>1, <1>2 DEF TimerInv

\* The inductive invariant of the timers: each armed one has one entry, and map and
\* copy are sorted, with what was entered during a flush behind now_time.
THEOREM TimersInductive == Spec => [](LineInv /\ TimerInv)
<1>1. Init => TimerInv
  BY InitTimers
<1>2. LineInv /\ TimerInv /\ [Next]_vars => TimerInv'
  BY TimersStep
<1> QED
  BY <1>1, <1>2, LineIsInvariant, PTL DEF Spec

\* From doDelayTask to its last run an armed timer has exactly one entry, in the
\* list, the batch, the map or the copy, and one that is over has none.
THEOREM ArmedOnce == Spec => []ArmedIsScheduled
<1>1. LineInv /\ TimerInv => ArmedIsScheduled
  <2> SUFFICES ASSUME LineInv, TimerInv, NEW t \in Timers
               PROVE  /\ timer[t] = "armed" => \E x \in Entries(t) : Entries(t) = {x}
                      /\ timer[t] \in {"new", "done"} => Entries(t) = {}
    BY DEF ArmedIsScheduled
  <2> DEFINE L == {k \in DOMAIN list : list[k].op = "arm" /\ list[k].e.t = t}
             B == {k \in DOMAIN batch : batch[k].op = "arm" /\ batch[k].e.t = t}
             M == {k \in DOMAIN map : map[k].t = t}
             X == {k \in DOMAIN expired : expired[k].t = t}
  <2>1. Entries(t) = {<<"list", i>> : i \in L} \cup {<<"batch", i>> : i \in B}
                       \cup {<<"map", i>> : i \in M} \cup {<<"expired", i>> : i \in X}
    BY DEF Entries
  <2>2. /\ \A k \in DOMAIN list : list[k] \in ArmOf(t) <=> k \in L
        /\ \A k \in DOMAIN batch : batch[k] \in ArmOf(t) <=> k \in B
    BY QueuesType, ElementOfSeq DEF ArmOf, LineInv
  <2>3. /\ \A k \in DOMAIN map : map[k] \in EntryOf(t) <=> k \in M
        /\ \A k \in DOMAIN expired : expired[k] \in EntryOf(t) <=> k \in X
    BY QueuesType, ElementOfSeq DEF EntryOf, LineInv
  <2> HIDE DEF L, B, M, X
  <2>4. /\ No(list, ArmOf(t)) => L = {}
        /\ One(list, ArmOf(t)) => \E i : L = {i}
    BY <2>2 DEF No, One, L
  <2>5. /\ No(batch, ArmOf(t)) => B = {}
        /\ One(batch, ArmOf(t)) => \E i : B = {i}
    BY <2>2 DEF No, One, B
  <2>6. /\ No(map, EntryOf(t)) => M = {}
        /\ One(map, EntryOf(t)) => \E i : M = {i}
    BY <2>3 DEF No, One, M
  <2>7. /\ No(expired, EntryOf(t)) => X = {}
        /\ One(expired, EntryOf(t)) => \E i : X = {i}
    BY <2>3 DEF No, One, X
  <2>8. NoneIn(list, batch, map, expired, t) => Entries(t) = {}
    BY <2>1, <2>4, <2>5, <2>6, <2>7 DEF NoneIn
  <2>9. OneIn(list, batch, map, expired, t) => \E x : Entries(t) = {x}
    <3>1. ASSUME NEW i, L = {i}, B = {}, M = {}, X = {} PROVE Entries(t) = {<<"list", i>>}
      BY <2>1, <3>1
    <3>2. ASSUME NEW i, L = {}, B = {i}, M = {}, X = {} PROVE Entries(t) = {<<"batch", i>>}
      BY <2>1, <3>2
    <3>3. ASSUME NEW i, L = {}, B = {}, M = {i}, X = {} PROVE Entries(t) = {<<"map", i>>}
      BY <2>1, <3>3
    <3>4. ASSUME NEW i, L = {}, B = {}, M = {}, X = {i} PROVE Entries(t) = {<<"expired", i>>}
      BY <2>1, <3>4
    <3> QED
      BY <2>4, <2>5, <2>6, <2>7, <3>1, <3>2, <3>3, <3>4 DEF OneIn
  <2> QED
    BY <2>8, <2>9 DEF TimerInv, Books
<1> QED
  BY <1>1, TimersInductive, PTL

\* flushDelayTask runs a timer when it is due and none that is due earlier waits.
THEOREM EarliestRuns == Spec => EarliestFirst
<1>1. LineInv /\ TimerInv /\ [Next]_vars =>
        [RunTimer => LET x == Head(expired)
                     IN /\ x.at <= clock
                        /\ \A i \in DOMAIN expired : x.at <= expired[i].at
                        /\ \A i \in DOMAIN map : x.at <= map[i].at]_vars
  <2> SUFFICES ASSUME LineInv, TimerInv, RunTimer
               PROVE  /\ Head(expired).at <= clock
                      /\ \A i \in DOMAIN expired : Head(expired).at <= expired[i].at
                      /\ \A i \in DOMAIN map : Head(expired).at <= map[i].at
    OBVIOUS
  <2>1. loop = "flush" /\ expired # <<>> /\ Head(expired).at <= flushed
    BY DEF RunTimer, Due, Expired
  <2>2. TypeOK /\ PollerAssumption
    BY PollerAssumption DEF LineInv
  <2>3. flushed \in Nat /\ clock \in Nat /\ flushed <= clock
    BY <2>2, TimesType DEF TimerInv, InOrder
  <2>4. \A x \in Entry : x.at \in Nat
    BY <2>2 DEF Entry, PollerAssumption
  <2>5. Head(expired).at \in Nat
    BY <2>1, <2>2, <2>4, QueuesType, HeadTailProperties
  <2>6. \A i \in DOMAIN map : map[i].at \in Nat /\ flushed < map[i].at
    BY <2>1, <2>2, <2>4, QueuesType, ElementOfSeq DEF TimerInv, InOrder
  <2>7. \A i \in DOMAIN expired : Head(expired).at <= expired[i].at
    BY <2>1, <2>2, QueuesType, TailSorts DEF TimerInv, InOrder
  <2> QED
    BY <2>1, <2>3, <2>5, <2>6, <2>7
<1> QED
  BY <1>1, TimersInductive, PTL DEF Spec, EarliestFirst
=============================================================================
