---------------------------- MODULE NoticeCenter ----------------------------
(***************************************************************************)
(* The event broadcaster of ZLToolKit (NoticeCenter.h), for one event.     *)
(* The centre maps the event to an EventDispatcher object, the dispatcher  *)
(* maps tags to listeners; each has a lock of its own, so that a call is   *)
(* several steps: first the dispatcher is looked up, then it is used, then *)
(* perhaps it is dropped.  The operators are these steps; the module of    *)
(* the callers strings them together.                                      *)
(***************************************************************************)
EXTENDS FiniteSets

CONSTANTS
  Requests,     \* listener objects
  Dispatchers,  \* EventDispatcher objects, each created at most once
  None,         \* the null pointer
  Tag(_)        \* the tag a listener is added under

VARIABLES
  event,        \* the centre's dispatcher of the event, or None
  made,         \* dispatcher objects created so far
  listening     \* _mapListener of each dispatcher

noticeVars == <<event, made, listening>>

NoticeTypeOK ==
  /\ event \in made \cup {None}
  /\ made \subseteq Dispatchers
  /\ listening \in [Dispatchers -> SUBSET Requests]

NoticeInit ==
  /\ event = None
  /\ made = {}
  /\ listening = [d \in Dispatchers |-> {}]

\* getDispatcher with create: d is what it returns.
GetDispatcher(d) ==
  /\ \/ d = event /\ event # None /\ UNCHANGED <<event, made>>
     \/ event = None /\ d \in Dispatchers \ made /\ event' = d /\ made' = made \cup {d}
  /\ UNCHANGED listening

\* EventDispatcher::addListener.
AddListener(d, r) ==
  /\ listening' = [listening EXCEPT ![d] = @ \cup {r}]
  /\ UNCHANGED <<event, made>>

\* EventDispatcher::delListener erases everything under the tag.
Others(d, r) == {q \in listening[d] : Tag(q) # Tag(r)}

DelListener(d, r) ==
  /\ listening' = [listening EXCEPT ![d] = Others(d, r)]
  /\ UNCHANGED <<event, made>>

\* delDispatcher: whether a listener was added meanwhile is not looked at.
DelDispatcher(d) ==
  /\ event' = IF event = d THEN None ELSE event
  /\ UNCHANGED <<made, listening>>
=============================================================================
