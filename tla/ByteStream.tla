----------------------------- MODULE ByteStream -----------------------------
(***************************************************************************)
(* What the two ends of a connection may rely on: the bytes that arrive    *)
(* are a prefix of those handed over, in order, without gap or repetition; *)
(* after the end no call may begin, and what was on the way, with what the *)
(* calls that had begun hand over, may be lost.                            *)
(***************************************************************************)
EXTENDS Integers, Sequences

CONSTANT Callers  \* who may hand bytes over

VARIABLES
  given,    \* the bytes handed over
  arrived,  \* the bytes the network took
  closed,
  calls     \* who found the connection open and is about to hand bytes over

vars == <<given, arrived, closed, calls>>

Leads(s, t) == Len(s) <= Len(t) /\ s = SubSeq(t, 1, Len(s))

Init == given = <<>> /\ arrived = <<>> /\ closed = FALSE /\ calls = {}

\* A call begins while the connection is open,
Call(c) ==
  /\ ~closed /\ c \notin calls
  /\ calls' = calls \cup {c}
  /\ UNCHANGED <<given, arrived, closed>>

\* and hands its bytes over, once, whether or not it still is.
Give(c) ==
  /\ c \in calls /\ calls' = calls \ {c}
  /\ Leads(given, given') /\ given' # given
  /\ UNCHANGED <<arrived, closed>>

\* The network takes what comes next.
Carry ==
  /\ Leads(arrived, arrived') /\ arrived' # arrived
  /\ Leads(arrived', given)
  /\ UNCHANGED <<given, closed, calls>>

Close == ~closed /\ closed' = TRUE /\ UNCHANGED <<given, arrived, calls>>

Next == Carry \/ Close \/ \E c \in Callers : Call(c) \/ Give(c)

Spec == Init /\ [][Next]_vars
=============================================================================
