------------------------------ MODULE GopFeed ------------------------------
(***************************************************************************)
(* What RingBuffer promises a player, without pollers, dispatchers, locks  *)
(* or tasks: a reader is given a run of consecutive packets that starts at *)
(* a key packet of the past (the GOP cache) or is empty, and after it the  *)
(* packets that follow, one at a time and in order, until it leaves or is  *)
(* cut off.                                                                *)
(***************************************************************************)
EXTENDS Naturals, Sequences

CONSTANTS Readers

VARIABLES
  hist,   \* is_key of each packet published
  fed,    \* the packets given to each reader
  state   \* "none", "on" or "off"

vars == <<hist, fed, state>>

Init ==
  /\ hist = <<>>
  /\ fed = [r \in Readers |-> <<>>]
  /\ state = [r \in Readers |-> "none"]

Publish(key) ==
  /\ hist' = Append(hist, key)
  /\ UNCHANGED <<fed, state>>

\* The packets from first to last, in order.
Stretch(first, last) == [i \in 1 .. last - first + 1 |-> first + i - 1]

Subscribe(r) ==
  /\ state[r] = "none"
  /\ \/ fed' = fed
     \/ \E last \in DOMAIN hist : \E first \in 1 .. last :
          /\ hist[first]
          /\ fed' = [fed EXCEPT ![r] = Stretch(first, last)]
  /\ state' = [state EXCEPT ![r] = "on"]
  /\ UNCHANGED hist

\* Delivery of the next packet (of any packet, to a reader that was given
\* nothing yet); the reader may leave while it handles it.
Deliver(r) ==
  /\ state[r] = "on"
  /\ \E n \in DOMAIN hist :
       /\ fed[r] # <<>> => n = fed[r][Len(fed[r])] + 1
       /\ fed' = [fed EXCEPT ![r] = Append(fed[r], n)]
  /\ \/ UNCHANGED state
     \/ state' = [state EXCEPT ![r] = "off"]
  /\ UNCHANGED hist

\* Readers leave by themselves, or all that are left are cut off together.
Leave(S) ==
  /\ \A r \in S : state[r] = "on"
  /\ state' = [r \in Readers |-> IF r \in S THEN "off" ELSE state[r]]
  /\ UNCHANGED <<hist, fed>>

Next ==
  \/ \E key \in BOOLEAN : Publish(key)
  \/ \E r \in Readers : Subscribe(r) \/ Deliver(r)
  \/ \E S \in SUBSET Readers : Leave(S)

Spec == Init /\ [][Next]_vars
=============================================================================
