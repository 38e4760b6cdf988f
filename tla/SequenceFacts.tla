--------------------------- MODULE SequenceFacts ---------------------------
(***************************************************************************)
(* What the proofs of several components need of numbers and sequences:    *)
(* that a nonempty set of numbers has a least one, which is what induction *)
(* amounts to without an operator parameter, what becomes of the only      *)
(* place of an element when a sequence grows or loses its head, and what   *)
(* holds of sequences whatever their elements.                             *)
(***************************************************************************)
EXTENDS Integers, Sequences, FiniteSets, FiniteSetsExt, FiniteSetTheorems, SequenceTheorems,
        WellFoundedInduction, TLAPS

\* Every nonempty set of numbers has a least one.
LEMMA LeastOf ==
  ASSUME NEW T \in SUBSET Nat, T # {}
  PROVE  \E n \in T : \A m \in T : n <= m
<1>1. PICK t \in T : TRUE
  OBVIOUS
<1> DEFINE S == 1 .. t
           U == {1 .. k : k \in {j \in T : j <= t}}
<1>2. FiniteSubsetsOf(S) = SUBSET S
  BY FS_Interval, FS_FiniteSubsetsOfFinite
<1>3. IsWellFoundedOn(StrictSubsetOrdering(S), SUBSET S)
  BY <1>2, FS_StrictSubsetOrderingWellFounded
<1>4. U \subseteq SUBSET S /\ U # {}
  BY <1>1
<1> HIDE DEF U
<1>5. PICK x \in U : \A y \in U : ~ (<<y, x>> \in StrictSubsetOrdering(S))
  BY <1>3, <1>4, WFMin
<1>6. PICK n \in T : n <= t /\ x = 1 .. n
  BY DEF U
<1>7. ASSUME NEW m \in T, m < n PROVE FALSE
  <2>1. 1 .. m \in U
    BY <1>6, <1>7 DEF U
  <2>2. 1 .. m \subseteq 1 .. n /\ 1 .. m # 1 .. n
    <3>1. n \in 1 .. n /\ n \notin 1 .. m
      BY <1>7
    <3> QED
      BY <3>1, <1>7
  <2>3. <<1 .. m, 1 .. n>> \in StrictSubsetOrdering(S)
    BY <2>2, <1>4, <2>1, <1>6, <1>7 DEF StrictSubsetOrdering
  <2> QED
    BY <2>1, <2>3, <1>5, <1>6
<1> QED
  BY <1>6, <1>7

\* A set of positions that holds every position before one of its own is a start.
LEMMA StartOf ==
  ASSUME NEW l \in Nat, NEW S \in SUBSET (1 .. l), \A i \in S : \A k \in 1 .. i : k \in S
  PROVE  Cardinality(S) \in 0 .. l /\ S = 1 .. Cardinality(S)
<1>1. (1 .. l + 1) \ S \in SUBSET Nat /\ l + 1 \in (1 .. l + 1) \ S
  OBVIOUS
<1>2. PICK n \in (1 .. l + 1) \ S : \A m \in (1 .. l + 1) \ S : n <= m
  BY <1>1, LeastOf
<1>3. S = 1 .. n - 1
  <2>1. ASSUME NEW i \in S PROVE i \in 1 .. n - 1
    BY <1>2, <2>1
  <2>2. ASSUME NEW i \in 1 .. n - 1 PROVE i \in S
    BY <1>2
  <2> QED
    BY <2>1, <2>2
<1>4. Cardinality(S) = n - 1
  BY <1>3, FS_Interval
<1> QED
  BY <1>3, <1>4
-----------------------------------------------------------------------------
(* No element of s is in A; exactly one position of s holds one.           *)
No(s, A)  == \A i \in DOMAIN s : s[i] \notin A
One(s, A) == \E i \in DOMAIN s : s[i] \in A /\ \A k \in DOMAIN s : s[k] \in A => k = i

\* A sequence with x put in front.
LEMMA InFront ==
  ASSUME NEW S, NEW s \in Seq(S), NEW x \in S
  PROVE  /\ <<x>> \o s \in Seq(S)
         /\ Len(<<x>> \o s) = Len(s) + 1
         /\ (<<x>> \o s)[1] = x
         /\ \A i \in 1 .. Len(s) : (<<x>> \o s)[i + 1] = s[i]
         /\ \A i \in 2 .. Len(s) + 1 : (<<x>> \o s)[i] = s[i - 1]
<1>1. <<x>> \in Seq(S) /\ Len(<<x>>) = 1 /\ <<x>>[1] = x
  OBVIOUS
<1>2. /\ <<x>> \o s \in Seq(S)
      /\ Len(<<x>> \o s) = 1 + Len(s)
      /\ \A i \in 1 .. 1 + Len(s) : (<<x>> \o s)[i] = IF i <= 1 THEN <<x>>[i] ELSE s[i - 1]
  BY <1>1, ConcatProperties
<1>3. Len(s) \in Nat
  OBVIOUS
<1> QED
  BY <1>1, <1>2, <1>3

\* A sequence with x inserted behind the first n.
LEMMA Inserted ==
  ASSUME NEW S, NEW s \in Seq(S), NEW r \in Seq(S), NEW x, NEW n \in 0 .. Len(s), NEW A,
         Len(r) = Len(s) + 1,
         \A i \in 1 .. Len(s) + 1 : r[i] = IF i <= n THEN s[i] ELSE IF i = n + 1 THEN x ELSE s[i - 1]
  PROVE  /\ x \in A /\ No(s, A) => One(r, A)
         /\ x \notin A /\ No(s, A) => No(r, A)
         /\ x \notin A /\ One(s, A) => One(r, A)
<1>1. Len(s) \in Nat /\ DOMAIN s = 1 .. Len(s) /\ DOMAIN r = 1 .. Len(s) + 1
  OBVIOUS
<1>2. \A i \in DOMAIN r : \/ i <= n /\ i \in DOMAIN s /\ r[i] = s[i]
                          \/ i = n + 1 /\ r[i] = x
                          \/ i > n + 1 /\ i - 1 \in DOMAIN s /\ r[i] = s[i - 1]
  BY <1>1
<1>3. ASSUME x \in A, No(s, A) PROVE One(r, A)
  <2>1. n + 1 \in DOMAIN r /\ r[n + 1] = x
    BY <1>1
  <2>2. \A k \in DOMAIN r : r[k] \in A => k = n + 1
    BY <1>2, <1>3 DEF No
  <2> QED
    BY <1>3, <2>1, <2>2 DEF One
<1>4. ASSUME x \notin A, No(s, A) PROVE No(r, A)
  BY <1>2, <1>4 DEF No
<1>5. ASSUME x \notin A, One(s, A) PROVE One(r, A)
  <2>1. PICK i \in DOMAIN s : s[i] \in A /\ \A k \in DOMAIN s : s[k] \in A => k = i
    BY <1>5 DEF One
  <2> DEFINE j == IF i <= n THEN i ELSE i + 1
  <2>2. j \in DOMAIN r /\ r[j] = s[i]
    BY <1>1
  <2>3. \A k \in DOMAIN r : r[k] \in A => k = j
    BY <1>1, <1>2, <1>5, <2>1
  <2> QED
    BY <2>1, <2>2, <2>3 DEF One
<1> QED
  BY <1>3, <1>4, <1>5

LEMMA Appended ==
  ASSUME NEW S, NEW s \in Seq(S), NEW x \in S, NEW A
  PROVE  /\ x \in A /\ No(s, A) => One(Append(s, x), A)
         /\ x \notin A /\ No(s, A) => No(Append(s, x), A)
         /\ x \notin A /\ One(s, A) => One(Append(s, x), A)
<1>1. Append(s, x) \in Seq(S) /\ Len(Append(s, x)) = Len(s) + 1 /\ Len(s) \in 0 .. Len(s)
  BY AppendProperties, LenProperties
<1>2. \A i \in 1 .. Len(s) + 1 :
        Append(s, x)[i] = IF i <= Len(s) THEN s[i] ELSE IF i = Len(s) + 1 THEN x ELSE s[i - 1]
  BY AppendProperties, LenProperties
<1> QED
  BY <1>1, <1>2, Inserted

LEMMA Fronted ==
  ASSUME NEW S, NEW s \in Seq(S), NEW x \in S, NEW A
  PROVE  /\ x \in A /\ No(s, A) => One(<<x>> \o s, A)
         /\ x \notin A /\ No(s, A) => No(<<x>> \o s, A)
         /\ x \notin A /\ One(s, A) => One(<<x>> \o s, A)
<1>1. <<x>> \o s \in Seq(S) /\ Len(<<x>> \o s) = Len(s) + 1 /\ 0 \in 0 .. Len(s)
  BY InFront, LenProperties
<1>2. \A i \in 1 .. Len(s) + 1 :
        (<<x>> \o s)[i] = IF i <= 0 THEN s[i] ELSE IF i = 0 + 1 THEN x ELSE s[i - 1]
  BY InFront, LenProperties
<1> QED
  BY <1>1, <1>2, Inserted

\* A sequence without its head.
LEMMA Beheaded ==
  ASSUME NEW S, NEW s \in Seq(S), s # <<>>, NEW A
  PROVE  /\ No(s, A) => No(Tail(s), A)
         /\ Head(s) \notin A /\ One(s, A) => One(Tail(s), A)
         /\ Head(s) \in A /\ One(s, A) => No(Tail(s), A)
<1>1. /\ Len(s) \in Nat /\ Len(s) >= 1 /\ DOMAIN s = 1 .. Len(s) /\ Head(s) = s[1]
      /\ DOMAIN Tail(s) = 1 .. Len(s) - 1
      /\ \A i \in 1 .. Len(s) - 1 : Tail(s)[i] = s[i + 1]
  BY HeadTailProperties, LenProperties, EmptySeq
<1>2. ASSUME No(s, A) PROVE No(Tail(s), A)
  BY <1>1, <1>2 DEF No
<1>3. ASSUME Head(s) \notin A, One(s, A) PROVE One(Tail(s), A)
  <2>1. PICK i \in DOMAIN s : s[i] \in A /\ \A k \in DOMAIN s : s[k] \in A => k = i
    BY <1>3 DEF One
  <2>2. i - 1 \in DOMAIN Tail(s) /\ Tail(s)[i - 1] = s[i]
    BY <1>1, <1>3, <2>1
  <2>3. \A k \in DOMAIN Tail(s) : Tail(s)[k] \in A => k = i - 1
    BY <1>1, <2>1
  <2> QED
    BY <2>1, <2>2, <2>3 DEF One
<1>4. ASSUME Head(s) \in A, One(s, A) PROVE No(Tail(s), A)
  <2>1. PICK i \in DOMAIN s : s[i] \in A /\ \A k \in DOMAIN s : s[k] \in A => k = i
    BY <1>4 DEF One
  <2>2. i = 1
    BY <1>1, <1>4, <2>1
  <2> QED
    BY <1>1, <2>1, <2>2 DEF No
<1> QED
  BY <1>2, <1>3, <1>4

LEMMA NoneOfNone == ASSUME NEW A PROVE No(<<>>, A) /\ ~One(<<>>, A)
  BY DEF No, One

-----------------------------------------------------------------------------
\* A sequence, of whatever.
IsSequence(s) == \E S : s \in Seq(S)

\* A sequence that grows or loses its head is one.
LEMMA JoinedSequences ==
  ASSUME NEW s, NEW t, IsSequence(s), IsSequence(t)
  PROVE  /\ IsSequence(s \o t) /\ Len(s) \in Nat /\ Len(t) \in Nat /\ Len(s \o t) = Len(s) + Len(t)
         /\ \A i \in 1 .. Len(s) + Len(t) : (s \o t)[i] = IF i <= Len(s) THEN s[i] ELSE t[i - Len(s)]
<1>1. PICK S, T : s \in Seq(S) /\ t \in Seq(T)
  BY DEF IsSequence
<1> DEFINE U == S \cup T
<1>2. s \in Seq(U) /\ t \in Seq(U)
  BY <1>1
<1> HIDE DEF U
<1> QED
  BY <1>2, ConcatProperties, LenProperties DEF IsSequence

LEMMA Tailed ==
  ASSUME NEW s, IsSequence(s), s # <<>>
  PROVE  /\ IsSequence(Tail(s)) /\ Len(s) \in Nat \ {0} /\ Len(Tail(s)) = Len(s) - 1 /\ Head(s) = s[1]
         /\ \A i \in 1 .. Len(s) - 1 : Tail(s)[i] = s[i + 1]
<1>1. PICK S : s \in Seq(S)
  BY DEF IsSequence
<1> QED
  BY <1>1, HeadTailProperties, EmptySeq, LenProperties DEF IsSequence

LEMMA OneOnly == ASSUME NEW m PROVE IsSequence(<<m>>) /\ Len(<<m>>) = 1 /\ <<m>>[1] = m
<1>1. <<m>> \in Seq({m})
  OBVIOUS
<1> QED
  BY <1>1 DEF IsSequence

LEMMA Nothing_ == IsSequence(<<>>) /\ Len(<<>>) = 0
<1>1. <<>> \in Seq({})
  OBVIOUS
<1> QED
  BY <1>1 DEF IsSequence

\* What holds at first and is kept by every step holds all along.
LEMMA Along ==
  ASSUME NEW n \in Nat, NEW T, 0 \in T, \A i \in 1 .. n : i - 1 \in T => i \in T
  PROVE  \A i \in 0 .. n : i \in T
<1> DEFINE U == {i \in 0 .. n : i \notin T}
<1> SUFFICES ASSUME U # {} PROVE FALSE
  OBVIOUS
<1>1. U \in SUBSET Nat
  OBVIOUS
<1>2. PICK i \in U : \A j \in U : i <= j
  BY <1>1, LeastOf
<1>3. i \in 1 .. n /\ i - 1 \in 0 .. n /\ i - 1 < i
  BY <1>2
<1>4. i - 1 \notin U
  BY <1>2, <1>3
<1> QED
  BY <1>2, <1>3, <1>4

\* The last of the places.
LEMMA LastOf == ASSUME NEW n \in Nat \ {0}, NEW t \in SUBSET (1 .. n), n \in t PROVE Max(t) = n
<1>1. \A x \in t : x \in Nat /\ x <= n
  OBVIOUS
<1>2. PICK x : x \in t /\ \A y \in t : x >= y
  BY <1>1
<1>3. Max(t) \in t /\ \A y \in t : Max(t) >= y
  BY <1>2 DEF Max
<1>4. PICK m : m = Max(t)
  OBVIOUS
<1>5. m \in t /\ m >= n
  BY <1>3, <1>4
<1>6. m \in Nat /\ m <= n
  BY <1>1, <1>5
<1> QED
  BY <1>4, <1>5, <1>6
=============================================================================
