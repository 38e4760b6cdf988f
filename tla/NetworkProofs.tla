--------------------------- MODULE NetworkProofs ---------------------------
(***************************************************************************)
(* Theorems about the two components that stand between the network and    *)
(* the protocols.                                                          *)
(*                                                                         *)
(* Socket, for any number of buffers, threads and bytes, any room in the   *)
(* kernel and any limit of entries.  What is posted is at every moment on  *)
(* the wire, in flushData's hand, in _send_buf_sending or in               *)
(* _send_buf_waiting, in this order: Pending is the last three, and each   *)
(* step of flushData moves bytes from one to the one before it.  BytesIn   *)
(* of a list is a flattened sequence, so the first sections are about      *)
(* FlattenSeq.                                                             *)
(*                                                                         *)
(* RtpIngest, for any number of SSRCs, sessions and UDP sockets and        *)
(* whatever may happen: the selector's books stay right, and no process is *)
(* removed on behalf of another.  The argument is that each operation of   *)
(* the selector keeps Books, whatever the state: an entry leads to the     *)
(* process made for its key, so that removing the entry of one process     *)
(* removes no other.                                                       *)
(***************************************************************************)
EXTENDS Socket, RtpIngest, FiniteSetTheorems, SequenceFacts

-----------------------------------------------------------------------------
(* Facts about sequences of sequences. *)

\* The function that FlattenSeq computes.
Flattens(f, s) == f = [i \in 1 .. Len(s) |-> IF i = 1 THEN s[i] ELSE f[i - 1] \o s[i]]

\* The value of FlattenSeq is the last of that function.
LEMMA FlattenIs ==
  ASSUME NEW s, Len(s) # 0
  PROVE  FlattenSeq(s) = (CHOOSE f : Flattens(f, s))[Len(s)]
  BY DEF FlattenSeq, Flattens

\* There is such a function for every sequence of sequences.
LEMMA FlattensExists ==
  ASSUME NEW S, NEW s \in Seq(Seq(S))
  PROVE  \E f : Flattens(f, s)
<1> DEFINE G(n, f) == f = [i \in 1 .. n |-> IF i = 1 THEN s[i] ELSE f[i - 1] \o s[i]]
           T == {n \in Nat : ~ \E f : G(n, f)}
<1>1. CASE T = {}
  BY <1>1, LenProperties DEF Flattens
<1>2. CASE T # {}
  <2>1. PICK n \in T : \A m \in T : n <= m
    BY <1>2, LeastOf
  <2>2. G(0, <<>>)
    OBVIOUS
  <2>3. n \in Nat /\ n # 0
    BY <2>1, <2>2
  <2>4. n - 1 \in Nat /\ ~(n <= n - 1)
    BY <2>3
  <2>10. n - 1 \notin T
    <3> HIDE DEF T
    <3> QED
      BY <2>1, <2>4
  <2>9. PICK g : G(n - 1, g)
    BY <2>4, <2>10
  <2> DEFINE h == [i \in 1 .. n |-> IF i < n THEN g[i] ELSE IF i = 1 THEN s[i] ELSE g[i - 1] \o s[i]]
  <2>5. \A i \in 1 .. n : h[i] = IF i = 1 THEN s[i] ELSE h[i - 1] \o s[i]
    <3> TAKE i \in 1 .. n
    <3>1. CASE i = n
      BY <3>1, <2>3
    <3>2. CASE i < n
      <4>1. i \in 1 .. n - 1 /\ (i # 1 => i - 1 \in 1 .. n - 1)
        BY <3>2, <2>3
      <4>2. g[i] = IF i = 1 THEN s[i] ELSE g[i - 1] \o s[i]
        BY <4>1, <2>9
      <4> QED
        BY <4>1, <4>2, <3>2
    <3> QED
      BY <3>1, <3>2
  <2>6. G(n, h)
    BY <2>5
  <2> QED
    BY <2>1, <2>6
<1> QED
  BY <1>1, <1>2

\* What it is, position by position.
LEMMA FlattensAt ==
  ASSUME NEW S, NEW s \in Seq(Seq(S)), NEW f, Flattens(f, s)
  PROVE  \A i \in 1 .. Len(s) : f[i] = IF i = 1 THEN s[i] ELSE f[i - 1] \o s[i]
<1> DEFINE g == [i \in 1 .. Len(s) |-> IF i = 1 THEN s[i] ELSE f[i - 1] \o s[i]]
<1>1. \A i \in 1 .. Len(s) : g[i] = IF i = 1 THEN s[i] ELSE f[i - 1] \o s[i]
  OBVIOUS
<1>2. f = g
  BY DEF Flattens
<1> HIDE DEF g
<1> QED
  BY <1>1, <1>2

\* Two of them agree as far as the sequences do.
LEMMA FlattensAgree ==
  ASSUME NEW S, NEW s \in Seq(Seq(S)), NEW t \in Seq(Seq(S)), NEW f, NEW g, Flattens(f, s), Flattens(g, t),
         Len(s) <= Len(t), \A i \in 1 .. Len(s) : s[i] = t[i]
  PROVE  \A i \in 1 .. Len(s) : f[i] = g[i] /\ f[i] \in Seq(S)
<1> DEFINE T == {n \in 1 .. Len(s) : ~(f[n] = g[n] /\ f[n] \in Seq(S))}
<1> SUFFICES ASSUME T # {} PROVE FALSE
  OBVIOUS
<1>1. Len(s) \in Nat /\ Len(t) \in Nat /\ T \in SUBSET Nat
  BY LenProperties
<1>2. PICK n \in T : \A m \in T : n <= m
  BY <1>1, LeastOf
<1>3. n \in 1 .. Len(s) /\ n \in 1 .. Len(t) /\ s[n] = t[n] /\ s[n] \in Seq(S)
  BY <1>1, <1>2, ElementOfSeq
<1>4. f[n] = (IF n = 1 THEN s[n] ELSE f[n - 1] \o s[n]) /\ g[n] = IF n = 1 THEN t[n] ELSE g[n - 1] \o t[n]
  BY <1>3, FlattensAt
<1>5. CASE n = 1
  BY <1>2, <1>3, <1>4, <1>5
<1>6. CASE n # 1
  <2>1. n - 1 \in 1 .. Len(s) /\ n - 1 \notin T
    BY <1>1, <1>2, <1>3, <1>6
  <2>2. f[n - 1] = g[n - 1] /\ f[n - 1] \in Seq(S)
    BY <2>1
  <2>3. f[n - 1] \o s[n] \in Seq(S)
    BY <2>2, <1>3, ConcatProperties
  <2> QED
    BY <1>2, <1>3, <1>4, <1>6, <2>2, <2>3
<1> QED
  BY <1>5, <1>6

\* Nothing flattened is nothing.
LEMMA FlattenEmpty == FlattenSeq(<<>>) = <<>>
  BY DEF FlattenSeq

\* Sequences over a set, flattened, are a sequence over it.
LEMMA FlattenType ==
  ASSUME NEW S, NEW s \in Seq(Seq(S))
  PROVE  FlattenSeq(s) \in Seq(S)
<1>1. CASE Len(s) = 0
  <2>1. s = <<>>
    BY <1>1, EmptySeq
  <2> QED
    BY <2>1, FlattenEmpty, EmptySeq
<1>2. CASE Len(s) # 0
  <2> DEFINE f == CHOOSE f : Flattens(f, s)
  <2>1. Flattens(f, s)
    BY FlattensExists
  <2> HIDE DEF f
  <2>2. Len(s) \in Nat /\ Len(s) <= Len(s) /\ Len(s) \in 1 .. Len(s)
    BY <1>2, LenProperties
  <2>3. \A i \in 1 .. Len(s) : f[i] = f[i] /\ f[i] \in Seq(S)
    BY <2>1, <2>2, FlattensAgree
  <2>4. f[Len(s)] \in Seq(S)
    BY <2>2, <2>3
  <2>5. FlattenSeq(s) = f[Len(s)]
    BY <1>2, FlattenIs DEF f
  <2> QED
    BY <2>4, <2>5
<1> QED
  BY <1>1, <1>2

\* One sequence more at the end is that sequence appended.
LEMMA FlattenAppend ==
  ASSUME NEW S, NEW s \in Seq(Seq(S)), NEW x \in Seq(S)
  PROVE  FlattenSeq(Append(s, x)) = FlattenSeq(s) \o x
<1> DEFINE t == Append(s, x)
           f == CHOOSE f : Flattens(f, s)
           g == CHOOSE g : Flattens(g, t)
<1>1. /\ t \in Seq(Seq(S)) /\ Len(t) = Len(s) + 1 /\ Len(s) \in Nat
      /\ t[Len(t)] = x /\ \A i \in 1 .. Len(s) : t[i] = s[i]
  BY AppendProperties, LenProperties
<1> HIDE DEF t
<1>2. Flattens(f, s) /\ Flattens(g, t)
  BY <1>1, FlattensExists
<1>3. FlattenSeq(t) = g[Len(t)]
  BY <1>1, FlattenIs
<1>4. Len(s) # 0 => FlattenSeq(s) = f[Len(s)]
  BY FlattenIs
<1> HIDE DEF f, g
<1>5. g[Len(t)] = IF Len(t) = 1 THEN t[Len(t)] ELSE g[Len(t) - 1] \o t[Len(t)]
  BY <1>1, <1>2, FlattensAt
<1>6. CASE Len(s) = 0
  <2>1. s = <<>>
    BY <1>6, EmptySeq
  <2>2. <<>> \o x = x
    BY ConcatEmptySeq
  <2> QED
    BY <1>1, <1>3, <1>5, <1>6, <2>1, <2>2, FlattenEmpty DEF t
<1>7. CASE Len(s) # 0
  <2>5. Len(s) <= Len(t)
    BY <1>1
  <2>1. \A i \in 1 .. Len(s) : s[i] = t[i]
    BY <1>1
  <2>2. \A i \in 1 .. Len(s) : f[i] = g[i] /\ f[i] \in Seq(S)
    BY <1>1, <1>2, <2>1, <2>5, FlattensAgree
  <2>3. Len(t) - 1 = Len(s) /\ Len(t) # 1 /\ Len(s) \in 1 .. Len(s)
    BY <1>1, <1>7
  <2>4. f[Len(s)] = g[Len(s)]
    BY <2>2, <2>3
  <2> QED
    BY <1>1, <1>3, <1>4, <1>5, <1>7, <2>3, <2>4 DEF t
<1> QED
  BY <1>6, <1>7

\* Concatenation is associative, in a form that can be instantiated in parts.
LEMMA Associates == \A S : \A a, b, c \in Seq(S) : (a \o b) \o c = a \o (b \o c)
  BY ConcatAssociative

\* An element appended to the second of two sequences is appended to both.
LEMMA AppendLast ==
  ASSUME NEW S, NEW a \in Seq(S), NEW b \in Seq(S), NEW x \in S
  PROVE  a \o b \in Seq(S) /\ a \o Append(b, x) = Append(a \o b, x)
<1>1. <<x>> \in Seq(S)
  OBVIOUS
<1>2. a \o b \in Seq(S) /\ Append(a \o b, x) = (a \o b) \o <<x>> /\ Append(b, x) = b \o <<x>>
  BY ConcatProperties, AppendIsConcat
<1> QED
  BY <1>1, <1>2, Associates

\* The step of the next lemma: its statement for one sequence more.
LEMMA FlattenGrows ==
  ASSUME NEW S, NEW s \in Seq(Seq(S)), NEW v \in Seq(Seq(S)), NEW x \in Seq(S),
         FlattenSeq(s \o v) = FlattenSeq(s) \o FlattenSeq(v)
  PROVE  FlattenSeq(s \o Append(v, x)) = FlattenSeq(s) \o FlattenSeq(Append(v, x))
<1>1. s \o Append(v, x) = Append(s \o v, x) /\ s \o v \in Seq(Seq(S))
  BY AppendLast
<1>2. FlattenSeq(s \o Append(v, x)) = (FlattenSeq(s) \o FlattenSeq(v)) \o x
  BY <1>1, FlattenAppend
<1>3. FlattenSeq(Append(v, x)) = FlattenSeq(v) \o x
  BY FlattenAppend
<1>4. FlattenSeq(s) \in Seq(S) /\ FlattenSeq(v) \in Seq(S)
  BY FlattenType
<1>5. \A a \in Seq(S), b \in Seq(S) : (a \o b) \o x = a \o (b \o x)
  BY Associates
<1> QED
  BY <1>2, <1>3, <1>4, <1>5

\* Flattening distributes over concatenation.
LEMMA FlattenConcat ==
  ASSUME NEW S, NEW s \in Seq(Seq(S)), NEW t \in Seq(Seq(S))
  PROVE  FlattenSeq(s \o t) = FlattenSeq(s) \o FlattenSeq(t)
<1> DEFINE T == {n \in Nat : \E u \in Seq(Seq(S)) : Len(u) = n /\ FlattenSeq(s \o u) # FlattenSeq(s) \o FlattenSeq(u)}
<1> SUFFICES T = {}
  BY LenProperties
<1>0. SUFFICES ASSUME T # {} PROVE FALSE
  OBVIOUS
<1>1. PICK n \in T : \A m \in T : n <= m
  BY <1>0, LeastOf
<1>2. PICK u \in Seq(Seq(S)) : Len(u) = n /\ FlattenSeq(s \o u) # FlattenSeq(s) \o FlattenSeq(u)
  BY <1>1
<1>3. FlattenSeq(s) \in Seq(S)
  BY FlattenType
<1>4. CASE u = <<>>
  <2>1. s \o <<>> = s /\ FlattenSeq(s) \o <<>> = FlattenSeq(s)
    BY <1>3, ConcatEmptySeq
  <2> QED
    BY <1>2, <1>4, <2>1, FlattenEmpty
<1>5. CASE u # <<>>
  <2>1. PICK v \in Seq(Seq(S)), x \in Seq(S) : u = Append(v, x)
    BY <1>5, SequenceEmptyOrAppend
  <2>2. Len(v) \in Nat /\ Len(v) < n
    BY <1>2, <2>1, AppendProperties, LenProperties
  <2>3. FlattenSeq(s \o v) = FlattenSeq(s) \o FlattenSeq(v)
    BY <1>1, <2>1, <2>2
  <2> HIDE DEF T
  <2> QED
    BY <1>2, <2>1, <2>3, FlattenGrows
<1> QED
  BY <1>4, <1>5

-----------------------------------------------------------------------------
(* The bytes of entries and lists. *)

\* A byte on the wire or in a queue: a buffer and an offset in it.
Byte == Buffers \X Nat

\* An entry as flushData makes them: no more bytes left than its buffer has.
Entry == {v \in Iov : v.left <= Size[v.p]}

\* The bytes of the entries of an iovec, entry by entry.
Pieces(l) == [i \in DOMAIN l |-> BytesOf(l[i])]

\* A function on 1 .. n is a sequence of length n.
LEMMA FunIsSeq ==
  ASSUME NEW S, NEW n \in Nat, NEW f \in [1 .. n -> S]
  PROVE  f \in Seq(S) /\ Len(f) = n
  OBVIOUS

\* What a concatenation is, position by position, with the lengths as names.
LEMMA ConcatAt ==
  ASSUME NEW S, NEW a \in Seq(S), NEW b \in Seq(S), NEW n, NEW m, Len(a) = n, Len(b) = m
  PROVE  /\ a \o b \in Seq(S) /\ Len(a \o b) = n + m
         /\ \A i \in 1 .. n + m : (a \o b)[i] = IF i <= n THEN a[i] ELSE b[i - n]
  BY ConcatProperties

\* What SocketAssumption says of the buffers' sizes.
LEMMA Sizes0 == ASSUME SocketAssumption PROVE Len(Size) \in Nat /\ Buffers = 1 .. Len(Size) /\ \A p \in Buffers : Size[p] \in Nat \ {0}
  BY DEF SocketAssumption, Buffers

\* An entry stands for as many bytes as it has left, the last ones of its buffer.
LEMMA BytesOfType ==
  ASSUME SocketAssumption, NEW v \in Entry
  PROVE  /\ BytesOf(v) \in Seq(Byte) /\ Len(BytesOf(v)) = v.left /\ v.left \in Nat \ {0}
         /\ \A i \in 1 .. v.left : BytesOf(v)[i] = <<v.p, Size[v.p] - v.left + i>>
<1>1. v.p \in Buffers /\ v.left \in Nat \ {0} /\ Size[v.p] \in Nat /\ v.left <= Size[v.p]
  BY Sizes0 DEF Entry, Iov
<1>2. \A i \in 1 .. v.left : <<v.p, Size[v.p] - v.left + i>> \in Byte
  <2> TAKE i \in 1 .. v.left
  <2>1. Size[v.p] - v.left + i \in Nat
    BY <1>1
  <2> QED
    BY <1>1, <2>1 DEF Byte
<1>3. BytesOf(v) \in [1 .. v.left -> Byte]
  BY <1>2 DEF BytesOf
<1>4. BytesOf(v) \in Seq(Byte) /\ Len(BytesOf(v)) = v.left
  BY <1>1, <1>3, FunIsSeq
<1> QED
  BY <1>1, <1>4 DEF BytesOf

\* One piece for each entry.
LEMMA PiecesType ==
  ASSUME SocketAssumption, NEW l \in Seq(Entry)
  PROVE  /\ Pieces(l) \in Seq(Seq(Byte)) /\ Len(Pieces(l)) = Len(l)
         /\ \A i \in 1 .. Len(l) : Pieces(l)[i] = BytesOf(l[i])
<1>1. Len(l) \in Nat /\ DOMAIN l = 1 .. Len(l) /\ \A i \in 1 .. Len(l) : l[i] \in Entry
  BY LenProperties, ElementOfSeq
<1>2. Pieces(l) \in [1 .. Len(l) -> Seq(Byte)]
  BY <1>1, BytesOfType DEF Pieces
<1>3. Pieces(l) \in Seq(Seq(Byte)) /\ Len(Pieces(l)) = Len(l)
  BY <1>1, <1>2, FunIsSeq
<1> QED
  BY <1>1, <1>3 DEF Pieces

\* A list holds bytes, and LeftIn counts them.
LEMMA BytesType ==
  ASSUME SocketAssumption, NEW l \in Seq(Entry)
  PROVE  BytesIn(l) \in Seq(Byte) /\ LeftIn(l) = Len(BytesIn(l)) /\ LeftIn(l) \in Nat
<1>1. BytesIn(l) \in Seq(Byte)
  BY PiecesType, FlattenType DEF BytesIn, Pieces
<1> QED
  BY <1>1, LenProperties DEF LeftIn

\* The bytes of two lists in a row are those of the first and then those of the second.
LEMMA BytesConcat ==
  ASSUME SocketAssumption, NEW l \in Seq(Entry), NEW m \in Seq(Entry)
  PROVE  l \o m \in Seq(Entry) /\ BytesIn(l \o m) = BytesIn(l) \o BytesIn(m)
<1>1. /\ l \o m \in Seq(Entry) /\ Len(l \o m) = Len(l) + Len(m)
      /\ \A i \in 1 .. Len(l) + Len(m) : (l \o m)[i] = IF i <= Len(l) THEN l[i] ELSE m[i - Len(l)]
  BY ConcatProperties
<1>2. Len(l) \in Nat /\ Len(m) \in Nat
  BY LenProperties
<1>3. /\ Pieces(l) \in Seq(Seq(Byte)) /\ Len(Pieces(l)) = Len(l)
      /\ \A i \in 1 .. Len(l) : Pieces(l)[i] = BytesOf(l[i])
  BY PiecesType
<1>4. /\ Pieces(m) \in Seq(Seq(Byte)) /\ Len(Pieces(m)) = Len(m)
      /\ \A i \in 1 .. Len(m) : Pieces(m)[i] = BytesOf(m[i])
  BY PiecesType
<1>5. /\ Pieces(l \o m) \in Seq(Seq(Byte)) /\ Len(Pieces(l \o m)) = Len(l) + Len(m)
      /\ \A i \in 1 .. Len(l) + Len(m) : Pieces(l \o m)[i] = BytesOf((l \o m)[i])
  BY <1>1, PiecesType
<1>6. /\ Pieces(l) \o Pieces(m) \in Seq(Seq(Byte)) /\ Len(Pieces(l) \o Pieces(m)) = Len(l) + Len(m)
      /\ \A i \in 1 .. Len(l) + Len(m) :
           (Pieces(l) \o Pieces(m))[i] = IF i <= Len(l) THEN Pieces(l)[i] ELSE Pieces(m)[i - Len(l)]
  BY <1>3, <1>4, ConcatAt
<1>7. \A i \in 1 .. Len(l) + Len(m) : Pieces(l \o m)[i] = (Pieces(l) \o Pieces(m))[i]
  <2> TAKE i \in 1 .. Len(l) + Len(m)
  <2>1. CASE i <= Len(l)
    <3>1. i \in 1 .. Len(l)
      BY <2>1, <1>2
    <3> QED
      BY <3>1, <2>1, <1>1, <1>3, <1>5, <1>6
  <2>2. CASE ~(i <= Len(l))
    <3>1. i - Len(l) \in 1 .. Len(m)
      BY <2>2, <1>2
    <3> QED
      BY <3>1, <2>2, <1>1, <1>4, <1>5, <1>6
  <2> QED
    BY <2>1, <2>2
<1>8. Pieces(l \o m) = Pieces(l) \o Pieces(m)
  BY <1>5, <1>6, <1>7, SeqEqual
<1>9. FlattenSeq(Pieces(l) \o Pieces(m)) = FlattenSeq(Pieces(l)) \o FlattenSeq(Pieces(m))
  BY <1>3, <1>4, FlattenConcat
<1> QED
  BY <1>1, <1>8, <1>9 DEF BytesIn, Pieces

\* An empty list holds no byte.
LEMMA BytesOfNone == BytesIn(<<>>) = <<>> /\ LeftIn(<<>>) = 0
<1>1. Pieces(<<>>) = <<>>
  BY DEF Pieces
<1>2. BytesIn(<<>>) = <<>>
  BY <1>1, FlattenEmpty DEF BytesIn, Pieces
<1> QED
  BY <1>2 DEF LeftIn

\* One sequence flattened is itself.
LEMMA FlattenOne ==
  ASSUME NEW S, NEW x \in Seq(S)
  PROVE  FlattenSeq(<<x>>) = x
<1>1. <<>> \in Seq(Seq(S)) /\ Append(<<>>, x) = <<x>>
  OBVIOUS
<1>2. FlattenSeq(<<x>>) = FlattenSeq(<<>>) \o x
  BY <1>1, FlattenAppend
<1> QED
  BY <1>2, FlattenEmpty, ConcatEmptySeq

\* A list of one entry holds the bytes of the entry.
LEMMA BytesOfOne ==
  ASSUME SocketAssumption, NEW v \in Entry
  PROVE  <<v>> \in Seq(Entry) /\ BytesIn(<<v>>) = BytesOf(v)
<1>1. Pieces(<<v>>) = <<BytesOf(v)>>
  BY DEF Pieces
<1>2. FlattenSeq(<<BytesOf(v)>>) = BytesOf(v)
  BY BytesOfType, FlattenOne
<1> QED
  BY <1>1, <1>2 DEF BytesIn, Pieces

-----------------------------------------------------------------------------
(* What is left of a list after a write. *)

\* A sequence is what comes before a position and what comes after it.
LEMMA CutAt ==
  ASSUME NEW S, NEW s \in Seq(S), NEW k \in 0 .. Len(s)
  PROVE  /\ SubSeq(s, 1, k) \in Seq(S) /\ Len(SubSeq(s, 1, k)) = k
         /\ SubSeq(s, k + 1, Len(s)) \in Seq(S) /\ Len(SubSeq(s, k + 1, Len(s))) = Len(s) - k
         /\ s = SubSeq(s, 1, k) \o SubSeq(s, k + 1, Len(s))
<1>1. Len(s) \in Nat /\ k \in Nat /\ k <= Len(s) /\ \A i \in 1 .. Len(s) : s[i] \in S
  BY LenProperties, ElementOfSeq
<1>2. (\A i \in 1 .. k : s[i] \in S) /\ \A i \in k + 1 .. Len(s) : s[i] \in S
  BY <1>1
<1>3. /\ SubSeq(s, 1, k) \in Seq(S) /\ Len(SubSeq(s, 1, k)) = IF 1 <= k THEN k - 1 + 1 ELSE 0
      /\ SubSeq(s, k + 1, Len(s)) \in Seq(S)
      /\ Len(SubSeq(s, k + 1, Len(s))) = IF k + 1 <= Len(s) THEN Len(s) - (k + 1) + 1 ELSE 0
  BY <1>1, <1>2, SubSeqProperties
<1>4. 1 \in 1 .. Len(s) + 1 /\ k \in 1 - 1 .. Len(s) /\ Len(s) \in k .. Len(s)
  BY <1>1
<1>5. SubSeq(s, 1, k) \o SubSeq(s, k + 1, Len(s)) = SubSeq(s, 1, Len(s))
  BY <1>4, ConcatAdjacentSubSeq
<1>6. SubSeq(s, 1, Len(s)) = s
  BY SubSeqFull
<1>7. Len(SubSeq(s, 1, k)) = k
  BY <1>1, <1>3
<1>8. Len(SubSeq(s, k + 1, Len(s))) = Len(s) - k
  BY <1>1, <1>3
<1>9. s = SubSeq(s, 1, k) \o SubSeq(s, k + 1, Len(s))
  BY <1>5, <1>6
<1> QED
  BY <1>3, <1>7, <1>8, <1>9

\* Two ways to cut a sequence.
LEMMA TwoCuts ==
  ASSUME NEW S, NEW a \in Seq(S), NEW b \in Seq(S), NEW c \in Seq(S), NEW d \in Seq(S),
         a \o b = c \o d, Len(a) <= Len(c)
  PROVE  SubSeq(c, 1, Len(a)) = a
<1>1. Len(a) \in 0 .. Len(c) /\ Len(a) \in Nat /\ Len(b) \in Nat /\ Len(c) \in Nat /\ Len(d) \in Nat
  BY LenProperties
<1>2. SubSeq(c, 1, Len(a)) \in Seq(S) /\ Len(SubSeq(c, 1, Len(a))) = Len(a)
  BY <1>1, CutAt
<1>3. \A i \in 1 .. Len(c) : c[i] \in S
  BY ElementOfSeq
<1>4. \A i \in 1 .. Len(a) : SubSeq(c, 1, Len(a))[i] = c[i]
  <2>1. \A i \in 1 .. Len(a) : c[i] \in S
    BY <1>1, <1>3
  <2>2. \A i \in 1 .. Len(a) - 1 + 1 : SubSeq(c, 1, Len(a))[i] = c[1 + i - 1]
    BY <1>1, <2>1, SubSeqProperties
  <2> QED
    BY <1>1, <2>2
<1>5. \A i \in 1 .. Len(a) : (a \o b)[i] = a[i] /\ (c \o d)[i] = c[i]
  <2>1. \A i \in 1 .. Len(a) + Len(b) : (a \o b)[i] = IF i <= Len(a) THEN a[i] ELSE b[i - Len(a)]
    BY ConcatProperties
  <2>2. \A i \in 1 .. Len(c) + Len(d) : (c \o d)[i] = IF i <= Len(c) THEN c[i] ELSE d[i - Len(c)]
    BY ConcatProperties
  <2> QED
    BY <1>1, <2>1, <2>2
<1> QED
  BY <1>2, <1>4, <1>5, SeqEqual

\* Associativity for bytes.
LEMMA AssocBytes == \A p, q, r \in Seq(Byte) : (p \o q) \o r = p \o (q \o r)
  BY Associates

\* Four sequences of bytes, regrouped.
LEMMA RegroupBytes == \A a, x, y, c \in Seq(Byte) : (a \o (x \o y)) \o c = (a \o x) \o (y \o c)
<1> DEFINE S == Byte
<1> HIDE DEF S
<1>1. \A p, q, r \in Seq(S) : (p \o q) \o r = p \o (q \o r)
  BY Associates
<1>2. \A p, q \in Seq(S) : p \o q \in Seq(S)
  BY ConcatProperties
<1>3. ASSUME NEW a \in Seq(S), NEW x \in Seq(S), NEW y \in Seq(S), NEW c \in Seq(S)
      PROVE  (a \o (x \o y)) \o c = (a \o x) \o (y \o c)
  <2>1. a \o (x \o y) = (a \o x) \o y
    BY <1>1, Zenon
  <2>2. a \o x \in Seq(S)
    BY <1>2, Zenon
  <2>3. ((a \o x) \o y) \o c = (a \o x) \o (y \o c)
    BY <1>1, <2>2, Zenon
  <2> QED
    BY <2>1, <2>3, Zenon
<1> QED
  BY <1>3, Zenon DEF S

\* An entry of which a part was written keeps exactly the bytes that were not.
LEMMA CutEntry ==
  ASSUME SocketAssumption
  PROVE  \A v \in Entry : \A r \in 1 .. v.left :
           /\ [v EXCEPT !.left = r] \in Entry
           /\ \E x \in Seq(Byte) : Len(x) = v.left - r /\ BytesOf(v) = x \o BytesOf([v EXCEPT !.left = r])
<1> SUFFICES ASSUME NEW v \in Entry, NEW r \in 1 .. v.left
             PROVE  /\ [v EXCEPT !.left = r] \in Entry
                    /\ \E x \in Seq(Byte) : Len(x) = v.left - r /\ BytesOf(v) = x \o BytesOf([v EXCEPT !.left = r])
  OBVIOUS
<1> DEFINE w == [v EXCEPT !.left = r]
<1>1. v.p \in Buffers /\ v.left \in Nat \ {0} /\ Size[v.p] \in Nat /\ v.left <= Size[v.p]
  BY Sizes0 DEF Entry, Iov
<1>2. w \in Entry /\ w.p = v.p /\ w.left = r
  BY <1>1 DEF Entry, Iov
<1>3. BytesOf(v) \in Seq(Byte) /\ Len(BytesOf(v)) = v.left /\ \A i \in 1 .. v.left : BytesOf(v)[i] = <<v.p, Size[v.p] - v.left + i>>
  BY BytesOfType
<1>4. BytesOf(w) \in Seq(Byte) /\ Len(BytesOf(w)) = r /\ \A i \in 1 .. r : BytesOf(w)[i] = <<v.p, Size[v.p] - r + i>>
  BY <1>2, BytesOfType
<1> HIDE DEF w
<1> DEFINE k == v.left - r
           x == SubSeq(BytesOf(v), 1, k)
           y == SubSeq(BytesOf(v), k + 1, v.left)
<1>5. k \in 0 .. v.left /\ v.left - k = r
  BY <1>1
<1> HIDE DEF k
<1>6. x \in Seq(Byte) /\ Len(x) = k /\ y \in Seq(Byte) /\ Len(y) = r /\ BytesOf(v) = x \o y
  <2> DEFINE B == BytesOf(v)
  <2>1. B \in Seq(Byte) /\ Len(B) = v.left /\ k \in 0 .. Len(B)
    BY <1>3, <1>5
  <2>2. x = SubSeq(B, 1, k) /\ y = SubSeq(B, k + 1, Len(B))
    BY <2>1
  <2> HIDE DEF B, x, y
  <2>3. x \in Seq(Byte) /\ Len(x) = k /\ y \in Seq(Byte) /\ Len(y) = Len(B) - k /\ B = x \o y
    BY <2>1, <2>2, CutAt
  <2> QED
    BY <1>5, <2>1, <2>3 DEF B
<1>7. \A i \in 1 .. r : y[i] = BytesOf(v)[k + i]
  <2>1. k + 1 \in Int /\ v.left \in Int /\ \A i \in k + 1 .. v.left : BytesOf(v)[i] \in Byte
    BY <1>1, <1>3, <1>5, ElementOfSeq
  <2>2. \A i \in 1 .. v.left - (k + 1) + 1 : y[i] = BytesOf(v)[k + 1 + i - 1]
    BY <2>1, SubSeqProperties
  <2> QED
    <3> TAKE i \in 1 .. r
    <3>1. i \in 1 .. v.left - (k + 1) + 1 /\ k + 1 + i - 1 = k + i
      BY <1>1, <1>5
    <3> HIDE DEF y
    <3> QED
      BY <2>2, <3>1
<1>8. \A i \in 1 .. r : y[i] = BytesOf(w)[i]
  <2> TAKE i \in 1 .. r
  <2>1. k + i \in 1 .. v.left /\ Size[v.p] - v.left + (k + i) = Size[v.p] - r + i
    BY <1>1, <1>5
  <2> QED
    BY <1>3, <1>4, <1>7, <2>1
<1> HIDE DEF x, y
<1>9. y = BytesOf(w)
  BY <1>4, <1>6, <1>8, SeqEqual
<1> QED
  BY <1>2, <1>6, <1>9 DEF k, w

\* What ReOffset leaves is what was not taken.
LEMMA ReOffsetRest ==
  ASSUME SocketAssumption, NEW l \in Seq(Entry), NEW m \in 0 .. Len(l), NEW G, G = BytesIn(SubSeq(l, 1, m)),
         NEW n \in 1 .. Len(G)
  PROVE  ReOffset(l, n) \in Seq(Entry) /\ BytesIn(l) = SubSeq(G, 1, n) \o BytesIn(ReOffset(l, n))
<1> DEFINE P(i) == LeftIn(SubSeq(l, 1, i)) >= n /\ \A j \in 1 .. i - 1 : LeftIn(SubSeq(l, 1, j)) < n
           k == CHOOSE i \in DOMAIN l : P(i)
           A == SubSeq(l, 1, k - 1)
           K == SubSeq(l, 1, k)
           C == SubSeq(l, k + 1, Len(l))
           remain == LeftIn(K) - n
           w == [l[k] EXCEPT !.left = remain]
<1>1. Len(l) \in Nat /\ DOMAIN l = 1 .. Len(l) /\ \A i \in 1 .. Len(l) : l[i] \in Entry
  BY LenProperties, ElementOfSeq
<1>2. \A i \in 0 .. Len(l) : SubSeq(l, 1, i) \in Seq(Entry) /\ LeftIn(SubSeq(l, 1, i)) \in Nat
  BY CutAt, BytesType
<1>3. G \in Seq(Byte) /\ Len(G) = LeftIn(SubSeq(l, 1, m)) /\ Len(G) \in Nat /\ n \in Nat /\ n >= 1 /\ n <= Len(G)
  <2>1. SubSeq(l, 1, m) \in Seq(Entry)
    BY CutAt
  <2>2. G \in Seq(Byte) /\ Len(G) = LeftIn(SubSeq(l, 1, m)) /\ Len(G) \in Nat
    BY <2>1, BytesType
  <2> QED
    BY <2>2
<1>4. \E i \in DOMAIN l : P(i)
  <2> DEFINE T == {i \in 1 .. Len(l) : LeftIn(SubSeq(l, 1, i)) >= n}
  <2>1. m # 0
    <3>1. ASSUME m = 0 PROVE FALSE
      <4>1. SubSeq(l, 1, 0) = <<>>
        BY SubSeqEmpty
      <4>2. Len(G) = LeftIn(<<>>)
        BY <1>3, <3>1, <4>1
      <4> QED
        BY <1>3, <4>2, BytesOfNone
    <3> QED
      BY <3>1
  <2>2. m \in T /\ T \in SUBSET Nat
    BY <1>1, <1>3, <2>1
  <2> HIDE DEF T
  <2>3. PICK i \in T : \A j \in T : i <= j
    BY <2>2, LeastOf
  <2>4. i \in 1 .. Len(l) /\ LeftIn(SubSeq(l, 1, i)) >= n
    BY <2>3 DEF T
  <2>5. ASSUME NEW j \in 1 .. i - 1 PROVE LeftIn(SubSeq(l, 1, j)) < n
    <3>1. j \in 1 .. Len(l) /\ ~(i <= j)
      BY <1>1, <2>4
    <3>2. j \notin T
      BY <2>3, <3>1
    <3>3. LeftIn(SubSeq(l, 1, j)) \in Nat
      BY <3>1, <1>1, <1>2
    <3> QED
      BY <1>3, <3>1, <3>2, <3>3 DEF T
  <2> QED
    BY <1>1, <2>4, <2>5
<1>5. k \in 1 .. Len(l) /\ P(k)
  BY <1>1, <1>4
<1>6. ReOffset(l, n) = IF remain = 0 THEN C ELSE <<w>> \o C
  BY DEF ReOffset
<1> HIDE DEF k
<1>7. k - 1 \in 0 .. Len(l) /\ k \in 0 .. Len(l) /\ k \in 1 .. Len(l)
  BY <1>1, <1>5
<1>8. A \in Seq(Entry) /\ K \in Seq(Entry) /\ C \in Seq(Entry) /\ l = K \o C
  BY <1>7, CutAt
<1>9. K = A \o <<l[k]>>
  <2>1. 1 \in 1 .. Len(l) /\ k \in 1 .. Len(l)
    BY <1>1, <1>7
  <2> QED
    BY <2>1, SubSeqRecursiveSecond
<1>10. l[k] \in Entry /\ l[k].left \in Nat \ {0} /\ Len(BytesOf(l[k])) = l[k].left /\ BytesOf(l[k]) \in Seq(Byte)
  BY <1>1, <1>7, BytesOfType
<1>11. <<l[k]>> \in Seq(Entry) /\ BytesIn(<<l[k]>>) = BytesOf(l[k])
  BY <1>10, BytesOfOne
<1>12. BytesIn(K) = BytesIn(A) \o BytesOf(l[k]) /\ BytesIn(A) \in Seq(Byte) /\ LeftIn(A) = Len(BytesIn(A)) /\ LeftIn(A) \in Nat
  BY <1>8, <1>9, <1>11, BytesConcat, BytesType
<1>13. LeftIn(K) = LeftIn(A) + l[k].left
  BY <1>10, <1>12, ConcatProperties DEF LeftIn
<1>14. LeftIn(A) < n
  <2>1. CASE k = 1
    <3>1. SubSeq(l, 1, 0) = <<>> /\ k - 1 = 0
      BY <2>1, SubSeqEmpty
    <3>2. LeftIn(A) = 0
      BY <3>1, BytesOfNone
    <3> QED
      BY <3>2, <1>3
  <2>2. CASE k # 1
    <3>1. k - 1 \in 1 .. k - 1
      BY <2>2, <1>7
    <3> QED
      BY <3>1, <1>5
  <2> QED
    BY <2>1, <2>2
<1>15. LeftIn(K) >= n /\ LeftIn(K) \in Nat
  BY <1>2, <1>5, <1>7
<1>16. BytesIn(l) = BytesIn(K) \o BytesIn(C) /\ BytesIn(K) \in Seq(Byte) /\ BytesIn(C) \in Seq(Byte) /\ BytesIn(A) \in Seq(Byte)
  BY <1>8, BytesConcat, BytesType
<1> DEFINE D == SubSeq(l, m + 1, Len(l))
<1>17. BytesIn(l) = G \o BytesIn(D) /\ BytesIn(D) \in Seq(Byte)
  <2>1. SubSeq(l, 1, m) \in Seq(Entry) /\ D \in Seq(Entry) /\ l = SubSeq(l, 1, m) \o D
    BY CutAt
  <2> HIDE DEF D
  <2> QED
    BY <2>1, BytesConcat, BytesType
<1> HIDE DEF A, K, C, D
<1>18. CASE remain = 0
  <2>1. Len(BytesIn(K)) = n
    BY <1>3, <1>15, <1>18 DEF LeftIn
  <2>2. SubSeq(G, 1, n) = BytesIn(K)
    BY <1>3, <1>16, <1>17, <2>1, TwoCuts
  <2> QED
    BY <1>6, <1>8, <1>16, <1>18, <2>2
<1>19. CASE remain # 0
  <2>1. remain \in 1 .. l[k].left /\ LeftIn(A) + (l[k].left - remain) = n
    <3>1. ASSUME NEW a \in Nat, NEW b \in Nat, NEW c \in Nat, NEW d \in Nat,
                 c = a + b, a < d, c >= d, c - d # 0
          PROVE  c - d \in 1 .. b /\ a + (b - (c - d)) = d
      BY <3>1
    <3>2. LeftIn(A) \in Nat /\ l[k].left \in Nat /\ LeftIn(K) \in Nat /\ n \in Nat
      BY <1>3, <1>10, <1>12, <1>15
    <3> DEFINE a == LeftIn(A)
               b == l[k].left
               c == LeftIn(K)
    <3>3. a \in Nat /\ b \in Nat /\ c \in Nat /\ c = a + b /\ a < n /\ c >= n /\ c - n # 0
      BY <3>2, <1>13, <1>14, <1>15, <1>19
    <3> HIDE DEF a, b, c
    <3>4. c - n \in 1 .. b /\ a + (b - (c - n)) = n
      BY <3>1, <3>2, <3>3
    <3> QED
      BY <3>4 DEF a, b, c
  <2>10. w = [l[k] EXCEPT !.left = remain]
    OBVIOUS
  <2> HIDE DEF remain, w
  <2>2. w \in Entry /\ \E x \in Seq(Byte) : Len(x) = l[k].left - remain /\ BytesOf(l[k]) = x \o BytesOf(w)
    <3>1. l[k] \in Entry /\ remain \in 1 .. l[k].left
      BY <1>10, <2>1
    <3> DEFINE v == l[k]
    <3> HIDE DEF v
    <3>2. /\ [v EXCEPT !.left = remain] \in Entry
          /\ \E x \in Seq(Byte) : Len(x) = v.left - remain /\ BytesOf(v) = x \o BytesOf([v EXCEPT !.left = remain])
      BY <3>1, CutEntry DEF v
    <3> QED
      BY <3>2, <2>10 DEF v
  <2>3. PICK x \in Seq(Byte) : Len(x) = l[k].left - remain /\ BytesOf(l[k]) = x \o BytesOf(w)
    BY <2>2
  <2> DEFINE H == BytesIn(A) \o x
             R == BytesOf(w) \o BytesIn(C)
  <2>4. BytesOf(w) \in Seq(Byte)
    BY <2>2, BytesOfType
  <2>5. H \in Seq(Byte) /\ Len(H) = n
    BY <1>12, <2>1, <2>3, ConcatProperties
  <2>6. BytesIn(l) = H \o R /\ R \in Seq(Byte)
    <3>1. BytesIn(l) = (BytesIn(A) \o (x \o BytesOf(w))) \o BytesIn(C)
      BY <1>12, <1>16, <2>3, Zenon
    <3>2. (BytesIn(A) \o (x \o BytesOf(w))) \o BytesIn(C) = H \o R
      <4>1. BytesIn(A) \in Seq(Byte) /\ BytesIn(C) \in Seq(Byte) /\ x \in Seq(Byte)
        BY <1>16
      <4> DEFINE a == BytesIn(A)
                 c == BytesIn(C)
                 y == BytesOf(w)
      <4>2. a \in Seq(Byte) /\ c \in Seq(Byte) /\ y \in Seq(Byte)
        BY <4>1, <2>4
      <4> HIDE DEF a, c, y
      <4>3. (a \o (x \o y)) \o c = (a \o x) \o (y \o c)
        <5>1. \A q \in Seq(Byte), r \in Seq(Byte), t \in Seq(Byte) : (a \o (q \o r)) \o t = (a \o q) \o (r \o t)
          BY <4>2, RegroupBytes, Zenon
        <5>2. \A r \in Seq(Byte), t \in Seq(Byte) : (a \o (x \o r)) \o t = (a \o x) \o (r \o t)
          BY <4>1, <5>1, Zenon
        <5>3. \A t \in Seq(Byte) : (a \o (x \o y)) \o t = (a \o x) \o (y \o t)
          BY <4>2, <5>2, Zenon
        <5> QED
          BY <4>2, <5>3, Zenon
      <4> QED
        BY <4>3 DEF a, c, y
    <3>3. R \in Seq(Byte)
      BY <1>16, <2>4, ConcatProperties, Zenon
    <3> QED
      BY <3>1, <3>2, <3>3, Zenon
  <2>7. <<w>> \in Seq(Entry) /\ BytesIn(<<w>>) = BytesOf(w)
    BY <2>2, BytesOfOne
  <2>8. <<w>> \o C \in Seq(Entry) /\ BytesIn(<<w>> \o C) = R
    BY <1>8, <2>7, BytesConcat
  <2> HIDE DEF H, R
  <2>9. SubSeq(G, 1, n) = H
    BY <1>3, <1>17, <2>5, <2>6, TwoCuts
  <2> QED
    BY <1>6, <1>19, <2>6, <2>8, <2>9
<1> QED
  BY <1>18, <1>19

-----------------------------------------------------------------------------
(* Queues and buffers. *)

\* What a BufferList holds, and a queue of them.
Lists == Seq(Entry) \ {<<>>}
\* The bytes of a queue of lists.
QueueBytes(q) == BytesIn(FlattenSeq(q))

\* What a thread inside send or flushData has on its stack.
Frame == [pc : PCs, tmp : Seq(Lists), part : BOOLEAN, poller : BOOLEAN]

\* The types, with what the code keeps of the entries: no empty list is queued and no
\* entry has more bytes left than its buffer.
TypeInv ==
  /\ open \in BOOLEAN /\ sendable \in BOOLEAN /\ interest \in BOOLEAN
  /\ owed \in BOOLEAN /\ ready \in BOOLEAN /\ reset \in BOOLEAN
  /\ waiting \in Seq(Buffers)
  /\ sending \in Seq(Lists)
  /\ thread \in [Threads -> Frame]
  /\ events \subseteq {"read", "write", "error"}
  /\ late \in Nat /\ errs \in Nat
  /\ room \in 0 .. Room
  /\ inbox \in {"none", "data", "eof"}
  /\ wire \in Seq(Byte)
  /\ posted \in 0 .. Len(Size) /\ flushed \in 0 .. posted

\* A queue of lists is a sequence of sequences.
LEMMA ListsAre == ASSUME NEW q \in Seq(Lists) PROVE q \in Seq(Seq(Entry))
  BY SeqMonotonic DEF Lists

\* The types the proofs use are at least as strong as TypeOK.
LEMMA TypeInvGivesTypeOK == ASSUME TypeInv PROVE TypeOK
<1>1. Seq(Entry) \subseteq Seq(Iov)
  <2>1. Entry \subseteq Iov
    BY DEF Entry
  <2> QED
    BY <2>1, SeqMonotonic
<1>2. Lists \subseteq Seq(Iov)
  BY <1>1 DEF Lists
<1>3. Seq(Lists) \subseteq Seq(Seq(Iov))
  BY <1>2, SeqMonotonic
<1>4. Frame \subseteq [pc : PCs, tmp : Seq(Seq(Iov)), part : BOOLEAN, poller : BOOLEAN]
  BY <1>3 DEF Frame
<1>5. thread \in [Threads -> [pc : PCs, tmp : Seq(Seq(Iov)), part : BOOLEAN, poller : BOOLEAN]]
  BY <1>4 DEF TypeInv
<1>6. sending \in Seq(Seq(Iov))
  BY <1>3 DEF TypeInv
<1> QED
  BY <1>5, <1>6 DEF TypeInv, TypeOK, Byte

\* A queue holds bytes.
LEMMA QueueType ==
  ASSUME SocketAssumption, NEW q \in Seq(Lists)
  PROVE  FlattenSeq(q) \in Seq(Entry) /\ QueueBytes(q) \in Seq(Byte)
<1>1. FlattenSeq(q) \in Seq(Entry)
  BY ListsAre, FlattenType
<1> QED
  BY <1>1, BytesType DEF QueueBytes

\* An empty queue holds no byte.
LEMMA QueueNone == QueueBytes(<<>>) = <<>>
  BY FlattenEmpty, BytesOfNone DEF QueueBytes

\* The bytes of two queues in a row.
LEMMA QueueConcat ==
  ASSUME SocketAssumption, NEW q \in Seq(Lists), NEW r \in Seq(Lists)
  PROVE  q \o r \in Seq(Lists) /\ QueueBytes(q \o r) = QueueBytes(q) \o QueueBytes(r)
<1>1. FlattenSeq(q \o r) = FlattenSeq(q) \o FlattenSeq(r)
  BY ListsAre, FlattenConcat
<1>2. FlattenSeq(q) \in Seq(Entry) /\ FlattenSeq(r) \in Seq(Entry)
  BY QueueType
<1>3. BytesIn(FlattenSeq(q) \o FlattenSeq(r)) = BytesIn(FlattenSeq(q)) \o BytesIn(FlattenSeq(r))
  BY <1>2, BytesConcat
<1>4. q \o r \in Seq(Lists)
  BY ConcatProperties
<1> QED
  BY <1>1, <1>3, <1>4 DEF QueueBytes

\* A queue of one list holds the bytes of the list.
LEMMA QueueOne ==
  ASSUME SocketAssumption, NEW l \in Lists
  PROVE  <<l>> \in Seq(Lists) /\ QueueBytes(<<l>>) = BytesIn(l)
<1>1. FlattenSeq(<<l>>) = l
  BY FlattenOne DEF Lists
<1>2. <<l>> \in Seq(Lists)
  OBVIOUS
<1> QED
  BY <1>1, <1>2 DEF QueueBytes

\* The bytes of a queue are those of its first list and those of the rest.
LEMMA QueueHead ==
  ASSUME SocketAssumption, NEW q \in Seq(Lists), q # <<>>
  PROVE  Head(q) \in Lists /\ Tail(q) \in Seq(Lists) /\ QueueBytes(q) = BytesIn(Head(q)) \o QueueBytes(Tail(q))
<1>1. Head(q) \in Lists /\ Tail(q) \in Seq(Lists)
  BY HeadTailProperties
<1>2. q = <<Head(q)>> \o Tail(q)
  <2>1. Len(q) \in Nat \ {0} /\ 1 \in 1 .. Len(q) /\ Len(q) \in 1 .. Len(q)
    BY EmptySeq
  <2>2. SubSeq(q, 1, Len(q)) = <<q[1]>> \o SubSeq(q, 1 + 1, Len(q))
    BY <2>1, SubSeqRecursiveFirst
  <2>3. SubSeq(q, 1, Len(q)) = q
    BY SubSeqFull
  <2>4. Tail(q) = SubSeq(q, 2, Len(q))
    BY TailIsSubSeq
  <2> QED
    BY <2>2, <2>3, <2>4
<1>3. <<Head(q)>> \in Seq(Lists) /\ QueueBytes(<<Head(q)>>) = BytesIn(Head(q))
  BY <1>1, QueueOne
<1>4. QueueBytes(<<Head(q)>> \o Tail(q)) = QueueBytes(<<Head(q)>>) \o QueueBytes(Tail(q))
  BY <1>1, <1>3, QueueConcat
<1> QED
  BY <1>1, <1>2, <1>3, <1>4

\* The buffers that wait.
Whole(p) == [p |-> p, left |-> Size[p]]

\* A buffer of which nothing was written is an entry.
LEMMA WholeType == ASSUME SocketAssumption, NEW p \in Buffers PROVE Whole(p) \in Entry
  BY Sizes0 DEF Whole, Entry, Iov

\* BufferList makes an entry of each buffer.
LEMMA BufferListType ==
  ASSUME SocketAssumption, NEW q \in Seq(Buffers)
  PROVE  /\ BufferList(q) \in Seq(Entry) /\ Len(BufferList(q)) = Len(q)
         /\ \A i \in 1 .. Len(q) : BufferList(q)[i] = Whole(q[i])
<1>1. Len(q) \in Nat /\ DOMAIN q = 1 .. Len(q) /\ \A i \in 1 .. Len(q) : q[i] \in Buffers
  BY LenProperties, ElementOfSeq
<1>2. BufferList(q) = [i \in 1 .. Len(q) |-> Whole(q[i])]
  BY <1>1 DEF BufferList, Whole
<1>3. BufferList(q) \in [1 .. Len(q) -> Entry]
  BY <1>1, <1>2, WholeType
<1>4. BufferList(q) \in Seq(Entry) /\ Len(BufferList(q)) = Len(q)
  BY <1>1, <1>3, FunIsSeq
<1> QED
  BY <1>2, <1>4

\* No buffers, no entries.
LEMMA BufferListNone == BufferList(<<>>) = <<>>
  BY DEF BufferList

\* BufferList of a queue that is not empty is a list that may be queued.
LEMMA BufferListSome == ASSUME SocketAssumption, NEW q \in Seq(Buffers), q # <<>> PROVE BufferList(q) \in Lists
<1>1. Len(q) # 0
  BY EmptySeq
<1>2. BufferList(q) \in Seq(Entry) /\ Len(BufferList(q)) # 0
  BY <1>1, BufferListType
<1> QED
  BY <1>2, EmptySeq DEF Lists

\* One buffer more is one entry more.
LEMMA BufferListGrows ==
  ASSUME SocketAssumption, NEW q \in Seq(Buffers), NEW p \in Buffers
  PROVE  BufferList(Append(q, p)) = Append(BufferList(q), Whole(p))
<1> DEFINE r == Append(q, p)
           b == BufferList(r)
           c == Append(BufferList(q), Whole(p))
<1>1. r \in Seq(Buffers) /\ Len(r) = Len(q) + 1 /\ (\A i \in 1 .. Len(q) : r[i] = q[i]) /\ r[Len(q) + 1] = p
  BY AppendProperties
<1> HIDE DEF r
<1>2. b \in Seq(Entry) /\ Len(b) = Len(q) + 1 /\ \A i \in 1 .. Len(q) + 1 : b[i] = Whole(r[i])
  BY <1>1, BufferListType
<1>3. BufferList(q) \in Seq(Entry) /\ Len(BufferList(q)) = Len(q) /\ Whole(p) \in Entry
      /\ \A i \in 1 .. Len(q) : BufferList(q)[i] = Whole(q[i])
  BY BufferListType, WholeType
<1>4. c \in Seq(Entry) /\ Len(c) = Len(q) + 1 /\ (\A i \in 1 .. Len(q) : c[i] = BufferList(q)[i]) /\ c[Len(q) + 1] = Whole(p)
  BY <1>3, AppendProperties
<1> HIDE DEF b, c
<1>5. \A i \in 1 .. Len(q) + 1 : b[i] = c[i]
  <2> TAKE i \in 1 .. Len(q) + 1
  <2>0. Len(q) \in Nat
    BY LenProperties
  <2>1. i \in 1 .. Len(q) \/ i = Len(q) + 1
    BY <2>0
  <2> QED
    BY <2>1, <1>1, <1>2, <1>3, <1>4
<1>6. b = c
  BY <1>2, <1>4, <1>5, SeqEqual
<1> QED
  BY <1>6 DEF b, c, r

\* One buffer more is its bytes more.
LEMMA BytesGrow ==
  ASSUME SocketAssumption, NEW q \in Seq(Buffers), NEW p \in Buffers
  PROVE  BytesIn(BufferList(Append(q, p))) = BytesIn(BufferList(q)) \o BytesOf(Whole(p))
<1>1. BufferList(q) \in Seq(Entry) /\ Whole(p) \in Entry
  BY BufferListType, WholeType
<1>2. BufferList(Append(q, p)) = BufferList(q) \o <<Whole(p)>>
  BY <1>1, BufferListGrows, AppendIsConcat
<1>3. <<Whole(p)>> \in Seq(Entry) /\ BytesIn(<<Whole(p)>>) = BytesOf(Whole(p))
  BY <1>1, BytesOfOne
<1>4. BytesIn(BufferList(q) \o <<Whole(p)>>) = BytesIn(BufferList(q)) \o BytesIn(<<Whole(p)>>)
  BY <1>1, <1>3, BytesConcat
<1> QED
  BY <1>2, <1>3, <1>4

\* One more buffer is one more piece at the end.
LEMMA UpToNext ==
  ASSUME SocketAssumption, NEW n \in 0 .. Len(Size)
  PROVE  /\ BytesUpTo(n) \in Seq(Byte)
         /\ n < Len(Size) => BytesUpTo(n + 1) = BytesUpTo(n) \o BytesOf(Whole(n + 1))
<1> DEFINE q == [i \in 1 .. n |-> i]
           r == [i \in 1 .. n + 1 |-> i]
<1>1. n \in Nat /\ Len(Size) \in Nat /\ Buffers = 1 .. Len(Size)
  BY Sizes0
<1>2. q \in Seq(Buffers) /\ Len(q) = n
  <2>1. q \in [1 .. n -> Buffers]
    BY <1>1
  <2> QED
    BY <1>1, <2>1, FunIsSeq
<1>3. BytesUpTo(n) \in Seq(Byte)
  BY <1>2, BufferListType, BytesType DEF BytesUpTo
<1>4. ASSUME n < Len(Size) PROVE BytesUpTo(n + 1) = BytesUpTo(n) \o BytesOf(Whole(n + 1))
  <2>1. n + 1 \in Buffers /\ n + 1 \in Nat
    BY <1>1, <1>4
  <2>2. r \in Seq(Buffers) /\ Len(r) = n + 1
    <3>1. r \in [1 .. n + 1 -> Buffers]
      BY <1>1, <1>4
    <3> QED
      BY <2>1, <3>1, FunIsSeq
  <2>3. r = Append(q, n + 1)
    <3>1. /\ Append(q, n + 1) \in Seq(Buffers) /\ Len(Append(q, n + 1)) = n + 1
          /\ (\A i \in 1 .. n : Append(q, n + 1)[i] = q[i]) /\ Append(q, n + 1)[n + 1] = n + 1
      <4> HIDE DEF q
      <4> QED
        BY <1>2, <2>1, AppendProperties
    <3>2. \A i \in 1 .. n + 1 : r[i] = Append(q, n + 1)[i]
      <4> TAKE i \in 1 .. n + 1
      <4>1. i \in 1 .. n \/ i = n + 1
        BY <1>1
      <4>2. r[i] = i /\ (i \in 1 .. n => q[i] = i)
        OBVIOUS
      <4> HIDE DEF q, r
      <4> QED
        BY <3>1, <4>1, <4>2
    <3> HIDE DEF q, r
    <3> QED
      BY <2>2, <3>1, <3>2, SeqEqual
  <2> HIDE DEF q, r
  <2>4. BytesIn(BufferList(r)) = BytesIn(BufferList(q)) \o BytesOf(Whole(n + 1))
    BY <1>2, <2>1, <2>3, BytesGrow
  <2> QED
    BY <2>4 DEF q, r, BytesUpTo
<1> QED
  BY <1>3, <1>4

-----------------------------------------------------------------------------
(* One step of one thread. *)

\* Thread t is in frame f now, the others are where they were.
Becomes(t, f) ==
  /\ f \in Frame /\ thread' \in [Threads -> Frame]
  /\ thread'[t] = f /\ \A u \in Threads \ {t} : thread'[u] = thread[u]

\* The parts of a thread's frame.
LEMMA FrameParts ==
  ASSUME TypeInv, NEW t \in Threads
  PROVE  /\ thread[t].pc \in PCs /\ thread[t].tmp \in Seq(Lists)
         /\ thread[t].part \in BOOLEAN /\ thread[t].poller \in BOOLEAN
         /\ thread[t] \in Frame
  BY DEF TypeInv, Frame

\* Goto changes the place and nothing else of the frame.
LEMMA GotoBecomes ==
  ASSUME TypeInv, NEW t \in Threads, NEW pc \in PCs, Goto(t, pc)
  PROVE  Becomes(t, [pc |-> pc, tmp |-> thread[t].tmp, part |-> thread[t].part, poller |-> thread[t].poller])
<1> DEFINE f == [pc |-> pc, tmp |-> thread[t].tmp, part |-> thread[t].part, poller |-> thread[t].poller]
<1>1. thread \in [Threads -> Frame] /\ thread[t] \in Frame
  BY FrameParts DEF TypeInv
<1>2. [thread[t] EXCEPT !.pc = pc] = f
  BY <1>1 DEF Frame
<1>3. f \in Frame
  BY <1>1 DEF Frame
<1>4. thread' = [thread EXCEPT ![t] = [thread[t] EXCEPT !.pc = pc]]
  BY <1>1 DEF Goto
<1> HIDE DEF f
<1>5. thread' = [thread EXCEPT ![t] = f]
  BY <1>2, <1>4
<1>6. Becomes(t, f)
  BY <1>1, <1>3, <1>5 DEF Becomes
<1> QED
  BY <1>6 DEF f

\* Inside makes the frame anew.
LEMMA InsideBecomes ==
  ASSUME TypeInv, NEW t \in Threads, NEW pc \in PCs, NEW tmp \in Seq(Lists), NEW part \in BOOLEAN,
         NEW poller \in BOOLEAN, Inside(t, pc, tmp, part, poller)
  PROVE  Becomes(t, [pc |-> pc, tmp |-> tmp, part |-> part, poller |-> poller])
<1> DEFINE f == [pc |-> pc, tmp |-> tmp, part |-> part, poller |-> poller]
<1>1. thread \in [Threads -> Frame]
  BY DEF TypeInv
<1>2. f \in Frame
  BY DEF Frame
<1>3. thread' = [thread EXCEPT ![t] = f]
  BY DEF Inside
<1> HIDE DEF f
<1>4. Becomes(t, f)
  BY <1>1, <1>2, <1>3 DEF Becomes
<1> QED
  BY <1>4 DEF f

\* The frame of a thread that is in no call.
LEMMA RestIsFrame == Rest \in Frame /\ Rest.pc = "idle" /\ Rest.tmp = <<>> /\ Rest.part = FALSE /\ Rest.poller = FALSE
  BY DEF Rest, Frame, PCs

\* Done empties the frame.
LEMMA DoneBecomes ==
  ASSUME TypeInv, NEW t \in Threads, Done(t)
  PROVE  Becomes(t, Rest)
<1> USE RestIsFrame
<1>1. thread \in [Threads -> Frame] /\ thread' = [thread EXCEPT ![t] = Rest]
  BY DEF TypeInv, Done
<1> QED
  BY <1>1 DEF Becomes

\* Flush starts with an empty list.
LEMMA FlushBecomes ==
  ASSUME TypeInv, NEW t \in Threads, NEW p \in BOOLEAN, Flush(t, p)
  PROVE  Becomes(t, [pc |-> "flush", tmp |-> <<>>, part |-> FALSE, poller |-> p])
<1>1. "flush" \in PCs /\ <<>> \in Seq(Lists)
  BY DEF PCs
<1> QED
  BY <1>1, InsideBecomes DEF Flush

\* sendmsg is never given entries without a byte.
LEMMA Nonzero ==
  ASSUME SocketAssumption, NEW l \in Lists, NEW m \in 1 .. Len(l)
  PROVE  LeftIn(SubSeq(l, 1, m)) \in Nat \ {0}
<1> DEFINE a == SubSeq(l, 1, m)
           h == SubSeq(l, 1, m - 1)
<1>1. l \in Seq(Entry) /\ Len(l) \in Nat /\ m \in 0 .. Len(l) /\ m - 1 \in 0 .. Len(l) /\ l[m] \in Entry
  <2>1. l \in Seq(Entry)
    BY DEF Lists
  <2>2. Len(l) \in Nat /\ l[m] \in Entry
    BY <2>1, LenProperties, ElementOfSeq
  <2> QED
    BY <2>1, <2>2
<1>2. a \in Seq(Entry) /\ h \in Seq(Entry)
  BY <1>1, CutAt
<1>3. 1 \in 1 .. Len(l) /\ m \in 1 .. Len(l)
  BY <1>1
<1>4. a = h \o <<l[m]>>
  BY <1>1, <1>3, SubSeqRecursiveSecond
<1> HIDE DEF a, h
<1>5. <<l[m]>> \in Seq(Entry) /\ BytesIn(<<l[m]>>) = BytesOf(l[m])
  BY <1>1, BytesOfOne
<1>6. BytesOf(l[m]) \in Seq(Byte) /\ Len(BytesOf(l[m])) \in Nat \ {0}
  BY <1>1, BytesOfType
<1>7. BytesIn(a) = BytesIn(h) \o BytesOf(l[m])
  BY <1>2, <1>4, <1>5, BytesConcat
<1>8. BytesIn(h) \in Seq(Byte) /\ Len(BytesIn(h)) \in Nat
  BY <1>2, BytesType
<1>9. Len(BytesIn(a)) = Len(BytesIn(h)) + Len(BytesOf(l[m]))
  BY <1>6, <1>7, <1>8, ConcatProperties
<1>10. LeftIn(a) \in Nat \ {0}
  BY <1>6, <1>8, <1>9 DEF LeftIn
<1> QED
  BY <1>10 DEF a

\* What sendmsg does: it moves a first piece of the list to the wire.
LEMMA SendMsgMoves ==
  ASSUME SocketAssumption, TypeInv, NEW t \in Threads, SendMsg(t)
  PROVE  \E x \in Seq(Byte), tmp \in Seq(Lists), part \in BOOLEAN :
           /\ x # <<>> /\ wire' = wire \o x
           /\ room' \in 0 .. Room
           /\ QueueBytes(thread[t].tmp) = x \o QueueBytes(tmp)
           /\ Becomes(t, [pc |-> "write", tmp |-> tmp, part |-> part, poller |-> thread[t].poller])
<1> DEFINE q == thread[t].tmp
           l == Head(q)
           more == Tail(q)
           m == Least(IovMax, Len(l))
           n == Taken(l)
           rest == ReOffset(l, n)
           x == SubSeq(Given(l), 1, n)
           tmp == IF rest = <<>> THEN more ELSE <<rest>> \o more
<1>1. q \in Seq(Lists) /\ q # <<>> /\ room > 0 /\ room \in 0 .. Room /\ thread[t].poller \in BOOLEAN
  BY FrameParts DEF SendMsg, TypeInv
<1>2. /\ wire' = wire \o x /\ room' = room - n
      /\ Inside(t, "write", tmp, rest # <<>>, thread[t].poller)
  BY DEF SendMsg
<1>3. l \in Lists /\ more \in Seq(Lists) /\ QueueBytes(q) = BytesIn(l) \o QueueBytes(more)
  BY <1>1, QueueHead
<1> HIDE DEF l, more, q
<1>4. l \in Seq(Entry) /\ Len(l) \in Nat \ {0}
  <2>1. l \in Seq(Entry) /\ l # <<>>
    BY <1>3 DEF Lists
  <2> QED
    BY <2>1, EmptySeq
<1>5. m \in 1 .. Len(l) /\ m \in 0 .. Len(l)
  BY <1>4 DEF Least, SocketAssumption
<1>6. Given(l) = BytesIn(SubSeq(l, 1, m))
  BY DEF Given
<1>7. Given(l) \in Seq(Byte) /\ Len(Given(l)) \in Nat \ {0}
  <2>1. SubSeq(l, 1, m) \in Seq(Entry)
    BY <1>4, <1>5, CutAt
  <2>2. LeftIn(SubSeq(l, 1, m)) \in Nat \ {0}
    BY <1>3, <1>5, Nonzero
  <2> QED
    BY <1>6, <2>1, <2>2, BytesType DEF LeftIn
<1> HIDE DEF m
<1>8. n \in 1 .. Len(Given(l)) /\ n <= room /\ n \in 0 .. Len(Given(l))
  BY <1>1, <1>7 DEF Taken, Least, SocketAssumption
<1> HIDE DEF n
<1>9. rest \in Seq(Entry) /\ BytesIn(l) = x \o BytesIn(rest)
  BY <1>4, <1>5, <1>6, <1>8, ReOffsetRest
<1>10. x \in Seq(Byte) /\ Len(x) = n
  BY <1>7, <1>8, CutAt
<1> HIDE DEF rest, x
<1>11. x # <<>>
  <2>1. Len(x) # 0
    BY <1>8, <1>10
  <2> QED
    BY <2>1, EmptySeq
<1>12. tmp \in Seq(Lists) /\ QueueBytes(tmp) = BytesIn(rest) \o QueueBytes(more)
  <2>1. QueueBytes(more) \in Seq(Byte)
    BY <1>3, QueueType
  <2>2. CASE rest = <<>>
    BY <2>1, <2>2, <1>3, BytesOfNone, ConcatEmptySeq
  <2>3. CASE rest # <<>>
    <3>1. rest \in Lists
      BY <2>3, <1>9 DEF Lists
    <3>2. <<rest>> \in Seq(Lists) /\ QueueBytes(<<rest>>) = BytesIn(rest)
      BY <3>1, QueueOne
    <3>3. <<rest>> \o more \in Seq(Lists) /\ QueueBytes(<<rest>> \o more) = QueueBytes(<<rest>>) \o QueueBytes(more)
      BY <3>2, <1>3, QueueConcat
    <3> QED
      BY <2>3, <3>2, <3>3
  <2> QED
    BY <2>2, <2>3
<1> DEFINE part == rest # <<>>
<1>13. Inside(t, "write", tmp, part, thread[t].poller) /\ part \in BOOLEAN
  BY <1>2
<1> HIDE DEF tmp, part
<1>14. Becomes(t, [pc |-> "write", tmp |-> tmp, part |-> part, poller |-> thread[t].poller])
  <2>1. "write" \in PCs
    BY DEF PCs
  <2> QED
    BY <2>1, <1>1, <1>12, <1>13, InsideBecomes
<1>15. QueueBytes(q) = x \o QueueBytes(tmp)
  <2> DEFINE b == BytesIn(rest)
             c == QueueBytes(more)
  <2>1. b \in Seq(Byte) /\ c \in Seq(Byte)
    BY <1>3, <1>9, BytesType, QueueType
  <2>2. QueueBytes(q) = (x \o b) \o c /\ QueueBytes(tmp) = b \o c
    BY <1>3, <1>9, <1>12
  <2> HIDE DEF b, c
  <2>3. (x \o b) \o c = x \o (b \o c)
    BY <2>1, <1>10, Associates
  <2> QED
    BY <2>2, <2>3
<1>16. room' \in 0 .. Room
  BY <1>1, <1>2, <1>8, <1>7 DEF SocketAssumption
<1> QED
  BY <1>2, <1>10, <1>11, <1>12, <1>13, <1>14, <1>15, <1>16 DEF q

-----------------------------------------------------------------------------
(* Types. *)

\* A step of one thread keeps the type of all frames.
LEMMA Moves ==
  ASSUME NEW t \in Threads, NEW f, Becomes(t, f)
  PROVE  thread' \in [Threads -> Frame]
  BY DEF Becomes

\* The places where a thread may be.
LEMMA PCsAre ==
  /\ "idle" \in PCs /\ "push" \in PCs /\ "sent" \in PCs /\ "flush" \in PCs /\ "take" \in PCs /\ "write" \in PCs
  /\ "putback" \in PCs /\ "start" \in PCs /\ "start event" \in PCs /\ "stop" \in PCs
  /\ "stop event" \in PCs /\ "flushed" \in PCs /\ "able" \in PCs /\ "emit" \in PCs /\ "close" \in PCs
  BY DEF PCs

\* Inside keeps the type of the frames.
LEMMA InsideMoves ==
  ASSUME TypeInv, NEW t \in Threads, NEW pc \in PCs, NEW tmp \in Seq(Lists),
         Inside(t, pc, tmp, thread[t].part, thread[t].poller)
  PROVE  thread' \in [Threads -> Frame]
<1> DEFINE f == [pc |-> pc, tmp |-> tmp, part |-> thread[t].part, poller |-> thread[t].poller]
<1>1. f \in Frame /\ thread' = [thread EXCEPT ![t] = f] /\ thread \in [Threads -> Frame]
  BY FrameParts DEF Frame, Inside, TypeInv
<1> HIDE DEF f
<1> QED
  BY <1>1

\* So do the other steps of a thread.
LEMMA SomeFrame ==
  ASSUME TypeInv, NEW t \in Threads
  PROVE  /\ \A pc \in PCs : Goto(t, pc) => thread' \in [Threads -> Frame]
         /\ Done(t) => thread' \in [Threads -> Frame]
         /\ \A p \in BOOLEAN : Flush(t, p) => thread' \in [Threads -> Frame]
  BY GotoBecomes, DoneBecomes, FlushBecomes, Moves

\* A new socket has the types.
LEMMA TypeInvInit == ASSUME SocketAssumption, Init PROVE TypeInv
<1>1. thread \in [Threads -> Frame]
  BY RestIsFrame DEF Init
<1>2. posted \in 0 .. Len(Size) /\ flushed \in 0 .. posted /\ room \in 0 .. Room
  BY Sizes0 DEF SocketAssumption, Init
<1>3. waiting \in Seq(Buffers) /\ sending \in Seq(Lists) /\ wire \in Seq(Byte)
  BY EmptySeq DEF Init
<1> QED
  BY <1>1, <1>2, <1>3 DEF Init, TypeInv

\* Each step of a call keeps the types.
LEMMA TypeInvProceed ==
  ASSUME SocketAssumption, TypeInv, NEW t \in Threads, Proceed(t)
  PROVE  TypeInv'
<1>1. CASE SendFlushes(t)
  <2>1. thread' \in [Threads -> Frame]
    BY <1>1, PCsAre, SomeFrame, FrameParts DEF SendFlushes
  <2> QED
    BY <1>1, <2>1 DEF SendFlushes, TypeInv, queues, kernel, history
<1>2. CASE TakeSending(t)
  <2> DEFINE pc == IF sending = <<>> THEN "take" ELSE "write"
  <2>1. Inside(t, pc, sending, thread[t].part, thread[t].poller) /\ sending' = <<>>
    BY <1>2 DEF TakeSending
  <2>2. pc \in PCs /\ sending \in Seq(Lists) /\ sending' \in Seq(Lists)
    BY <2>1, PCsAre, EmptySeq DEF TypeInv
  <2> HIDE DEF pc
  <2>3. thread' \in [Threads -> Frame]
    BY <2>1, <2>2, InsideMoves
  <2> QED
    BY <1>2, <2>2, <2>3 DEF TakeSending, TypeInv, queues, kernel, history
<1>3. CASE TakeWaiting(t)
  <2>1. waiting \in Seq(Buffers) /\ <<>> \in Seq(Buffers)
    BY DEF TypeInv
  <2>2. thread' \in [Threads -> Frame] /\ waiting' \in Seq(Buffers)
    <3>1. CASE waiting # <<>> /\ Inside(t, "write", <<BufferList(waiting)>>, thread[t].part, thread[t].poller) /\ waiting' = <<>>
      <4>1. <<BufferList(waiting)>> \in Seq(Lists)
        BY <2>1, <3>1, BufferListSome, QueueOne
      <4>2. thread' \in [Threads -> Frame]
        BY <3>1, <4>1, InsideMoves, PCsAre
      <4> QED
        BY <2>1, <3>1, <4>2
    <3>2. CASE waiting' = waiting /\ (Goto(t, "stop") \/ Done(t))
      BY <2>1, <3>2, SomeFrame, PCsAre
    <3> QED
      BY <1>3, <3>1, <3>2 DEF TakeWaiting
  <2> QED
    BY <1>3, <2>2 DEF TakeWaiting, TypeInv, queues, kernel, history
<1>4. CASE WroteAll(t)
  <2>1. thread' \in [Threads -> Frame]
    BY <1>4, PCsAre, SomeFrame, FrameParts DEF WroteAll
  <2> QED
    BY <1>4, <2>1 DEF WroteAll, TypeInv, queues, kernel, history
<1>5. CASE SendMsg(t)
  <2>1. PICK x \in Seq(Byte), tmp \in Seq(Lists), part \in BOOLEAN :
          /\ wire' = wire \o x /\ room' \in 0 .. Room
          /\ Becomes(t, [pc |-> "write", tmp |-> tmp, part |-> part, poller |-> thread[t].poller])
    BY <1>5, SendMsgMoves
  <2>2. thread' \in [Threads -> Frame]
    BY <2>1, Moves
  <2>3. wire' \in Seq(Byte)
    BY <2>1, ConcatProperties DEF TypeInv
  <2> QED
    BY <1>5, <2>1, <2>2, <2>3 DEF SendMsg, TypeInv, queues, history
<1>6. CASE KernelFull(t)
  <2>1. thread' \in [Threads -> Frame]
    BY <1>6, PCsAre, SomeFrame, FrameParts DEF KernelFull
  <2> QED
    BY <1>6, <2>1 DEF KernelFull, TypeInv, queues, kernel, history
<1>7. CASE WriteFails(t)
  <2>1. Inside(t, "emit", <<>>, FALSE, FALSE)
    BY <1>7 DEF WriteFails
  <2>2. <<>> \in Seq(Lists)
    BY EmptySeq
  <2>3. thread' \in [Threads -> Frame]
    BY <2>1, <2>2, InsideBecomes, Moves, PCsAre
  <2> QED
    BY <1>7, <2>3 DEF WriteFails, TypeInv, queues, kernel, history
<1>8. CASE PutBack(t)
  <2>1. thread[t].tmp \in Seq(Lists) /\ sending \in Seq(Lists) /\ sending' = thread[t].tmp \o sending
    BY <1>8, FrameParts DEF PutBack, TypeInv
  <2>2. sending' \in Seq(Lists)
    BY <2>1, QueueConcat
  <2>3. thread' \in [Threads -> Frame]
    BY <1>8, SomeFrame DEF PutBack
  <2> QED
    BY <1>8, <2>2, <2>3 DEF PutBack, TypeInv, queues, kernel, history
<1>9. CASE StartWriteAbleEvent(t)
  <2>1. thread' \in [Threads -> Frame]
    BY <1>9, PCsAre, SomeFrame, FrameParts DEF StartWriteAbleEvent
  <2> QED
    BY <1>9, <2>1 DEF StartWriteAbleEvent, TypeInv, queues, kernel, history
<1>10. CASE StopWriteAbleEvent(t)
  <2>1. thread' \in [Threads -> Frame]
    BY <1>10, PCsAre, SomeFrame, FrameParts DEF StopWriteAbleEvent
  <2> QED
    BY <1>10, <2>1 DEF StopWriteAbleEvent, TypeInv, queues, kernel, history
<1>11. CASE OnFlushed(t)
  <2>1. thread' \in [Threads -> Frame]
    BY <1>11, PCsAre, SomeFrame, FrameParts DEF OnFlushed
  <2> QED
    BY <1>11, <2>1 DEF OnFlushed, TypeInv, queues, kernel, history
<1>12. CASE EmitErr(t)
  <2>1. thread' \in [Threads -> Frame]
    BY <1>12, PCsAre, SomeFrame, FrameParts DEF EmitErr
  <2> QED
    BY <1>12, <2>1 DEF EmitErr, TypeInv, queues, kernel, history
<1>13. CASE CloseSock(t)
  <2>1. thread' \in [Threads -> Frame]
    BY <1>13, PCsAre, SomeFrame, FrameParts DEF CloseSock
  <2>2. late' \in Nat /\ errs' \in Nat /\ open' \in BOOLEAN
    <3>1. open' = FALSE
      BY <1>13 DEF CloseSock
    <3>2. late \in Nat /\ errs \in Nat
      BY DEF TypeInv
    <3>3. /\ t = Loop => errs' = errs + 1 /\ late' = late
          /\ t # Loop => late' = late + 1 /\ errs' = errs
      BY <1>13 DEF CloseSock
    <3>4. late' \in Nat /\ errs' \in Nat
      BY <3>2, <3>3
    <3> QED
      BY <3>1, <3>4
  <2> QED
    BY <1>13, <2>1, <2>2 DEF CloseSock, TypeInv, queues, kernel, history
<1>14. CASE Push(t)
  <2>1. /\ posted \in 0 .. Len(Size) /\ flushed \in 0 .. posted /\ posted < Len(Size)
        /\ posted' = posted + 1 /\ waiting' = Append(waiting, posted + 1)
        /\ flushed' = flushed \/ flushed' = posted + 1
    BY <1>14 DEF Push, TypeInv
  <2>2. posted + 1 \in Buffers /\ posted' \in 0 .. Len(Size) /\ flushed' \in 0 .. posted'
    <3>1. Len(Size) \in Nat /\ Buffers = 1 .. Len(Size)
      BY Sizes0
    <3> QED
      BY <2>1, <3>1
  <2>3. waiting' \in Seq(Buffers)
    BY <2>1, <2>2, AppendProperties DEF TypeInv
  <2>4. thread' \in [Threads -> Frame]
    BY <1>14, PCsAre, SomeFrame DEF Push, TypeInv
  <2> QED
    BY <1>14, <2>2, <2>3, <2>4 DEF Push, TypeInv, kernel
<1> QED
  BY <1>1, <1>2, <1>3, <1>4, <1>5, <1>6, <1>7, <1>8, <1>9, <1>10, <1>11, <1>12, <1>13, <1>14 DEF Proceed

\* Every step keeps the types.
LEMMA TypeInvNext ==
  ASSUME SocketAssumption, TypeInv, [Next]_vars
  PROVE  TypeInv'
<1>0. Loop \in Threads /\ Others \subseteq Threads /\ Senders \subseteq Threads
  BY DEF Threads, SocketAssumption
<1>1. ASSUME NEW t \in Threads, Proceed(t) PROVE TypeInv'
  BY <1>1, TypeInvProceed
<1>2. CASE EpollEvent
  BY <1>2 DEF EpollEvent, TypeInv, queues, kernel, history
<1>3. CASE OnRead
  <2>1. thread' \in [Threads -> Frame]
    BY <1>3, <1>0, PCsAre, SomeFrame DEF OnRead, TypeInv
  <2> QED
    BY <1>3, <2>1 DEF OnRead, TypeInv, queues, kernel, history
<1>4. CASE OnWriteAble
  <2>1. thread' \in [Threads -> Frame]
    BY <1>4, <1>0, PCsAre, SomeFrame, FrameParts DEF OnWriteAble
  <2> QED
    BY <1>4, <2>1 DEF OnWriteAble, TypeInv, queues, kernel, history
<1>5. CASE OnWriteAbleSending
  <2>1. thread' \in [Threads -> Frame]
    BY <1>5, <1>0, PCsAre, SomeFrame, FrameParts DEF OnWriteAbleSending
  <2> QED
    BY <1>5, <2>1 DEF OnWriteAbleSending, TypeInv, queues, kernel, history
<1>6. CASE OnError
  <2>1. thread' \in [Threads -> Frame]
    BY <1>6, <1>0, PCsAre, SomeFrame, FrameParts DEF OnError
  <2> QED
    BY <1>6, <2>1 DEF OnError, TypeInv, queues, kernel, history
<1>7. CASE OnErr
  BY <1>7 DEF OnErr, TypeInv, queues, kernel, history
<1>8. CASE WaitForFlush
  BY <1>8 DEF WaitForFlush, TypeInv, queues, kernel, history
<1>9. ASSUME NEW t \in Threads, Send(t) PROVE TypeInv'
  <2>1. thread' \in [Threads -> Frame]
    BY <1>9, PCsAre, SomeFrame DEF Send
  <2> QED
    BY <1>9, <2>1 DEF Send, TypeInv, queues, kernel, history
<1>10. ASSUME NEW t \in Threads, Shutdown(t) PROVE TypeInv'
  <2>1. thread' \in [Threads -> Frame]
    BY <1>10, PCsAre, SomeFrame DEF Shutdown
  <2> QED
    BY <1>10, <2>1 DEF Shutdown, TypeInv, queues, kernel, history
<1>11. CASE PeerReads
  BY <1>11 DEF PeerReads, SocketAssumption, TypeInv, queues, history
<1>12. CASE PeerWrites
  BY <1>12 DEF PeerWrites, TypeInv, queues, history
<1>13. CASE PeerResets
  BY <1>13 DEF PeerResets, TypeInv, queues, history
<1>14. CASE UNCHANGED vars
  BY <1>14 DEF vars, TypeInv, queues, kernel, history
<1> QED
  BY <1>0, <1>1, <1>2, <1>3, <1>4, <1>5, <1>6, <1>7, <1>8, <1>9, <1>10, <1>11, <1>12, <1>13, <1>14 DEF Next, LoopStep

\* Every reachable state of a socket has the types, for any buffers, threads and senders
\* (Socket::send, flushData, onWriteAble).
THEOREM SocketTyped == Spec => []TypeOK
<1>1. Init => TypeInv
  BY SocketAssumption, TypeInvInit
<1>2. TypeInv /\ [Next]_vars => TypeInv'
  BY SocketAssumption, TypeInvNext
<1>3. TypeInv => TypeOK
  BY TypeInvGivesTypeOK
<1> QED
  BY <1>1, <1>2, <1>3, PTL DEF Spec

-----------------------------------------------------------------------------
(* Errors. *)


\* The threads that stand at a place, those that are about to close the socket, and those
\* that are about to push a buffer.
Those(place) == {t \in Threads : thread[t].pc = place}
Closers == Those("close")
Pushers == Those("push")

\* An open socket has not told of an end, and every thread tells at most once: the errors
\* told, those posted and the threads about to post one are no more than the threads.
ErrorInv ==
  /\ TypeInv
  /\ open => errs = 0 /\ late = 0
  /\ errs + late + Cardinality(Closers) <= Cardinality(Threads)

\* The threads can be counted.
LEMMA ThreadsFinite == ASSUME SocketAssumption PROVE IsFiniteSet(Threads) /\ Cardinality(Threads) \in Nat
<1>1. IsFiniteSet({Loop} \cup Others)
  BY FS_Singleton, FS_Union DEF SocketAssumption
<1> QED
  BY <1>1, FS_CardinalityType DEF Threads

\* So can the threads about to close.
LEMMA ClosersFinite ==
  ASSUME SocketAssumption
  PROVE  IsFiniteSet(Closers) /\ Cardinality(Closers) \in Nat /\ Cardinality(Closers) <= Cardinality(Threads)
<1>1. Closers \subseteq Threads
  BY DEF Closers, Those
<1> QED
  BY <1>1, ThreadsFinite, FS_Subset, FS_CardinalityType

\* A step in which nobody begins to close the socket or is done with it.
LEMMA ErrorStays ==
  ASSUME SocketAssumption, ErrorInv, TypeInv', open' = open, errs' = errs, late' = late, Closers' = Closers
  PROVE  ErrorInv'
  BY DEF ErrorInv

\* A thread that comes from elsewhere and goes elsewhere does not stand there.
LEMMA ThoseStay ==
  ASSUME NEW t \in Threads, NEW f, NEW place, Becomes(t, f), thread[t].pc # place, f.pc # place
  PROVE  Those(place)' = Those(place)
<1>1. \A u \in Threads : thread'[u].pc = place <=> thread[u].pc = place
  BY DEF Becomes
<1> QED
  BY <1>1 DEF Those

\* The steps that go to another place than that one.
LEMMA PassingBy ==
  ASSUME TypeInv, NEW t \in Threads, NEW place, place \notin {"idle", "flush", "emit"}, thread[t].pc # place
  PROVE  /\ \A pc \in PCs \ {place} : Goto(t, pc) => Those(place)' = Those(place)
         /\ \A pc \in PCs \ {place} : \A tmp :
              Inside(t, pc, tmp, thread[t].part, thread[t].poller) => Those(place)' = Those(place)
         /\ Inside(t, "emit", <<>>, FALSE, FALSE) => Those(place)' = Those(place)
         /\ Done(t) => Those(place)' = Those(place)
         /\ \A p \in BOOLEAN : Flush(t, p) => Those(place)' = Those(place)
<1>1. thread \in [Threads -> Frame]
  BY DEF TypeInv
<1>2. ASSUME \A u \in Threads : thread'[u].pc = place <=> thread[u].pc = place PROVE Those(place)' = Those(place)
  BY <1>2 DEF Those
<1>3. ASSUME NEW pc \in PCs \ {place}, Goto(t, pc) PROVE Those(place)' = Those(place)
  BY <1>3, GotoBecomes, ThoseStay
<1>4. ASSUME NEW pc \in PCs \ {place}, NEW tmp, NEW part, NEW poller, Inside(t, pc, tmp, part, poller)
      PROVE  Those(place)' = Those(place)
  <2> DEFINE f == [pc |-> pc, tmp |-> tmp, part |-> part, poller |-> poller]
  <2>1. thread' = [thread EXCEPT ![t] = f] /\ f.pc = pc
    BY <1>4 DEF Inside
  <2> HIDE DEF f
  <2>2. \A u \in Threads : thread'[u].pc = place <=> thread[u].pc = place
    BY <1>1, <1>4, <2>1
  <2> QED
    BY <1>2, <2>2
<1>5. ASSUME Done(t) PROVE Those(place)' = Those(place)
  BY <1>5, DoneBecomes, ThoseStay, RestIsFrame
<1>6. "emit" \in PCs \ {place} /\ "flush" \in PCs \ {place}
  BY DEF PCs
<1> QED
  BY <1>3, <1>4, <1>5, <1>6 DEF Flush

\* They make no closer,
LEMMA Passing ==
  ASSUME TypeInv, NEW t \in Threads, thread[t].pc # "close"
  PROVE  /\ \A pc \in PCs \ {"close"} : Goto(t, pc) => Closers' = Closers
         /\ \A pc \in PCs \ {"close"} : \A tmp : Inside(t, pc, tmp, thread[t].part, thread[t].poller) => Closers' = Closers
         /\ Inside(t, "emit", <<>>, FALSE, FALSE) => Closers' = Closers
         /\ Done(t) => Closers' = Closers
         /\ \A p \in BOOLEAN : Flush(t, p) => Closers' = Closers
<1>1. "close" \notin {"idle", "flush", "emit"}
  OBVIOUS
<1> QED
  BY <1>1, PassingBy, Zenon DEF Closers

\* and nobody who pushes.
LEMMA PassingPush ==
  ASSUME TypeInv, NEW t \in Threads, thread[t].pc # "push"
  PROVE  /\ \A pc \in PCs \ {"push"} : Goto(t, pc) => Pushers' = Pushers
         /\ \A pc \in PCs \ {"push"} : \A tmp : Inside(t, pc, tmp, thread[t].part, thread[t].poller) => Pushers' = Pushers
         /\ Inside(t, "emit", <<>>, FALSE, FALSE) => Pushers' = Pushers
         /\ Done(t) => Pushers' = Pushers
         /\ \A p \in BOOLEAN : Flush(t, p) => Pushers' = Pushers
<1>1. "push" \notin {"idle", "flush", "emit"}
  OBVIOUS
<1> QED
  BY <1>1, PassingBy, Zenon DEF Pushers

\* Each step of a call keeps the count of errors.
LEMMA ErrorProceed ==
  ASSUME SocketAssumption, ErrorInv, TypeInv', NEW t \in Threads, Proceed(t)
  PROVE  ErrorInv'
<1>0. TypeInv
  BY DEF ErrorInv
<1>1. CASE Push(t) \/ SendFlushes(t) \/ TakeSending(t) \/ TakeWaiting(t) \/ WroteAll(t) \/ KernelFull(t) \/ WriteFails(t)
           \/ PutBack(t) \/ StartWriteAbleEvent(t) \/ StopWriteAbleEvent(t) \/ OnFlushed(t)
  <2>1. thread[t].pc # "close" /\ open' = open /\ errs' = errs /\ late' = late
    BY <1>1 DEF Push, SendFlushes, TakeSending, TakeWaiting, WroteAll, KernelFull, WriteFails, PutBack,
                StartWriteAbleEvent, StopWriteAbleEvent, OnFlushed, At
  <2>2. \/ \E pc \in PCs \ {"close"} : Goto(t, pc)
        \/ \E pc \in PCs \ {"close"} : \E tmp : Inside(t, pc, tmp, thread[t].part, thread[t].poller)
        \/ Inside(t, "emit", <<>>, FALSE, FALSE)
        \/ Done(t)
        \/ \E p \in BOOLEAN : Flush(t, p)
    <3>1. CASE Push(t) \/ SendFlushes(t) \/ WroteAll(t) \/ KernelFull(t) \/ WriteFails(t) \/ PutBack(t) \/ OnFlushed(t)
      BY <3>1 DEF Push, SendFlushes, WroteAll, KernelFull, WriteFails, PutBack, OnFlushed, PCs
    <3>2. CASE TakeSending(t) \/ TakeWaiting(t)
      BY <3>2 DEF TakeSending, TakeWaiting, PCs
    <3>3. CASE StartWriteAbleEvent(t) \/ StopWriteAbleEvent(t)
      BY <3>3 DEF StartWriteAbleEvent, StopWriteAbleEvent, PCs
    <3> QED
      BY <1>1, <3>1, <3>2, <3>3
  <2>3. Closers' = Closers
    BY <1>0, <2>1, <2>2, Passing
  <2> QED
    BY <2>1, <2>3, ErrorStays
<1>2. CASE SendMsg(t)
  <2>1. thread[t].pc # "close" /\ open' = open /\ errs' = errs /\ late' = late
    BY <1>2 DEF SendMsg, At, history
  <2>2. PICK x \in Seq(Byte), tmp \in Seq(Lists), part \in BOOLEAN :
          Becomes(t, [pc |-> "write", tmp |-> tmp, part |-> part, poller |-> thread[t].poller])
    BY <1>0, <1>2, SendMsgMoves
  <2>3. Closers' = Closers
    BY <2>1, <2>2, ThoseStay DEF Closers
  <2> QED
    BY <2>1, <2>3, ErrorStays
<1>3. CASE EmitErr(t)
  <2>1. CASE open
    <3>1. errs' = 0 /\ late' = 0 /\ open'
      BY <1>3, <2>1 DEF EmitErr, ErrorInv
    <3>2. Cardinality(Closers') \in Nat /\ Cardinality(Closers') <= Cardinality(Threads)
      <4>1. Closers' \subseteq Threads
        BY DEF Closers, Those
      <4> QED
        BY <4>1, ThreadsFinite, FS_Subset, FS_CardinalityType
    <3> QED
      BY <3>1, <3>2 DEF ErrorInv
  <2>2. CASE ~open
    <3>1. Done(t) /\ thread[t].pc # "close" /\ open' = open /\ errs' = errs /\ late' = late
      BY <1>3, <2>2 DEF EmitErr, At
    <3> QED
      BY <1>0, <3>1, Passing, ErrorStays
  <2> QED
    BY <2>1, <2>2
<1>4. CASE CloseSock(t)
  <2>1. t \in Closers /\ Done(t) /\ ~open'
    BY <1>4 DEF CloseSock, At, Closers, Those
  <2>2. Becomes(t, Rest) /\ Rest.pc # "close"
    BY <1>0, <2>1, DoneBecomes, RestIsFrame
  <2>3. Closers' = Closers \ {t}
    BY <2>1, <2>2 DEF Becomes, Closers, Those
  <2>4. Cardinality(Closers') = Cardinality(Closers) - 1 /\ Cardinality(Closers) \in Nat
    BY <2>1, <2>3, ClosersFinite, FS_RemoveElement
  <2>5. errs \in Nat /\ late \in Nat
    BY <1>0 DEF TypeInv
  <2>6. errs' + late' = errs + late + 1
    <3>1. /\ t = Loop => errs' = errs + 1 /\ late' = late
          /\ t # Loop => late' = late + 1 /\ errs' = errs
      BY <1>4 DEF CloseSock
    <3> QED
      BY <2>5, <3>1
  <2>7. errs' \in Nat /\ late' \in Nat /\ Cardinality(Threads) \in Nat
    BY ThreadsFinite DEF TypeInv
  <2>8. errs' + late' + Cardinality(Closers') <= Cardinality(Threads)
    <3> DEFINE c == Cardinality(Closers)
               d == Cardinality(Closers')
               n == Cardinality(Threads)
    <3>1. c \in Nat /\ d = c - 1 /\ n \in Nat /\ errs + late + c <= n
      BY <2>4, <2>7 DEF ErrorInv
    <3> HIDE DEF c, d, n
    <3>2. ASSUME NEW a \in Nat, NEW b \in Nat, a = b + 1 PROVE b + c <= n => a + d <= n
      BY <3>1, <3>2
    <3>3. errs + late \in Nat
      BY <2>5
    <3>5. errs' + late' \in Nat
      BY <2>6, <3>3
    <3>4. errs' + late' + d <= n
      BY <2>6, <3>1, <3>2, <3>3, <3>5
    <3> QED
      BY <3>4 DEF d, n
  <2> QED
    BY <2>1, <2>8 DEF ErrorInv
<1> QED
  BY <1>1, <1>2, <1>3, <1>4 DEF Proceed

\* Every step keeps it.
LEMMA ErrorNext ==
  ASSUME SocketAssumption, ErrorInv, [Next]_vars
  PROVE  ErrorInv'
<1>0. TypeInv /\ TypeInv'
  BY TypeInvNext DEF ErrorInv
<1>1. Loop \in Threads /\ Others \subseteq Threads /\ Senders \subseteq Threads
  BY DEF Threads, SocketAssumption
<1>2. ASSUME NEW t \in Threads, Proceed(t) PROVE ErrorInv'
  BY <1>0, <1>2, ErrorProceed
<1>3. CASE OnRead \/ OnWriteAble \/ OnWriteAbleSending \/ OnError
  <2>1. thread[Loop].pc # "close" /\ open' = open /\ errs' = errs /\ late' = late
    BY <1>3 DEF OnRead, OnWriteAble, OnWriteAbleSending, OnError, At
  <2>2. \/ \E pc \in PCs \ {"close"} : Goto(Loop, pc)
        \/ \E p \in BOOLEAN : Flush(Loop, p)
        \/ thread' = thread
    BY <1>3 DEF OnRead, OnWriteAble, OnWriteAbleSending, OnError, PCs
  <2>3. Closers' = Closers
    BY <1>0, <1>1, <2>1, <2>2, Passing DEF Closers, Those
  <2> QED
    BY <1>0, <2>1, <2>3, ErrorStays
<1>4. CASE EpollEvent \/ WaitForFlush \/ PeerReads \/ PeerWrites \/ PeerResets \/ UNCHANGED vars
  <2>1. thread' = thread /\ open' = open /\ errs' = errs /\ late' = late
    BY <1>4 DEF EpollEvent, WaitForFlush, PeerReads, PeerWrites, PeerResets, vars
  <2>2. Closers' = Closers
    BY <2>1 DEF Closers, Those
  <2> QED
    BY <1>0, <2>1, <2>2, ErrorStays
<1>5. CASE OnErr
  <2>1. thread' = thread /\ open' = open /\ late' = late - 1 /\ errs' = errs + 1 /\ late > 0
    BY <1>5 DEF OnErr
  <2>2. Closers' = Closers
    BY <2>1 DEF Closers, Those
  <2>3. late \in Nat /\ errs \in Nat /\ late' + errs' = late + errs /\ ~(late = 0)
    BY <1>0, <2>1 DEF TypeInv
  <2>4. ~open /\ errs + late + Cardinality(Closers) <= Cardinality(Threads)
    BY <2>3 DEF ErrorInv
  <2>5. errs' + late' = errs + late
    BY <2>1, <2>3
  <2>6. errs' + late' + Cardinality(Closers') <= Cardinality(Threads)
    BY <2>2, <2>4, <2>5
  <2> QED
    <3>1. ~open'
      BY <2>1, <2>4
    <3> QED
      BY <1>0, <2>6, <3>1 DEF ErrorInv
<1>6. ASSUME NEW t \in Threads, Send(t) \/ Shutdown(t) PROVE ErrorInv'
  <2>1. thread[t].pc # "close" /\ open' = open /\ errs' = errs /\ late' = late
    BY <1>6 DEF Send, Shutdown, At
  <2>2. \E pc \in PCs \ {"close"} : Goto(t, pc)
    BY <1>6 DEF Send, Shutdown, PCs
  <2>3. Closers' = Closers
    BY <1>0, <2>1, <2>2, Passing DEF Closers, Those
  <2> QED
    BY <1>0, <2>1, <2>3, ErrorStays
<1> QED
  BY <1>1, <1>2, <1>3, <1>4, <1>5, <1>6 DEF Next, LoopStep

\* It holds of a new socket.
LEMMA ErrorInit == ASSUME SocketAssumption, Init PROVE ErrorInv
<1>1. Cardinality(Closers) = 0
  <2>1. Closers = {}
    BY RestIsFrame DEF Init, Closers, Those
  <2> QED
    BY <2>1, FS_EmptySet
<1> QED
  <2>1. TypeInv /\ errs = 0 /\ late = 0
    BY TypeInvInit DEF Init
  <2>2. 0 + 0 + 0 <= Cardinality(Threads)
    BY ThreadsFinite
  <2> QED
    BY <1>1, <2>1, <2>2 DEF ErrorInv

\* The count implies the property: each thread has one frame.
LEMMA ErrorGives == ASSUME SocketAssumption, ErrorInv PROVE ErrorPerThread
<1>1. errs \in Nat /\ late \in Nat /\ Cardinality(Closers) \in Nat /\ Cardinality(Threads) \in Nat
  BY ClosersFinite, ThreadsFinite DEF ErrorInv, TypeInv
<1>2. errs + late + Cardinality(Closers) <= Cardinality(Threads)
  BY DEF ErrorInv
<1>3. errs + late <= Cardinality(Threads)
  BY <1>1, <1>2
<1>4. open => errs + late = 0
  BY DEF ErrorInv
<1> QED
  BY <1>3, <1>4 DEF ErrorPerThread

\* A socket that is open has told of no end, and no thread reports one twice: emitErr looks
\* at the descriptor under the lock and closes it after it, so that at most each thread that
\* is in it at the same time posts an error (Socket::emitErr, closeSock).  For any senders.
THEOREM ErrorsCounted == Spec => []ErrorPerThread
<1>1. Init => ErrorInv
  BY SocketAssumption, ErrorInit
<1>2. ErrorInv /\ [Next]_vars => ErrorInv'
  BY SocketAssumption, ErrorNext
<1>3. ErrorInv => ErrorPerThread
  BY SocketAssumption, ErrorGives
<1> QED
  BY <1>1, <1>2, <1>3, PTL DEF Spec

-----------------------------------------------------------------------------
(* The invariant of the stream. *)


\* What the queues and the poller's thread still hold.
Pending == QueueBytes(thread[Loop].tmp) \o (QueueBytes(sending) \o BytesIn(BufferList(waiting)))

\* Nobody but the poller's thread is inside flushData.
Aside == \A t \in Others : thread[t].pc \in {"idle", "emit", "close"}

\* The local list of flushData lives between the queue it came from and the kernel.
InHand ==
  /\ thread[Loop].pc \notin {"write", "putback", "start", "start event"} => thread[Loop].tmp = <<>>
  /\ thread[Loop].pc \in {"take", "write", "putback", "start", "start event", "stop", "stop event"} => sending = <<>>

\* The wire is a prefix of what was posted, and until the peer resets, what is pending is
\* the rest of it.
InOrder ==
  /\ IsPrefix(wire, BytesUpTo(posted))
  /\ ~reset => wire \o Pending = BytesUpTo(posted)

\* What is put back will be noticed.
Noticed ==
  /\ "write" \in events => interest
  /\ thread[Loop].poller => thread[Loop].pc \in {"flush", "take", "write", "putback", "stop", "stop event", "flushed"}
  /\ thread[Loop].poller /\ thread[Loop].pc # "flushed" => interest
  /\ thread[Loop].pc \in {"able", "putback"} => interest
  /\ thread[Loop].poller \/ thread[Loop].pc \in {"able", "stop", "stop event"} => "write" \notin events
  /\ thread[Loop].pc = "stop event" => sendable
  /\ sending # <<>> \/ ~sendable => interest \/ thread[Loop].pc = "start event"

\* The inductive invariant of the stream.
StreamInv == TypeInv /\ Aside /\ InHand /\ InOrder /\ Noticed

\* A sequence is a prefix of itself with more behind it.
LEMMA PrefixOf ==
  ASSUME NEW S, NEW s \in Seq(S), NEW z \in Seq(S)
  PROVE  IsPrefix(s, s \o z) /\ Len(s) <= Len(s \o z) /\ s = SubSeq(s \o z, 1, Len(s)) /\ (z # <<>> => s \o z # s)
<1>1. s \o z \in Seq(S) /\ Len(s \o z) = Len(s) + Len(z) /\ Len(s) \in Nat /\ Len(z) \in Nat
  BY ConcatProperties, LenProperties
<1>2. (s \o z) \o <<>> = s \o z /\ <<>> \in Seq(S)
  BY <1>1, ConcatEmptySeq
<1>3. Len(s) <= Len(s \o z)
  BY <1>1
<1>4. SubSeq(s \o z, 1, Len(s)) = s
  <2> DEFINE c == s \o z
  <2>1. c \in Seq(S) /\ Len(s) <= Len(c) /\ s \o z = c \o <<>>
    BY <1>1, <1>2, <1>3
  <2> HIDE DEF c
  <2>2. SubSeq(c, 1, Len(s)) = s
    BY <1>2, <2>1, TwoCuts
  <2> QED
    BY <2>2 DEF c
<1>5. SubSeq(s, 1, Len(s)) = s
  BY SubSeqFull
<1>6. z # <<>> => s \o z # s
  BY ConcatEqualIffEmpty
<1> QED
  BY <1>3, <1>4, <1>5, <1>6 DEF IsPrefix

\* A prefix stays one when the whole grows.
LEMMA PrefixStays ==
  ASSUME NEW S, NEW s \in Seq(S), NEW u \in Seq(S), NEW z \in Seq(S), IsPrefix(s, u)
  PROVE  IsPrefix(s, u \o z)
<1> DEFINE n == Len(s)
           r == SubSeq(u, n + 1, Len(u))
<1>1. n \in 0 .. Len(u) /\ SubSeq(u, 1, n) = s
  BY LenProperties, SubSeqFull DEF IsPrefix
<1> HIDE DEF n
<1>2. r \in Seq(S) /\ u = s \o r
  BY <1>1, CutAt
<1> HIDE DEF r
<1>3. u \o z = s \o (r \o z) /\ r \o z \in Seq(S)
  <2>1. (s \o r) \o z = s \o (r \o z)
    BY <1>2, Associates
  <2> QED
    BY <1>2, <2>1, ConcatProperties
<1>4. IsPrefix(s, s \o (r \o z))
  BY <1>3, PrefixOf
<1> QED
  BY <1>3, <1>4

\* What is pending, posted and on the wire are bytes.
LEMMA PendingType ==
  ASSUME SocketAssumption, TypeInv
  PROVE  /\ QueueBytes(thread[Loop].tmp) \in Seq(Byte) /\ QueueBytes(sending) \in Seq(Byte)
         /\ BytesIn(BufferList(waiting)) \in Seq(Byte) /\ Pending \in Seq(Byte)
         /\ BytesUpTo(posted) \in Seq(Byte) /\ wire \in Seq(Byte)
<1>1. Loop \in Threads
  BY DEF Threads
<1>2. QueueBytes(thread[Loop].tmp) \in Seq(Byte)
  BY <1>1, FrameParts, QueueType
<1>3. QueueBytes(sending) \in Seq(Byte)
  BY QueueType DEF TypeInv
<1>4. BytesIn(BufferList(waiting)) \in Seq(Byte)
  BY BufferListType, BytesType DEF TypeInv
<1>5. QueueBytes(sending) \o BytesIn(BufferList(waiting)) \in Seq(Byte)
  BY <1>3, <1>4, ConcatProperties
<1>6. Pending \in Seq(Byte)
  BY <1>2, <1>5, ConcatProperties DEF Pending
<1>7. BytesUpTo(posted) \in Seq(Byte)
  BY UpToNext DEF TypeInv
<1> QED
  BY <1>2, <1>3, <1>4, <1>6, <1>7 DEF TypeInv

\* A step that moves bytes between the queues and the local list.
LEMMA OrderStays ==
  ASSUME InOrder, wire' = wire, posted' = posted, reset' = reset, ~reset => Pending' = Pending
  PROVE  InOrder'
<1>1. BytesUpTo(posted)' = BytesUpTo(posted)
  OBVIOUS
<1> QED
  BY <1>1 DEF InOrder

-----------------------------------------------------------------------------
(* The steps of flushData. *)

\* Where the poller's thread is after a step.
LoopIs(pc, tmp, poller) ==
  thread'[Loop].pc = pc /\ thread'[Loop].tmp = tmp /\ thread'[Loop].poller = poller

\* A step of the poller's thread leaves the others aside.
LEMMA LoopMoves ==
  ASSUME SocketAssumption, StreamInv, NEW f, Becomes(Loop, f)
  PROVE  Aside' /\ LoopIs(f.pc, f.tmp, f.poller)
<1>1. Loop \notin Others /\ Others \subseteq Threads
  BY DEF SocketAssumption, Threads
<1>2. \A t \in Others : thread'[t] = thread[t]
  BY <1>1 DEF Becomes
<1>3. Aside'
  BY <1>2 DEF StreamInv, Aside
<1> QED
  BY <1>3 DEF Becomes, LoopIs

\* Its steps through Goto, Done and Flush.
LEMMA LoopAt ==
  ASSUME SocketAssumption, StreamInv
  PROVE  /\ \A pc \in PCs : Goto(Loop, pc) => Aside' /\ LoopIs(pc, thread[Loop].tmp, thread[Loop].poller)
         /\ Done(Loop) => Aside' /\ LoopIs("idle", <<>>, FALSE)
         /\ \A p \in BOOLEAN : Flush(Loop, p) => Aside' /\ LoopIs("flush", <<>>, p)
<1>1. TypeInv /\ Loop \in Threads
  BY DEF StreamInv, Threads
<1>2. ASSUME NEW pc \in PCs, Goto(Loop, pc) PROVE Aside' /\ LoopIs(pc, thread[Loop].tmp, thread[Loop].poller)
  <2> DEFINE f == [pc |-> pc, tmp |-> thread[Loop].tmp, part |-> thread[Loop].part, poller |-> thread[Loop].poller]
  <2>1. Becomes(Loop, f)
    BY <1>1, <1>2, GotoBecomes
  <2>2. f.pc = pc /\ f.tmp = thread[Loop].tmp /\ f.poller = thread[Loop].poller
    OBVIOUS
  <2> HIDE DEF f
  <2>3. Aside' /\ LoopIs(f.pc, f.tmp, f.poller)
    BY <2>1, LoopMoves
  <2> QED
    BY <2>2, <2>3
<1>3. ASSUME Done(Loop) PROVE Aside' /\ LoopIs("idle", <<>>, FALSE)
  <2>1. Becomes(Loop, Rest)
    BY <1>1, <1>3, DoneBecomes
  <2>2. Aside' /\ LoopIs(Rest.pc, Rest.tmp, Rest.poller)
    BY <2>1, LoopMoves
  <2> QED
    BY <2>2, RestIsFrame
<1>4. ASSUME NEW p \in BOOLEAN, Flush(Loop, p) PROVE Aside' /\ LoopIs("flush", <<>>, p)
  <2> DEFINE f == [pc |-> "flush", tmp |-> <<>>, part |-> FALSE, poller |-> p]
  <2>1. Becomes(Loop, f)
    BY <1>1, <1>4, FlushBecomes
  <2>2. f.pc = "flush" /\ f.tmp = <<>> /\ f.poller = p
    OBVIOUS
  <2> HIDE DEF f
  <2>3. Aside' /\ LoopIs(f.pc, f.tmp, f.poller)
    BY <2>1, LoopMoves
  <2> QED
    BY <2>2, <2>3
<1> QED
  BY <1>2, <1>3, <1>4

\* Its steps through Inside.
LEMMA LoopInside ==
  ASSUME SocketAssumption, StreamInv, NEW pc, NEW tmp, NEW part, NEW poller,
         Inside(Loop, pc, tmp, part, poller)
  PROVE  Aside' /\ LoopIs(pc, tmp, poller)
<1> DEFINE f == [pc |-> pc, tmp |-> tmp, part |-> part, poller |-> poller]
<1>1. Loop \in Threads /\ Loop \notin Others /\ Others \subseteq Threads /\ thread \in [Threads -> Frame]
  BY DEF StreamInv, TypeInv, Threads, SocketAssumption
<1>2. thread' = [thread EXCEPT ![Loop] = f]
  BY DEF Inside
<1>3. f.pc = pc /\ f.tmp = tmp /\ f.poller = poller
  OBVIOUS
<1> HIDE DEF f
<1>4. thread'[Loop] = f /\ \A t \in Others : thread'[t] = thread[t]
  BY <1>1, <1>2
<1>5. Aside'
  BY <1>4 DEF StreamInv, Aside
<1> QED
  BY <1>3, <1>4, <1>5 DEF LoopIs

\* What is pending while nothing is in hand.
LEMMA PendingEmptyHand ==
  ASSUME SocketAssumption, TypeInv, thread[Loop].tmp = <<>>
  PROVE  Pending = QueueBytes(sending) \o BytesIn(BufferList(waiting))
<1>1. QueueBytes(sending) \o BytesIn(BufferList(waiting)) \in Seq(Byte)
  BY PendingType, ConcatProperties
<1> QED
  BY <1>1, QueueNone, ConcatEmptySeq DEF Pending

\* send goes on to flushData or returns: nothing moves.
LEMMA StepSendFlushes ==
  ASSUME SocketAssumption, StreamInv, TypeInv', SendFlushes(Loop)
  PROVE  StreamInv'
<1>1. thread[Loop].pc = "sent" /\ UNCHANGED <<queues, sendable, interest, events, kernel, history>>
  BY DEF SendFlushes, At
<1>2. thread[Loop].tmp = <<>> /\ ~thread[Loop].poller
  BY <1>1 DEF StreamInv, InHand, Noticed
<1>3. /\ Aside' /\ thread'[Loop].tmp = <<>> /\ ~thread'[Loop].poller
      /\ \/ thread'[Loop].pc = "flush"
         \/ thread'[Loop].pc = "idle"
         \/ thread'[Loop].pc = "emit"
  BY <1>2, LoopAt, PCsAre DEF SendFlushes, LoopIs
<1>4. InHand'
  BY <1>1, <1>3 DEF InHand, queues
<1>5. Noticed'
  BY <1>1, <1>3 DEF StreamInv, Noticed, queues
<1>6. InOrder'
  BY <1>1, <1>2, <1>3, OrderStays DEF StreamInv, Pending, queues, kernel, history
<1> QED
  BY <1>3, <1>4, <1>5, <1>6 DEF StreamInv

\* _send_buf_sending moves into the hand, in front of what waits.
LEMMA StepTakeSending ==
  ASSUME SocketAssumption, StreamInv, TypeInv', TakeSending(Loop)
  PROVE  StreamInv'
<1>1. /\ thread[Loop].pc = "flush" /\ sending' = <<>>
      /\ UNCHANGED <<waiting, sendable, interest, events, kernel, history>>
  BY DEF TakeSending, At
<1>2. thread[Loop].tmp = <<>>
  BY <1>1 DEF StreamInv, InHand
<1>3. Aside' /\ LoopIs(IF sending = <<>> THEN "take" ELSE "write", sending, thread[Loop].poller)
  BY LoopInside DEF TakeSending
<1>4. InHand'
  BY <1>1, <1>3 DEF InHand, LoopIs
<1>5. Noticed'
  BY <1>1, <1>3 DEF StreamInv, Noticed, LoopIs
<1>6. Pending' = Pending
  <2>1. Pending = QueueBytes(sending) \o BytesIn(BufferList(waiting))
    BY <1>2, PendingEmptyHand DEF StreamInv
  <2>2. BytesIn(BufferList(waiting)) \in Seq(Byte)
    BY PendingType DEF StreamInv
  <2>3. Pending' = QueueBytes(sending) \o (<<>> \o BytesIn(BufferList(waiting)))
    BY <1>1, <1>3, QueueNone DEF Pending, LoopIs
  <2> QED
    BY <2>1, <2>2, <2>3, ConcatEmptySeq
<1>7. InOrder'
  BY <1>1, <1>6, OrderStays DEF StreamInv, kernel, history
<1> QED
  BY <1>3, <1>4, <1>5, <1>7 DEF StreamInv

\* The waiting buffers become the list in hand.
LEMMA StepTakeWaiting ==
  ASSUME SocketAssumption, StreamInv, TypeInv', TakeWaiting(Loop)
  PROVE  StreamInv'
<1>1. /\ thread[Loop].pc = "take"
      /\ UNCHANGED <<sending, sendable, interest, events, kernel, history>>
  BY DEF TakeWaiting, At
<1>2. thread[Loop].tmp = <<>> /\ sending = <<>>
  BY <1>1 DEF StreamInv, InHand
<1>3. CASE waiting # <<>> /\ waiting' = <<>> /\ Inside(Loop, "write", <<BufferList(waiting)>>, thread[Loop].part, thread[Loop].poller)
  <2>1. Aside' /\ LoopIs("write", <<BufferList(waiting)>>, thread[Loop].poller)
    BY <1>3, LoopInside
  <2>2. InHand'
    BY <1>1, <1>2, <2>1 DEF InHand, LoopIs
  <2>3. Noticed'
    BY <1>1, <2>1 DEF StreamInv, Noticed, LoopIs
  <2>4. Pending' = Pending
    <3>1. BytesIn(BufferList(waiting)) \in Seq(Byte)
      BY PendingType DEF StreamInv
    <3>2. Pending = <<>> \o BytesIn(BufferList(waiting))
      BY <1>2, PendingEmptyHand, QueueNone DEF StreamInv
    <3>3. QueueBytes(<<BufferList(waiting)>>) = BytesIn(BufferList(waiting))
      BY <1>3, BufferListSome, QueueOne DEF StreamInv, TypeInv
    <3>4. Pending' = BytesIn(BufferList(waiting)) \o (<<>> \o <<>>)
      BY <1>1, <1>2, <1>3, <2>1, <3>3, QueueNone, BufferListNone, BytesOfNone DEF Pending, LoopIs
    <3>5. <<>> \o <<>> = <<>> /\ BytesIn(BufferList(waiting)) \o <<>> = BytesIn(BufferList(waiting))
          /\ <<>> \o BytesIn(BufferList(waiting)) = BytesIn(BufferList(waiting))
      BY <3>1, ConcatEmptySeq
    <3> QED
      BY <3>2, <3>4, <3>5
  <2>5. InOrder'
    BY <1>1, <2>4, OrderStays DEF StreamInv, kernel, history
  <2> QED
    BY <2>1, <2>2, <2>3, <2>5 DEF StreamInv
<1>4. CASE waiting = <<>> /\ waiting' = waiting /\ IF thread[Loop].poller THEN Goto(Loop, "stop") ELSE Done(Loop)
  <2>1. /\ Aside' /\ thread'[Loop].tmp = <<>>
        /\ \/ thread[Loop].poller /\ thread'[Loop].pc = "stop" /\ thread'[Loop].poller
           \/ ~thread[Loop].poller /\ thread'[Loop].pc = "idle" /\ ~thread'[Loop].poller
    BY <1>2, <1>4, LoopAt, PCsAre DEF LoopIs
  <2>2. InHand'
    BY <1>1, <1>2, <2>1 DEF InHand
  <2>3. Noticed'
    BY <1>1, <2>1 DEF StreamInv, Noticed
  <2>4. InOrder'
    BY <1>1, <1>2, <1>4, <2>1, OrderStays DEF StreamInv, Pending, kernel, history
  <2> QED
    BY <2>1, <2>2, <2>3, <2>4 DEF StreamInv
<1> QED
  BY <1>3, <1>4 DEF TakeWaiting

\* flushData is through: nothing was in hand, so nothing is lost.
LEMMA StepWroteAll ==
  ASSUME SocketAssumption, StreamInv, TypeInv', WroteAll(Loop)
  PROVE  StreamInv'
<1>1. /\ thread[Loop].pc = "write" /\ thread[Loop].tmp = <<>>
      /\ UNCHANGED <<queues, sendable, interest, events, kernel, history>>
  BY DEF WroteAll, At
<1>2. /\ Aside' /\ thread'[Loop].tmp = <<>>
      /\ \/ thread[Loop].poller /\ thread'[Loop].pc = "flush" /\ thread'[Loop].poller
         \/ ~thread[Loop].poller /\ thread'[Loop].pc = "idle" /\ ~thread'[Loop].poller
  BY LoopAt DEF WroteAll, LoopIs
<1>3. InHand'
  BY <1>1, <1>2 DEF InHand
<1>4. Noticed'
  BY <1>1, <1>2 DEF StreamInv, Noticed, queues
<1>5. InOrder'
  BY <1>1, <1>2, OrderStays DEF StreamInv, Pending, queues, kernel, history
<1> QED
  BY <1>2, <1>3, <1>4, <1>5 DEF StreamInv

\* What sendmsg takes moves from the front of what is pending to the end of the wire.
LEMMA StepSendMsg ==
  ASSUME SocketAssumption, StreamInv, TypeInv', SendMsg(Loop)
  PROVE  StreamInv'
<1>1. /\ thread[Loop].pc = "write" /\ ~reset
      /\ UNCHANGED <<queues, sendable, interest, events, reset, history>>
  BY DEF SendMsg, At
<1>2. TypeInv /\ Loop \in Threads
  BY DEF StreamInv, Threads
<1>3. PICK x \in Seq(Byte), tmp \in Seq(Lists), part \in BOOLEAN :
        /\ x # <<>> /\ wire' = wire \o x
        /\ QueueBytes(thread[Loop].tmp) = x \o QueueBytes(tmp)
        /\ Becomes(Loop, [pc |-> "write", tmp |-> tmp, part |-> part, poller |-> thread[Loop].poller])
  BY <1>2, SendMsgMoves
<1>4. Aside' /\ LoopIs("write", tmp, thread[Loop].poller)
  <2> DEFINE f == [pc |-> "write", tmp |-> tmp, part |-> part, poller |-> thread[Loop].poller]
  <2>1. Becomes(Loop, f) /\ f.pc = "write" /\ f.tmp = tmp /\ f.poller = thread[Loop].poller
    BY <1>3
  <2> HIDE DEF f
  <2>2. Aside' /\ LoopIs(f.pc, f.tmp, f.poller)
    BY <2>1, LoopMoves
  <2> QED
    BY <2>1, <2>2
<1>5. InHand'
  BY <1>1, <1>4 DEF StreamInv, InHand, LoopIs, queues
<1>6. Noticed'
  BY <1>1, <1>4 DEF StreamInv, Noticed, LoopIs, queues
<1>7. InOrder'
  <2> DEFINE a == QueueBytes(tmp)
             b == QueueBytes(sending) \o BytesIn(BufferList(waiting))
             u == BytesUpTo(posted)
  <2>1. a \in Seq(Byte) /\ b \in Seq(Byte) /\ u \in Seq(Byte) /\ wire \in Seq(Byte)
    BY <1>2, QueueType, PendingType, ConcatProperties
  <2>2. Pending = (x \o a) \o b /\ Pending' = a \o b
    BY <1>1, <1>3, <1>4 DEF Pending, LoopIs, queues
  <2>3. wire \o Pending = u
    BY <1>1 DEF StreamInv, InOrder
  <2>4. u' = u
    BY <1>1 DEF history
  <2> HIDE DEF a, b, u
  <2>5. x \o a \in Seq(Byte) /\ a \o b \in Seq(Byte) /\ wire \o x \in Seq(Byte)
    BY <2>1, ConcatProperties
  <2>6. wire \o ((x \o a) \o b) = (wire \o x) \o (a \o b)
    <3>1. (x \o a) \o b = x \o (a \o b)
      BY <2>1, AssocBytes, ZenonT(60)
    <3>3. \A c \in Seq(Byte) : (wire \o x) \o c = wire \o (x \o c)
      BY <2>1, AssocBytes, ZenonT(60)
    <3>2. (wire \o x) \o (a \o b) = wire \o (x \o (a \o b))
      BY <2>5, <3>3, Zenon
    <3> QED
      BY <3>1, <3>2
  <2>7. wire' \o Pending' = u
    BY <1>3, <2>2, <2>3, <2>6
  <2>8. IsPrefix(wire', u)
    BY <1>3, <2>2, <2>5, <2>7, PrefixOf
  <2> QED
    BY <2>4, <2>7, <2>8 DEF InOrder, u
<1> QED
  BY <1>4, <1>5, <1>6, <1>7 DEF StreamInv

-----------------------------------------------------------------------------
(* The steps around it. *)

\* EAGAIN: the list stays in hand until it is put back.
LEMMA StepKernelFull ==
  ASSUME SocketAssumption, StreamInv, TypeInv', KernelFull(Loop)
  PROVE  StreamInv'
<1>1. /\ thread[Loop].pc = "write"
      /\ UNCHANGED <<queues, sendable, interest, events, kernel, history>>
  BY DEF KernelFull, At
<1>2. /\ Aside' /\ thread'[Loop].tmp = thread[Loop].tmp
      /\ \/ thread[Loop].poller /\ thread'[Loop].pc = "putback" /\ thread'[Loop].poller
         \/ ~thread[Loop].poller /\ thread'[Loop].pc = "start" /\ ~thread'[Loop].poller
  <2>1. Goto(Loop, IF thread[Loop].poller THEN "putback" ELSE "start")
    BY DEF KernelFull
  <2> QED
    BY <2>1, LoopAt, PCsAre DEF LoopIs
<1>3. InHand'
  BY <1>1, <1>2 DEF StreamInv, InHand, queues
<1>4. Noticed'
  BY <1>1, <1>2 DEF StreamInv, Noticed, queues
<1>5. InOrder'
  BY <1>1, <1>2, OrderStays DEF StreamInv, Pending, queues, kernel, history
<1> QED
  BY <1>2, <1>3, <1>4, <1>5 DEF StreamInv

\* The list is lost only when the connection is.
LEMMA StepWriteFails ==
  ASSUME SocketAssumption, StreamInv, TypeInv', WriteFails(Loop)
  PROVE  StreamInv'
<1>1. /\ thread[Loop].pc = "write" /\ reset
      /\ UNCHANGED <<queues, sendable, interest, events, kernel, history>>
  BY DEF WriteFails, At
<1>2. Aside' /\ LoopIs("emit", <<>>, FALSE)
  BY LoopInside DEF WriteFails
<1>3. InHand'
  BY <1>1, <1>2 DEF StreamInv, InHand, LoopIs
<1>4. Noticed'
  BY <1>1, <1>2 DEF StreamInv, Noticed, LoopIs, queues
<1>5. InOrder'
  BY <1>1, OrderStays DEF StreamInv, kernel, history
<1> QED
  BY <1>2, <1>3, <1>4, <1>5 DEF StreamInv

\* The list goes back in front of the queue.
LEMMA StepPutBack ==
  ASSUME SocketAssumption, StreamInv, TypeInv', PutBack(Loop)
  PROVE  StreamInv'
<1>1. /\ thread[Loop].pc = "putback" /\ sending' = thread[Loop].tmp \o sending
      /\ UNCHANGED <<waiting, sendable, interest, events, kernel, history>>
  BY DEF PutBack, At
<1>2. sending = <<>> /\ thread[Loop].tmp \in Seq(Lists)
  BY <1>1, FrameParts DEF StreamInv, InHand, Threads
<1>3. sending' = thread[Loop].tmp
  BY <1>1, <1>2, ConcatEmptySeq
<1>4. Aside' /\ LoopIs("idle", <<>>, FALSE)
  BY LoopAt DEF PutBack
<1>5. InHand'
  BY <1>4 DEF InHand, LoopIs
<1>6. Noticed'
  BY <1>1, <1>4 DEF StreamInv, Noticed, LoopIs
<1>7. Pending' = Pending
  <2> DEFINE a == QueueBytes(thread[Loop].tmp)
             b == BytesIn(BufferList(waiting))
  <2>1. a \in Seq(Byte) /\ b \in Seq(Byte)
    BY PendingType DEF StreamInv
  <2>2. Pending = a \o (<<>> \o b)
    BY <1>2, QueueNone DEF Pending
  <2>3. Pending' = <<>> \o (a \o b)
    BY <1>1, <1>3, <1>4, QueueNone DEF Pending, LoopIs
  <2> HIDE DEF a, b
  <2>4. a \o b \in Seq(Byte)
    BY <2>1, ConcatProperties
  <2> QED
    BY <2>1, <2>2, <2>3, <2>4, ConcatEmptySeq
<1>8. InOrder'
  BY <1>1, <1>7, OrderStays DEF StreamInv, kernel, history
<1> QED
  BY <1>4, <1>5, <1>6, <1>8 DEF StreamInv

\* The writable event is armed or disarmed.
LEMMA StepEvent ==
  ASSUME SocketAssumption, StreamInv, TypeInv', StartWriteAbleEvent(Loop) \/ StopWriteAbleEvent(Loop)
  PROVE  StreamInv'
<1>1. UNCHANGED <<queues, events, reset, wire, history>>
  BY DEF StartWriteAbleEvent, StopWriteAbleEvent, kernel
<1>2. /\ Aside' /\ thread'[Loop].tmp = thread[Loop].tmp
      /\ \/ /\ thread[Loop].pc = "start" /\ thread'[Loop].pc = "start event" /\ thread'[Loop].poller = thread[Loop].poller
            /\ interest' = interest
         \/ /\ thread[Loop].pc = "start event" /\ thread'[Loop].pc = "putback" /\ thread'[Loop].poller = thread[Loop].poller
            /\ interest' /\ sendable' = sendable
         \/ /\ thread[Loop].pc = "stop" /\ thread'[Loop].pc = "stop event" /\ thread'[Loop].poller = thread[Loop].poller
            /\ sendable' /\ interest' = interest
         \/ /\ thread[Loop].pc = "stop event" /\ thread[Loop].poller /\ thread'[Loop].pc = "flushed" /\ thread'[Loop].poller
            /\ sendable' = sendable
         \/ /\ thread[Loop].pc = "stop event" /\ ~thread[Loop].poller /\ thread'[Loop].pc = "idle" /\ ~thread'[Loop].poller
            /\ sendable' = sendable
  <2>1. CASE StartWriteAbleEvent(Loop)
    BY <2>1, LoopAt, PCsAre DEF StartWriteAbleEvent, LoopIs, At
  <2>2. CASE StopWriteAbleEvent(Loop)
    <3>1. CASE At(Loop, "stop")
      BY <2>2, <3>1, LoopAt, PCsAre DEF StopWriteAbleEvent, LoopIs, At
    <3>2. CASE At(Loop, "stop event")
      <4>1. thread[Loop].tmp = <<>>
        BY <3>2 DEF At, StreamInv, InHand
      <4>2. sendable' = sendable /\ IF thread[Loop].poller THEN Goto(Loop, "flushed") ELSE Done(Loop)
        BY <2>2, <3>2 DEF StopWriteAbleEvent, At
      <4> QED
        BY <3>2, <4>1, <4>2, LoopAt, PCsAre DEF LoopIs, At
    <3> QED
      BY <2>2, <3>1, <3>2 DEF StopWriteAbleEvent
  <2> QED
    BY <2>1, <2>2
<1>3. InHand'
  BY <1>1, <1>2 DEF StreamInv, InHand, queues
<1>4. Noticed'
  <2>1. Noticed /\ (thread[Loop].pc \in {"stop", "stop event"} => sending = <<>>) /\ sending' = sending /\ events' = events
    BY <1>1 DEF StreamInv, InHand, queues
  <2>2. CASE thread[Loop].pc \in {"start", "start event"}
    BY <1>2, <2>1, <2>2 DEF Noticed
  <2>3. CASE thread[Loop].pc = "stop"
    BY <1>2, <2>1, <2>3 DEF Noticed
  <2>4. CASE thread[Loop].pc = "stop event"
    BY <1>2, <2>1, <2>4 DEF Noticed
  <2> QED
    BY <1>2, <2>2, <2>3, <2>4
<1>5. InOrder'
  BY <1>1, <1>2, OrderStays DEF StreamInv, Pending, queues, history
<1> QED
  BY <1>2, <1>3, <1>4, <1>5 DEF StreamInv

\* _on_flush is called.
LEMMA StepOnFlushed ==
  ASSUME SocketAssumption, StreamInv, TypeInv', OnFlushed(Loop)
  PROVE  StreamInv'
<1>1. thread[Loop].pc = "flushed" /\ UNCHANGED <<queues, sendable, interest, events, kernel, history>>
  BY DEF OnFlushed, At
<1>2. thread[Loop].tmp = <<>>
  BY <1>1 DEF StreamInv, InHand
<1>3. Aside' /\ LoopIs("idle", <<>>, FALSE)
  BY LoopAt DEF OnFlushed
<1>4. InHand'
  BY <1>3 DEF InHand, LoopIs
<1>5. Noticed'
  BY <1>1, <1>3 DEF StreamInv, Noticed, LoopIs, queues
<1>6. InOrder'
  BY <1>1, <1>2, <1>3, OrderStays DEF StreamInv, Pending, LoopIs, queues, kernel, history
<1> QED
  BY <1>3, <1>4, <1>5, <1>6 DEF StreamInv

\* A thread closes the socket: the queues stay.
LEMMA StepCloses ==
  ASSUME SocketAssumption, StreamInv, TypeInv', NEW t \in Threads,
         EmitErr(t) \/ CloseSock(t) \/ Shutdown(t)
  PROVE  StreamInv'
<1>0. TypeInv /\ Loop \in Threads /\ Loop \notin Others /\ Threads = {Loop} \cup Others
  BY DEF StreamInv, Threads, SocketAssumption
<1>1. UNCHANGED <<queues, sendable, interest, events, kernel, history>>
  BY DEF EmitErr, CloseSock, Shutdown
<1>2. /\ thread[t].pc \in {"idle", "emit", "close"}
      /\ \/ Done(t)
         \/ \E pc \in {"emit", "close"} : Goto(t, pc)
  BY DEF EmitErr, CloseSock, Shutdown, At
<1>3. CASE t = Loop
  <2>1. thread[Loop].tmp = <<>> /\ ~thread[Loop].poller
    BY <1>2, <1>3 DEF StreamInv, InHand, Noticed
  <2>2. /\ Aside' /\ thread'[Loop].tmp = <<>> /\ ~thread'[Loop].poller
        /\ thread'[Loop].pc \in {"idle", "emit", "close"}
    BY <1>2, <1>3, <2>1, LoopAt, PCsAre DEF LoopIs
  <2>3. InHand'
    BY <2>2 DEF InHand
  <2>4. Noticed'
    BY <1>1, <1>2, <1>3, <2>1, <2>2 DEF StreamInv, Noticed, queues
  <2>5. InOrder'
    BY <1>1, <2>1, <2>2, OrderStays DEF StreamInv, Pending, queues, kernel, history
  <2> QED
    BY <2>2, <2>3, <2>4, <2>5 DEF StreamInv
<1>4. CASE t # Loop
  <2>1. \E f : Becomes(t, f) /\ f.pc \in {"idle", "emit", "close"}
    <3>1. CASE Done(t)
      BY <1>0, <3>1, DoneBecomes, RestIsFrame
    <3>2. ASSUME NEW pc \in {"emit", "close"}, Goto(t, pc) PROVE \E f : Becomes(t, f) /\ f.pc \in {"idle", "emit", "close"}
      <4> DEFINE f == [pc |-> pc, tmp |-> thread[t].tmp, part |-> thread[t].part, poller |-> thread[t].poller]
      <4>1. Becomes(t, f) /\ f.pc = pc
        BY <1>0, <3>2, PCsAre, GotoBecomes
      <4> HIDE DEF f
      <4> QED
        BY <4>1
    <3> QED
      BY <1>2, <3>1, <3>2
  <2>2. thread'[Loop] = thread[Loop] /\ \A u \in Others : thread'[u] = thread[u] \/ thread'[u].pc \in {"idle", "emit", "close"}
    BY <1>0, <1>4, <2>1 DEF Becomes
  <2>3. Aside'
    BY <2>2 DEF StreamInv, Aside
  <2>4. InHand'
    BY <1>1, <2>2 DEF StreamInv, InHand, queues
  <2>5. Noticed'
    BY <1>1, <2>2 DEF StreamInv, Noticed, queues
  <2>6. InOrder'
    BY <1>1, <2>2, OrderStays DEF StreamInv, Pending, queues, kernel, history
  <2> QED
    BY <2>3, <2>4, <2>5, <2>6 DEF StreamInv
<1> QED
  BY <1>3, <1>4

\* send finds the socket open: nothing moves yet.
LEMMA StepSend ==
  ASSUME SocketAssumption, StreamInv, TypeInv', Send(Loop)
  PROVE  StreamInv'
<1>1. thread[Loop].pc = "idle" /\ UNCHANGED <<queues, sendable, interest, events, kernel, history>>
  BY DEF Send, At
<1>2. thread[Loop].tmp = <<>> /\ ~thread[Loop].poller
  BY <1>1 DEF StreamInv, InHand, Noticed
<1>3. Aside' /\ thread'[Loop].tmp = <<>> /\ ~thread'[Loop].poller /\ thread'[Loop].pc = "push"
  BY <1>2, LoopAt, PCsAre DEF Send, LoopIs
<1>4. InHand'
  BY <1>1, <1>3 DEF InHand, queues
<1>5. Noticed'
  BY <1>1, <1>3 DEF StreamInv, Noticed, queues
<1>6. InOrder'
  BY <1>1, <1>2, <1>3, OrderStays DEF StreamInv, Pending, queues, kernel, history
<1> QED
  BY <1>3, <1>4, <1>5, <1>6 DEF StreamInv


\* A buffer that is posted is the last of what is pending.
LEMMA StepPush ==
  ASSUME SocketAssumption, StreamInv, TypeInv', Push(Loop)
  PROVE  StreamInv'
<1>0. TypeInv
  BY DEF StreamInv
<1>1. /\ thread[Loop].pc = "push" /\ posted < Len(Size) /\ posted' = posted + 1
      /\ waiting' = Append(waiting, posted + 1)
      /\ UNCHANGED <<sending, sendable, interest, events, kernel>>
  BY DEF Push, At
<1>2. thread[Loop].tmp = <<>> /\ ~thread[Loop].poller
  BY <1>1 DEF StreamInv, InHand, Noticed
<1>3. /\ Aside' /\ thread'[Loop].tmp = <<>> /\ ~thread'[Loop].poller
      /\ thread'[Loop].pc \in {"idle", "sent"}
  <2>1. CASE Goto(Loop, "sent")
    BY <1>2, <2>1, LoopAt, PCsAre DEF LoopIs
  <2>2. CASE Done(Loop)
    BY <2>2, LoopAt DEF LoopIs
  <2> QED
    BY <2>1, <2>2 DEF Push
<1>4. InHand'
  BY <1>3 DEF InHand
<1>5. Noticed'
  BY <1>1, <1>3 DEF StreamInv, Noticed
<1>6. InOrder'
  <2> DEFINE a == QueueBytes(sending)
             b == BytesIn(BufferList(waiting))
             z == BytesOf(Whole(posted + 1))
             u == BytesUpTo(posted)
  <2>1. posted \in 0 .. Len(Size) /\ posted + 1 \in Buffers /\ waiting \in Seq(Buffers)
    BY <1>0, <1>1, Sizes0 DEF TypeInv
  <2>2. a \in Seq(Byte) /\ b \in Seq(Byte) /\ u \in Seq(Byte) /\ wire \in Seq(Byte)
    BY <1>0, PendingType
  <2>3. z \in Seq(Byte)
    BY <2>1, WholeType, BytesOfType
  <2>4. BytesUpTo(posted') = u \o z
    BY <1>1, <2>1, UpToNext
  <2>5. Pending = <<>> \o (a \o b)
    BY <1>2, QueueNone DEF Pending
  <2>6. Pending' = <<>> \o (a \o (b \o z))
    BY <1>1, <1>3, <2>1, QueueNone, BytesGrow DEF Pending
  <2> HIDE DEF a, b, z, u
  <2>7. a \o b \in Seq(Byte) /\ b \o z \in Seq(Byte) /\ a \o (b \o z) \in Seq(Byte)
    BY <2>2, <2>3, ConcatProperties
  <2>8. Pending = a \o b /\ Pending' = a \o (b \o z)
    BY <2>5, <2>6, <2>7, ConcatEmptySeq
  <2>9. Pending' = Pending \o z /\ Pending \in Seq(Byte)
    <3>1. (a \o b) \o z = a \o (b \o z)
      BY <2>2, <2>3, AssocBytes, ZenonT(60)
    <3> QED
      BY <2>7, <2>8, <3>1
  <2>10. IsPrefix(wire, u) /\ (~reset => wire \o Pending = u)
    BY DEF StreamInv, InOrder, u
  <2>11. IsPrefix(wire, u \o z)
    BY <2>2, <2>3, <2>10, PrefixStays
  <2>12. ~reset => wire \o Pending' = u \o z
    <3>1. (wire \o Pending) \o z = wire \o (Pending \o z)
      BY <2>2, <2>3, <2>9, AssocBytes, ZenonT(60)
    <3> QED
      BY <2>9, <2>10, <3>1
  <2>13. wire' = wire /\ reset' = reset
    BY <1>1 DEF kernel
  <2> QED
    BY <2>4, <2>11, <2>12, <2>13 DEF InOrder
<1> QED
  BY <1>3, <1>4, <1>5, <1>6 DEF StreamInv

\* The callbacks of the poller.
LEMMA StepPoller ==
  ASSUME SocketAssumption, StreamInv, TypeInv', OnRead \/ OnWriteAble \/ OnWriteAbleSending \/ OnError
  PROVE  StreamInv'
<1>1. UNCHANGED <<queues, sendable, interest, wire, reset, history>>
  BY DEF OnRead, OnWriteAble, OnWriteAbleSending, OnError, kernel
<1>2. thread[Loop].pc \in {"idle", "able"}
  BY DEF OnRead, OnWriteAble, OnWriteAbleSending, OnError, At
<1>3. thread[Loop].tmp = <<>> /\ ~thread[Loop].poller
  BY <1>2 DEF StreamInv, InHand, Noticed
<1>4. \/ /\ thread[Loop].pc = "idle" /\ "read" \in events /\ events' = events \ {"read"}
         /\ Goto(Loop, "emit") \/ thread' = thread
      \/ /\ thread[Loop].pc = "idle" /\ "write" \in events /\ events' = events \ {"write"}
         /\ Flush(Loop, TRUE) \/ Goto(Loop, "able")
      \/ /\ thread[Loop].pc = "able" /\ events' = events
         /\ Flush(Loop, TRUE) \/ (sending = <<>> /\ Goto(Loop, "stop"))
      \/ thread[Loop].pc = "idle" /\ events' = {} /\ Goto(Loop, "emit")
  BY DEF OnRead, OnWriteAble, OnWriteAbleSending, OnError, At
<1>5. /\ Aside' /\ thread'[Loop].tmp = <<>>
      /\ \/ /\ thread[Loop].pc = "idle" /\ ("write" \in events' => "write" \in events)
            /\ thread'[Loop].pc \in {"emit", "idle"} /\ ~thread'[Loop].poller
         \/ /\ thread[Loop].pc = "idle" /\ "write" \in events /\ "write" \notin events'
            /\ \/ thread'[Loop].pc = "flush" /\ thread'[Loop].poller
               \/ thread'[Loop].pc = "able" /\ ~thread'[Loop].poller
         \/ /\ thread[Loop].pc = "able" /\ events' = events
            /\ \/ thread'[Loop].pc = "flush" /\ thread'[Loop].poller
               \/ sending = <<>> /\ thread'[Loop].pc = "stop" /\ ~thread'[Loop].poller
  <2>1. CASE thread' = thread
    BY <1>2, <1>3, <1>4, <2>1, LoopAt, PCsAre DEF LoopIs, StreamInv, Aside
  <2>2. CASE thread' # thread
    BY <1>3, <1>4, <2>2, LoopAt, PCsAre DEF LoopIs
  <2> QED
    BY <2>1, <2>2
<1>6. InHand'
  BY <1>1, <1>5 DEF StreamInv, InHand, queues
<1>7. Noticed'
  BY <1>1, <1>2, <1>3, <1>5 DEF StreamInv, Noticed, queues
<1>8. InOrder'
  BY <1>1, <1>3, <1>5, OrderStays DEF StreamInv, Pending, queues, history
<1> QED
  BY <1>5, <1>6, <1>7, <1>8 DEF StreamInv

\* The owner, the sender of a body and the peer.
LEMMA StepOutside ==
  ASSUME SocketAssumption, StreamInv, TypeInv',
         EpollEvent \/ OnErr \/ WaitForFlush \/ PeerReads \/ PeerWrites \/ PeerResets \/ UNCHANGED vars
  PROVE  StreamInv'
<1>1. UNCHANGED <<queues, sendable, interest, thread, wire, history>> /\ (reset => reset')
  BY DEF EpollEvent, OnErr, WaitForFlush, PeerReads, PeerWrites, PeerResets, vars, kernel
<1>2. events' = events \/ (thread[Loop].pc = "idle" /\ ("write" \in events' => interest))
  BY DEF EpollEvent, OnErr, WaitForFlush, PeerReads, PeerWrites, PeerResets, vars, At
<1>3. Aside' /\ InHand'
  BY <1>1 DEF StreamInv, Aside, InHand, queues
<1>4. Noticed'
  BY <1>1, <1>2 DEF StreamInv, Noticed, queues
<1>5. InOrder'
  <2>1. Pending' = Pending /\ BytesUpTo(posted)' = BytesUpTo(posted)
    BY <1>1 DEF Pending, queues, history
  <2> QED
    BY <1>1, <2>1 DEF StreamInv, InOrder
<1> QED
  BY <1>3, <1>4, <1>5 DEF StreamInv

\* Every step keeps the invariant.
LEMMA StreamNext ==
  ASSUME SocketAssumption, Senders \subseteq {Loop}, StreamInv, [Next]_vars
  PROVE  StreamInv'
<1>0. TypeInv'
  BY TypeInvNext DEF StreamInv
<1>1. CASE Proceed(Loop)
  BY <1>0, <1>1, StepPush, StepSendFlushes, StepTakeSending, StepTakeWaiting, StepWroteAll, StepSendMsg, StepKernelFull,
     StepWriteFails, StepPutBack, StepEvent, StepOnFlushed, StepCloses DEF Proceed, Threads
<1>2. ASSUME NEW t \in Others, Proceed(t) PROVE StreamInv'
  <2>1. thread[t].pc \in {"idle", "emit", "close"} /\ t \in Threads
    BY DEF StreamInv, Aside, Threads
  <2>2. EmitErr(t) \/ CloseSock(t)
    BY <1>2, <2>1 DEF Proceed, Push, SendFlushes, TakeSending, TakeWaiting, WroteAll, SendMsg, KernelFull, WriteFails,
                      PutBack, StartWriteAbleEvent, StopWriteAbleEvent, OnFlushed, At
  <2> QED
    BY <1>0, <2>1, <2>2, StepCloses
<1>3. ASSUME NEW t \in Senders, Send(t) PROVE StreamInv'
  BY <1>0, <1>3, StepSend
<1>4. ASSUME NEW t \in Threads, Shutdown(t) PROVE StreamInv'
  BY <1>0, <1>4, StepCloses
<1> QED
  BY <1>0, <1>1, <1>2, <1>3, <1>4, StepPoller, StepOutside DEF Next, LoopStep

\* It holds of a new socket.
LEMMA StreamInit == ASSUME SocketAssumption, Init PROVE StreamInv
<1>1. TypeInv
  BY TypeInvInit
<1>2. thread[Loop] = Rest /\ \A t \in Others : thread[t] = Rest
  BY DEF Init, Threads
<1>3. Aside /\ InHand /\ Noticed
  BY <1>2, RestIsFrame DEF Init, Aside, InHand, Noticed
<1>4. BytesUpTo(0) = <<>>
  <2>1. [i \in 1 .. 0 |-> i] = <<>>
    OBVIOUS
  <2> QED
    BY <2>1, BufferListNone, BytesOfNone DEF BytesUpTo
<1>5. Pending = <<>>
  <2>1. Pending = <<>> \o (<<>> \o <<>>)
    BY <1>2, RestIsFrame, QueueNone, BufferListNone, BytesOfNone DEF Init, Pending
  <2> QED
    BY <2>1
<1>6. InOrder
  <2>1. IsPrefix(<<>>, <<>>) /\ <<>> \o <<>> = <<>>
    BY DEF IsPrefix
  <2> QED
    BY <1>4, <1>5, <2>1 DEF Init, InOrder
<1> QED
  BY <1>1, <1>3, <1>6 DEF StreamInv

\* It implies the first parts of SocketOwes.
LEMMA StreamGives == ASSUME SocketAssumption, StreamInv PROVE TypeOK /\ BytesInOrder /\ NothingStranded
<1>1. TypeOK
  BY TypeInvGivesTypeOK DEF StreamInv
<1>2. BytesInOrder
  BY DEF StreamInv, InOrder, BytesInOrder
<1>3. ASSUME open, ~reset, \A t \in Threads : At(t, "idle")
      PROVE  /\ Len(wire) + LeftIn(FlattenSeq(sending)) + LeftIn(BufferList(waiting)) = LeftIn(BufferList([i \in 1 .. posted |-> i]))
             /\ sending # <<>> \/ ~sendable => interest
  <2>1. thread[Loop].pc = "idle"
    BY <1>3 DEF At, Threads
  <2>2. thread[Loop].tmp = <<>> /\ (sending # <<>> \/ ~sendable => interest)
    BY <2>1 DEF StreamInv, InHand, Noticed
  <2> DEFINE a == QueueBytes(sending)
             b == BytesIn(BufferList(waiting))
             u == BytesUpTo(posted)
  <2>3. a \in Seq(Byte) /\ b \in Seq(Byte) /\ u \in Seq(Byte) /\ wire \in Seq(Byte)
    BY PendingType DEF StreamInv
  <2>4. wire \o (a \o b) = u
    BY <1>3, <2>2, PendingEmptyHand DEF StreamInv, InOrder
  <2>5. LeftIn(FlattenSeq(sending)) = Len(a) /\ LeftIn(BufferList(waiting)) = Len(b)
        /\ LeftIn(BufferList([i \in 1 .. posted |-> i])) = Len(u)
    BY DEF LeftIn, QueueBytes, BytesUpTo
  <2> HIDE DEF a, b, u
  <2>6. a \o b \in Seq(Byte) /\ Len(a \o b) = Len(a) + Len(b) /\ Len(a) \in Nat /\ Len(b) \in Nat /\ Len(wire) \in Nat
    BY <2>3, ConcatProperties, LenProperties
  <2>7. Len(u) = Len(wire) + Len(a \o b)
    BY <2>3, <2>4, <2>6, ConcatProperties
  <2>8. Len(wire) + Len(a) + Len(b) = Len(u)
    BY <2>6, <2>7
  <2> QED
    BY <2>2, <2>5, <2>8
<1>4. NothingStranded
  BY <1>3 DEF NothingStranded
<1> QED
  BY <1>1, <1>2, <1>4

-----------------------------------------------------------------------------
(* The theorems. *)

\* While the poller's thread is the one that sends, as sessions do, the wire is a prefix of
\* what was posted, nothing that could still be sent is stranded in the queues without the
\* writable event, and the end is told once per thread (flushData, onWriteAble, emitErr).
THEOREM SocketSound ==
  ASSUME Senders \subseteq {Loop}
  PROVE  Spec => []SocketOwes
<1>1. Init => StreamInv /\ ErrorInv
  BY SocketAssumption, StreamInit, ErrorInit
<1>2. StreamInv /\ ErrorInv /\ [Next]_vars => (StreamInv /\ ErrorInv)'
  BY SocketAssumption, StreamNext, ErrorNext
<1>3. StreamInv /\ ErrorInv => SocketOwes
  BY SocketAssumption, StreamGives, ErrorGives DEF SocketOwes
<1> QED
  BY <1>1, <1>2, <1>3, PTL DEF Spec

\* The calls of the stream are the threads about to push.
LEMMA CallsAre == {t \in Threads : At(t, "push")} = Pushers
  BY DEF Pushers, Those, At

\* The same bytes, the same wire, the same descriptor, the same calls: nothing happens in
\* the stream.
LEMMA StreamStutters ==
  ASSUME wire' = wire, posted' = posted, open' = open, Pushers' = Pushers
  PROVE  UNCHANGED Stream!vars
<1>1. BytesUpTo(posted)' = BytesUpTo(posted)
  OBVIOUS
<1>2. {t \in Threads : At(t, "push")}' = {t \in Threads : At(t, "push")}
  BY DEF Pushers, Those, At
<1> QED
  BY <1>1, <1>2 DEF Stream!vars

\* Only send begins and ends a call.
LEMMA PushersStay ==
  ASSUME SocketAssumption, TypeInv, NEW t \in Threads,
         \/ SendFlushes(t) \/ TakeSending(t) \/ TakeWaiting(t) \/ WroteAll(t) \/ SendMsg(t) \/ KernelFull(t)
         \/ WriteFails(t) \/ PutBack(t) \/ StartWriteAbleEvent(t) \/ StopWriteAbleEvent(t) \/ OnFlushed(t)
         \/ EmitErr(t) \/ CloseSock(t) \/ Shutdown(t)
  PROVE  Pushers' = Pushers
<1>1. thread[t].pc # "push"
  BY DEF SendFlushes, TakeSending, TakeWaiting, WroteAll, SendMsg, KernelFull, WriteFails, PutBack,
         StartWriteAbleEvent, StopWriteAbleEvent, OnFlushed, EmitErr, CloseSock, Shutdown, At
<1>2. CASE SendMsg(t)
  <2>1. PICK x \in Seq(Byte), tmp \in Seq(Lists), part \in BOOLEAN :
          Becomes(t, [pc |-> "write", tmp |-> tmp, part |-> part, poller |-> thread[t].poller])
    BY <1>2, SendMsgMoves
  <2> QED
    BY <1>1, <2>1, ThoseStay DEF Pushers
<1>3. CASE ~SendMsg(t)
  <2>1. \/ \E pc \in PCs \ {"push"} : Goto(t, pc)
        \/ \E pc \in PCs \ {"push"} : \E tmp : Inside(t, pc, tmp, thread[t].part, thread[t].poller)
        \/ Inside(t, "emit", <<>>, FALSE, FALSE)
        \/ Done(t)
        \/ \E p \in BOOLEAN : Flush(t, p)
    <3>1. CASE SendFlushes(t) \/ WroteAll(t) \/ KernelFull(t) \/ WriteFails(t) \/ PutBack(t) \/ OnFlushed(t)
      BY <3>1 DEF SendFlushes, WroteAll, KernelFull, WriteFails, PutBack, OnFlushed, PCs
    <3>2. CASE TakeSending(t) \/ TakeWaiting(t)
      BY <3>2 DEF TakeSending, TakeWaiting, PCs
    <3>3. CASE StartWriteAbleEvent(t) \/ StopWriteAbleEvent(t)
      BY <3>3 DEF StartWriteAbleEvent, StopWriteAbleEvent, PCs
    <3>4. CASE EmitErr(t) \/ CloseSock(t) \/ Shutdown(t)
      BY <3>4 DEF EmitErr, CloseSock, Shutdown, PCs
    <3> QED
      BY <1>3, <3>1, <3>2, <3>3, <3>4
  <2> QED
    BY <1>1, <2>1, PassingPush
<1> QED
  BY <1>2, <1>3

\* A call that begins, and one that ends.
LEMMA PushersMove ==
  ASSUME SocketAssumption, TypeInv, NEW t \in Threads
  PROVE  /\ Send(t) => t \notin Pushers /\ Pushers' = Pushers \cup {t}
         /\ Push(t) => t \in Pushers /\ Pushers' = Pushers \ {t}
<1>1. ASSUME Send(t) PROVE t \notin Pushers /\ Pushers' = Pushers \cup {t}
  <2>1. thread[t].pc = "idle" /\ Goto(t, "push")
    BY <1>1 DEF Send, At
  <2> DEFINE f == [pc |-> "push", tmp |-> thread[t].tmp, part |-> thread[t].part, poller |-> thread[t].poller]
  <2>3. Becomes(t, f) /\ f.pc = "push"
    BY <2>1, GotoBecomes, PCsAre
  <2> HIDE DEF f
  <2>2. thread'[t].pc = "push" /\ \A u \in Threads \ {t} : thread'[u] = thread[u]
    BY <2>3 DEF Becomes
  <2> QED
    BY <2>1, <2>2 DEF Pushers, Those
<1>2. ASSUME Push(t) PROVE t \in Pushers /\ Pushers' = Pushers \ {t}
  <2>1. thread[t].pc = "push" /\ (Goto(t, "sent") \/ Done(t))
    BY <1>2 DEF Push, At
  <2> DEFINE f == [pc |-> "sent", tmp |-> thread[t].tmp, part |-> thread[t].part, poller |-> thread[t].poller]
  <2>3. f.pc # "push" /\ Rest.pc # "push"
    BY RestIsFrame
  <2>4. Becomes(t, f) \/ Becomes(t, Rest)
    BY <2>1, GotoBecomes, DoneBecomes, PCsAre
  <2> HIDE DEF f
  <2>2. thread'[t].pc # "push" /\ \A u \in Threads \ {t} : thread'[u] = thread[u]
    BY <2>3, <2>4 DEF Becomes
  <2> QED
    BY <2>1, <2>2 DEF Pushers, Those
<1> QED
  BY <1>1, <1>2

\* The steps of the poller and of the peer concern no call.
LEMMA PushersOutside ==
  ASSUME SocketAssumption, TypeInv,
         EpollEvent \/ OnRead \/ OnWriteAble \/ OnWriteAbleSending \/ OnError \/ OnErr \/ WaitForFlush
         \/ PeerReads \/ PeerWrites \/ PeerResets \/ UNCHANGED vars
  PROVE  Pushers' = Pushers
<1>0. Loop \in Threads
  BY DEF Threads
<1>1. CASE thread' = thread
  BY <1>1 DEF Pushers, Those
<1>2. CASE OnRead \/ OnWriteAble \/ OnWriteAbleSending \/ OnError
  <2>1. thread[Loop].pc # "push"
    BY <1>2 DEF OnRead, OnWriteAble, OnWriteAbleSending, OnError, At
  <2>2. \/ \E pc \in PCs \ {"push"} : Goto(Loop, pc)
        \/ \E p \in BOOLEAN : Flush(Loop, p)
        \/ thread' = thread
    BY <1>2 DEF OnRead, OnWriteAble, OnWriteAbleSending, OnError, PCs
  <2> QED
    BY <1>0, <1>1, <2>1, <2>2, PassingPush
<1> QED
  BY <1>1, <1>2 DEF EpollEvent, OnErr, WaitForFlush, PeerReads, PeerWrites, PeerResets, vars

\* Every step of the socket is a step of the byte stream or a stutter.
LEMMA StreamStep ==
  ASSUME SocketAssumption, Senders \subseteq {Loop}, StreamInv, StreamInv', [Next]_vars
  PROVE  [Stream!Next]_(Stream!vars)
<1>0. TypeInv /\ Loop \in Threads
  BY DEF StreamInv, Threads
<1>1. CASE Push(Loop)
  <2> DEFINE z == BytesOf(Whole(posted + 1))
             u == BytesUpTo(posted)
  <2>1. /\ open' = open /\ wire' = wire /\ posted' = posted + 1
        /\ posted \in 0 .. Len(Size) /\ posted < Len(Size) /\ posted + 1 \in Buffers
    BY <1>0, <1>1, Sizes0 DEF Push, kernel, TypeInv
  <2>2. BytesUpTo(posted)' = u \o z
    BY <2>1, UpToNext
  <2>3. z \in Seq(Byte) /\ Len(z) # 0 /\ u \in Seq(Byte)
    BY <1>0, <2>1, WholeType, BytesOfType, PendingType
  <2>4. z # <<>>
    BY <2>3
  <2> HIDE DEF z
  <2>5. Len(u) <= Len(u \o z) /\ u = SubSeq(u \o z, 1, Len(u)) /\ u \o z # u
    BY <2>3, <2>4, PrefixOf
  <2>6. Loop \in Pushers /\ Pushers' = Pushers \ {Loop}
    BY <1>0, <1>1, PushersMove
  <2>7. Stream!Give(Loop)
    BY <2>1, <2>2, <2>5, <2>6, CallsAre DEF Stream!Give, Stream!Leads, Pushers, Those, At
  <2> QED
    BY <1>0, <2>7 DEF Stream!Next
<1>2. CASE SendMsg(Loop)
  <2>1. ~reset /\ reset' = reset /\ open' = open /\ posted' = posted
    BY <1>2 DEF SendMsg, history
  <2>2. PICK x \in Seq(Byte) : x # <<>> /\ wire' = wire \o x
    BY <1>0, <1>2, SendMsgMoves
  <2>3. wire \in Seq(Byte) /\ wire' \in Seq(Byte) /\ Pending' \in Seq(Byte)
    <3>1. TypeInv'
      BY DEF StreamInv
    <3>2. wire' \in Seq(Byte) /\ QueueBytes(thread'[Loop].tmp) \in Seq(Byte) /\ QueueBytes(sending') \in Seq(Byte)
          /\ BytesIn(BufferList(waiting')) \in Seq(Byte)
      <4>1. thread'[Loop].tmp \in Seq(Lists) /\ sending' \in Seq(Lists) /\ waiting' \in Seq(Buffers) /\ wire' \in Seq(Byte)
        BY <1>0, <3>1 DEF TypeInv, Frame
      <4> QED
        BY <4>1, QueueType, BufferListType, BytesType
    <3>3. Pending' \in Seq(Byte)
      <4>1. QueueBytes(sending') \o BytesIn(BufferList(waiting')) \in Seq(Byte)
        BY <3>2, ConcatProperties
      <4> QED
        BY <3>2, <4>1, ConcatProperties DEF Pending
    <3> QED
      BY <3>2, <3>3 DEF StreamInv, TypeInv
  <2>4. wire' \o Pending' = BytesUpTo(posted)
    BY <2>1 DEF StreamInv, InOrder
  <2>5. Len(wire) <= Len(wire') /\ wire = SubSeq(wire', 1, Len(wire)) /\ wire' # wire
    BY <2>2, <2>3, PrefixOf
  <2>6. Len(wire') <= Len(BytesUpTo(posted)) /\ wire' = SubSeq(BytesUpTo(posted), 1, Len(wire'))
    BY <2>3, <2>4, PrefixOf
  <2>7. BytesUpTo(posted)' = BytesUpTo(posted)
    BY <2>1
  <2>9. Pushers' = Pushers
    BY <1>0, <1>2, PushersStay
  <2>8. Stream!Carry
    BY <2>1, <2>5, <2>6, <2>7, <2>9 DEF Stream!Carry, Stream!Leads, Pushers, Those, At
  <2> QED
    BY <2>8 DEF Stream!Next
<1>3. ASSUME NEW t \in Threads, CloseSock(t) PROVE [Stream!Next]_(Stream!vars)
  <2>1. open' = FALSE /\ wire' = wire /\ posted' = posted
    BY <1>3 DEF CloseSock, kernel, history
  <2>2. BytesUpTo(posted)' = BytesUpTo(posted)
    BY <2>1
  <2>5. Pushers' = Pushers
    BY <1>0, <1>3, PushersStay
  <2>3. CASE open
    <3>1. Stream!Close
      BY <2>1, <2>2, <2>3, <2>5 DEF Stream!Close, Pushers, Those, At
    <3> QED
      BY <3>1 DEF Stream!Next
  <2>4. CASE ~open
    <3>2. open' = open
      BY <1>0, <2>1, <2>4 DEF TypeInv
    <3>1. UNCHANGED Stream!vars
      BY <2>1, <2>5, <3>2, StreamStutters
    <3> QED
      BY <3>1
  <2> QED
    BY <2>3, <2>4
<1>4. ASSUME NEW t \in Threads,
             SendFlushes(t) \/ TakeSending(t) \/ TakeWaiting(t) \/ WroteAll(t) \/ KernelFull(t) \/ WriteFails(t)
             \/ PutBack(t) \/ StartWriteAbleEvent(t) \/ StopWriteAbleEvent(t) \/ OnFlushed(t) \/ EmitErr(t) \/ Shutdown(t)
      PROVE  [Stream!Next]_(Stream!vars)
  <2>1. wire' = wire /\ posted' = posted /\ open' = open
    BY <1>4 DEF SendFlushes, TakeSending, TakeWaiting, WroteAll, KernelFull, WriteFails, PutBack,
                StartWriteAbleEvent, StopWriteAbleEvent, OnFlushed, EmitErr, Shutdown, kernel, history
  <2>2. Pushers' = Pushers
    BY <1>0, <1>4, PushersStay
  <2> QED
    BY <2>1, <2>2, StreamStutters
<1>5. CASE EpollEvent \/ OnRead \/ OnWriteAble \/ OnWriteAbleSending \/ OnError \/ OnErr \/ WaitForFlush
           \/ PeerReads \/ PeerWrites \/ PeerResets \/ UNCHANGED vars
  <2>1. wire' = wire /\ posted' = posted /\ open' = open
    BY <1>5 DEF EpollEvent, OnRead, OnWriteAble, OnWriteAbleSending, OnError, OnErr, WaitForFlush, PeerReads,
                PeerWrites, PeerResets, vars, kernel, history
  <2>2. Pushers' = Pushers
    BY <1>0, <1>5, PushersOutside
  <2> QED
    BY <2>1, <2>2, StreamStutters
<1>7. CASE Send(Loop)
  <2>1. open /\ open' = open /\ wire' = wire /\ posted' = posted
    BY <1>7 DEF Send, kernel, history
  <2>2. Loop \notin Pushers /\ Pushers' = Pushers \cup {Loop}
    BY <1>0, <1>7, PushersMove
  <2>3. BytesUpTo(posted)' = BytesUpTo(posted)
    BY <2>1
  <2>4. Stream!Call(Loop)
    BY <2>1, <2>2, <2>3 DEF Stream!Call, Pushers, Those, At
  <2> QED
    BY <1>0, <2>4 DEF Stream!Next
<1>6. ASSUME NEW t \in Others, Proceed(t) PROVE ~SendMsg(t) /\ ~Push(t) /\ t \in Threads
  BY DEF StreamInv, Aside, SendMsg, Push, At, Threads
<1> QED
  BY <1>0, <1>1, <1>2, <1>3, <1>4, <1>5, <1>6, <1>7 DEF Next, LoopStep, Proceed

\* A new socket has sent and carried nothing.
LEMMA StreamStarts == ASSUME SocketAssumption, Init PROVE Stream!Init
<1>1. BytesUpTo(posted) = <<>>
  <2>1. [i \in 1 .. 0 |-> i] = <<>>
    OBVIOUS
  <2> QED
    BY <2>1, BufferListNone, BytesOfNone DEF BytesUpTo, Init
<1>2. {t \in Threads : At(t, "push")} = {}
  BY RestIsFrame DEF Init, At
<1> QED
  BY <1>1, <1>2 DEF Init, Stream!Init

\* Under the same condition the socket is the byte stream: whatever flushData takes, cuts,
\* puts back and resumes, each step gives, carries or closes the stream, or nothing happens.
THEOREM ImplementsByteStream ==
  ASSUME Senders \subseteq {Loop}
  PROVE  Spec => RefinesByteStream
<1>1. Init => StreamInv /\ Stream!Init
  BY SocketAssumption, StreamInit, StreamStarts
<1>2. StreamInv /\ [Next]_vars => StreamInv'
  BY SocketAssumption, StreamNext
<1>3. StreamInv /\ StreamInv' /\ [Next]_vars => [Stream!Next]_(Stream!vars)
  BY SocketAssumption, StreamStep
<1> QED
  BY <1>1, <1>2, <1>3, PTL DEF Spec, RefinesByteStream, Stream!Spec
-----------------------------------------------------------------------------
(* The ingest of RTP. *)

Process ==
  [id : {Empty, Device}, key : Ssrcs \cup {Device}, addr : Addresses \cup {None},
   silent : BOOLEAN, listener : {"helper"} \cup Sessions, owed : Nat, detached : Nat]

HeldIn(s) == {s.map[k] : k \in DOMAIN s.map}

\* What is right of the books whenever the lock is free.
Books(s) ==
  /\ s = [map |-> s.map, ssrcOf |-> s.ssrcOf, procs |-> s.procs]
  /\ s.procs \in Seq(Process)
  /\ \A k \in DOMAIN s.map : s.map[k] \in DOMAIN s.procs /\ s.procs[s.map[k]].key = k
  /\ \A i \in DOMAIN s.ssrcOf : i = Empty /\ s.ssrcOf[i] \in Ssrcs
  /\ \A n \in DOMAIN s.procs :
       s.procs[n].owed + s.procs[n].detached = IF n \in HeldIn(s) THEN 0 ELSE 1

\* The processes that datagrams, sessions and the server are bound to exist.
Known ==
  /\ hand \in [Pollers -> [ssrc : Ssrcs \cup {None}, addr : Addresses \cup {None}, n : Nat]]
  /\ \A t \in Pollers : hand[t] # Idle => hand[t].addr \in Addresses /\ hand[t].n \in Processes
  /\ tcp \in [Sessions -> [state : {"new", "ssrc", "device", "shut", "gone"}, n : Nat, late : BOOLEAN]]
  /\ \A x \in Sessions : tcp[x].n \in {0} \cup Processes
  /\ server \in {0} \cup Processes

\* What may still make a process is bounded.
Bounded ==
  /\ left \in [Kinds -> Nat]
  /\ Len(sel.procs) + left.udp + left.tcp + left.starts <= MaxProcesses

IngInv == Books(sel) /\ Known /\ Bounded
-----------------------------------------------------------------------------
USE IngestAssumption

LEMMA NewIsProcess ==
  \A id \in {Empty, Device}, k \in Ssrcs \cup {Device} :
    /\ NewProcess(id, k) \in Process
    /\ NewProcess(id, k).key = k /\ NewProcess(id, k).owed = 0 /\ NewProcess(id, k).detached = 0
  BY DEF NewProcess, Process

LEMMA OweOne ==
  ASSUME NEW p \in Process
  PROVE  LET q == [p EXCEPT !.owed = @ + 1]
         IN q \in Process /\ q.key = p.key /\ q.owed = p.owed + 1 /\ q.detached = p.detached
  BY DEF Process

LEMMA ProcessFields ==
  ASSUME NEW p \in Process
  PROVE  /\ p.id \in {Empty, Device} /\ p.owed \in Nat /\ p.detached \in Nat /\ p.silent \in BOOLEAN
         /\ p.listener \in {"helper"} \cup Sessions
  BY DEF Process

\* The processes of s keep their keys, and at most one is new.
Grows(s, t) == Len(t.procs) \in Len(s.procs) .. Len(s.procs) + 1

\* t is s with another process, under a key that was free.
LEMMA MadeBooks ==
  ASSUME NEW s, Books(s), NEW id \in {Empty, Device}, NEW k \in Ssrcs \cup {Device}, k \notin DOMAIN s.map
  PROVE  /\ Books(Made(s, id, k)) /\ Grows(s, Made(s, id, k))
         /\ HeldIn(s) \subseteq HeldIn(Made(s, id, k))
         /\ k \in DOMAIN Made(s, id, k).map
<1> DEFINE t == Made(s, id, k)
           p == NewProcess(id, k)
           l == Len(s.procs)
<1>1. /\ t.procs = Append(s.procs, p) /\ t.ssrcOf = s.ssrcOf
      /\ t = [map |-> t.map, ssrcOf |-> t.ssrcOf, procs |-> t.procs]
      /\ t.map = Enter(s.map, k, l + 1)
  BY DEF Made
<1>2. /\ DOMAIN t.map = {k} \cup DOMAIN s.map
      /\ t.map[k] = l + 1 /\ \A j \in DOMAIN s.map : t.map[j] = s.map[j]
  BY <1>1 DEF Enter
<1>3. /\ l \in Nat /\ t.procs \in Seq(Process) /\ Len(t.procs) = l + 1
      /\ DOMAIN s.procs = 1 .. l /\ DOMAIN t.procs = 1 .. l + 1
      /\ t.procs[l + 1] = p /\ \A n \in 1 .. l : t.procs[n] = s.procs[n]
  BY <1>1, NewIsProcess DEF Books
<1>4. \A j \in DOMAIN s.map : s.map[j] \in 1 .. l
  BY <1>3 DEF Books
<1>5. HeldIn(t) = HeldIn(s) \cup {l + 1} /\ l + 1 \notin HeldIn(s)
  <2>1. l + 1 \notin HeldIn(s)
    BY <1>3, <1>4 DEF HeldIn
  <2>2. HeldIn(t) = HeldIn(s) \cup {l + 1}
    BY <1>2 DEF HeldIn
  <2> QED
    BY <2>1, <2>2
<1>6. p.key = k /\ p.owed = 0 /\ p.detached = 0
  BY NewIsProcess
<1> HIDE DEF t, p, l
<1>7. \A j \in DOMAIN t.map : t.map[j] \in DOMAIN t.procs /\ t.procs[t.map[j]].key = j
  BY <1>2, <1>3, <1>4, <1>6 DEF Books
<1>8. \A i \in DOMAIN t.ssrcOf : i = Empty /\ t.ssrcOf[i] \in Ssrcs
  BY <1>1 DEF Books
<1>9. \A n \in DOMAIN t.procs :
        t.procs[n].owed + t.procs[n].detached = IF n \in HeldIn(t) THEN 0 ELSE 1
  BY <1>3, <1>5, <1>6 DEF Books
<1>10. Books(t)
  BY <1>1, <1>3, <1>7, <1>8, <1>9 DEF Books
<1>11. Grows(s, t)
  BY <1>3 DEF Grows, l
<1> QED
  BY <1>2, <1>5, <1>10, <1>11 DEF t

LEMMA GetBySsrcBooks ==
  ASSUME NEW s, Books(s), NEW k \in Ssrcs
  PROVE  LET t == GetBySsrc(s, k)
         IN Books(t) /\ Grows(s, t) /\ HeldIn(s) \subseteq HeldIn(t) /\ k \in DOMAIN t.map
<1>1. CASE k \in DOMAIN s.map
  BY <1>1 DEF GetBySsrc, Grows, Books
<1>2. CASE k \notin DOMAIN s.map
  <2> DEFINE m == Made(s, Empty, k)
             t == [m EXCEPT !.ssrcOf = Enter(@, Empty, k)]
  <2>1. Books(m) /\ Grows(s, m) /\ HeldIn(s) \subseteq HeldIn(m) /\ k \in DOMAIN m.map
    BY <1>2, MadeBooks
  <2>2. t = GetBySsrc(s, k)
    BY <1>2 DEF GetBySsrc
  <2> HIDE DEF m
  <2>3. /\ t.map = m.map /\ t.procs = m.procs /\ t.ssrcOf = Enter(m.ssrcOf, Empty, k)
        /\ t = [map |-> t.map, ssrcOf |-> t.ssrcOf, procs |-> t.procs]
    BY <2>1 DEF Books
  <2>4. \A i \in DOMAIN t.ssrcOf : i = Empty /\ t.ssrcOf[i] \in Ssrcs
    BY <2>1, <2>3 DEF Enter, Books
  <2>5. HeldIn(t) = HeldIn(m)
    BY <2>3 DEF HeldIn
  <2> HIDE DEF t
  <2>6. Books(t) /\ Grows(s, t) /\ HeldIn(s) \subseteq HeldIn(t) /\ k \in DOMAIN t.map
    BY <2>1, <2>3, <2>4, <2>5 DEF Books, Grows
  <2> QED
    BY <2>2, <2>6
<1> QED
  BY <1>1, <1>2

LEMMA GetByIdBooks ==
  ASSUME NEW s, Books(s)
  PROVE  LET t == GetById(s, Device)
         IN /\ Books(t) /\ Grows(s, t) /\ HeldIn(s) \subseteq HeldIn(t)
            /\ FoundById(t, Device) \in DOMAIN t.procs
<1>1. CASE Device \in DOMAIN s.map \/ KeyOf(s, Device) \in DOMAIN s.map
  BY <1>1 DEF GetById, FoundById, Grows, Books
<1>2. CASE ~(Device \in DOMAIN s.map \/ KeyOf(s, Device) \in DOMAIN s.map)
  <2> DEFINE t == Made(s, Device, Device)
  <2>1. Books(t) /\ Grows(s, t) /\ HeldIn(s) \subseteq HeldIn(t) /\ Device \in DOMAIN t.map
    BY <1>2, MadeBooks
  <2>2. t = GetById(s, Device)
    BY <1>2 DEF GetById
  <2> HIDE DEF t
  <2>3. FoundById(t, Device) \in DOMAIN t.procs
    BY <2>1 DEF FoundById, Books
  <2> QED
    BY <2>1, <2>2, <2>3
<1> QED
  BY <1>1, <1>2

\* An entry leads to one process, so that no other entry leads to the same.
LEMMA OneKey ==
  ASSUME NEW s, Books(s), NEW j \in DOMAIN s.map, NEW k \in DOMAIN s.map, s.map[j] = s.map[k]
  PROVE  j = k
  BY DEF Books

\* s and t have the same processes but for addr, silent, listener and what owed and detached share.
LEMMA DelProcessBooks ==
  ASSUME NEW s, Books(s), NEW id, NEW n
  PROVE  LET t == DelProcess(s, id, n)
         IN Books(t) /\ Len(t.procs) = Len(s.procs) /\ HeldIn(s) \ {n} \subseteq HeldIn(t)
<1> DEFINE k == KeyOf(s, id)
           d == [s EXCEPT !.ssrcOf = Drop(@, id)]
<1>1. /\ d.map = s.map /\ d.procs = s.procs /\ d.ssrcOf = Drop(s.ssrcOf, id)
      /\ d = [map |-> d.map, ssrcOf |-> d.ssrcOf, procs |-> d.procs]
  BY DEF Books
<1>2. \A i \in DOMAIN d.ssrcOf : i = Empty /\ d.ssrcOf[i] \in Ssrcs
  BY <1>1 DEF Drop, Books
<1>3. HeldIn(d) = HeldIn(s)
  BY <1>1 DEF HeldIn
<1> HIDE DEF d
<1>4. Books(d)
  BY <1>1, <1>2, <1>3 DEF Books
<1>5. CASE ~(k \in DOMAIN s.map /\ s.map[k] = n)
  <2>1. DelProcess(s, id, n) = d
    BY <1>5 DEF DelProcess, d
  <2> QED
    BY <1>1, <1>3, <1>4, <2>1
<1>6. CASE k \in DOMAIN s.map /\ s.map[k] = n
  <2> DEFINE t == [map |-> Drop(s.map, k), ssrcOf |-> d.ssrcOf,
                   procs |-> [s.procs EXCEPT ![n].owed = @ + 1]]
  <2>1. DelProcess(s, id, n) = t
    BY <1>6 DEF DelProcess, d
  <2>2. /\ t.map = Drop(s.map, k) /\ t.ssrcOf = d.ssrcOf
        /\ t.procs = [s.procs EXCEPT ![n] = [s.procs[n] EXCEPT !.owed = @ + 1]]
        /\ t = [map |-> t.map, ssrcOf |-> t.ssrcOf, procs |-> t.procs]
    OBVIOUS
  <2> HIDE DEF t
  <2>3. n \in DOMAIN s.procs /\ s.procs \in Seq(Process) /\ s.procs[n] \in Process
    BY <1>6, ElementOfSeq DEF Books
  <2>4. [s.procs[n] EXCEPT !.owed = @ + 1] \in Process
    BY <2>3, OweOne
  <2>5. /\ t.procs \in Seq(Process) /\ DOMAIN t.procs = DOMAIN s.procs /\ Len(t.procs) = Len(s.procs)
        /\ \A m \in DOMAIN s.procs \ {n} : t.procs[m] = s.procs[m]
        /\ t.procs[n] = [s.procs[n] EXCEPT !.owed = @ + 1]
    BY <2>2, <2>3, <2>4
  <2>6. /\ t.procs[n].key = s.procs[n].key /\ t.procs[n].owed = s.procs[n].owed + 1
        /\ t.procs[n].detached = s.procs[n].detached /\ s.procs[n].owed \in Nat /\ s.procs[n].detached \in Nat
    BY <2>3, <2>5, OweOne, ProcessFields
  <2>7. DOMAIN t.map = DOMAIN s.map \ {k} /\ \A j \in DOMAIN t.map : t.map[j] = s.map[j]
    BY <2>2 DEF Drop
  <2>8. HeldIn(t) = HeldIn(s) \ {n} /\ n \in HeldIn(s)
    <3>1. \A j \in DOMAIN t.map : s.map[j] # n
      BY <1>6, <2>7, OneKey
    <3> QED
      BY <1>6, <2>7, <3>1 DEF HeldIn
  <2>9. \A j \in DOMAIN t.map : t.map[j] \in DOMAIN t.procs /\ t.procs[t.map[j]].key = j
    <3> TAKE j \in DOMAIN t.map
    <3>1. j \in DOMAIN s.map /\ t.map[j] = s.map[j] /\ s.map[j] \in DOMAIN s.procs /\ s.procs[s.map[j]].key = j
      BY <2>7 DEF Books
    <3>2. t.procs[s.map[j]].key = s.procs[s.map[j]].key
      BY <2>5, <2>6, <3>1
    <3> QED
      BY <2>5, <3>1, <3>2
  <2>10. \A m \in DOMAIN t.procs :
           t.procs[m].owed + t.procs[m].detached = IF m \in HeldIn(t) THEN 0 ELSE 1
    <3>1. \A m \in DOMAIN s.procs : s.procs[m].owed + s.procs[m].detached = IF m \in HeldIn(s) THEN 0 ELSE 1
      BY DEF Books
    <3>2. s.procs[n].owed + s.procs[n].detached = 0
      BY <2>3, <2>8, <3>1
    <3>3. t.procs[n].owed + t.procs[n].detached = 1
      BY <2>6, <3>2
    <3> QED
      BY <2>5, <2>8, <3>1, <3>3
  <2>11. Books(t)
    BY <1>2, <2>2, <2>5, <2>9, <2>10 DEF Books
  <2> QED
    BY <2>1, <2>5, <2>8, <2>11
<1> QED
  BY <1>5, <1>6

\* Steps that change the processes only, and no key, in a way that owed and
\* detached count as much as before.
LEMMA SameBooks ==
  ASSUME NEW s, Books(s), NEW q \in Seq(Process), DOMAIN q = DOMAIN s.procs,
         \A n \in DOMAIN q : /\ q[n].key = s.procs[n].key
                             /\ q[n].owed + q[n].detached = s.procs[n].owed + s.procs[n].detached
  PROVE  LET t == [s EXCEPT !.procs = q]
         IN Books(t) /\ HeldIn(t) = HeldIn(s) /\ t.procs = q
<1> DEFINE t == [s EXCEPT !.procs = q]
<1>1. /\ t.map = s.map /\ t.ssrcOf = s.ssrcOf /\ t.procs = q
      /\ t = [map |-> t.map, ssrcOf |-> t.ssrcOf, procs |-> t.procs]
  BY DEF Books
<1>2. HeldIn(t) = HeldIn(s)
  BY <1>1 DEF HeldIn
<1> HIDE DEF t
<1>3. Books(t)
  BY <1>1, <1>2 DEF Books
<1> QED
  BY <1>1, <1>2, <1>3 DEF t

\* Feeding a packet, naming a listener, falling silent and onDetach.
LEMMA OneChanged ==
  ASSUME NEW s, Books(s), NEW n \in DOMAIN s.procs, NEW q \in Process, q.key = s.procs[n].key,
         q.owed + q.detached = s.procs[n].owed + s.procs[n].detached
  PROVE  LET t == [s EXCEPT !.procs[n] = q]
         IN Books(t) /\ HeldIn(t) = HeldIn(s) /\ Len(t.procs) = Len(s.procs)
<1> DEFINE r == [s.procs EXCEPT ![n] = q]
<1>1. /\ r \in Seq(Process) /\ DOMAIN r = DOMAIN s.procs /\ Len(r) = Len(s.procs)
      /\ r[n] = q /\ \A m \in DOMAIN s.procs \ {n} : r[m] = s.procs[m]
  BY DEF Books
<1>2. [s EXCEPT !.procs[n] = q] = [s EXCEPT !.procs = r]
  BY DEF Books
<1> HIDE DEF r
<1>3. \A m \in DOMAIN r : /\ r[m].key = s.procs[m].key
                          /\ r[m].owed + r[m].detached = s.procs[m].owed + s.procs[m].detached
  BY <1>1
<1> QED
  BY <1>1, <1>2, <1>3, SameBooks

LEMMA InputRtpBooks ==
  ASSUME NEW s, Books(s), NEW n \in DOMAIN s.procs, NEW a \in Addresses, NEW frame \in BOOLEAN
  PROVE  LET t == InputRtp(s, n, a, frame)
         IN Books(t) /\ HeldIn(t) = HeldIn(s) /\ Len(t.procs) = Len(s.procs)
<1> DEFINE p == s.procs[n]
           b == IF p.addr = None THEN a ELSE p.addr
           o == [p EXCEPT !.addr = b]
           q == [o EXCEPT !.silent = p.silent /\ ~(b = a /\ frame)]
<1>1. p \in Process
  BY ElementOfSeq DEF Books
<1> HIDE DEF p
<1>2. b \in Addresses \cup {None}
  BY <1>1 DEF Process
<1>3. o \in Process /\ o.key = p.key /\ o.owed = p.owed /\ o.detached = p.detached /\ o.silent = p.silent
  BY <1>1, <1>2 DEF Process
<1>4. (p.silent /\ ~(b = a /\ frame)) \in BOOLEAN
  OBVIOUS
<1> HIDE DEF o
<1>5. q \in Process /\ q.key = p.key /\ q.owed = p.owed /\ q.detached = p.detached
  BY <1>3, <1>4 DEF Process
<1>6. InputRtp(s, n, a, frame) = [s EXCEPT !.procs[n] = q]
  BY <1>3 DEF InputRtp, o, p
<1>7. q.key = s.procs[n].key /\ q.owed + q.detached = s.procs[n].owed + s.procs[n].detached
  BY <1>5 DEF p
<1> HIDE DEF q
<1> QED
  BY <1>5, <1>6, <1>7, OneChanged

LEMMA OnManagerBooks ==
  ASSUME NEW s, Books(s)
  PROVE  LET t == OnManager(s)
         IN /\ Books(t) /\ Len(t.procs) = Len(s.procs)
            /\ \A n \in HeldIn(s) : n \notin HeldIn(t) => s.procs[n].silent
<1> DEFINE t == OnManager(s)
           dead == {k \in DOMAIN s.map : s.procs[s.map[k]].silent}
           ns == {s.map[k] : k \in dead}
<1>1. /\ DOMAIN t.map = DOMAIN s.map \ dead /\ \A k \in DOMAIN t.map : t.map[k] = s.map[k]
      /\ t.procs = [n \in DOMAIN s.procs |-> [s.procs[n] EXCEPT !.owed = IF n \in ns THEN @ + 1 ELSE @]]
      /\ t.ssrcOf = [i \in DOMAIN s.ssrcOf \ {s.procs[n].id : n \in ns} |-> s.ssrcOf[i]]
      /\ t = [map |-> t.map, ssrcOf |-> t.ssrcOf, procs |-> t.procs]
  BY DEF OnManager
<1> HIDE DEF t
<1>2. \A n \in DOMAIN s.procs : /\ s.procs[n] \in Process
                                /\ s.procs[n].owed \in Nat /\ s.procs[n].detached \in Nat
  BY ElementOfSeq, ProcessFields DEF Books
<1>3. \A n \in DOMAIN s.procs :
        /\ t.procs[n] \in Process /\ t.procs[n].key = s.procs[n].key
        /\ t.procs[n].detached = s.procs[n].detached
        /\ t.procs[n].owed = IF n \in ns THEN s.procs[n].owed + 1 ELSE s.procs[n].owed
  <2> TAKE n \in DOMAIN s.procs
  <2>1. CASE n \in ns
    <3>1. t.procs[n] = [s.procs[n] EXCEPT !.owed = @ + 1]
      BY <1>1, <2>1
    <3> QED
      BY <1>2, <2>1, <3>1, OweOne
  <2>2. CASE n \notin ns
    <3>1. t.procs[n] = [s.procs[n] EXCEPT !.owed = @]
      BY <1>1, <2>2
    <3>2. t.procs[n] = s.procs[n]
      BY <1>2, <3>1 DEF Process
    <3> QED
      BY <1>2, <2>2, <3>2
  <2> QED
    BY <2>1, <2>2
<1>4. DOMAIN t.procs = DOMAIN s.procs /\ Len(t.procs) = Len(s.procs) /\ t.procs \in Seq(Process)
  <2>1. Len(s.procs) \in Nat /\ DOMAIN s.procs = 1 .. Len(s.procs) /\ DOMAIN t.procs = DOMAIN s.procs
    BY <1>1, LenProperties DEF Books
  <2>2. t.procs = [n \in 1 .. Len(s.procs) |-> t.procs[n]]
    BY <1>1, <2>1
  <2>3. t.procs \in [1 .. Len(s.procs) -> Process]
    BY <1>3, <2>1, <2>2
  <2> QED
    BY <2>1, <2>3, LenProperties, SeqDef
<1>5. HeldIn(t) = HeldIn(s) \ ns /\ ns \subseteq HeldIn(s)
  <2>1. \A k \in DOMAIN s.map : s.map[k] \in ns => k \in dead
    OBVIOUS
  <2>2. DOMAIN t.map = DOMAIN s.map \ dead /\ \A k \in DOMAIN s.map \ dead : t.map[k] = s.map[k]
    BY <1>1
  <2>3. \A k \in dead : k \in DOMAIN s.map /\ s.map[k] \in ns
    OBVIOUS
  <2>4. \A n \in ns : \E k \in dead : n = s.map[k]
    OBVIOUS
  <2> HIDE DEF ns, dead
  <2>5. ns \subseteq HeldIn(s)
    BY <2>3, <2>4 DEF HeldIn
  <2>6. HeldIn(t) = {s.map[k] : k \in DOMAIN s.map \ dead}
    BY <2>2 DEF HeldIn
  <2>7. {s.map[k] : k \in DOMAIN s.map \ dead} = HeldIn(s) \ ns
    BY <2>1, <2>3 DEF HeldIn
  <2> QED
    BY <2>5, <2>6, <2>7
<1>6. \A n \in ns : s.procs[n].silent
  OBVIOUS
<1> HIDE DEF ns, dead
<1>7. \A k \in DOMAIN t.map : t.map[k] \in DOMAIN t.procs /\ t.procs[t.map[k]].key = k
  BY <1>1, <1>3, <1>4 DEF Books
<1>8. \A i \in DOMAIN t.ssrcOf : i = Empty /\ t.ssrcOf[i] \in Ssrcs
  BY <1>1 DEF Books
<1>9. \A n \in DOMAIN t.procs :
        t.procs[n].owed + t.procs[n].detached = IF n \in HeldIn(t) THEN 0 ELSE 1
  <2>1. \A n \in DOMAIN s.procs :
          s.procs[n].owed + s.procs[n].detached = IF n \in HeldIn(s) THEN 0 ELSE 1
    BY DEF Books
  <2> TAKE n \in DOMAIN t.procs
  <2>2. CASE n \in ns
    BY <1>2, <1>3, <1>4, <1>5, <2>1, <2>2
  <2>3. CASE n \notin ns
    BY <1>2, <1>3, <1>4, <1>5, <2>1, <2>3
  <2> QED
    BY <2>2, <2>3
<1>10. Books(t)
  BY <1>1, <1>4, <1>7, <1>8, <1>9 DEF Books
<1> QED
  BY <1>4, <1>5, <1>6, <1>10 DEF t
-----------------------------------------------------------------------------
(* The steps.  Every one keeps IngInv and removes for cause only.           *)

LEMMA InitInv == IInit => IngInv
<1> SUFFICES ASSUME IInit PROVE IngInv
  OBVIOUS
<1>1. Books(sel)
  BY DEF IInit, Books, HeldIn
<1>2. Known
  BY DEF IInit, Known, Idle, NewSession, Processes
<1>3. Bounded
  <2>1. left \in Bounds /\ sel.procs = <<>>
    BY DEF IInit
  <2>2. Len(sel.procs) = 0
    BY <2>1
  <2>3. left \in [Kinds -> Nat] /\ left.udp + left.tcp + left.starts <= MaxProcesses
    BY <2>1
  <2>4. left.udp \in Nat /\ left.tcp \in Nat /\ left.starts \in Nat
    BY <2>3 DEF Kinds
  <2> QED
    BY <2>2, <2>3, <2>4 DEF Bounded
<1> QED
  BY <1>1, <1>2, <1>3 DEF IngInv

LEMMA Numbers ==
  ASSUME IngInv
  PROVE  /\ Len(sel.procs) \in Nat /\ DOMAIN sel.procs = Processes /\ Processes = 1 .. Len(sel.procs)
         /\ \A n \in Processes : sel.procs[n] \in Process
         /\ \A n \in Held : n \in Processes
         /\ Held = HeldIn(sel)
<1>1. sel.procs \in Seq(Process)
  BY DEF IngInv, Books
<1>2. Len(sel.procs) \in Nat /\ DOMAIN sel.procs = 1 .. Len(sel.procs)
  BY <1>1, LenProperties
<1>3. \A n \in 1 .. Len(sel.procs) : sel.procs[n] \in Process
  BY <1>1, <1>2, ElementOfSeq
<1>4. Held = HeldIn(sel)
  BY DEF Held, HeldIn
<1>5. \A n \in Held : n \in 1 .. Len(sel.procs)
  BY <1>2, <1>4 DEF HeldIn, IngInv, Books
<1> QED
  BY <1>2, <1>3, <1>4, <1>5 DEF Processes

\* Known of what stays as it is.
LEMMA StillKnown ==
  ASSUME IngInv, Books(sel'), Len(sel.procs) <= Len(sel'.procs)
  PROVE  \A n \in Processes : n \in Processes'
<1>1. Len(sel.procs) \in Nat /\ Len(sel'.procs) \in Nat
  BY Numbers, LenProperties DEF Books
<1> QED
  BY <1>1 DEF Processes

LEMMA SameKnown ==
  ASSUME IngInv, Books(sel'), Len(sel.procs) <= Len(sel'.procs), UNCHANGED <<hand, tcp, server>>
  PROVE  Known'
  BY StillKnown DEF IngInv, Known

LEMMA HandKnown ==
  ASSUME IngInv, Books(sel'), Len(sel.procs) <= Len(sel'.procs), UNCHANGED <<tcp, server>>,
         NEW u \in Pollers, NEW h, hand' = [hand EXCEPT ![u] = h],
         \/ h = Idle
         \/ h \in [ssrc : Ssrcs, addr : Addresses, n : Nat] /\ h.n \in Processes'
  PROVE  Known'
<1>1. h \in [ssrc : Ssrcs \cup {None}, addr : Addresses \cup {None}, n : Nat]
  BY DEF Idle
<1>2. hand' \in [Pollers -> [ssrc : Ssrcs \cup {None}, addr : Addresses \cup {None}, n : Nat]]
  BY <1>1 DEF IngInv, Known
<1>3. \A t \in Pollers : hand'[t] # Idle => hand'[t].addr \in Addresses /\ hand'[t].n \in Processes'
  BY StillKnown DEF IngInv, Known
<1> QED
  BY <1>2, <1>3, StillKnown DEF IngInv, Known

LEMMA TcpKnown ==
  ASSUME IngInv, Books(sel'), Len(sel.procs) <= Len(sel'.procs), UNCHANGED <<hand, server>>,
         NEW x \in Sessions, NEW h, tcp' = [tcp EXCEPT ![x] = h],
         h \in [state : {"new", "ssrc", "device", "shut", "gone"}, n : Nat, late : BOOLEAN],
         h.n \in {0} \cup Processes'
  PROVE  Known'
<1>1. \A y \in Sessions : tcp'[y].n \in {0} \cup Processes'
  BY StillKnown DEF IngInv, Known
<1> QED
  BY <1>1, StillKnown DEF IngInv, Known

LEMMA OneForAnother ==
  ASSUME NEW l \in Nat, NEW k \in Nat, NEW a \in Nat, NEW b \in Nat, NEW c \in Nat,
         NEW d \in Nat, NEW e \in Nat, NEW f \in Nat, NEW m \in Nat,
         l + a + b + c <= m, k <= l + 1,
         (d + 1 = a /\ e = b /\ f = c) \/ (d = a /\ e + 1 = b /\ f = c) \/ (d = a /\ e = b /\ f + 1 = c)
  PROVE  k + d + e + f <= m
  OBVIOUS

LEMMA SpendBounded ==
  ASSUME IngInv, Books(sel'), NEW what \in Kinds, Spend(what),
         \/ Len(sel'.procs) = Len(sel.procs)
         \/ what \in {"udp", "tcp", "starts"} /\ Len(sel'.procs) \in Len(sel.procs) .. Len(sel.procs) + 1
  PROVE  Bounded' /\ left'[what] # left[what]
<1>1. left \in [Kinds -> Nat] /\ left[what] > 0 /\ left' = [left EXCEPT ![what] = left[what] - 1]
  BY DEF IngInv, Bounded, Spend
<1>2. left[what] - 1 \in Nat /\ left[what] \in Nat
  BY <1>1
<1>3. left' \in [Kinds -> Nat] /\ left'[what] = left[what] - 1
      /\ \A k \in Kinds \ {what} : left'[k] = left[k]
  BY <1>1, <1>2
<1>4. {"udp", "tcp", "starts"} \subseteq Kinds /\ \A k \in Kinds : left[k] \in Nat /\ left'[k] \in Nat
  BY <1>1, <1>3 DEF Kinds
<1>5. Len(sel.procs) \in Nat /\ Len(sel'.procs) \in Nat
  BY Numbers, LenProperties DEF Books
<1>6. Len(sel.procs) + left["udp"] + left["tcp"] + left["starts"] <= MaxProcesses
  BY DEF IngInv, Bounded
<1>7. Len(sel'.procs) <= Len(sel.procs) + 1
  BY <1>5
<1>8. /\ left["udp"] \in Nat /\ left["tcp"] \in Nat /\ left["starts"] \in Nat
      /\ left'["udp"] \in Nat /\ left'["tcp"] \in Nat /\ left'["starts"] \in Nat
  BY <1>4
<1>9. Len(sel'.procs) + left'["udp"] + left'["tcp"] + left'["starts"] <= MaxProcesses
  <2>1. CASE what \in {"udp", "tcp", "starts"}
    <3> DEFINE l == Len(sel.procs)
               k == Len(sel'.procs)
               a == left["udp"]
               b == left["tcp"]
               c == left["starts"]
               d == left'["udp"]
               e == left'["tcp"]
               f == left'["starts"]
               m == MaxProcesses
    <3>1. (d + 1 = a /\ e = b /\ f = c) \/ (d = a /\ e + 1 = b /\ f = c) \/ (d = a /\ e = b /\ f + 1 = c)
      BY <2>1, <1>2, <1>3, <1>4
    <3>2. /\ m \in Nat /\ l \in Nat /\ k \in Nat /\ k <= l + 1 /\ l + a + b + c <= m
          /\ a \in Nat /\ b \in Nat /\ c \in Nat /\ d \in Nat /\ e \in Nat /\ f \in Nat
      BY <1>5, <1>6, <1>7, <1>8 DEF MaxProcesses
    <3>3. SUFFICES k + d + e + f <= m
      OBVIOUS
    <3> HIDE DEF l, k, a, b, c, d, e, f, m
    <3> QED
      BY <3>1, <3>2, OneForAnother
  <2>2. CASE what \notin {"udp", "tcp", "starts"}
    BY <2>2, <1>3, <1>4, <1>5, <1>6 DEF MaxProcesses
  <2> QED
    BY <2>1, <2>2
<1> QED
  BY <1>2, <1>3, <1>9 DEF Bounded

LEMMA SameBounded ==
  ASSUME IngInv, Len(sel'.procs) = Len(sel.procs), left' = left
  PROVE  Bounded'
  BY DEF IngInv, Bounded

\* What RemovedForCause says of a step.
Cause ==
  \A n \in Held : n \notin {sel'.map[k] : k \in DOMAIN sel'.map} =>
    \/ sel.procs[n].silent
    \/ \E x \in Sessions : tcp[x].n = n /\ tcp[x].state = "shut"
    \/ left'.closes # left.closes /\ sel.procs[n].listener = "helper"
    \/ left'.throws # left.throws /\ \E t \in Pollers : hand[t].n = n /\ hand'[t] = Idle

LEMMA NobodyLeaves ==
  ASSUME IngInv, HeldIn(sel) \subseteq HeldIn(sel')
  PROVE  Cause
  BY Numbers DEF Cause, HeldIn

LEMMA OneLeaves ==
  ASSUME IngInv, NEW n, HeldIn(sel) \ {n} \subseteq HeldIn(sel'),
         \/ \E x \in Sessions : tcp[x].n = n /\ tcp[x].state = "shut"
         \/ left'.closes # left.closes /\ sel.procs[n].listener = "helper"
         \/ left'.throws # left.throws /\ \E t \in Pollers : hand[t].n = n /\ hand'[t] = Idle
  PROVE  Cause
  BY Numbers DEF Cause, HeldIn
\* A step that keeps everything.
Kept == IngInv' /\ Cause

LEMMA UdpLookUpKept ==
  ASSUME IngInv, NEW u \in Pollers, UdpLookUp(u) PROVE Kept
<1>1. PICK k \in Ssrcs, a \in Addresses :
        sel' = GetBySsrc(sel, k) /\ hand' = [hand EXCEPT ![u] = [ssrc |-> k, addr |-> a, n |-> sel'.map[k]]]
  BY DEF UdpLookUp
<1>2. /\ Books(sel') /\ Grows(sel, sel') /\ HeldIn(sel) \subseteq HeldIn(sel') /\ k \in DOMAIN sel'.map
  BY <1>1, GetBySsrcBooks DEF IngInv
<1>3. sel'.map[k] \in Processes' /\ sel'.map[k] \in Nat
  BY <1>2, LenProperties DEF Books, Processes
<1>4. Len(sel'.procs) \in Len(sel.procs) .. Len(sel.procs) + 1 /\ Len(sel.procs) <= Len(sel'.procs)
  BY <1>2, Numbers DEF Grows
<1>5. [ssrc |-> k, addr |-> a, n |-> sel'.map[k]] \in [ssrc : Ssrcs, addr : Addresses, n : Nat]
  BY <1>3
<1>6. Known'
  BY <1>1, <1>2, <1>3, <1>4, <1>5, HandKnown DEF UdpLookUp
<1>7. Bounded'
  BY <1>2, <1>4, SpendBounded DEF UdpLookUp, Kinds
<1> QED
  BY <1>2, <1>6, <1>7, NobodyLeaves DEF Kept, IngInv

\* Steps that make and remove no process.
LEMMA SameKept ==
  ASSUME IngInv, Books(sel'), HeldIn(sel') = HeldIn(sel), Len(sel'.procs) = Len(sel.procs),
         Known', Bounded'
  PROVE  Kept
  BY NobodyLeaves DEF Kept, IngInv

LEMMA UdpInputKept ==
  ASSUME IngInv, NEW u \in Pollers, UdpInput(u) PROVE Kept
<1>1. hand[u].n \in DOMAIN sel.procs /\ hand[u].addr \in Addresses
  BY Numbers DEF UdpInput, IngInv, Known
<1>2. PICK frame \in BOOLEAN : sel' = InputRtp(sel, hand[u].n, hand[u].addr, frame)
  BY DEF UdpInput
<1>3. Books(sel') /\ HeldIn(sel') = HeldIn(sel) /\ Len(sel'.procs) = Len(sel.procs)
  BY <1>1, <1>2, InputRtpBooks DEF IngInv
<1>4. Len(sel.procs) <= Len(sel'.procs)
  BY <1>3, Numbers
<1>5. Known'
  BY <1>3, <1>4, HandKnown DEF UdpInput
<1>6. Bounded'
  BY <1>3, SameBounded DEF UdpInput
<1> QED
  BY <1>3, <1>5, <1>6, SameKept

LEMMA UdpThrowsKept ==
  ASSUME IngInv, NEW u \in Pollers, UdpThrows(u) PROVE Kept
<1> DEFINE n == hand[u].n
<1>1. /\ Books(sel') /\ Len(sel'.procs) = Len(sel.procs) /\ HeldIn(sel) \ {n} \subseteq HeldIn(sel')
  BY DelProcessBooks DEF UdpThrows, IngInv
<1>2. Len(sel.procs) <= Len(sel'.procs)
  BY <1>1, Numbers
<1>3. Known'
  BY <1>1, <1>2, HandKnown DEF UdpThrows
<1>4. Bounded' /\ left'["throws"] # left["throws"]
  BY <1>1, SpendBounded DEF UdpThrows, Kinds
<1>5. hand'[u] = Idle
  BY DEF UdpThrows, IngInv, Known
<1> QED
  BY <1>1, <1>3, <1>4, <1>5, OneLeaves DEF Kept, IngInv

LEMMA ServerStartKept ==
  ASSUME IngInv, ServerStart PROVE Kept
<1>1. sel' = GetById(sel, Device) /\ server' = FoundById(sel', Device) /\ UNCHANGED <<hand, tcp>>
  BY DEF ServerStart
<1>2. /\ Books(sel') /\ Grows(sel, sel') /\ HeldIn(sel) \subseteq HeldIn(sel')
      /\ server' \in DOMAIN sel'.procs
  BY <1>1, GetByIdBooks DEF IngInv
<1>3. Len(sel'.procs) \in Len(sel.procs) .. Len(sel.procs) + 1 /\ Len(sel.procs) <= Len(sel'.procs)
  BY <1>2, Numbers DEF Grows
<1>4. server' \in Processes'
  BY <1>2, LenProperties DEF Books, Processes
<1>5. Known'
  BY <1>1, <1>2, <1>3, <1>4, StillKnown DEF IngInv, Known
<1>6. Bounded'
  BY <1>2, <1>3, SpendBounded DEF ServerStart, Kinds
<1> QED
  BY <1>2, <1>5, <1>6, NobodyLeaves DEF Kept, IngInv

LEMMA ServerInputKept ==
  ASSUME IngInv, ServerInput PROVE Kept
<1>1. server \in DOMAIN sel.procs
  BY Numbers DEF ServerInput, IngInv, Known
<1>2. PICK a \in Addresses, frame \in BOOLEAN : sel' = InputRtp(sel, server, a, frame)
  BY DEF ServerInput
<1>3. Books(sel') /\ HeldIn(sel') = HeldIn(sel) /\ Len(sel'.procs) = Len(sel.procs)
  BY <1>1, <1>2, InputRtpBooks DEF IngInv
<1>4. Len(sel.procs) <= Len(sel'.procs)
  BY <1>3, Numbers
<1>5. Known'
  BY <1>3, <1>4, SameKnown DEF ServerInput
<1>6. Bounded'
  BY <1>3, SpendBounded DEF ServerInput, Kinds
<1> QED
  BY <1>3, <1>5, <1>6, SameKept

\* A session in another state, or bound to another process.
LEMMA SessionType ==
  ASSUME IngInv, NEW x \in Sessions
  PROVE  /\ \A st \in {"new", "ssrc", "device", "shut", "gone"} :
              /\ [tcp[x] EXCEPT !.state = st] \in
                   [state : {"new", "ssrc", "device", "shut", "gone"}, n : Nat, late : BOOLEAN]
              /\ [tcp[x] EXCEPT !.state = st].n = tcp[x].n
         /\ \A n \in Nat :
              /\ [tcp[x] EXCEPT !.n = n] \in
                   [state : {"new", "ssrc", "device", "shut", "gone"}, n : Nat, late : BOOLEAN]
              /\ [tcp[x] EXCEPT !.n = n].n = n
         /\ [tcp[x] EXCEPT !.late = TRUE] \in
              [state : {"new", "ssrc", "device", "shut", "gone"}, n : Nat, late : BOOLEAN]
         /\ [tcp[x] EXCEPT !.late = TRUE].n = tcp[x].n
<1>1. tcp[x] \in [state : {"new", "ssrc", "device", "shut", "gone"}, n : Nat, late : BOOLEAN]
  BY DEF IngInv, Known
<1> QED
  BY <1>1

LEMMA StateKept ==
  ASSUME IngInv, NEW x \in Sessions, NEW st \in {"new", "ssrc", "device", "shut", "gone"},
         tcp' = [tcp EXCEPT ![x].state = st], UNCHANGED <<sel, hand, server>>, Bounded'
  PROVE  Kept
<1>1. Books(sel') /\ HeldIn(sel') = HeldIn(sel) /\ Len(sel'.procs) = Len(sel.procs) /\ Len(sel.procs) <= Len(sel'.procs)
  BY Numbers DEF IngInv
<1>2. tcp[x].n \in {0} \cup Processes'
  BY DEF IngInv, Known, Processes
<1>3. tcp' = [tcp EXCEPT ![x] = [tcp[x] EXCEPT !.state = st]]
  OBVIOUS
<1>4. Known'
  <2> DEFINE h == [tcp[x] EXCEPT !.state = st]
  <2>1. /\ h \in [state : {"new", "ssrc", "device", "shut", "gone"}, n : Nat, late : BOOLEAN]
        /\ h.n = tcp[x].n
    BY DEF IngInv, Known
  <2>2. tcp' = [tcp EXCEPT ![x] = h]
    BY <1>3
  <2> HIDE DEF h
  <2>3. h.n \in {0} \cup Processes'
    BY <2>1, <1>2
  <2> QED
    BY <1>1, <2>1, <2>2, <2>3, TcpKnown
<1> QED
  BY <1>1, <1>4, SameKept

LEMMA AcceptKept ==
  ASSUME IngInv, NEW x \in Sessions, Accept(x) PROVE Kept
<1>1. PICK port \in {"ssrc", "device"} : tcp' = [tcp EXCEPT ![x].state = port]
  BY DEF Accept
<1>2. Bounded'
  <2>1. Books(sel') /\ Len(sel'.procs) = Len(sel.procs)
    BY DEF Accept, IngInv
  <2> QED
    BY <2>1, SpendBounded DEF Accept, Kinds
<1> QED
  BY <1>1, <1>2, StateKept DEF Accept

LEMMA ShutKept ==
  ASSUME IngInv, NEW x \in Sessions, SessionError(x) \/ SessionManager(x) PROVE Kept
<1>1. tcp' = [tcp EXCEPT ![x].state = "shut"] /\ UNCHANGED <<sel, hand, server, left>>
  BY DEF SessionError, SessionManager, Shut
<1>2. Bounded'
  BY <1>1, SameBounded
<1> QED
  BY <1>1, <1>2, StateKept

\* A packet on a session: the process is looked up for the first, and fed.
LEMMA SessionPacketKept ==
  ASSUME IngInv, NEW x \in Sessions, SessionPacket(x) PROVE Kept
<1> DEFINE first == tcp[x].n = 0
           S(k) == IF ~first THEN sel ELSE IF tcp[x].state = "device" THEN GetById(sel, Device) ELSE GetBySsrc(sel, k)
           N(k) == IF ~first THEN tcp[x].n ELSE IF tcp[x].state = "device" THEN FoundById(S(k), Device) ELSE S(k).map[k]
           F(k) == IF first THEN [S(k) EXCEPT !.procs[N(k)].listener = x] ELSE S(k)
<1>1. PICK k \in Ssrcs, frame \in BOOLEAN :
        sel' = InputRtp(F(k), N(k), Addr[x], frame) /\ tcp' = [tcp EXCEPT ![x].n = N(k)]
  BY DEF SessionPacket
<1>2. /\ Books(S(k)) /\ Grows(sel, S(k)) /\ HeldIn(sel) \subseteq HeldIn(S(k))
      /\ N(k) \in DOMAIN S(k).procs
  <2>1. CASE ~first
    BY <2>1, Numbers DEF IngInv, Known, Grows
  <2>2. CASE first /\ tcp[x].state = "device"
    BY <2>2, GetByIdBooks DEF IngInv
  <2>3. CASE first /\ tcp[x].state # "device"
    BY <2>3, GetBySsrcBooks DEF IngInv, Books
  <2> QED
    BY <2>1, <2>2, <2>3
<1> HIDE DEF S, N
<1>3. /\ Books(F(k)) /\ HeldIn(F(k)) = HeldIn(S(k)) /\ Len(F(k).procs) = Len(S(k).procs)
      /\ N(k) \in DOMAIN F(k).procs
  <2>1. CASE ~first
    BY <1>2, <2>1
  <2>2. CASE first
    <3> DEFINE p == S(k).procs[N(k)]
               q == [p EXCEPT !.listener = x]
    <3>1. p \in Process
      BY <1>2, ElementOfSeq DEF Books
    <3>2. q \in Process /\ q.key = p.key /\ q.owed = p.owed /\ q.detached = p.detached
      BY <3>1 DEF Process
    <3>3. F(k) = [S(k) EXCEPT !.procs[N(k)] = q]
      BY <2>2
    <3> HIDE DEF F, q
    <3>4. /\ Books(F(k)) /\ HeldIn(F(k)) = HeldIn(S(k)) /\ Len(F(k).procs) = Len(S(k).procs)
      BY <1>2, <3>2, <3>3, OneChanged
    <3> QED
      BY <1>2, <3>4, LenProperties DEF Books
  <2> QED
    BY <2>1, <2>2
<1> HIDE DEF F
<1>4. Addr[x] \in Addresses
  OBVIOUS
<1>5. Books(sel') /\ HeldIn(sel') = HeldIn(F(k)) /\ Len(sel'.procs) = Len(F(k).procs)
  BY <1>1, <1>3, <1>4, InputRtpBooks
<1>6. /\ Len(sel'.procs) \in Len(sel.procs) .. Len(sel.procs) + 1 /\ Len(sel.procs) <= Len(sel'.procs)
      /\ HeldIn(sel) \subseteq HeldIn(sel')
  BY <1>2, <1>3, <1>5, Numbers DEF Grows
<1>7. N(k) \in Processes' /\ N(k) \in Nat
  BY <1>3, <1>5, LenProperties DEF Books, Processes
<1>8. Known'
  <2> DEFINE h == [tcp[x] EXCEPT !.n = N(k)]
  <2>1. tcp' = [tcp EXCEPT ![x] = h]
    BY <1>1
  <2>2. h \in [state : {"new", "ssrc", "device", "shut", "gone"}, n : Nat, late : BOOLEAN] /\ h.n = N(k)
    BY <1>7 DEF IngInv, Known
  <2>3. UNCHANGED <<hand, server>>
    BY DEF SessionPacket
  <2> HIDE DEF h
  <2> QED
    BY <2>1, <2>2, <2>3, <1>5, <1>6, <1>7, TcpKnown
<1>9. Bounded'
  BY <1>5, <1>6, SpendBounded DEF SessionPacket, Kinds
<1> QED
  BY <1>5, <1>6, <1>8, <1>9, NobodyLeaves DEF Kept, IngInv

LEMMA DestroyKept ==
  ASSUME IngInv, NEW x \in Sessions, Destroy(x) PROVE Kept
<1> DEFINE n == tcp[x].n
<1>1. /\ Books(sel') /\ Len(sel'.procs) = Len(sel.procs) /\ HeldIn(sel) \ {n} \subseteq HeldIn(sel')
  BY DelProcessBooks DEF Destroy, IngInv
<1>2. Len(sel.procs) <= Len(sel'.procs)
  BY <1>1, Numbers
<1>3. Known'
  <2>1. tcp' = [tcp EXCEPT ![x] = [tcp[x] EXCEPT !.state = "gone"]]
    BY DEF Destroy
  <2> DEFINE h == [tcp[x] EXCEPT !.state = "gone"]
  <2>2. tcp[x].n \in {0} \cup Processes'
    BY <1>1, <1>2, StillKnown DEF IngInv, Known
  <2>3. /\ h \in [state : {"new", "ssrc", "device", "shut", "gone"}, n : Nat, late : BOOLEAN]
        /\ h.n = tcp[x].n
    BY DEF IngInv, Known
  <2>4. UNCHANGED <<hand, server>>
    BY DEF Destroy
  <2>5. tcp' = [tcp EXCEPT ![x] = h]
    BY <2>1
  <2> HIDE DEF h
  <2>6. h.n \in {0} \cup Processes'
    BY <2>2, <2>3
  <2> QED
    BY <1>1, <1>2, <2>3, <2>4, <2>5, <2>6, TcpKnown
<1>4. Bounded'
  BY <1>1, SameBounded DEF Destroy
<1> QED
  BY <1>1, <1>3, <1>4, OneLeaves DEF Kept, IngInv, Destroy

LEMMA CloseKept ==
  ASSUME IngInv, NEW n \in Processes, Close(n) PROVE Kept
<1> DEFINE l == sel.procs[n].listener
<1>1. CASE l = "helper" /\ sel' = DelProcess(sel, sel.procs[n].id, n) /\ UNCHANGED tcp
  <2>1. /\ Books(sel') /\ Len(sel'.procs) = Len(sel.procs) /\ HeldIn(sel) \ {n} \subseteq HeldIn(sel')
    BY <1>1, DelProcessBooks DEF IngInv
  <2>2. Len(sel.procs) <= Len(sel'.procs)
    BY <2>1, Numbers
  <2>3. Known'
    <3>1. UNCHANGED <<hand, tcp, server>>
      BY <1>1 DEF Close
    <3> QED
      BY <3>1, <2>1, <2>2, SameKnown
  <2>4. Bounded' /\ left'["closes"] # left["closes"]
    BY <2>1, SpendBounded DEF Close, Kinds
  <2> QED
    BY <1>1, <2>1, <2>3, <2>4, OneLeaves DEF Kept, IngInv
<1>2. CASE l \in Sessions /\ Shut(l) /\ UNCHANGED sel
  <2>1. Bounded'
    <3>1. Books(sel') /\ Len(sel'.procs) = Len(sel.procs)
      BY <1>2 DEF IngInv
    <3> QED
      BY <3>1, SpendBounded DEF Close, Kinds
  <2> QED
    BY <1>2, <2>1, StateKept DEF Close, Shut
<1> QED
  BY <1>1, <1>2 DEF Close

LEMMA ManageKept ==
  ASSUME IngInv, Manage PROVE Kept
<1>1. /\ Books(sel') /\ Len(sel'.procs) = Len(sel.procs)
      /\ \A n \in HeldIn(sel) : n \notin HeldIn(sel') => sel.procs[n].silent
  BY OnManagerBooks DEF Manage, IngInv
<1>2. Len(sel.procs) <= Len(sel'.procs)
  BY <1>1, Numbers
<1>3. Known' /\ Bounded'
  BY <1>1, <1>2, SameKnown, SameBounded DEF Manage
<1>4. Cause
  BY <1>1, Numbers DEF Cause, HeldIn
<1> QED
  BY <1>1, <1>3, <1>4 DEF Kept, IngInv

LEMMA OnDetachIs ==
  ASSUME NEW p \in Process, p.owed - 1 \in Nat
  PROVE  /\ OnDetach(p) \in Process /\ OnDetach(p).key = p.key
         /\ OnDetach(p).owed = p.owed - 1 /\ OnDetach(p).detached = p.detached + 1
<1> DEFINE o == [p EXCEPT !.owed = p.owed - 1]
           q == [o EXCEPT !.detached = o.detached + 1]
<1>1. o \in Process /\ o.key = p.key /\ o.owed = p.owed - 1 /\ o.detached = p.detached
  BY DEF Process
<1>2. q \in Process /\ q.key = p.key /\ q.owed = p.owed - 1 /\ q.detached = p.detached + 1
  <2> HIDE DEF o
  <2> QED
    BY <1>1 DEF Process
<1>3. OnDetach(p) = q
  BY DEF OnDetach, Process
<1> QED
  BY <1>2, <1>3

LEMMA OneProcessKept ==
  ASSUME IngInv, NEW n \in Processes, Detach(n) \/ Silence(n) PROVE Kept
<1> DEFINE p == sel.procs[n]
<1>1. n \in DOMAIN sel.procs /\ p \in Process
  BY Numbers
<1>2. PICK q \in Process : /\ q.key = p.key /\ q.owed + q.detached = p.owed + p.detached
                           /\ sel' = [sel EXCEPT !.procs[n] = q]
  <2>1. CASE Silence(n)
    <3>1. /\ [p EXCEPT !.silent = TRUE] \in Process /\ [p EXCEPT !.silent = TRUE].key = p.key
          /\ [p EXCEPT !.silent = TRUE].owed = p.owed /\ [p EXCEPT !.silent = TRUE].detached = p.detached
      BY <1>1 DEF Process
    <3>2. sel' = [sel EXCEPT !.procs[n] = [p EXCEPT !.silent = TRUE]]
      BY <2>1 DEF Silence
    <3> QED
      BY <3>1, <3>2
  <2>2. CASE Detach(n)
    <3> DEFINE q == OnDetach(p)
    <3>1. p.owed \in Nat /\ p.owed > 0 /\ p.detached \in Nat /\ p.owed - 1 \in Nat
      BY <1>1, <2>2, ProcessFields DEF Detach
    <3>2. q \in Process /\ q.key = p.key /\ q.owed = p.owed - 1 /\ q.detached = p.detached + 1
      BY <1>1, <3>1, OnDetachIs
    <3>3. sel' = [sel EXCEPT !.procs[n] = q]
      BY <2>2 DEF Detach
    <3> HIDE DEF q
    <3>4. q.owed + q.detached = p.owed + p.detached
      BY <3>1, <3>2
    <3> QED
      BY <3>2, <3>3, <3>4
  <2> QED
    BY <2>1, <2>2
<1>3. Books(sel') /\ HeldIn(sel') = HeldIn(sel) /\ Len(sel'.procs) = Len(sel.procs)
  BY <1>1, <1>2, OneChanged DEF IngInv
<1>4. Len(sel.procs) <= Len(sel'.procs)
  BY <1>3, Numbers
<1>5. Known' /\ Bounded'
  BY <1>3, <1>4, SameKnown, SameBounded DEF Detach, Silence
<1> QED
  BY <1>3, <1>5, SameKept

LEMMA LatenessKept ==
  ASSUME IngInv, NEW x \in Sessions, Lateness(x) PROVE Kept
<1>1. tcp' = [tcp EXCEPT ![x] = [tcp[x] EXCEPT !.late = TRUE]] /\ UNCHANGED <<sel, hand, server, left>>
  BY DEF Lateness
<1>2. Books(sel') /\ HeldIn(sel') = HeldIn(sel) /\ Len(sel'.procs) = Len(sel.procs) /\ Len(sel.procs) <= Len(sel'.procs)
  BY <1>1, Numbers DEF IngInv
<1>3. tcp[x].n \in {0} \cup Processes'
  BY <1>1 DEF IngInv, Known, Processes
<1>4. Known' /\ Bounded'
  BY <1>1, <1>2, <1>3, SessionType, TcpKnown, SameBounded
<1> QED
  BY <1>2, <1>4, SameKept

LEMMA StepKept == IngInv /\ [INext]_ivars => Kept
<1> SUFFICES ASSUME IngInv, [INext]_ivars PROVE Kept
  OBVIOUS
<1>1. ASSUME NEW u \in Pollers, UdpLookUp(u) \/ UdpInput(u) \/ UdpThrows(u) PROVE Kept
  BY <1>1, UdpLookUpKept, UdpInputKept, UdpThrowsKept
<1>2. CASE ServerStart \/ ServerInput \/ Manage
  BY <1>2, ServerStartKept, ServerInputKept, ManageKept
<1>3. ASSUME NEW x \in Sessions,
             \/ Accept(x) \/ SessionPacket(x) \/ SessionError(x) \/ SessionManager(x)
             \/ Destroy(x) \/ Lateness(x)
      PROVE  Kept
  BY <1>3, AcceptKept, SessionPacketKept, ShutKept, DestroyKept, LatenessKept
<1>4. ASSUME NEW n \in Processes, Close(n) \/ Detach(n) \/ Silence(n) PROVE Kept
  BY <1>4, CloseKept, OneProcessKept
<1>5. CASE UNCHANGED ivars
  <2>1. UNCHANGED <<sel, hand, tcp, server, left>>
    BY <1>5 DEF ivars
  <2>2. Books(sel') /\ HeldIn(sel') = HeldIn(sel) /\ Len(sel'.procs) = Len(sel.procs) /\ Len(sel.procs) <= Len(sel'.procs)
    BY <2>1, Numbers DEF IngInv
  <2>3. Known' /\ Bounded'
    BY <2>1, <2>2, SameKnown, SameBounded
  <2> QED
    BY <2>2, <2>3, SameKept
<1> QED
  BY <1>1, <1>2, <1>3, <1>4, <1>5 DEF INext

\* The inductive invariant: the books, who is bound to which process, and how
\* many processes may still be made.
THEOREM IngestInductive == ISpec => []IngInv
<1>1. IInit => IngInv
  BY InitInv
<1>2. IngInv /\ [INext]_ivars => IngInv'
  BY StepKept DEF Kept
<1> QED
  BY <1>1, <1>2, PTL DEF ISpec

\* However datagrams, sessions, closes and the timer interleave, an entry of
\* RtpSelector leads to a process made for its key, and a process is detached
\* once, when its entry is gone.
THEOREM BooksAreSound == ISpec => []IngestSound
<1>1. IngInv => IngestSound
  <2> SUFFICES ASSUME IngInv PROVE SelectorOK /\ DetachedOnce
    BY DEF IngestSound
  <2>1. \A t \in Pollers : hand[t].n \in {0} \cup Processes
    BY DEF IngInv, Known, Idle
  <2>2. Len(sel.procs) <= MaxProcesses
    <3>1. left["udp"] \in Nat /\ left["tcp"] \in Nat /\ left["starts"] \in Nat
      BY DEF IngInv, Bounded, Kinds
    <3> QED
      BY <3>1, Numbers DEF IngInv, Bounded, MaxProcesses
  <2>3. SelectorOK
    BY <2>1, <2>2, Numbers DEF SelectorOK, IngInv, Books
  <2>4. DetachedOnce
    BY Numbers DEF DetachedOnce, IngInv, Books
  <2> QED
    BY <2>3, <2>4
<1> QED
  BY <1>1, IngestInductive, PTL

\* delProcess, an exception, a close and onManager remove no process but the one
\* they mean, although processes found by SSRC share a stream id.
THEOREM NobodyElseRemoved == ISpec => RemovedForCause
<1>1. IngInv /\ [INext]_ivars => Cause
  BY StepKept DEF Kept
<1> QED
  BY <1>1, IngestInductive, PTL DEF ISpec, RemovedForCause, Cause
=============================================================================
