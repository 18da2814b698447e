--------------------------- MODULE PageJoin_proofs ---------------------------
(***************************************************************************)
(* Proofs about PageJoin for every page, batch size, window and page limit *)
(* and whatever RDW answers: a page is marked as one whose fuel is         *)
(* unavailable for a reason, the join fails on bad input only, gives every *)
(* vehicle exactly its rows, and every step leaves less of the page to do. *)
(***************************************************************************)
EXTENDS PageJoin, TLAPS, FiniteSetTheorems, FunctionTheorems, SequenceTheorems,
        WellFoundedInduction

(***************************************************************************)
(* Sequences of sequences, laid end to end.                                *)
(***************************************************************************)

\* A non-empty set of natural numbers has a least element.
LEMMA LeastElement ==
    ASSUME NEW S, S \subseteq Nat, S # {}
    PROVE  \E x \in S : \A y \in S : x <= y
<1>1. PICK x \in S : \A y \in S : ~ (<<y, x>> \in OpToRel(<, Nat))
  BY NatLessThanWellFounded, WFMin
<1>2. \A y \in S : ~ (y < x)
  BY <1>1 DEF OpToRel
<1>3. QED  BY <1>2

\* s holds the sequences of q one behind the other, the b-th from off[b] on.
Laid(s, q, off) ==
    /\ off \in [1 .. Len(q) + 1 -> Nat]
    /\ off[1] = 0 /\ \A b \in 1 .. Len(q) : off[b + 1] = off[b] + Len(q[b])
    /\ Len(s) = off[Len(q) + 1]
    /\ \A b \in 1 .. Len(q) : \A i \in 1 .. Len(q[b]) : s[off[b] + i] = q[b][i]

\* f holds the concatenations of the first sequences of q.
Concats(q, f, S) ==
    /\ f \in [1 .. Len(q) -> Seq(S)]
    /\ \A i \in 1 .. Len(q) : f[i] = IF i = 1 THEN q[i] ELSE f[i - 1] \o q[i]

\* A prefix stays what it is when more is appended.
LEMMA PrefixesGrow ==
    ASSUME NEW S, NEW q \in Seq(Seq(S)), NEW f, Concats(q, f, S),
           NEW b \in 1 .. Len(q), NEW n \in 1 .. Len(q), b <= n
    PROVE  /\ Len(f[b]) <= Len(f[n])
           /\ \A i \in 1 .. Len(f[b]) : f[n][i] = f[b][i]
<1> DEFINE Grows(k) == Len(f[b]) <= Len(f[k]) /\ \A i \in 1 .. Len(f[b]) : f[k][i] = f[b][i]
           Bad == {k \in 1 .. Len(q) : b <= k /\ ~ Grows(k)}
<1>1. Len(q) \in Nat /\ \A i \in 1 .. Len(q) : q[i] \in Seq(S) /\ f[i] \in Seq(S)
  <2>1. Len(q) \in Nat /\ \A i \in 1 .. Len(q) : q[i] \in Seq(S)
    OBVIOUS
  <2>2. \A i \in 1 .. Len(q) : f[i] \in Seq(S)
    BY DEF Concats
  <2>3. QED  BY <2>1, <2>2
<1> SUFFICES ASSUME Bad # {} PROVE FALSE
  OBVIOUS
<1>2. PICK k \in Bad : \A m \in Bad : k <= m
  <2>1. Bad \subseteq Nat
    <3> HIDE DEF Grows
    <3>1. QED  BY <1>1
  <2> HIDE DEF Bad
  <2>2. QED  BY <2>1, LeastElement
<1>3. k \in 1 .. Len(q) /\ b <= k /\ ~ Grows(k)
  OBVIOUS
<1>4. Len(f[b]) \in Nat
  BY <1>1
<1>5. k # b
  BY <1>3, <1>4
<1>6. k - 1 \in 1 .. Len(q) /\ b <= k - 1 /\ k - 1 < k /\ k # 1
  BY <1>1, <1>3, <1>5
<1>7. Grows(k - 1)
  <2>1. k - 1 \notin Bad
    <3> HIDE DEF Bad
    <3>1. QED  BY <1>2, <1>3, <1>6
  <2>2. QED  BY <1>6, <2>1
<1> DEFINE s == f[k - 1]  t == q[k]
<1>8. f[k] = s \o t /\ s \in Seq(S) /\ t \in Seq(S)
  BY <1>1, <1>3, <1>6 DEF Concats
<1> HIDE DEF Grows, Bad
<1>9. Grows(k)
  <2> HIDE DEF s, t
  <2>1. /\ Len(s \o t) = Len(s) + Len(t) /\ Len(s) \in Nat /\ Len(t) \in Nat
        /\ \A i \in 1 .. Len(s) + Len(t) : (s \o t)[i] = IF i <= Len(s) THEN s[i] ELSE t[i - Len(s)]
    BY <1>8, ConcatProperties
  <2>2. Len(f[b]) <= Len(s) /\ \A i \in 1 .. Len(f[b]) : s[i] = f[b][i]
    BY <1>7 DEF s, Grows
  <2>3. \A i \in 1 .. Len(f[b]) : i \in 1 .. Len(s) + Len(t) /\ i <= Len(s)
    <3> DEFINE x == Len(f[b])  y == Len(s)  z == Len(t)
    <3>1. x \in Nat /\ y \in Nat /\ z \in Nat /\ x <= y
      BY <1>4, <2>1, <2>2
    <3> HIDE DEF x, y, z
    <3>2. \A i \in 1 .. x : i \in 1 .. y + z /\ i <= y
      BY <3>1
    <3>3. QED  BY <3>2 DEF x, y, z
  <2>4. Len(f[b]) <= Len(s \o t)
    BY <1>4, <2>1, <2>2
  <2>5. QED  BY <1>8, <2>1, <2>2, <2>3, <2>4 DEF Grows
<1>10. QED  BY <1>3, <1>9

\* The concatenations exist, and FlattenSeq is the last of them.
LEMMA FlattenIs ==
    ASSUME NEW S, NEW q \in Seq(Seq(S)), q # <<>>
    PROVE  \E f : Concats(q, f, S) /\ FlattenSeq(q) = f[Len(q)]
<1>1. Len(q) \in Nat \ {0} /\ \A i \in 1 .. Len(q) : q[i] \in Seq(S)
  OBVIOUS
<1> DEFINE Upto(n, f) == /\ f \in [1 .. n -> Seq(S)]
                         /\ \A i \in 1 .. n : f[i] = IF i = 1 THEN q[i] ELSE f[i - 1] \o q[i]
           Bad == {n \in 1 .. Len(q) : ~ \E f : Upto(n, f)}
<1>2. Bad = {}
  <2> SUFFICES ASSUME Bad # {} PROVE FALSE
    OBVIOUS
  <2>1. PICK n \in Bad : \A m \in Bad : n <= m
    <3>1. Bad \subseteq Nat
      <4> HIDE DEF Upto
      <4>1. QED  BY <1>1
    <3> HIDE DEF Bad
    <3>2. QED  BY <3>1, LeastElement
  <2>2. n \in 1 .. Len(q) /\ ~ \E f : Upto(n, f)
    OBVIOUS
  <2>3. CASE n = 1
    <3> HIDE DEF Bad
    <3>1. Upto(1, [i \in 1 .. 1 |-> q[i]])
      BY <1>1
    <3>2. QED  BY <2>2, <2>3, <3>1
  <2>4. CASE n # 1
    <3>1. n - 1 \in 1 .. Len(q) /\ n - 1 < n
      BY <1>1, <2>2, <2>4
    <3>2. n - 1 \notin Bad
      <4> HIDE DEF Bad
      <4>1. QED  BY <2>1, <2>2, <3>1
    <3>3. PICK f : Upto(n - 1, f)
      BY <3>1, <3>2
    <3> DEFINE g == [i \in 1 .. n |-> IF i = n THEN f[n - 1] \o q[n] ELSE f[i]]
    <3>4. g \in [1 .. n -> Seq(S)]
      <4>1. f[n - 1] \in Seq(S) /\ q[n] \in Seq(S)
        BY <1>1, <2>2, <2>4, <3>3
      <4>2. f[n - 1] \o q[n] \in Seq(S)
        BY <4>1
      <4>3. \A i \in 1 .. n : i # n => i \in 1 .. n - 1
        BY <2>2
      <4>4. QED  BY <3>3, <4>2, <4>3
    <3>5. ASSUME NEW i \in 1 .. n
          PROVE  g[i] = IF i = 1 THEN q[i] ELSE g[i - 1] \o q[i]
      <4>1. CASE i = n
        <5>1. g[n] = f[n - 1] \o q[n] /\ g[n - 1] = f[n - 1]
          <6>1. n \in 1 .. n /\ n - 1 \in 1 .. n /\ n - 1 # n
            BY <2>2, <3>1
          <6>2. QED  BY <6>1
        <5>2. QED  BY <2>4, <4>1, <5>1
      <4>2. CASE i # n /\ i = 1
        <5>1. 1 \in 1 .. n - 1 /\ g[1] = f[1]
          BY <2>2, <2>4, <4>2
        <5>2. f[1] = q[1]
          BY <3>3, <5>1
        <5>3. QED  BY <4>2, <5>1, <5>2
      <4>3. CASE i # n /\ i # 1
        <5>1. i \in 1 .. n - 1 /\ i - 1 \in 1 .. n /\ i - 1 # n
          BY <2>2, <4>3
        <5>2. g[i] = f[i] /\ g[i - 1] = f[i - 1]
          BY <4>3, <5>1
        <5>3. f[i] = f[i - 1] \o q[i]
          BY <3>3, <4>3, <5>1
        <5>4. QED  BY <4>3, <5>2, <5>3
      <4>4. QED  BY <4>1, <4>2, <4>3
    <3> HIDE DEF g
    <3>6. Upto(n, g)
      BY <3>4, <3>5
    <3>7. QED  BY <2>2, <3>6
  <2>5. QED  BY <2>3, <2>4
<1>3. \E f : Concats(q, f, S)
  <2>1. Len(q) \in 1 .. Len(q) /\ Len(q) \notin Bad
    <3> HIDE DEF Bad
    <3>1. QED  BY <1>1, <1>2
  <2>2. \A f : Upto(Len(q), f) => Concats(q, f, S)
    BY DEF Concats
  <2> HIDE DEF Upto
  <2>3. QED  BY <2>1, <2>2
<1> DEFINE Rec(f) == f = [i \in 1 .. Len(q) |-> IF i = 1 THEN q[i] ELSE f[i - 1] \o q[i]]
           the == CHOOSE f : Rec(f)
<1>4. PICK f : Concats(q, f, S)
  BY <1>3
<1>5. Rec(the)
  <2>1. f = [i \in 1 .. Len(q) |-> f[i]]
    BY <1>4 DEF Concats
  <2>2. Rec(f)
    BY <1>4, <2>1 DEF Concats
  <2> HIDE DEF Rec
  <2>3. QED  BY <2>2
<1>6. FlattenSeq(q) = the[Len(q)]
  BY <1>1 DEF FlattenSeq
<1> HIDE DEF the
<1>7. \A i \in 1 .. Len(q) : the[i] = f[i]
  <2> DEFINE Differ == {i \in 1 .. Len(q) : the[i] # f[i]}
  <2> SUFFICES ASSUME Differ # {} PROVE FALSE
    OBVIOUS
  <2>1. PICK n \in Differ : \A m \in Differ : n <= m
    <3>1. Differ \subseteq Nat
      BY <1>1
    <3> HIDE DEF Differ
    <3>2. QED  BY <3>1, LeastElement
  <2>2. n \in 1 .. Len(q) /\ the[n] # f[n]
    OBVIOUS
  <2>3. the[n] = IF n = 1 THEN q[n] ELSE the[n - 1] \o q[n]
    BY <1>5, <2>2
  <2>4. f[n] = IF n = 1 THEN q[n] ELSE f[n - 1] \o q[n]
    BY <1>4, <2>2 DEF Concats
  <2>5. n # 1 => the[n - 1] = f[n - 1]
    <3> SUFFICES ASSUME n # 1 PROVE the[n - 1] = f[n - 1]
      OBVIOUS
    <3>1. n - 1 \in 1 .. Len(q) /\ n - 1 < n
      BY <1>1, <2>2
    <3>2. n - 1 \notin Differ
      <4> HIDE DEF Differ
      <4>1. QED  BY <2>1, <2>2, <3>1
    <3>3. QED  BY <3>1, <3>2
  <2>6. QED  BY <2>2, <2>3, <2>4, <2>5
<1>8. Len(q) \in 1 .. Len(q)
  BY <1>1
<1>9. QED  BY <1>4, <1>6, <1>7, <1>8

\* FlattenSeq lays its sequences end to end.
LEMMA FlattenLaid ==
    ASSUME NEW S, NEW q \in Seq(Seq(S))
    PROVE  FlattenSeq(q) \in Seq(S) /\ \E off : Laid(FlattenSeq(q), q, off)
<1>1. CASE q = <<>>
  <2>1. FlattenSeq(q) = <<>> /\ Len(q) = 0
    BY <1>1 DEF FlattenSeq
  <2> DEFINE off == [b \in 1 .. 1 |-> 0]
  <2>2. Laid(<<>>, q, off)
    BY <2>1 DEF Laid
  <2>3. QED  BY <2>1, <2>2
<1>2. CASE q # <<>>
  <2>1. Len(q) \in Nat \ {0} /\ \A i \in 1 .. Len(q) : q[i] \in Seq(S) /\ Len(q[i]) \in Nat
    BY <1>2
  <2>2. PICK f : Concats(q, f, S) /\ FlattenSeq(q) = f[Len(q)]
    BY <1>2, FlattenIs
  <2>3. \A i \in 1 .. Len(q) : f[i] \in Seq(S) /\ Len(f[i]) \in Nat
    BY <2>2 DEF Concats
  <2> DEFINE N == Len(q)
             off == [b \in 1 .. N + 1 |-> IF b = 1 THEN 0 ELSE Len(f[b - 1])]
  <2>4. off \in [1 .. N + 1 -> Nat] /\ off[1] = 0
        /\ \A b \in 1 .. N : off[b + 1] = Len(f[b]) /\ (b # 1 => off[b] = Len(f[b - 1]))
    <3>1. \A b \in 1 .. N + 1 : b # 1 => b - 1 \in 1 .. N
      BY <2>1
    <3>2. \A b \in 1 .. N : b + 1 \in 1 .. N + 1 /\ b + 1 # 1 /\ b + 1 - 1 = b /\ b \in 1 .. N + 1
      BY <2>1
    <3>3. 1 \in 1 .. N + 1
      BY <2>1
    <3> HIDE DEF N
    <3>4. off \in [1 .. N + 1 -> Nat]
      BY <2>3, <3>1 DEF N
    <3>5. QED  BY <3>2, <3>3, <3>4
  <2> HIDE DEF off
  <2>5. ASSUME NEW b \in 1 .. N
        PROVE  /\ off[b + 1] = off[b] + Len(q[b])
               /\ \A i \in 1 .. Len(q[b]) : f[b][off[b] + i] = q[b][i] /\ off[b] + i \in 1 .. Len(f[b])
    <3>1. CASE b = 1
      <4>1. f[b] = q[b] /\ off[b] = 0 /\ off[b + 1] = Len(f[b])
        BY <2>2, <2>4, <3>1 DEF Concats
      <4>2. Len(q[b]) \in Nat
        BY <2>1
      <4>3. QED  BY <4>1, <4>2
    <3>2. CASE b # 1
      <4> DEFINE s == f[b - 1]  t == q[b]
      <4>1. b - 1 \in 1 .. N
        BY <2>1, <3>2
      <4>2. f[b] = s \o t /\ s \in Seq(S) /\ t \in Seq(S) /\ off[b] = Len(s) /\ off[b + 1] = Len(f[b])
        BY <2>1, <2>2, <2>3, <2>4, <3>2, <4>1 DEF Concats
      <4> HIDE DEF s
      <4>3. /\ Len(s \o t) = Len(s) + Len(t) /\ Len(s) \in Nat /\ Len(t) \in Nat
            /\ \A i \in 1 .. Len(s) + Len(t) : (s \o t)[i] = IF i <= Len(s) THEN s[i] ELSE t[i - Len(s)]
        BY <4>2, ConcatProperties
      <4>4. \A i \in 1 .. Len(t) : /\ Len(s) + i \in 1 .. Len(s) + Len(t)
                                   /\ ~ (Len(s) + i <= Len(s)) /\ (Len(s) + i) - Len(s) = i
        BY <4>3
      <4>5. QED  BY <4>2, <4>3, <4>4
    <3>3. QED  BY <3>1, <3>2
  <2>6. ASSUME NEW b \in 1 .. N, NEW i \in 1 .. Len(q[b])
        PROVE  f[N][off[b] + i] = q[b][i]
    <3>1. N \in 1 .. N /\ b <= N
      BY <2>1
    <3>2. \A j \in 1 .. Len(f[b]) : f[N][j] = f[b][j]
      <4>1. Concats(q, f, S) /\ b \in 1 .. Len(q) /\ N \in 1 .. Len(q)
        BY <2>2, <3>1
      <4> HIDE DEF N
      <4>2. QED  BY <3>1, <4>1, PrefixesGrow
    <3>3. QED  BY <2>5, <3>2
  <2>7. Len(f[N]) = off[N + 1] /\ f[N] \in Seq(S)
    <3>1. N \in 1 .. N
      BY <2>1
    <3>2. QED  BY <2>3, <2>4, <3>1
  <2>8. Laid(f[N], q, off)
    BY <2>4, <2>5, <2>6, <2>7 DEF Laid
  <2>9. QED  BY <2>2, <2>7, <2>8
<1>3. QED  BY <1>1, <1>2

\* A sequence ends before the next one begins.
LEMMA LaidInTurn ==
    ASSUME NEW S, NEW q \in Seq(Seq(S)), NEW s, NEW off, Laid(s, q, off),
           NEW b \in 1 .. Len(q), NEW c \in 1 .. Len(q) + 1, b < c
    PROVE  off[b] + Len(q[b]) <= off[c]
<1> DEFINE Bad == {d \in 1 .. Len(q) + 1 : b < d /\ ~ (off[b + 1] <= off[d])}
<1>1. Len(q) \in Nat /\ (\A d \in 1 .. Len(q) + 1 : off[d] \in Nat)
      /\ \A d \in 1 .. Len(q) : Len(q[d]) \in Nat
  <2>1. Len(q) \in Nat /\ \A d \in 1 .. Len(q) : Len(q[d]) \in Nat
    <3>1. Len(q) \in Nat /\ \A d \in 1 .. Len(q) : q[d] \in Seq(S)
      OBVIOUS
    <3>2. QED  BY <3>1
  <2>2. \A d \in 1 .. Len(q) + 1 : off[d] \in Nat
    BY DEF Laid
  <2>3. QED  BY <2>1, <2>2
<1>2. off[b + 1] = off[b] + Len(q[b])
  BY DEF Laid
<1> SUFFICES ASSUME Bad # {} PROVE FALSE
  BY <1>2
<1>3. PICK d \in Bad : \A m \in Bad : d <= m
  <2>1. Bad \subseteq Nat
    BY <1>1
  <2> HIDE DEF Bad
  <2>2. QED  BY <2>1, LeastElement
<1>4. d \in 1 .. Len(q) + 1 /\ b < d /\ ~ (off[b + 1] <= off[d])
  OBVIOUS
<1> HIDE DEF Bad
<1>5. b + 1 \in 1 .. Len(q) + 1 /\ off[b + 1] \in Nat
  BY <1>1
<1>6. d # b + 1
  BY <1>4, <1>5
<1>7. d - 1 \in 1 .. Len(q) /\ b < d - 1 /\ d - 1 < d /\ d - 1 \in 1 .. Len(q) + 1 /\ (d - 1) + 1 = d
  BY <1>1, <1>4, <1>6
<1>8. off[d] = off[d - 1] + Len(q[d - 1])
  BY <1>7 DEF Laid
<1>9. d - 1 \notin Bad
  BY <1>3, <1>4, <1>7
<1>10. off[b + 1] <= off[d - 1]
  BY <1>7, <1>9 DEF Bad
<1>11. off[d - 1] \in Nat /\ Len(q[d - 1]) \in Nat
  BY <1>1, <1>4, <1>7
<1>12. off[d - 1] <= off[d]
  BY <1>8, <1>11
<1>13. QED  BY <1>4, <1>5, <1>8, <1>10, <1>11, <1>12

\* There is nothing in between.
LEMMA LaidCovers ==
    ASSUME NEW S, NEW q \in Seq(Seq(S)), NEW s, NEW off, Laid(s, q, off),
           NEW j \in 1 .. Len(s)
    PROVE  \E b \in 1 .. Len(q) : \E i \in 1 .. Len(q[b]) : j = off[b] + i
<1> DEFINE Behind == {d \in 1 .. Len(q) + 1 : j <= off[d]}
<1>1. Len(q) \in Nat /\ (\A d \in 1 .. Len(q) + 1 : off[d] \in Nat)
      /\ \A d \in 1 .. Len(q) : Len(q[d]) \in Nat
  <2>1. Len(q) \in Nat /\ \A d \in 1 .. Len(q) : Len(q[d]) \in Nat
    <3>1. Len(q) \in Nat /\ \A d \in 1 .. Len(q) : q[d] \in Seq(S)
      OBVIOUS
    <3>2. QED  BY <3>1
  <2>2. \A d \in 1 .. Len(q) + 1 : off[d] \in Nat
    BY DEF Laid
  <2>3. QED  BY <2>1, <2>2
<1>2. Len(s) = off[Len(q) + 1] /\ off[1] = 0 /\ Len(q) + 1 \in 1 .. Len(q) + 1
  BY <1>1 DEF Laid
<1>3. j \in Nat /\ j > 0 /\ j <= Len(s)
  BY <1>1, <1>2
<1>4. PICK d \in Behind : \A m \in Behind : d <= m
  <2>1. Behind \subseteq Nat /\ Len(q) + 1 \in Behind
    BY <1>1, <1>2, <1>3
  <2> HIDE DEF Behind
  <2>2. QED  BY <2>1, LeastElement
<1>5. d \in 1 .. Len(q) + 1 /\ j <= off[d]
  OBVIOUS
<1> HIDE DEF Behind
<1>6. d # 1
  BY <1>2, <1>3, <1>5
<1>7. d - 1 \in 1 .. Len(q) /\ d - 1 < d /\ d - 1 \in 1 .. Len(q) + 1 /\ (d - 1) + 1 = d
  BY <1>1, <1>5, <1>6
<1>8. ~ (j <= off[d - 1])
  <2>1. d - 1 \notin Behind
    BY <1>4, <1>5, <1>7
  <2>2. QED  BY <1>7, <2>1 DEF Behind
<1>9. off[d] = off[d - 1] + Len(q[d - 1])
  BY <1>7 DEF Laid
<1>10. off[d - 1] \in Nat /\ Len(q[d - 1]) \in Nat /\ off[d] \in Nat
  BY <1>1, <1>5, <1>7
<1>11. j - off[d - 1] \in 1 .. Len(q[d - 1]) /\ j = off[d - 1] + (j - off[d - 1])
  BY <1>3, <1>5, <1>8, <1>9, <1>10
<1>12. QED  BY <1>7, <1>11

(***************************************************************************)
(* The rows of a batch.                                                    *)
(***************************************************************************)

\* Every finite set of numbers can be put in order.
LEMMA OrderExists ==
    ASSUME NEW S \in SUBSET Nat, IsFiniteSet(S)
    PROVE  \E s \in [1 .. Cardinality(S) -> S] : \A i, j \in DOMAIN s : i < j => s[i] < s[j]
<1> DEFINE Ordered(s, T) == /\ s \in [1 .. Cardinality(T) -> T]
                            /\ \A i, j \in 1 .. Cardinality(T) : i < j => s[i] < s[j]
           Bad == {n \in Nat : \E T \in SUBSET Nat :
                     IsFiniteSet(T) /\ Cardinality(T) = n /\ ~ \E s : Ordered(s, T)}
<1>1. Bad = {}
  <2> SUFFICES ASSUME Bad # {} PROVE FALSE
    OBVIOUS
  <2>1. PICK n \in Bad : \A m \in Bad : n <= m
    <3>1. Bad \subseteq Nat
      <4> HIDE DEF Ordered
      <4>1. QED  OBVIOUS
    <3> HIDE DEF Bad
    <3>2. QED  BY <3>1, LeastElement
  <2>2. PICK T \in SUBSET Nat :
          IsFiniteSet(T) /\ Cardinality(T) = n /\ ~ \E s : Ordered(s, T)
    OBVIOUS
  <2>3. n \in Nat
    OBVIOUS
  <2>4. T # {}
    <3> SUFFICES ASSUME T = {} PROVE FALSE
      OBVIOUS
    <3>1. Cardinality(T) = 0
      BY FS_EmptySet
    <3>2. Ordered([i \in 1 .. 0 |-> 0], T)
      BY <3>1
    <3> HIDE DEF Ordered
    <3>3. QED  BY <2>2, <3>2
  <2>5. PICK x \in T : \A y \in T : x <= y
    BY <2>4, LeastElement
  <2> DEFINE U == T \ {x}
  <2>6. IsFiniteSet(U) /\ Cardinality(U) = n - 1 /\ U \in SUBSET Nat
    BY <2>2, <2>5, FS_RemoveElement
  <2>7. n - 1 \in Nat /\ n - 1 < n
    <3>1. Cardinality(U) \in Nat
      BY <2>6, FS_CardinalityType
    <3> HIDE DEF U
    <3>2. QED  BY <2>3, <2>6, <3>1
  <2>8. n - 1 \notin Bad
    <3> HIDE DEF Bad
    <3>1. QED  BY <2>1, <2>3, <2>7
  <2>9. PICK s : Ordered(s, U)
    <3> HIDE DEF Ordered, U
    <3>1. QED  BY <2>6, <2>7, <2>8
  <2> HIDE DEF Bad
  <2> DEFINE t == [i \in 1 .. n |-> IF i = 1 THEN x ELSE s[i - 1]]
  <2>10. s \in [1 .. n - 1 -> U] /\ \A i, j \in 1 .. n - 1 : i < j => s[i] < s[j]
    BY <2>6, <2>9
  <2>11. \A i \in 1 .. n : i # 1 => i - 1 \in 1 .. n - 1 /\ s[i - 1] \in U
    BY <2>3, <2>10
  <2>12. \A y \in U : x < y
    BY <2>5
  <2>13. t \in [1 .. n -> T]
    BY <2>5, <2>11
  <2>14. ASSUME NEW i \in 1 .. n, NEW j \in 1 .. n, i < j
         PROVE  t[i] < t[j]
    <3>1. j # 1 /\ t[j] = s[j - 1]
      BY <2>3, <2>14
    <3>2. CASE i = 1
      BY <2>11, <2>12, <3>1, <3>2
    <3>3. CASE i # 1
      <4>1. i - 1 \in 1 .. n - 1 /\ j - 1 \in 1 .. n - 1 /\ i - 1 < j - 1
        BY <2>3, <2>14, <3>1, <3>3
      <4>2. QED  BY <2>10, <3>1, <3>3, <4>1
    <3>4. QED  BY <3>2, <3>3
  <2> HIDE DEF t
  <2>15. Ordered(t, T)
    BY <2>2, <2>13, <2>14
  <2> HIDE DEF Ordered
  <2>16. QED  BY <2>2, <2>15
<1>2. Cardinality(S) \in Nat
  BY FS_CardinalityType
<1>3. \E s : Ordered(s, S)
  <2>1. Cardinality(S) \notin Bad
    <3> HIDE DEF Bad
    <3>1. QED  BY <1>1
  <2> HIDE DEF Ordered
  <2>2. QED  BY <1>2, <2>1
<1>4. PICK s : Ordered(s, S)
  BY <1>3
<1>5. QED  BY <1>4

\* InOrder puts a set of plates in order, and leaves none of them out.
LEMMA InOrderIs ==
    ASSUME NEW S \in SUBSET Nat, IsFiniteSet(S)
    PROVE  /\ Cardinality(S) \in Nat
           /\ InOrder(S) \in [1 .. Cardinality(S) -> S]
           /\ \A i, j \in 1 .. Cardinality(S) : i < j => InOrder(S)[i] < InOrder(S)[j]
           /\ \A p \in S : \E i \in 1 .. Cardinality(S) : InOrder(S)[i] = p
<1> DEFINE n == Cardinality(S)  s == InOrder(S)
<1>1. s \in [1 .. n -> S] /\ \A i, j \in DOMAIN s : i < j => s[i] < s[j]
  BY OrderExists DEF InOrder
<1>2. n \in Nat
  BY FS_CardinalityType
<1> HIDE DEF s
<1>3. \A i, j \in 1 .. n : i < j => s[i] < s[j]
  BY <1>1
<1>4. s \in Injection(1 .. n, S)
  <2> SUFFICES ASSUME NEW i \in 1 .. n, NEW j \in 1 .. n, s[i] = s[j] PROVE i = j
    BY <1>1 DEF Injection, IsInjective
  <2>1. s[i] \in Nat /\ s[j] \in Nat
    BY <1>1
  <2> HIDE DEF n
  <2>2. i \in Nat /\ j \in Nat
    BY <1>2
  <2>3. QED  BY <1>3, <2>1, <2>2
<1>5. IsFiniteSet(1 .. n) /\ Cardinality(1 .. n) = n
  BY <1>2, FS_Interval
<1>6. s \in Surjection(1 .. n, S)
  BY <1>4, <1>5, FS_Injection
<1>7. \A p \in S : \E i \in 1 .. n : s[i] = p
  BY <1>6 DEF Surjection
<1>8. QED  BY <1>1, <1>2, <1>3, <1>7 DEF s

\* The plates asked for are those of the vehicles that have one, and the whole
\* page if none is missing (filter_map, pipeline.rs:446-450).
LEMMA KentekensAre ==
    ASSUME NEW page \in Seq(Plates \cup {NoPlate})
    PROVE  /\ Kentekens(page) \in Seq(Plates)
           /\ (\A i \in DOMAIN page : page[i] # NoPlate) => Kentekens(page) = page
<1> DEFINE N == Len(page)
           q == [i \in 1 .. N |-> IF page[i] = NoPlate THEN <<>> ELSE <<page[i]>>]
<1>1. N \in Nat /\ DOMAIN page = 1 .. N /\ \A i \in 1 .. N : page[i] \in Plates \cup {NoPlate}
  OBVIOUS
<1>2. q \in Seq(Seq(Plates)) /\ Len(q) = N
  <2>1. \A i \in 1 .. N : page[i] # NoPlate => <<page[i]>> \in Seq(Plates)
    BY <1>1
  <2>2. <<>> \in Seq(Plates)
    OBVIOUS
  <2>3. \A i \in 1 .. N : q[i] \in Seq(Plates)
    BY <2>1, <2>2
  <2> HIDE DEF N
  <2>4. QED  BY <1>1, <2>3
<1>3. Kentekens(page) = FlattenSeq(q)
  BY <1>1 DEF Kentekens
<1>4. \A i \in 1 .. N : page[i] # NoPlate => q[i] = <<page[i]>> /\ Len(q[i]) = 1 /\ q[i][1] = page[i]
  OBVIOUS
<1> HIDE DEF q
<1>5. FlattenSeq(q) \in Seq(Plates) /\ \E off : Laid(FlattenSeq(q), q, off)
  BY <1>2, FlattenLaid
<1>6. ASSUME \A i \in 1 .. N : page[i] # NoPlate
      PROVE  FlattenSeq(q) = page
  <2> DEFINE s == FlattenSeq(q)
  <2>1. PICK off : Laid(s, q, off)
    BY <1>5
  <2> HIDE DEF N
  <2>2. \A b \in 1 .. N : /\ off[b + 1] = off[b] + 1
                          /\ s[off[b] + 1] = page[b]
    <3> SUFFICES ASSUME NEW b \in 1 .. N
                 PROVE  off[b + 1] = off[b] + 1 /\ s[off[b] + 1] = page[b]
      OBVIOUS
    <3>1. Len(q[b]) = 1 /\ q[b][1] = page[b]
      BY <1>4, <1>6
    <3>2. 1 \in 1 .. Len(q[b])
      BY <3>1
    <3>3. QED  BY <1>2, <2>1, <3>1, <3>2 DEF Laid
  <2>3. off[1] = 0 /\ Len(s) = off[N + 1] /\ \A b \in 1 .. N + 1 : off[b] \in Nat
    BY <1>2, <2>1 DEF Laid
  <2> HIDE DEF s
  <2> DEFINE Bad == {b \in 1 .. N + 1 : off[b] # b - 1}
  <2>4. Bad = {}
    <3> SUFFICES ASSUME Bad # {} PROVE FALSE
      OBVIOUS
    <3>1. PICK b \in Bad : \A m \in Bad : b <= m
      <4>1. Bad \subseteq Nat
        BY <1>1
      <4> HIDE DEF Bad
      <4>2. QED  BY <4>1, LeastElement
    <3>2. b \in 1 .. N + 1 /\ off[b] # b - 1
      OBVIOUS
    <3> HIDE DEF Bad
    <3>3. b # 1
      BY <2>3, <3>2
    <3>4. b - 1 \in 1 .. N /\ b - 1 \in 1 .. N + 1 /\ b - 1 < b /\ (b - 1) + 1 = b
      BY <1>1, <3>2, <3>3
    <3>5. b - 1 \notin Bad
      BY <1>1, <3>1, <3>2, <3>4
    <3>6. off[b - 1] = (b - 1) - 1
      BY <3>4, <3>5 DEF Bad
    <3>7. off[b] = off[b - 1] + 1
      BY <2>2, <3>4
    <3>8. QED  BY <1>1, <3>2, <3>6, <3>7
  <2>5. \A b \in 1 .. N + 1 : off[b] = b - 1
    BY <2>4
  <2> HIDE DEF Bad
  <2>6. Len(s) = N
    <3>1. N + 1 \in 1 .. N + 1 /\ (N + 1) - 1 = N
      BY <1>1
    <3>2. QED  BY <2>3, <2>5, <3>1
  <2>7. \A b \in 1 .. N : s[b] = page[b]
    <3> SUFFICES ASSUME NEW b \in 1 .. N PROVE s[b] = page[b]
      OBVIOUS
    <3>1. b \in 1 .. N + 1 /\ (b - 1) + 1 = b
      BY <1>1
    <3>2. QED  BY <2>2, <2>5, <3>1
  <2>8. s \in Seq(Plates \cup {NoPlate})
    <3>1. s \in Seq(Plates)
      BY <1>5 DEF s
    <3>2. QED  BY <3>1
  <2>9. s = page
    BY <2>6, <2>7, <2>8, SeqEqual DEF N
  <2>10. QED  BY <2>9 DEF s
<1>7. QED  BY <1>1, <1>3, <1>5, <1>6

\* A page RDW cuts off holds $limit rows (fuel_by_kentekens_url, lib.rs:385-412).
LEMMA LimitedIs ==
    ASSUME NEW rows \in Seq(FuelRow)
    PROVE  /\ Limited(rows) \in Seq(FuelRow)
           /\ Len(Limited(rows)) = IF Len(rows) <= FuelPageLimit THEN Len(rows) ELSE FuelPageLimit
           /\ Len(rows) <= FuelPageLimit => Limited(rows) = rows
<1> DEFINE n == Len(rows)  m == Min({n, FuelPageLimit})
<1>1. n \in Nat /\ FuelPageLimit \in Nat
  BY FuelBatchesAssumption
<1>2. m = IF n <= FuelPageLimit THEN n ELSE FuelPageLimit
  <2> HIDE DEF n
  <2>1. CASE n <= FuelPageLimit
    <3>1. n \in {n, FuelPageLimit} /\ \A y \in {n, FuelPageLimit} : n <= y
      BY <1>1, <2>1
    <3>2. \A x \in {n, FuelPageLimit} : (\A y \in {n, FuelPageLimit} : x <= y) => x = n
      BY <1>1, <2>1
    <3>3. QED  BY <2>1, <3>1, <3>2 DEF Min
  <2>2. CASE ~ (n <= FuelPageLimit)
    <3>1. FuelPageLimit \in {n, FuelPageLimit}
          /\ \A y \in {n, FuelPageLimit} : FuelPageLimit <= y
      BY <1>1, <2>2
    <3>2. \A x \in {n, FuelPageLimit} : (\A y \in {n, FuelPageLimit} : x <= y) => x = FuelPageLimit
      BY <1>1, <2>2
    <3>3. QED  BY <2>2, <3>1, <3>2 DEF Min
  <2>3. QED  BY <2>1, <2>2
<1> HIDE DEF m
<1>3. m \in Nat /\ m <= n
  BY <1>1, <1>2
<1>4. Limited(rows) = SubSeq(rows, 1, m)
  BY DEF Limited, m
<1>5. SubSeq(rows, 1, m) \in Seq(FuelRow) /\ Len(SubSeq(rows, 1, m)) = m
  BY <1>3
<1>6. n <= FuelPageLimit => SubSeq(rows, 1, m) = rows
  <2> SUFFICES ASSUME n <= FuelPageLimit PROVE SubSeq(rows, 1, n) = rows
    BY <1>2
  <2>1. QED  BY SubSeqFull
<1>7. QED  BY <1>2, <1>4, <1>5, <1>6

(***************************************************************************)
(* The fetch of the batches.                                               *)
(***************************************************************************)

AnswerRecord == {InFlight} \cup [is : {"page", "failed"}, rows : Seq(FuelRow)]

FetchTypes ==
    /\ kentekens \in Seq(Plates)
    /\ fuelsOf \in [Range(kentekens) -> VolgnummerLists]
    /\ answers \in Seq(AnswerRecord) /\ Len(answers) = issued /\ issued <= BatchCount
    /\ pages \in Seq(Seq(FuelRow)) /\ Len(pages) <= issued
    /\ result \in {"none", "Ok", "Err"}
    /\ rejected \subseteq 1 .. issued
    /\ strayed \subseteq Nat

\* The pages are the answers to the first batches, none of them cut off, and
\* an honest RDW answers what it was asked.
FetchGood ==
    /\ \A b \in 1 .. Len(pages) : answers[b].is = "page" /\ pages[b] = answers[b].rows
    /\ \A b \in 1 .. issued :
         answers[b].is = "page" => Len(answers[b].rows) # FuelPageLimit
    /\ \A b \in rejected : answers[b].is = "failed"
    /\ strayed = {} => \A b \in 1 .. issued :
         \/ answers[b] = InFlight
         \/ answers[b] = Arrived(Limited(SortedRows(Batch(b))))
         \/ b \in rejected
    /\ result = "Ok" => Len(pages) = BatchCount
    /\ result = "Err" => \E b \in 1 .. issued : answers[b].is = "failed"

FetchInv == FetchTypes /\ FetchGood

\* The parts SortedRows puts together.
PartsOf(S) == LET order == InOrder(S) IN [i \in DOMAIN order |-> FuelRowsOf(order[i])]

\* A plate that was asked for has fuel rows.
LEMMA RowsOfPlate ==
    ASSUME FetchTypes, NEW p \in Range(kentekens)
    PROVE  /\ p \in Plates
           /\ fuelsOf[p] \in Seq(Nat \cup {NoVolgnummer})
           /\ FuelRowsOf(p) \in Seq(FuelRow) /\ Len(FuelRowsOf(p)) = Len(fuelsOf[p])
           /\ \A n \in 1 .. Len(fuelsOf[p]) : FuelRowsOf(p)[n] = Row(p, fuelsOf[p][n])
<1>1. p \in Plates
  BY DEF FetchTypes, Range
<1>2. fuelsOf[p] \in Seq(Nat \cup {NoVolgnummer})
  BY FuelBatchesAssumption DEF FetchTypes
<1> DEFINE l == fuelsOf[p]
<1> HIDE DEF l
<1>3. Len(l) \in Nat /\ DOMAIN l = 1 .. Len(l) /\ \A n \in 1 .. Len(l) : l[n] \in Nat \cup {NoVolgnummer}
  <2>1. l \in Seq(Nat \cup {NoVolgnummer})
    BY <1>2 DEF l
  <2>2. QED  BY <2>1
<1>4. FuelRowsOf(p) = [n \in 1 .. Len(l) |-> Row(p, l[n])]
  BY <1>3 DEF FuelRowsOf, l
<1>5. \A n \in 1 .. Len(l) : Row(p, l[n]) \in FuelRow
  BY <1>1, <1>3 DEF Row, FuelRow
<1> HIDE DEF l
<1>6. FuelRowsOf(p) \in Seq(FuelRow) /\ Len(FuelRowsOf(p)) = Len(l)
  BY <1>3, <1>4, <1>5
<1>7. QED  BY <1>1, <1>2, <1>4, <1>6 DEF l

\* A batch is a finite set of plates that were asked for.
LEMMA BatchIs ==
    ASSUME FetchTypes, NEW b
    PROVE  /\ Batch(b) \subseteq Range(kentekens) /\ Batch(b) \in SUBSET Nat
           /\ IsFiniteSet(Batch(b))
<1>1. Batch(b) \subseteq Range(kentekens)
  BY DEF Batch, Range
<1>2. Range(kentekens) \subseteq Nat
  <2>1. \A p \in Range(kentekens) : p \in Plates
    BY RowsOfPlate
  <2>2. QED  BY <2>1, RdwRowsAssumption
<1>3. kentekens \in Surjection(1 .. Len(kentekens), Range(kentekens))
  <2>1. kentekens \in Seq(Plates)
    BY DEF FetchTypes
  <2>2. kentekens \in [1 .. Len(kentekens) -> Range(kentekens)]
    BY <2>1 DEF Range
  <2>3. \A t \in Range(kentekens) : \E i \in 1 .. Len(kentekens) : kentekens[i] = t
    BY <2>1 DEF Range
  <2>4. QED  BY <2>2, <2>3 DEF Surjection
<1>4. IsFiniteSet(Range(kentekens))
  <2>1. Len(kentekens) \in Nat
    BY DEF FetchTypes
  <2>2. IsFiniteSet(1 .. Len(kentekens))
    BY <2>1, FS_Interval
  <2>3. QED  BY <1>3, <2>2, FS_Surjection
<1>5. Batch(b) \in SUBSET Range(kentekens)
  BY <1>1
<1>6. IsFiniteSet(Batch(b))
  BY <1>4, <1>5, FS_Subset
<1>7. QED  BY <1>1, <1>2, <1>6

\* The sorted rows of a batch are the rows of its plates, one after the other.
LEMMA SortedRowsAre ==
    ASSUME FetchTypes, NEW b
    PROVE  LET S == Batch(b) IN
           /\ SortedRows(S) \in Seq(FuelRow) /\ Len(SortedRows(S)) \in Nat
           /\ PartsOf(S) \in Seq(Seq(FuelRow)) /\ Len(PartsOf(S)) = Cardinality(S)
           /\ \A i \in 1 .. Cardinality(S) :
                InOrder(S)[i] \in S /\ PartsOf(S)[i] = FuelRowsOf(InOrder(S)[i])
           /\ \E off : Laid(SortedRows(S), PartsOf(S), off)
<1> DEFINE S == Batch(b)  order == InOrder(S)  n == Cardinality(S)
<1>1. S \subseteq Range(kentekens) /\ S \in SUBSET Nat /\ IsFiniteSet(S)
  BY BatchIs
<1>2. n \in Nat /\ order \in [1 .. n -> S]
  <2> HIDE DEF S
  <2>1. QED  BY <1>1, InOrderIs
<1>3. \A p \in S : FuelRowsOf(p) \in Seq(FuelRow)
  BY <1>1, RowsOfPlate
<1>4. PartsOf(S) = [i \in 1 .. n |-> FuelRowsOf(order[i])]
  <2>1. DOMAIN order = 1 .. n
    <3> HIDE DEF order, n
    <3>1. QED  BY <1>2
  <2>2. QED  BY <2>1 DEF PartsOf
<1>5. SortedRows(S) = FlattenSeq(PartsOf(S))
  BY DEF SortedRows, PartsOf
<1> HIDE DEF order, n, S
<1>6. \A i \in 1 .. n : order[i] \in S /\ FuelRowsOf(order[i]) \in Seq(FuelRow)
  BY <1>2, <1>3
<1>7. PartsOf(S) \in Seq(Seq(FuelRow)) /\ Len(PartsOf(S)) = n
  BY <1>2, <1>4, <1>6
<1>8. SortedRows(S) \in Seq(FuelRow) /\ \E off : Laid(SortedRows(S), PartsOf(S), off)
  BY <1>5, <1>7, FlattenLaid
<1>9. Len(SortedRows(S)) \in Nat
  BY <1>8
<1>10. \A i \in 1 .. n : PartsOf(S)[i] = FuelRowsOf(order[i])
  BY <1>4
<1>11. QED  BY <1>6, <1>7, <1>8, <1>9, <1>10 DEF order, n, S

\* What RDW may answer is a sequence of fuel rows.
LEMMA AnswersAreRows ==
    ASSUME FetchTypes, NEW b, NEW rows \in Proper(b) \cup Deviant(b)
    PROVE  rows \in Seq(FuelRow)
<1> DEFINE own == SortedRows(Batch(b))
<1>1. own \in Seq(FuelRow)
  BY SortedRowsAre
<1>2. CASE rows \in Proper(b)
  BY <1>1, <1>2, LimitedIs DEF Proper
<1>3. CASE rows \in Deviant(b)
  <2>1. PICK i \in 1 .. Len(own) + 1, stray \in Strays : rows = Limited(InsertAt(own, i, stray))
    BY <1>3 DEF Deviant
  <2> HIDE DEF own
  <2>2. stray \in FuelRow /\ Len(own) \in Nat /\ i \in Nat \ {0} /\ i <= Len(own) + 1
    BY <1>1, FuelBatchesAssumption
  <2>3. SubSeq(own, 1, i - 1) \in Seq(FuelRow) /\ SubSeq(own, i, Len(own)) \in Seq(FuelRow)
    <3>1. i - 1 \in Nat /\ i - 1 <= Len(own)
      BY <2>2
    <3>2. SubSeq(own, 1, i - 1) \in Seq(FuelRow)
      BY <1>1, <3>1
    <3>3. \A k \in i .. Len(own) : own[k] \in FuelRow
      BY <1>1, <2>2
    <3>4. SubSeq(own, i, Len(own)) \in Seq(FuelRow)
      BY <1>1, <2>2, <3>3, SubSeqProperties
    <3>5. QED  BY <3>2, <3>4
  <2>4. <<stray>> \in Seq(FuelRow)
    BY <2>2
  <2>5. InsertAt(own, i, stray) \in Seq(FuelRow)
    BY <2>3, <2>4 DEF InsertAt
  <2>6. QED  BY <2>1, <2>5, LimitedIs
<1>4. QED  BY <1>2, <1>3

\* What the closure makes of rows.
LEMMA ArrivedIs ==
    ASSUME NEW rows \in Seq(FuelRow)
    PROVE  /\ Arrived(rows) \in AnswerRecord /\ Arrived(rows) # InFlight
           /\ Arrived(rows).rows = rows
           /\ Arrived(rows).is = IF Len(rows) # FuelPageLimit THEN "page" ELSE "failed"
BY DEF Arrived, Answer, Accept, AnswerRecord, InFlight

\* The number of batches.
LEMMA BatchCountIs ==
    ASSUME kentekens \in Seq(Plates)
    PROVE  BatchCount \in Nat
<1>1. Len(kentekens) \in Nat /\ BatchSize \in Nat \ {0}
  BY FuelBatchesAssumption
<1>2. (Len(kentekens) + BatchSize - 1) \in Nat
  BY <1>1
<1>3. QED  BY <1>1, <1>2 DEF BatchCount

\* Issuing a batch (buffered, lib.rs).
LEMMA IssueKeeps ==
    ASSUME FetchInv, Issue
    PROVE  FetchInv'
<1>1. /\ answers \in Seq(AnswerRecord) /\ Len(answers) = issued /\ issued \in Nat
      /\ Len(pages) <= issued /\ Len(pages) \in Nat
  BY DEF FetchInv, FetchTypes
<1>2. InFlight \in AnswerRecord
  BY DEF InFlight, Answer, AnswerRecord
<1>3. issued' = issued + 1 /\ answers' = Append(answers, InFlight) /\ result = "none"
      /\ UNCHANGED <<fuelsOf, kentekens, pages, result, rejected, strayed>>
  BY DEF Issue
<1>4. /\ answers' \in Seq(AnswerRecord) /\ Len(answers') = issued'
      /\ \A b \in 1 .. issued : answers'[b] = answers[b]
      /\ answers'[issued + 1] = InFlight
  BY <1>1, <1>2, <1>3, AppendProperties
<1>5. \A b \in 1 .. issued' : b \in 1 .. issued \/ b = issued + 1
  BY <1>1, <1>3
<1>6. \A b \in 1 .. issued : b \in 1 .. issued'
  BY <1>1, <1>3
<1>7. issued' <= BatchCount
  <2>1. BatchCount \in Nat
    BY BatchCountIs DEF FetchInv, FetchTypes
  <2>2. QED  BY <1>1, <1>3, <2>1 DEF Issue
<1>8. FetchTypes'
  <2>1. rejected' \subseteq 1 .. issued'
    BY <1>3, <1>6 DEF FetchInv, FetchTypes
  <2>2. Len(pages') <= issued'
    BY <1>1, <1>3
  <2>3. BatchCount' = BatchCount
    BY <1>3 DEF BatchCount
  <2>4. QED  BY <1>3, <1>4, <1>7, <2>1, <2>2, <2>3 DEF FetchInv, FetchTypes
<1>9. \A b \in 1 .. Len(pages) : b \in 1 .. issued
  BY <1>1
<1>10. InFlight.is = "in flight"
  BY DEF InFlight, Answer
<1>11. FetchGood'
  <2>1. \A b \in 1 .. Len(pages') : answers'[b].is = "page" /\ pages'[b] = answers'[b].rows
    BY <1>3, <1>4, <1>9 DEF FetchInv, FetchGood
  <2>2. ASSUME NEW b \in 1 .. issued', answers'[b].is = "page"
        PROVE  Len(answers'[b].rows) # FuelPageLimit
    <3>1. b # issued + 1
      BY <1>4, <1>10, <2>2
    <3>2. b \in 1 .. issued /\ answers'[b] = answers[b]
      BY <1>4, <1>5, <3>1
    <3>3. QED  BY <2>2, <3>2 DEF FetchInv, FetchGood
  <2>3. \A b \in rejected' : answers'[b].is = "failed"
    BY <1>3, <1>4 DEF FetchInv, FetchGood, FetchTypes
  <2>4. ASSUME strayed' = {}, NEW b \in 1 .. issued'
        PROVE  \/ answers'[b] = InFlight
               \/ answers'[b] = Arrived(Limited(SortedRows(Batch(b))))'
               \/ b \in rejected'
    <3>1. Arrived(Limited(SortedRows(Batch(b))))' = Arrived(Limited(SortedRows(Batch(b))))
      BY <1>3 DEF SortedRows, Batch, FuelRowsOf
    <3>2. CASE b = issued + 1
      BY <1>4, <3>2
    <3>3. CASE b \in 1 .. issued
      BY <1>3, <1>4, <2>4, <3>1, <3>3 DEF FetchInv, FetchGood
    <3>4. QED  BY <1>5, <3>2, <3>3
  <2>5. QED  BY <1>3, <2>1, <2>2, <2>3, <2>4 DEF FetchGood
<1>12. QED  BY <1>8, <1>11 DEF FetchInv

\* An answer, in any order (the closure of the stream, lib.rs).
LEMMA ReplyKeeps ==
    ASSUME FetchInv, NEW b \in 1 .. BatchCount, Reply(b)
    PROVE  FetchInv'
<1>1. /\ answers \in Seq(AnswerRecord) /\ Len(answers) = issued /\ issued \in Nat
      /\ Len(pages) <= issued /\ Len(pages) \in Nat
  BY DEF FetchInv, FetchTypes
<1>2. b \in 1 .. issued /\ answers[b] = InFlight /\ result = "none"
      /\ UNCHANGED <<fuelsOf, kentekens, issued, pages, result>>
  BY DEF Reply
<1>3. InFlight.is = "in flight"
  BY DEF InFlight, Answer
<1>4. ASSUME NEW a \in AnswerRecord, answers' = [answers EXCEPT ![b] = a]
      PROVE  /\ answers' \in Seq(AnswerRecord) /\ Len(answers') = issued
             /\ answers'[b] = a
             /\ \A c \in 1 .. issued : c # b => answers'[c] = answers[c]
  <2>1. b \in 1 .. Len(answers)
    BY <1>1, <1>2
  <2>2. [answers EXCEPT ![b] = a] \in Seq(AnswerRecord)
        /\ Len([answers EXCEPT ![b] = a]) = Len(answers)
        /\ \A c \in 1 .. Len(answers) :
             [answers EXCEPT ![b] = a][c] = IF c = b THEN a ELSE answers[c]
    BY <1>1, <2>1, ExceptSeq
  <2> DEFINE t == [answers EXCEPT ![b] = a]
  <2>3. answers' = t
    BY <1>4
  <2> HIDE DEF t
  <2>4. t \in Seq(AnswerRecord) /\ Len(t) = issued
        /\ \A c \in 1 .. issued : t[c] = IF c = b THEN a ELSE answers[c]
    BY <1>1, <2>2 DEF t
  <2>5. QED  BY <1>2, <2>3, <2>4
<1>5. \A c \in 1 .. Len(pages) : c \in 1 .. issued /\ c # b
  <2> SUFFICES ASSUME NEW c \in 1 .. Len(pages) PROVE c \in 1 .. issued /\ c # b
    OBVIOUS
  <2>1. c \in 1 .. issued
    BY <1>1
  <2>2. answers[c].is = "page"
    BY DEF FetchInv, FetchGood
  <2>3. QED  BY <1>2, <1>3, <2>1, <2>2
<1>6. \A c \in rejected : c \in 1 .. issued /\ c # b
  BY <1>2, <1>3 DEF FetchInv, FetchGood, FetchTypes
<1>7. \A c : Arrived(Limited(SortedRows(Batch(c))))' = Arrived(Limited(SortedRows(Batch(c))))
  BY <1>2 DEF SortedRows, Batch, FuelRowsOf
<1>8. ASSUME NEW a \in AnswerRecord, answers' = [answers EXCEPT ![b] = a],
             a.is = "page" => Len(a.rows) # FuelPageLimit,
             rejected' = rejected \/ (rejected' = rejected \cup {b} /\ a.is = "failed"),
             strayed' \subseteq Nat,
             strayed' = {} => /\ strayed = {}
                              /\ \/ a = Arrived(Limited(SortedRows(Batch(b))))
                                 \/ b \in rejected'
      PROVE  FetchInv'
  <2>1. /\ answers' \in Seq(AnswerRecord) /\ Len(answers') = issued
        /\ answers'[b] = a
        /\ \A c \in 1 .. issued : c # b => answers'[c] = answers[c]
    BY <1>4, <1>8
  <2>2. FetchTypes'
    <3>1. rejected' \subseteq 1 .. issued'
      BY <1>2, <1>8 DEF FetchInv, FetchTypes
    <3>2. BatchCount' = BatchCount
      BY <1>2 DEF BatchCount
    <3>3. QED  BY <1>2, <1>8, <2>1, <3>1, <3>2 DEF FetchInv, FetchTypes
  <2>3. \A c \in 1 .. Len(pages') : answers'[c].is = "page" /\ pages'[c] = answers'[c].rows
    BY <1>2, <1>5, <2>1 DEF FetchInv, FetchGood
  <2>4. \A c \in 1 .. issued' :
           answers'[c].is = "page" => Len(answers'[c].rows) # FuelPageLimit
    BY <1>2, <1>8, <2>1 DEF FetchInv, FetchGood
  <2>5. \A c \in rejected' : answers'[c].is = "failed"
    BY <1>6, <1>8, <2>1 DEF FetchInv, FetchGood
  <2>6. ASSUME strayed' = {}, NEW c \in 1 .. issued'
        PROVE  \/ answers'[c] = InFlight
               \/ answers'[c] = Arrived(Limited(SortedRows(Batch(c))))'
               \/ c \in rejected'
    <3>1. CASE c = b
      BY <1>7, <1>8, <2>1, <2>6, <3>1
    <3>2. CASE c # b
      <4>1. c \in 1 .. issued /\ strayed = {} /\ rejected \subseteq rejected'
        BY <1>2, <1>8, <2>6
      <4>2. \/ answers[c] = InFlight
            \/ answers[c] = Arrived(Limited(SortedRows(Batch(c))))
            \/ c \in rejected
        BY <4>1 DEF FetchInv, FetchGood
      <4>3. QED  BY <1>7, <2>1, <3>2, <4>1, <4>2
    <3>3. QED  BY <3>1, <3>2
  <2>7. FetchGood'
    BY <1>2, <2>3, <2>4, <2>5, <2>6 DEF FetchGood
  <2>8. QED  BY <2>2, <2>7 DEF FetchInv
<1>9. CASE /\ \E rows \in Proper(b) : answers' = [answers EXCEPT ![b] = Arrived(rows)]
           /\ UNCHANGED <<rejected, strayed>>
  <2>1. PICK rows \in Proper(b) : answers' = [answers EXCEPT ![b] = Arrived(rows)]
    BY <1>9
  <2>2. rows \in Seq(FuelRow) /\ rows = Limited(SortedRows(Batch(b)))
    BY AnswersAreRows DEF FetchInv, Proper
  <2>3. /\ Arrived(rows) \in AnswerRecord
        /\ Arrived(rows).is = "page" => Len(Arrived(rows).rows) # FuelPageLimit
    BY <2>2, ArrivedIs
  <2>4. strayed' \subseteq Nat /\ (strayed' = {} => strayed = {}) /\ rejected' = rejected
    BY <1>9 DEF FetchInv, FetchTypes
  <2>5. Arrived(rows) = Arrived(Limited(SortedRows(Batch(b))))
    BY <2>2
  <2> DEFINE a == Arrived(rows)
  <2> HIDE DEF a
  <2>a. a \in AnswerRecord /\ answers' = [answers EXCEPT ![b] = a]
        /\ (a.is = "page" => Len(a.rows) # FuelPageLimit)
    <3>1. answers' = [answers EXCEPT ![b] = a]
      BY <2>1 DEF a
    <3>2. a \in AnswerRecord
      BY <2>3 DEF a
    <3>3. a.is = "page" => Len(a.rows) # FuelPageLimit
      BY <2>3 DEF a
    <3>4. QED  BY <3>1, <3>2, <3>3
  <2>b. rejected' = rejected \/ (rejected' = rejected \cup {b} /\ a.is = "failed")
    BY <2>4
  <2>c. strayed' = {} => /\ strayed = {}
                         /\ \/ a = Arrived(Limited(SortedRows(Batch(b))))
                            \/ b \in rejected'
    BY <2>4, <2>5 DEF a
  <2>6. QED  BY <1>8, <2>4, <2>a, <2>b, <2>c
<1>10. CASE /\ \E rows \in Deviant(b) : answers' = [answers EXCEPT ![b] = Arrived(rows)]
            /\ strayed' = strayed \cup {b}
            /\ UNCHANGED rejected
  <2>1. PICK rows \in Deviant(b) : answers' = [answers EXCEPT ![b] = Arrived(rows)]
    BY <1>10
  <2>2. rows \in Seq(FuelRow)
    BY AnswersAreRows DEF FetchInv
  <2>3. /\ Arrived(rows) \in AnswerRecord
        /\ Arrived(rows).is = "page" => Len(Arrived(rows).rows) # FuelPageLimit
    BY <2>2, ArrivedIs
  <2>4. strayed' \subseteq Nat /\ strayed' # {} /\ rejected' = rejected
    <3>1. strayed \subseteq Nat /\ b \in Nat
      BY <1>2 DEF FetchInv, FetchTypes
    <3>2. QED  BY <1>10, <3>1
  <2> DEFINE a == Arrived(rows)
  <2> HIDE DEF a
  <2>a. a \in AnswerRecord /\ answers' = [answers EXCEPT ![b] = a]
        /\ (a.is = "page" => Len(a.rows) # FuelPageLimit)
    <3>1. answers' = [answers EXCEPT ![b] = a]
      BY <2>1 DEF a
    <3>2. a \in AnswerRecord
      BY <2>3 DEF a
    <3>3. a.is = "page" => Len(a.rows) # FuelPageLimit
      BY <2>3 DEF a
    <3>4. QED  BY <3>1, <3>2, <3>3
  <2>b. rejected' = rejected \/ (rejected' = rejected \cup {b} /\ a.is = "failed")
    BY <2>4
  <2>c. strayed' = {} => /\ strayed = {}
                         /\ \/ a = Arrived(Limited(SortedRows(Batch(b))))
                            \/ b \in rejected'
    BY <2>4 DEF a
  <2>5. QED  BY <1>8, <2>4, <2>a, <2>b, <2>c
<1>11. CASE /\ answers' = [answers EXCEPT ![b] = Answer("failed", <<>>)]
            /\ rejected' = rejected \cup {b}
            /\ UNCHANGED strayed
  <2>1. Answer("failed", <<>>) \in AnswerRecord /\ Answer("failed", <<>>).is = "failed"
    BY DEF Answer, AnswerRecord
  <2>2. strayed' \subseteq Nat /\ (strayed' = {} => strayed = {}) /\ b \in rejected'
    BY <1>11 DEF FetchInv, FetchTypes
  <2>3. QED  BY <1>8, <1>11, <2>1, <2>2
<1>12. QED  BY <1>9, <1>10, <1>11 DEF Reply

\* The pages are yielded in their order, and collected (try_collect, lib.rs).
LEMMA YieldKeeps ==
    ASSUME FetchInv, Yield \/ Collect
    PROVE  FetchInv'
<1>1. /\ answers \in Seq(AnswerRecord) /\ Len(answers) = issued /\ issued \in Nat
      /\ Len(pages) <= issued /\ Len(pages) \in Nat
  BY DEF FetchInv, FetchTypes
<1>2. UNCHANGED <<fuelsOf, kentekens, issued, answers, rejected, strayed>> /\ result = "none"
  BY DEF Yield, Collect
<1>3. BatchCount' = BatchCount
  BY <1>2 DEF BatchCount
<1>4. \A c : Arrived(Limited(SortedRows(Batch(c))))' = Arrived(Limited(SortedRows(Batch(c))))
  BY <1>2 DEF SortedRows, Batch, FuelRowsOf
<1> DEFINE b == Len(pages) + 1
<1>5. CASE /\ b <= issued /\ answers[b] # InFlight /\ answers[b].is = "failed"
           /\ result' = "Err" /\ UNCHANGED pages
  <2>1. b \in 1 .. issued
    BY <1>1, <1>5
  <2>2. FetchTypes'
    BY <1>2, <1>3, <1>5 DEF FetchInv, FetchTypes
  <2>3. FetchGood'
    BY <1>2, <1>3, <1>4, <1>5, <2>1 DEF FetchInv, FetchGood
  <2>4. QED  BY <2>2, <2>3 DEF FetchInv
<1>6. CASE /\ b <= issued /\ answers[b] # InFlight /\ answers[b].is # "failed"
           /\ pages' = Append(pages, answers[b].rows) /\ UNCHANGED result
  <2>1. b \in 1 .. issued
    BY <1>1, <1>6
  <2>2. answers[b] \in AnswerRecord
    <3> HIDE DEF b
    <3>1. QED  BY <1>1, <2>1
  <2>3. answers[b].rows \in Seq(FuelRow) /\ answers[b].is \in {"page", "failed"}
    BY <1>6, <2>2 DEF AnswerRecord
  <2>4. answers[b].is = "page"
    BY <1>6, <2>3
  <2>5. /\ pages' \in Seq(Seq(FuelRow)) /\ Len(pages') = b
        /\ \A c \in 1 .. Len(pages) : pages'[c] = pages[c]
        /\ pages'[b] = answers[b].rows
    <3> DEFINE a == answers[b].rows  T == Seq(FuelRow)
    <3>1. a \in T /\ pages \in Seq(T)
      BY <2>3 DEF FetchInv, FetchTypes
    <3>2. pages' = Append(pages, a)
      BY <1>6
    <3> HIDE DEF a, T
    <3>3. /\ Append(pages, a) \in Seq(T) /\ Len(Append(pages, a)) = Len(pages) + 1
          /\ \A c \in 1 .. Len(pages) : Append(pages, a)[c] = pages[c]
          /\ Append(pages, a)[Len(pages) + 1] = a
      BY <3>1, AppendProperties
    <3>4. QED  BY <3>2, <3>3 DEF a, T
  <2>6. \A c \in 1 .. b : c \in 1 .. Len(pages) \/ c = b
    BY <1>1
  <2>7. FetchTypes'
    BY <1>2, <1>3, <1>6, <2>5 DEF FetchInv, FetchTypes
  <2>8. FetchGood'
    <3>1. \A c \in 1 .. Len(pages') : answers'[c].is = "page" /\ pages'[c] = answers'[c].rows
      BY <1>2, <2>4, <2>5, <2>6 DEF FetchInv, FetchGood
    <3>2. QED  BY <1>2, <1>4, <1>6, <3>1 DEF FetchInv, FetchGood
  <2>9. QED  BY <2>7, <2>8 DEF FetchInv
<1>7. CASE Len(pages) = BatchCount /\ result' = "Ok" /\ UNCHANGED pages
  <2>1. FetchTypes'
    BY <1>2, <1>3, <1>7 DEF FetchInv, FetchTypes
  <2>2. FetchGood'
    BY <1>2, <1>3, <1>4, <1>7 DEF FetchInv, FetchGood
  <2>3. QED  BY <2>1, <2>2 DEF FetchInv
<1>8. QED  BY <1>5, <1>6, <1>7 DEF Yield, Collect

\* Nothing is asked for twice, and nothing of another page.
PageInv ==
    /\ FetchInv
    /\ vehicles \in Seq(Plates \cup {NoPlate})
    /\ kentekens = Kentekens(vehicles)

\* A failed batch fails the fetch, and the pages of all batches are collected in
\* their order (fetch_fuel_for_kentekens, lib.rs:429-495).
THEOREM FetchIsInOrder == Spec => []PageInv
<1>1. Init => PageInv
  <2> SUFFICES ASSUME Init PROVE PageInv
    OBVIOUS
  <2>1. vehicles \in Seq(Plates \cup {NoPlate}) /\ kentekens = Kentekens(vehicles)
    BY PageJoinAssumption DEF Init
  <2>2. kentekens \in Seq(Plates)
    BY <2>1, KentekensAre
  <2>3. BatchCount \in Nat
    BY <2>2, BatchCountIs
  <2>4. /\ fuelsOf \in [Range(kentekens) -> VolgnummerLists]
        /\ issued = 0 /\ answers = <<>> /\ pages = <<>> /\ result = "none" /\ rejected = {}
        /\ strayed = {}
    BY DEF Init, FetchInit
  <2>5. FetchTypes
    <3>1. answers \in Seq(AnswerRecord) /\ Len(answers) = issued
          /\ pages \in Seq(Seq(FuelRow)) /\ Len(pages) <= issued
      BY <2>4
    <3>2. issued <= BatchCount
      BY <2>3, <2>4
    <3>3. result \in {"none", "Ok", "Err"} /\ rejected \subseteq 1 .. issued /\ strayed \subseteq Nat
      BY <2>4
    <3>4. QED  BY <2>2, <2>4, <3>1, <3>2, <3>3 DEF FetchTypes
  <2>6. FetchGood
    <3>1. 1 .. Len(pages) = {} /\ 1 .. issued = {}
      BY <2>4
    <3>2. QED  BY <2>4, <3>1 DEF FetchGood
  <2>7. QED  BY <2>1, <2>5, <2>6 DEF PageInv, FetchInv
<1>2. PageInv /\ [Next]_vars => PageInv'
  <2> SUFFICES ASSUME PageInv, [Next]_vars PROVE PageInv'
    OBVIOUS
  <2>1. CASE UNCHANGED <<fetchVars, vehicles>>
    <3>1. UNCHANGED <<fuelsOf, kentekens, issued, answers, pages, result, rejected, strayed, vehicles>>
      BY <2>1 DEF fetchVars
    <3>2. FetchTypes'
      <4>1. BatchCount' = BatchCount /\ Range(kentekens)' = Range(kentekens)
        BY <3>1 DEF BatchCount, Range
      <4>2. FetchTypes
        BY DEF PageInv, FetchInv
      <4>3. strayed' \subseteq Nat
        BY <3>1, <4>2 DEF FetchTypes
      <4>4. QED  BY <3>1, <4>1, <4>2, <4>3 DEF FetchTypes
    <3>3. FetchGood'
      <4>1. BatchCount' = BatchCount
        BY <3>1 DEF BatchCount
      <4>2. \A b : Arrived(Limited(SortedRows(Batch(b))))' = Arrived(Limited(SortedRows(Batch(b))))
        BY <3>1 DEF SortedRows, Batch, FuelRowsOf
      <4>3. FetchGood
        BY DEF PageInv, FetchInv
      <4>4. QED  BY <3>1, <4>1, <4>2, <4>3 DEF FetchGood
    <3>4. QED  BY <3>1, <3>2, <3>3 DEF PageInv, FetchInv
  <2>2. CASE FetchFuel
    <3>1. FetchInv'
      BY <2>2, IssueKeeps, ReplyKeeps, YieldKeeps DEF PageInv, FetchFuel, FetchStep
    <3>2. UNCHANGED <<vehicles, kentekens>>
      BY <2>2 DEF FetchFuel, FetchStep, Issue, Reply, Yield, Collect, joinVars
    <3>3. QED  BY <3>1, <3>2 DEF PageInv
  <2>3. CASE HandOver \/ Join
    <3>1. UNCHANGED <<fetchVars, vehicles>>
      BY <2>3 DEF HandOver, Join, JoinStep, Validate, SkipOrphan, SkipEnds, TakeFuel, Push, args
    <3>2. QED  BY <2>1, <3>1
  <2>4. QED  BY <2>1, <2>2, <2>3 DEF Next, Step, vars, joinVars
<1>3. QED  BY <1>1, <1>2, PTL DEF Spec

\* A page is marked as one whose fuel is unavailable exactly if RDW refused one of
\* its batches or may have cut one off (fetch_fuel_for_kentekens, lib.rs:429-495).
THEOREM UnavailableIsJustified == Spec => []UnavailableForAReason
<1>1. PageInv => UnavailableForAReason
  <2> SUFFICES ASSUME PageInv, strayed = {}
               PROVE  /\ result = "Err" => rejected # {} \/ SomeBatchCut
                      /\ result = "Ok" => rejected = {} /\ ~ SomeBatchCut
    BY DEF UnavailableForAReason
  <2>0. FetchTypes /\ FetchGood /\ issued \in Nat /\ BatchCount \in Nat /\ issued <= BatchCount
        /\ FuelPageLimit \in Nat
    BY BatchCountIs, FuelBatchesAssumption DEF PageInv, FetchInv, FetchTypes
  <2>1. ASSUME NEW b
        PROVE  LET n == Len(SortedRows(Batch(b)))  a == Arrived(Limited(SortedRows(Batch(b)))) IN
               a.is = IF n >= FuelPageLimit THEN "failed" ELSE "page"
    <3> DEFINE all == SortedRows(Batch(b))
    <3>1. all \in Seq(FuelRow) /\ Len(all) \in Nat
      BY <2>0, SortedRowsAre
    <3> HIDE DEF all
    <3>2. Limited(all) \in Seq(FuelRow)
          /\ Len(Limited(all)) = IF Len(all) <= FuelPageLimit THEN Len(all) ELSE FuelPageLimit
      BY <3>1, LimitedIs
    <3>3. Arrived(Limited(all)).is = IF Len(Limited(all)) # FuelPageLimit THEN "page" ELSE "failed"
      BY <3>2, ArrivedIs
    <3>4. Arrived(Limited(all)).is = IF Len(all) >= FuelPageLimit THEN "failed" ELSE "page"
      BY <2>0, <3>1, <3>2, <3>3
    <3>5. QED  BY <3>4 DEF all
  <2>2. InFlight.is = "in flight"
    BY DEF InFlight, Answer
  <2>3. ASSUME result = "Err" PROVE rejected # {} \/ SomeBatchCut
    <3>1. PICK b \in 1 .. issued : answers[b].is = "failed"
      BY <2>0, <2>3 DEF FetchGood
    <3>2. answers[b] = Arrived(Limited(SortedRows(Batch(b)))) \/ b \in rejected
      BY <2>0, <2>2, <3>1 DEF FetchGood
    <3>3. CASE b \in rejected
      BY <3>3
    <3>4. CASE answers[b] = Arrived(Limited(SortedRows(Batch(b))))
      <4>1. Len(SortedRows(Batch(b))) >= FuelPageLimit
        BY <2>1, <3>1, <3>4
      <4>2. b \in 1 .. BatchCount
        BY <2>0
      <4>3. QED  BY <4>1, <4>2 DEF SomeBatchCut
    <3>5. QED  BY <3>2, <3>3, <3>4
  <2>4. ASSUME result = "Ok" PROVE rejected = {} /\ ~ SomeBatchCut
    <3>1. \A b \in 1 .. BatchCount : b \in 1 .. issued /\ answers[b].is = "page"
      <4>1. Len(pages) = BatchCount /\ Len(pages) <= issued
        BY <2>0, <2>4 DEF FetchTypes, FetchGood
      <4>2. \A b \in 1 .. BatchCount : b \in 1 .. issued
        BY <2>0, <4>1
      <4>3. \A b \in 1 .. BatchCount : answers[b].is = "page"
        BY <2>0, <4>1 DEF FetchGood
      <4>4. QED  BY <4>2, <4>3
    <3>2. \A b \in rejected : b \in 1 .. BatchCount /\ answers[b].is = "failed"
      <4>1. \A b \in rejected : b \in 1 .. issued /\ answers[b].is = "failed"
        BY <2>0 DEF FetchTypes, FetchGood
      <4>2. QED  BY <2>0, <4>1
    <3>3. rejected = {}
      BY <3>1, <3>2
    <3>4. ASSUME NEW b \in 1 .. BatchCount, Len(SortedRows(Batch(b))) >= FuelPageLimit
          PROVE  FALSE
      <4>1. answers[b] = Arrived(Limited(SortedRows(Batch(b))))
        BY <2>0, <2>2, <3>1, <3>3 DEF FetchGood
      <4>2. answers[b].is = "failed"
        BY <2>1, <3>4, <4>1
      <4>3. QED  BY <3>1, <4>2
    <3>5. QED  BY <3>3, <3>4 DEF SomeBatchCut
  <2>5. QED  BY <2>3, <2>4
<1>2. QED  BY <1>1, FetchIsInOrder, PTL

(***************************************************************************)
(* The join.                                                               *)
(***************************************************************************)

\* The rows are in order, not only each one and the next.
LEMMA FuelOrderIsTotal ==
    ASSUME NEW rows \in Seq(FuelRow), ValidFuelOrder(rows)
    PROVE  /\ \A i \in 1 .. Len(rows) : rows[i].kenteken \in Nat /\ rows[i].volgnummer \in Nat
           /\ \A i, j \in 1 .. Len(rows) : i < j => Precedes(rows[i], rows[j])
<1> DEFINE N == Len(rows)
<1>1. N \in Nat /\ DOMAIN rows = 1 .. N
  OBVIOUS
<1>2. \A i \in 1 .. N : rows[i].kenteken \in Nat /\ rows[i].volgnummer \in Nat
  <2>1. \A i \in 1 .. N : rows[i] \in FuelRow
    OBVIOUS
  <2>2. \A i \in 1 .. N : rows[i].kenteken # NoPlate /\ rows[i].volgnummer # NoVolgnummer
    BY <1>1 DEF ValidFuelOrder
  <2>3. QED  BY <2>1, <2>2, RdwRowsAssumption DEF FuelRow
<1>3. \A i \in 1 .. N - 1 : Precedes(rows[i], rows[i + 1])
  BY DEF ValidFuelOrder, Precedes
<1> HIDE DEF N
<1>4. ASSUME NEW i \in 1 .. N, NEW j \in 1 .. N, i < j
      PROVE  Precedes(rows[i], rows[j])
  <2> DEFINE Bad == {k \in 1 .. N : i < k /\ ~ Precedes(rows[i], rows[k])}
  <2> SUFFICES ASSUME Bad # {} PROVE FALSE
    BY <1>4
  <2>1. PICK k \in Bad : \A m \in Bad : k <= m
    <3>1. Bad \subseteq Nat
      BY <1>1
    <3> HIDE DEF Bad
    <3>2. QED  BY <3>1, LeastElement
  <2>2. k \in 1 .. N /\ i < k /\ ~ Precedes(rows[i], rows[k])
    OBVIOUS
  <2> HIDE DEF Bad
  <2>3. k - 1 \in 1 .. N - 1 /\ k - 1 \in 1 .. N /\ k - 1 < k /\ (k - 1) + 1 = k
    BY <1>1, <2>2
  <2>4. Precedes(rows[k - 1], rows[k])
    BY <1>3, <2>3
  <2>5. k - 1 # i
    BY <2>2, <2>4
  <2>6. i < k - 1
    BY <1>1, <2>2, <2>5
  <2>7. k - 1 \notin Bad
    BY <1>1, <2>1, <2>2, <2>3
  <2>8. Precedes(rows[i], rows[k - 1])
    BY <2>3, <2>6, <2>7 DEF Bad
  <2>9. /\ rows[i].kenteken \in Nat /\ rows[i].volgnummer \in Nat
        /\ rows[k - 1].kenteken \in Nat /\ rows[k - 1].volgnummer \in Nat
        /\ rows[k].kenteken \in Nat /\ rows[k].volgnummer \in Nat
    BY <1>2, <2>2, <2>3
  <2>10. Precedes(rows[i], rows[k])
    <3> DEFINE x == rows[i]  y == rows[k - 1]  z == rows[k]
    <3>1. /\ x.kenteken \in Nat /\ y.kenteken \in Nat /\ z.kenteken \in Nat
          /\ x.volgnummer \in Nat /\ y.volgnummer \in Nat /\ z.volgnummer \in Nat
          /\ Precedes(x, y) /\ Precedes(y, z)
      BY <2>4, <2>8, <2>9
    <3> HIDE DEF x, y, z
    <3>2. Precedes(x, z)
      BY <3>1 DEF Precedes
    <3>3. QED  BY <3>2 DEF x, z
  <2>11. QED  BY <2>2, <2>10
<1>5. QED  BY <1>2, <1>4 DEF N

\* So are the vehicles.
LEMMA VehicleOrderIsTotal ==
    ASSUME NEW vs \in Seq(Plates \cup {NoPlate}), ValidVehicleOrder(vs)
    PROVE  /\ \A i \in 1 .. Len(vs) : vs[i] \in Plates /\ vs[i] \in Nat
           /\ \A i, j \in 1 .. Len(vs) : i < j => vs[i] < vs[j]
<1> DEFINE N == Len(vs)
<1>1. N \in Nat /\ DOMAIN vs = 1 .. N
  OBVIOUS
<1>2. \A i \in 1 .. N : vs[i] \in Plates /\ vs[i] \in Nat
  <2>1. \A i \in 1 .. N : vs[i] \in Plates \cup {NoPlate}
    OBVIOUS
  <2>2. \A i \in 1 .. N : vs[i] # NoPlate
    BY <1>1 DEF ValidVehicleOrder
  <2>3. QED  BY <2>1, <2>2, RdwRowsAssumption
<1>3. \A i \in 1 .. N - 1 : vs[i] < vs[i + 1]
  BY DEF ValidVehicleOrder
<1> HIDE DEF N
<1>4. ASSUME NEW i \in 1 .. N, NEW j \in 1 .. N, i < j
      PROVE  vs[i] < vs[j]
  <2> DEFINE Bad == {k \in 1 .. N : i < k /\ ~ (vs[i] < vs[k])}
  <2> SUFFICES ASSUME Bad # {} PROVE FALSE
    BY <1>4
  <2>1. PICK k \in Bad : \A m \in Bad : k <= m
    <3>1. Bad \subseteq Nat
      BY <1>1
    <3> HIDE DEF Bad
    <3>2. QED  BY <3>1, LeastElement
  <2>2. k \in 1 .. N /\ i < k /\ ~ (vs[i] < vs[k])
    OBVIOUS
  <2> HIDE DEF Bad
  <2>3. k - 1 \in 1 .. N - 1 /\ k - 1 \in 1 .. N /\ k - 1 < k /\ (k - 1) + 1 = k
    BY <1>1, <2>2
  <2>4. vs[k - 1] < vs[k]
    BY <1>3, <2>3
  <2>5. k - 1 # i
    BY <2>2, <2>4
  <2>6. i < k - 1
    BY <1>1, <2>2, <2>5
  <2>7. k - 1 \notin Bad
    BY <1>1, <2>1, <2>2, <2>3
  <2>8. vs[i] < vs[k - 1]
    BY <2>3, <2>6, <2>7 DEF Bad
  <2>9. vs[i] \in Nat /\ vs[k - 1] \in Nat /\ vs[k] \in Nat
    BY <1>2, <2>2, <2>3
  <2>10. QED  BY <2>2, <2>4, <2>8, <2>9
<1>5. QED  BY <1>2, <1>4 DEF N

\* The rows behind the cursor that are not yet the vehicle's.
Before == fi - Len(fuels)

\* The cursor stands in the middle of the vehicle's rows: those before it belong
\* to plates before the vehicle, or are already taken.
Taking ==
    /\ ValidVehicleOrder(vehicles) /\ ValidFuelOrder(fuel)
    /\ vi < Len(vehicles)
    /\ \A k \in 1 .. Before : fuel[k].kenteken < Vehicle
    /\ \A n \in 1 .. Len(fuels) :
         /\ fuels[n] = fuel[Before + n]
         /\ fuel[Before + n].kenteken = Vehicle /\ fuel[Before + n].volgnummer = n

\* The row of a vehicle, as it was pushed.
Given(w, v) ==
    /\ w.vehicle = v
    /\ w.fuels \in Seq(FuelRow) /\ Len(w.fuels) <= MAX_FUEL_ENTRIES
    /\ AreRowsOf(w.fuels, v, fuel)
    /\ \A n \in 1 .. Len(w.fuels) : w.fuels[n].volgnummer = n
    /\ w.exportStatus = Status(w.fuels)

WidenedRow ==
    [vehicle : Plates \cup {NoPlate}, fuels : Seq(FuelRow),
     exportStatus : {"FuelUnavailable", "NoFuelData", "Ok"}]

JoinTypes ==
    /\ pc \in {"wait", "validate", "skip", "take", "done"}
    /\ error \in {"none", "VehicleOrder", "FuelOrder", "FuelInversion", "TooManyFuelEntries"}
    /\ fuel \in Seq(FuelRow) /\ fuels \in Seq(FuelRow)
    /\ vi \in Nat /\ fi \in Nat /\ fi <= Len(fuel) /\ Len(fuels) <= fi
    /\ vi <= Len(vehicles)
    /\ widened \in Seq(WidenedRow) /\ Len(widened) = vi
    /\ pc \in {"wait", "validate"} => vi = 0 /\ fi = 0 /\ fuels = <<>>
    /\ error # "none" => pc = "done"

JoinGood ==
    /\ pc \in {"skip", "take"} => Taking /\ Len(fuels) <= MAX_FUEL_ENTRIES
    /\ pc = "skip" => fuels = <<>>
    /\ pc = "take" /\ fi < Len(fuel) => Fuel.kenteken >= Vehicle
    /\ \A i \in 1 .. vi : Given(widened[i], vehicles[i])
    /\ pc = "done" /\ error = "none" =>
         vi = Len(vehicles) /\ ValidVehicleOrder(vehicles) /\ ValidFuelOrder(fuel)
    /\ error = "VehicleOrder" => ~ ValidVehicleOrder(vehicles)
    /\ error = "FuelOrder" => ~ ValidFuelOrder(fuel)
    /\ error = "FuelInversion" =>
         /\ Taking /\ fi < Len(fuel)
         /\ Fuel.kenteken = Vehicle /\ Fuel.volgnummer # Len(fuels) + 1
    /\ error = "TooManyFuelEntries" => Taking /\ Len(fuels) > MAX_FUEL_ENTRIES

\* What the page is joined with is what the fetch returned.
HandedOver ==
    pc # "wait" => /\ result # "none"
                   /\ fuel = IF result = "Ok" THEN FlattenSeq(pages) ELSE <<>>
                   /\ fuelFetchFailed = (result = "Err")

JoinInv == JoinTypes /\ JoinGood

\* What a vehicle was given it keeps.
LEMMA GivenStays ==
    ASSUME UNCHANGED <<fuel, fuelFetchFailed>>, NEW w, NEW v, Given(w, v)
    PROVE  Given(w, v)'
BY DEF Given, AreRowsOf, Positions, Status

\* The order is checked before anything is joined (merge.rs:87-88).
LEMMA ValidateKeeps ==
    ASSUME PageInv, JoinInv, Validate
    PROVE  JoinInv'
<1>1. /\ pc = "validate" /\ error = "none" /\ vi = 0 /\ fi = 0 /\ fuels = <<>>
      /\ UNCHANGED <<vehicles, fuel, fuelFetchFailed, vi, fi, fuels, widened>>
  BY DEF Validate, args, JoinInv, JoinTypes
<1>2. \A i \in 1 .. vi : Given(widened[i], vehicles[i])'
  BY <1>1
<1>3. Len(vehicles) \in Nat
  BY DEF PageInv
<1>4. CASE ~ ValidVehicleOrder(vehicles) /\ Return("VehicleOrder")
  <2>1. pc' = "done" /\ error' = "VehicleOrder" /\ ~ ValidVehicleOrder(vehicles')
    BY <1>1, <1>4 DEF Return
  <2>2. JoinTypes'
    BY <1>1, <2>1 DEF JoinInv, JoinTypes
  <2>3. JoinGood'
    BY <1>1, <1>2, <2>1 DEF JoinGood
  <2>4. QED  BY <1>1, <2>1, <2>2, <2>3 DEF JoinInv
<1>5. CASE ~ ValidFuelOrder(fuel) /\ Return("FuelOrder")
  <2>1. pc' = "done" /\ error' = "FuelOrder" /\ ~ ValidFuelOrder(fuel')
    BY <1>1, <1>5 DEF Return
  <2>2. JoinTypes'
    BY <1>1, <2>1 DEF JoinInv, JoinTypes
  <2>3. JoinGood'
    BY <1>1, <1>2, <2>1 DEF JoinGood
  <2>4. QED  BY <1>1, <2>1, <2>2, <2>3 DEF JoinInv
<1>6. CASE /\ ValidVehicleOrder(vehicles) /\ ValidFuelOrder(fuel)
           /\ pc' = (IF vehicles = <<>> THEN "done" ELSE "skip") /\ UNCHANGED error
  <2>1. JoinTypes'
    BY <1>1, <1>6 DEF JoinInv, JoinTypes
  <2>2. CASE vehicles = <<>>
    <3>1. Len(vehicles') = 0 /\ vi' = 0 /\ pc' = "done" /\ error' = "none"
      BY <1>1, <1>6, <2>2
    <3>2. JoinGood'
      BY <1>1, <1>2, <1>6, <3>1 DEF JoinGood
    <3>3. QED  BY <1>1, <2>1, <3>1, <3>2 DEF JoinInv
  <2>3. CASE vehicles # <<>>
    <3>1. Len(vehicles) > 0 /\ pc' = "skip" /\ error' = "none"
      BY <1>1, <1>6, <2>3 DEF PageInv
    <3>2. vi' < Len(vehicles') /\ fuels' = <<>> /\ Len(fuels') = 0 /\ 1 .. Before' = {}
      BY <1>1, <1>3, <3>1 DEF Before
    <3>3. Taking'
      BY <1>1, <1>6, <3>2 DEF Taking
    <3>4. Len(fuels') <= MAX_FUEL_ENTRIES
      BY <3>2, MergeJoinAssumption
    <3>5. JoinGood'
      BY <1>1, <1>2, <3>1, <3>2, <3>3, <3>4 DEF JoinGood
    <3>6. QED  BY <1>1, <2>1, <3>1, <3>5 DEF JoinInv
  <2>4. QED  BY <2>2, <2>3
<1>7. QED  BY <1>4, <1>5, <1>6 DEF Validate

\* Rows of plates before the vehicle are skipped (merge.rs:96-106).
LEMMA SkipKeeps ==
    ASSUME PageInv, JoinInv, SkipOrphan \/ SkipEnds
    PROVE  JoinInv'
<1>1. /\ pc = "skip" /\ error = "none" /\ fuels = <<>> /\ Taking
      /\ UNCHANGED <<vehicles, fuel, fuelFetchFailed, vi, fuels, widened, error>>
  BY DEF SkipOrphan, SkipEnds, args, JoinInv, JoinTypes, JoinGood
<1>2. \A i \in 1 .. vi : Given(widened[i], vehicles[i])'
  BY <1>1, GivenStays DEF JoinInv, JoinGood
<1>3. fi \in Nat /\ Len(fuels) = 0 /\ Len(fuel) \in Nat /\ Before = fi /\ fi <= Len(fuel)
  BY <1>1 DEF JoinInv, JoinTypes, Before
<1>4. Vehicle' = Vehicle
  BY <1>1 DEF Vehicle
<1>5. Len(fuels') <= MAX_FUEL_ENTRIES
  BY <1>1, <1>3, MergeJoinAssumption
<1>6. CASE fi < Len(fuel) /\ Fuel.kenteken < Vehicle /\ fi' = fi + 1 /\ UNCHANGED pc
  <2>1. Before' = fi + 1 /\ Len(fuels') = 0 /\ fi' \in Nat /\ fi' <= Len(fuel)
    BY <1>1, <1>3, <1>6 DEF Before
  <2>2. JoinTypes'
    BY <1>1, <1>6, <2>1 DEF JoinInv, JoinTypes
  <2>3. \A k \in 1 .. Before' : fuel[k].kenteken < Vehicle
    <3> SUFFICES ASSUME NEW k \in 1 .. fi + 1 PROVE fuel[k].kenteken < Vehicle
      BY <2>1
    <3>1. k \in 1 .. fi \/ k = fi + 1
      BY <1>3
    <3>2. CASE k \in 1 .. fi
      BY <1>1, <1>3, <3>2 DEF Taking
    <3>3. CASE k = fi + 1
      BY <1>6, <3>3 DEF Fuel
    <3>4. QED  BY <3>1, <3>2, <3>3
  <2>4. 1 .. Len(fuels') = {}
    BY <2>1
  <2>5. Taking'
    BY <1>1, <1>4, <2>3, <2>4 DEF Taking
  <2>6. JoinGood'
    BY <1>1, <1>2, <1>5, <1>6, <2>5 DEF JoinGood
  <2>7. QED  BY <1>1, <1>6, <2>2, <2>6 DEF JoinInv
<1>7. CASE (fi < Len(fuel) => Fuel.kenteken >= Vehicle) /\ pc' = "take" /\ UNCHANGED fi
  <2>1. JoinTypes'
    BY <1>1, <1>7 DEF JoinInv, JoinTypes
  <2>2. Taking' /\ Fuel' = Fuel
    BY <1>1, <1>7 DEF Taking, Before, Vehicle, Fuel
  <2>3. JoinGood'
    BY <1>1, <1>2, <1>4, <1>5, <1>7, <2>2 DEF JoinGood
  <2>4. QED  BY <1>1, <1>7, <2>1, <2>3 DEF JoinInv
<1>8. QED  BY <1>6, <1>7 DEF SkipOrphan, SkipEnds

\* The vehicle's rows are taken one by one (merge.rs:108-131).
LEMMA TakeKeeps ==
    ASSUME PageInv, JoinInv, TakeFuel
    PROVE  JoinInv'
<1>1. /\ pc = "take" /\ error = "none" /\ Taking /\ Len(fuels) <= MAX_FUEL_ENTRIES
      /\ fi < Len(fuel) /\ Fuel.kenteken = Vehicle
      /\ UNCHANGED <<vehicles, fuel, fuelFetchFailed, vi, widened>>
  BY DEF TakeFuel, args, JoinInv, JoinTypes, JoinGood
<1>2. \A i \in 1 .. vi : Given(widened[i], vehicles[i])'
  BY <1>1, GivenStays DEF JoinInv, JoinGood
<1>3. /\ fi \in Nat /\ Len(fuels) \in Nat /\ Len(fuel) \in Nat /\ Len(fuels) <= fi
      /\ fuel \in Seq(FuelRow) /\ fuels \in Seq(FuelRow)
  BY DEF JoinInv, JoinTypes
<1>4. Vehicle' = Vehicle
  BY <1>1 DEF Vehicle
<1>5. CASE Fuel.volgnummer # Len(fuels) + 1 /\ Return("FuelInversion") /\ UNCHANGED <<fi, fuels>>
  <2>1. pc' = "done" /\ error' = "FuelInversion"
    BY <1>5 DEF Return
  <2>2. JoinTypes'
    BY <1>1, <1>5, <2>1 DEF JoinInv, JoinTypes
  <2>3. Taking' /\ Fuel' = Fuel
    BY <1>1, <1>5 DEF Taking, Before, Vehicle, Fuel
  <2>4. JoinGood'
    BY <1>1, <1>2, <1>4, <1>5, <2>1, <2>3 DEF JoinGood
  <2>5. QED  BY <1>1, <2>1, <2>2, <2>4 DEF JoinInv
<1>6. CASE /\ Fuel.volgnummer = Len(fuels) + 1
           /\ fuels' = Append(fuels, Fuel) /\ fi' = fi + 1
           /\ IF Len(fuels') > MAX_FUEL_ENTRIES THEN Return("TooManyFuelEntries")
              ELSE UNCHANGED <<pc, error>>
  <2>1. fi + 1 \in 1 .. Len(fuel) /\ Fuel = fuel[fi + 1] /\ Fuel \in FuelRow
    <3>1. fi + 1 \in 1 .. Len(fuel)
      BY <1>1, <1>3
    <3>2. fuel[fi + 1] \in FuelRow
      BY <1>3, <3>1
    <3>3. QED  BY <3>1, <3>2 DEF Fuel
  <2>2. /\ fuels' \in Seq(FuelRow) /\ Len(fuels') = Len(fuels) + 1
        /\ \A n \in 1 .. Len(fuels) : fuels'[n] = fuels[n]
        /\ fuels'[Len(fuels) + 1] = Fuel
    BY <1>3, <1>6, <2>1, AppendProperties
  <2>3. fi' \in Nat /\ fi' <= Len(fuel) /\ Len(fuels') <= fi' /\ Before' = Before
        /\ Before + Len(fuels) = fi
    <3>1. fi + 1 <= Len(fuel) /\ Len(fuels) + 1 <= fi + 1
          /\ (fi + 1) - (Len(fuels) + 1) = fi - Len(fuels) /\ (fi - Len(fuels)) + Len(fuels) = fi
      BY <1>1, <1>3
    <3>2. QED  BY <1>3, <1>6, <2>2, <3>1 DEF Before
  <2>4. \/ pc' = "done" /\ error' = "TooManyFuelEntries" /\ Len(fuels') > MAX_FUEL_ENTRIES
        \/ pc' = "take" /\ error' = "none" /\ ~ (Len(fuels') > MAX_FUEL_ENTRIES)
    BY <1>1, <1>6 DEF Return
  <2>5. JoinTypes'
    BY <1>1, <2>2, <2>3, <2>4 DEF JoinInv, JoinTypes
  <2>6. ASSUME NEW n \in 1 .. Len(fuels')
        PROVE  /\ fuels'[n] = fuel[Before + n]
               /\ fuel[Before + n].kenteken = Vehicle /\ fuel[Before + n].volgnummer = n
    <3>1. n \in 1 .. Len(fuels) \/ n = Len(fuels) + 1
      BY <1>3, <2>2
    <3>2. CASE n \in 1 .. Len(fuels)
      BY <1>1, <2>2, <3>2 DEF Taking
    <3>3. CASE n = Len(fuels) + 1
      <4>1. Before + n = fi + 1
        BY <1>3, <3>3 DEF Before
      <4>2. QED  BY <1>1, <1>6, <2>1, <2>2, <3>3, <4>1
    <3>4. QED  BY <3>1, <3>2, <3>3
  <2>7. Taking'
    <3>1. \A k \in 1 .. Before' : fuel'[k].kenteken < Vehicle'
      BY <1>1, <1>4, <2>3 DEF Taking
    <3>2. \A n \in 1 .. Len(fuels') :
             /\ fuels'[n] = fuel'[Before' + n]
             /\ fuel'[Before' + n].kenteken = Vehicle' /\ fuel'[Before' + n].volgnummer = n
      BY <1>1, <1>4, <2>3, <2>6
    <3>3. QED  BY <1>1, <3>1, <3>2 DEF Taking
  <2>8. fi' < Len(fuel') => Fuel'.kenteken >= Vehicle'
    <3> SUFFICES ASSUME fi + 1 < Len(fuel) PROVE fuel[(fi + 1) + 1].kenteken >= Vehicle
      BY <1>1, <1>4, <1>6 DEF Fuel
    <3>1. (fi + 1) + 1 \in 1 .. Len(fuel) /\ fi + 1 < (fi + 1) + 1
      BY <1>3
    <3>2. ValidFuelOrder(fuel)
      BY <1>1 DEF Taking
    <3> DEFINE a == fuel[fi + 1]  b == fuel[(fi + 1) + 1]
    <3>3. Precedes(a, b) /\ a.kenteken \in Nat /\ b.kenteken \in Nat
      BY <1>3, <2>1, <3>1, <3>2, FuelOrderIsTotal
    <3>4. a.kenteken = Vehicle
      BY <1>1, <2>1
    <3> HIDE DEF a, b
    <3>5. b.kenteken >= Vehicle
      BY <3>3, <3>4 DEF Precedes
    <3>6. QED  BY <3>5 DEF b
  <2>9. Len(fuels') <= MAX_FUEL_ENTRIES \/ Len(fuels') > MAX_FUEL_ENTRIES
    <3>1. MAX_FUEL_ENTRIES \in Nat /\ Len(fuels') \in Nat
      BY <1>3, <2>2, MergeJoinAssumption
    <3>2. QED  BY <3>1
  <2>10. JoinGood'
    BY <1>1, <1>2, <2>4, <2>7, <2>8, <2>9 DEF JoinGood
  <2>11. QED  BY <1>1, <2>4, <2>5, <2>10 DEF JoinInv
<1>7. QED  BY <1>5, <1>6 DEF TakeFuel

\* A vehicle gets its row when no more rows are its own (merge.rs:133-147).
LEMMA PushKeeps ==
    ASSUME PageInv, JoinInv, Push
    PROVE  JoinInv'
<1> DEFINE w == [vehicle |-> Vehicle, fuels |-> fuels, exportStatus |-> Status(fuels)]
<1>1. /\ pc = "take" /\ error = "none" /\ Taking /\ Len(fuels) <= MAX_FUEL_ENTRIES
      /\ (fi < Len(fuel) => Fuel.kenteken # Vehicle /\ Fuel.kenteken >= Vehicle)
      /\ widened' = Append(widened, w) /\ vi' = vi + 1 /\ fuels' = <<>>
      /\ pc' = (IF vi' = Len(vehicles) THEN "done" ELSE "skip")
      /\ UNCHANGED <<vehicles, fuel, fuelFetchFailed, fi, error>>
  BY DEF Push, args, JoinInv, JoinTypes, JoinGood
<1>2. /\ fi \in Nat /\ Len(fuels) \in Nat /\ Len(fuel) \in Nat /\ Len(fuels) <= fi
      /\ fi <= Len(fuel) /\ vi \in Nat
      /\ fuel \in Seq(FuelRow) /\ fuels \in Seq(FuelRow) /\ DOMAIN fuel = 1 .. Len(fuel)
  BY DEF JoinInv, JoinTypes
<1>3. vehicles \in Seq(Plates \cup {NoPlate}) /\ Len(vehicles) \in Nat
  BY DEF PageInv
<1>4. vi < Len(vehicles) /\ ValidVehicleOrder(vehicles) /\ ValidFuelOrder(fuel)
  BY <1>1 DEF Taking
<1>5. vi + 1 \in 1 .. Len(vehicles) /\ Vehicle = vehicles[vi + 1] /\ Vehicle \in Nat /\ Vehicle \in Plates
  <2>1. vi + 1 \in 1 .. Len(vehicles)
    BY <1>2, <1>3, <1>4
  <2>2. QED  BY <1>3, <1>4, <2>1, VehicleOrderIsTotal DEF Vehicle
<1>6. w \in WidenedRow
  <2>1. Status(fuels) \in {"FuelUnavailable", "NoFuelData", "Ok"}
    BY DEF Status
  <2>2. QED  BY <1>2, <1>5, <2>1 DEF WidenedRow
<1>7. w.vehicle = Vehicle /\ w.fuels = fuels /\ w.exportStatus = Status(fuels)
  OBVIOUS
<1> HIDE DEF w
<1>8. /\ widened' \in Seq(WidenedRow) /\ Len(widened') = vi + 1
      /\ \A i \in 1 .. vi : widened'[i] = widened[i]
      /\ widened'[vi + 1] = w
  <2>1. widened \in Seq(WidenedRow) /\ Len(widened) = vi
    BY DEF JoinInv, JoinTypes
  <2>2. QED  BY <1>1, <1>6, <2>1, AppendProperties
<1>9. Before \in Nat /\ Before + Len(fuels) = fi /\ Before <= fi
  BY <1>2 DEF Before
<1>10. ASSUME NEW k \in fi + 1 .. Len(fuel)
       PROVE  fuel[k].kenteken > Vehicle /\ fuel[k].kenteken \in Nat
  <2>1. fi < Len(fuel) /\ fi + 1 \in 1 .. Len(fuel) /\ k \in 1 .. Len(fuel)
        /\ (k = fi + 1 \/ fi + 1 < k)
    BY <1>2
  <2> DEFINE a == fuel[fi + 1]  b == fuel[k]
  <2>2. a.kenteken \in Nat /\ b.kenteken \in Nat /\ (fi + 1 < k => Precedes(a, b))
    BY <1>2, <1>4, <2>1, FuelOrderIsTotal
  <2>3. a.kenteken # Vehicle /\ a.kenteken >= Vehicle
    BY <1>1, <2>1 DEF Fuel
  <2>4. k = fi + 1 => b = a
    OBVIOUS
  <2> HIDE DEF a, b
  <2>5. a.kenteken > Vehicle
    BY <1>5, <2>2, <2>3
  <2>6. b.kenteken > Vehicle
    BY <1>5, <2>1, <2>2, <2>4, <2>5 DEF Precedes
  <2>7. QED  BY <2>2, <2>6 DEF b
<1>11. \A k \in 1 .. fi : k \in 1 .. Before \/ \E n \in 1 .. Len(fuels) : k = Before + n
  <2> SUFFICES ASSUME NEW k \in 1 .. fi, k \notin 1 .. Before
               PROVE  \E n \in 1 .. Len(fuels) : k = Before + n
    OBVIOUS
  <2>1. k - Before \in 1 .. Len(fuels) /\ k = Before + (k - Before)
    BY <1>2, <1>9
  <2>2. QED  BY <2>1
<1>12. AreRowsOf(fuels, Vehicle, fuel)
  <2>1. Before \in 0 .. Len(fuel)
    BY <1>2, <1>9
  <2>2. ASSUME NEW k \in 1 .. Len(fuel)
        PROVE  fuel[k].kenteken = Vehicle <=> k \in Before + 1 .. Before + Len(fuels)
    <3>1. CASE k \in 1 .. Before
      <4>1. fuel[k].kenteken < Vehicle /\ fuel[k].kenteken \in Nat
        BY <1>1, <1>2, <1>4, <3>1, FuelOrderIsTotal DEF Taking
      <4>2. k \notin Before + 1 .. Before + Len(fuels)
        BY <1>9, <3>1
      <4>3. QED  BY <1>5, <4>1, <4>2
    <3>2. CASE k \in 1 .. fi /\ k \notin 1 .. Before
      <4>1. PICK n \in 1 .. Len(fuels) : k = Before + n
        BY <1>11, <3>2
      <4>2. fuel[k].kenteken = Vehicle
        BY <1>1, <4>1 DEF Taking
      <4>3. k \in Before + 1 .. Before + Len(fuels)
        BY <1>2, <1>9, <4>1
      <4>4. QED  BY <4>2, <4>3
    <3>3. CASE k \notin 1 .. fi
      <4>1. k \in fi + 1 .. Len(fuel) /\ k \notin Before + 1 .. Before + Len(fuels)
        BY <1>2, <1>9, <3>3
      <4>2. QED  BY <1>5, <1>10, <4>1
    <3>4. QED  BY <3>1, <3>2, <3>3
  <2>3. \A k \in Before + 1 .. Before + Len(fuels) : k \in 1 .. Len(fuel)
    BY <1>2, <1>9
  <2>4. Positions(fuel, Vehicle) = Before + 1 .. Before + Len(fuels)
    <3>1. Positions(fuel, Vehicle) = {k \in 1 .. Len(fuel) : fuel[k].kenteken = Vehicle}
      BY <1>2 DEF Positions
    <3>2. QED  BY <2>2, <2>3, <3>1
  <2>5. \A n \in DOMAIN fuels : fuels[n] = fuel[Before + n]
    BY <1>1, <1>2 DEF Taking
  <2>6. QED  BY <2>1, <2>4, <2>5 DEF AreRowsOf
<1>13. Given(w, Vehicle)
  <2>1. \A n \in 1 .. Len(fuels) : fuels[n].volgnummer = n
    BY <1>1 DEF Taking
  <2>2. QED  BY <1>1, <1>2, <1>7, <1>12, <2>1 DEF Given
<1>14. \A i \in 1 .. vi' : Given(widened[i], vehicles[i])'
  <2> SUFFICES ASSUME NEW i \in 1 .. vi + 1 PROVE Given(widened[i], vehicles[i])'
    BY <1>1
  <2>1. i \in 1 .. vi \/ i = vi + 1
    BY <1>2
  <2>2. CASE i \in 1 .. vi
    <3>1. PICK x, v : x = widened[i] /\ v = vehicles[i]
      OBVIOUS
    <3>2. Given(x, v)
      BY <2>2, <3>1 DEF JoinInv, JoinGood
    <3>3. Given(x, v)'
      BY <1>1, <3>2, GivenStays
    <3>4. x = widened'[i] /\ v = vehicles'[i]
      BY <1>1, <1>8, <2>2, <3>1
    <3>5. QED  BY <3>3, <3>4
  <2>3. CASE i = vi + 1
    <3>1. PICK x, v : x = w /\ v = Vehicle
      OBVIOUS
    <3>2. Given(x, v)'
      BY <1>1, <1>13, <3>1, GivenStays
    <3>3. x = widened'[i] /\ v = vehicles'[i]
      BY <1>1, <1>5, <1>8, <2>3, <3>1
    <3>4. QED  BY <3>2, <3>3
  <2>4. QED  BY <2>1, <2>2, <2>3
<1>15. Len(fuels') = 0 /\ Before' = fi /\ 1 .. Len(fuels') = {}
  BY <1>1, <1>2 DEF Before
<1>16. JoinTypes'
  <2>1. vi' \in Nat /\ vi' <= Len(vehicles')
    BY <1>1, <1>2, <1>3, <1>4
  <2>2. fuels' \in Seq(FuelRow) /\ Len(fuels') <= fi'
    BY <1>1, <1>2, <1>15
  <2>3. pc' \in {"skip", "done"} /\ error' = "none"
    BY <1>1
  <2>4. QED  BY <1>1, <1>2, <1>8, <2>1, <2>2, <2>3 DEF JoinTypes
<1>17. CASE vi + 1 = Len(vehicles)
  <2>1. pc' = "done" /\ error' = "none" /\ vi' = Len(vehicles')
    BY <1>1, <1>17
  <2>2. JoinGood'
    BY <1>1, <1>4, <1>14, <2>1 DEF JoinGood
  <2>3. QED  BY <1>1, <1>16, <2>1, <2>2 DEF JoinInv
<1>18. CASE vi + 1 # Len(vehicles)
  <2>1. pc' = "skip" /\ error' = "none" /\ vi' < Len(vehicles')
        /\ (vi + 1) + 1 \in 1 .. Len(vehicles) /\ vi + 1 < (vi + 1) + 1
    BY <1>1, <1>2, <1>3, <1>4, <1>18
  <2>2. Vehicle' = vehicles[(vi + 1) + 1] /\ Vehicle < Vehicle' /\ Vehicle' \in Nat
    <3>1. Vehicle' = vehicles[(vi + 1) + 1]
      BY <1>1 DEF Vehicle
    <3>2. vehicles[vi + 1] < vehicles[(vi + 1) + 1] /\ vehicles[(vi + 1) + 1] \in Nat
      BY <1>3, <1>4, <1>5, <2>1, VehicleOrderIsTotal
    <3>3. QED  BY <1>5, <3>1, <3>2
  <2>3. ASSUME NEW k \in 1 .. fi PROVE fuel[k].kenteken < Vehicle'
    <3>1. fuel[k].kenteken \in Nat
      <4>1. k \in 1 .. Len(fuel)
        BY <1>2
      <4>2. QED  BY <1>2, <1>4, <4>1, FuelOrderIsTotal
    <3>2. CASE k \in 1 .. Before
      <4>1. fuel[k].kenteken < Vehicle
        BY <1>1, <3>2 DEF Taking
      <4>2. QED  BY <1>5, <2>2, <3>1, <4>1
    <3>3. CASE k \notin 1 .. Before
      <4>1. PICK n \in 1 .. Len(fuels) : k = Before + n
        BY <1>11, <3>3
      <4>2. fuel[k].kenteken = Vehicle
        BY <1>1, <4>1 DEF Taking
      <4>3. QED  BY <2>2, <4>2
    <3>4. QED  BY <3>2, <3>3
  <2>4. Taking'
    BY <1>1, <1>4, <1>15, <2>1, <2>3 DEF Taking
  <2>5. Len(fuels') <= MAX_FUEL_ENTRIES
    BY <1>15, MergeJoinAssumption
  <2>6. JoinGood'
    BY <1>1, <1>14, <2>1, <2>4, <2>5 DEF JoinGood
  <2>7. QED  BY <1>1, <1>16, <2>1, <2>6 DEF JoinInv
<1>19. QED  BY <1>17, <1>18

\* What RDW answered can be joined as soon as all of it is there, and is joined as it
\* was answered (pipeline.rs:446-476, merge.rs:82-150).
THEOREM JoinInvHolds == Spec => [](JoinInv /\ HandedOver)
<1>1. Init => JoinInv /\ HandedOver
  <2> SUFFICES ASSUME Init PROVE JoinInv /\ HandedOver
    OBVIOUS
  <2>1. /\ fuel = <<>> /\ vi = 0 /\ fi = 0 /\ fuels = <<>> /\ pc = "wait" /\ widened = <<>>
        /\ error = "none"
    BY DEF Init, JoinInit
  <2>2. Len(vehicles) \in Nat
    BY PageJoinAssumption DEF Init
  <2>3. JoinTypes
    <3>1. fuel \in Seq(FuelRow) /\ fuels \in Seq(FuelRow) /\ widened \in Seq(WidenedRow)
          /\ Len(widened) = vi /\ fi <= Len(fuel) /\ Len(fuels) <= fi
      BY <2>1
    <3>2. vi \in Nat /\ fi \in Nat /\ vi <= Len(vehicles)
      BY <2>1, <2>2
    <3>3. QED  BY <2>1, <3>1, <3>2 DEF JoinTypes
  <2>4. JoinGood
    <3>1. 1 .. vi = {}
      BY <2>1
    <3>2. QED  BY <2>1, <3>1 DEF JoinGood
  <2>5. QED  BY <2>1, <2>3, <2>4 DEF JoinInv, HandedOver
<1>2. PageInv /\ JoinInv /\ HandedOver /\ [Next]_vars => JoinInv' /\ HandedOver'
  <2> SUFFICES ASSUME PageInv, JoinInv, HandedOver, [Next]_vars PROVE JoinInv' /\ HandedOver'
    OBVIOUS
  <2>1. CASE UNCHANGED joinVars
    <3>1. UNCHANGED <<vehicles, fuel, fuelFetchFailed, vi, fi, fuels, pc, widened, error>>
      BY <2>1 DEF joinVars
    <3>2. JoinTypes'
      BY <3>1 DEF JoinInv, JoinTypes
    <3>3. Taking' = Taking
      BY <3>1 DEF Taking, Before, Vehicle
    <3>4. Vehicle' = Vehicle /\ Fuel' = Fuel
      BY <3>1 DEF Vehicle, Fuel
    <3>5. \A i \in 1 .. vi : Given(widened[i], vehicles[i])'
      BY <3>1, GivenStays DEF JoinInv, JoinGood
    <3>6. JoinGood'
      BY <3>1, <3>3, <3>4, <3>5 DEF JoinInv, JoinGood
    <3>7. HandedOver'
      <4>1. CASE UNCHANGED <<result, pages>>
        BY <3>1, <4>1 DEF HandedOver
      <4>2. CASE pc = "wait"
        BY <3>1, <4>2 DEF HandedOver
      <4>3. CASE FetchFuel
        <5>1. result = "none"
          BY <4>3 DEF FetchFuel, FetchStep, Issue, Reply, Yield, Collect
        <5>2. QED  BY <4>2, <5>1 DEF HandedOver
      <4>4. CASE HandOver \/ Join \/ UNCHANGED vars
        BY <4>1, <4>4 DEF HandOver, Join, vars, fetchVars
      <4>5. QED  BY <4>3, <4>4 DEF Next, Step
    <3>8. QED  BY <3>2, <3>6, <3>7 DEF JoinInv
  <2>2. CASE HandOver
    <3>1. /\ pc = "wait" /\ result # "none" /\ pc' = "validate" /\ error = "none"
          /\ vi = 0 /\ fi = 0 /\ fuels = <<>>
          /\ UNCHANGED <<result, pages, vehicles, vi, fi, fuels, widened, error>>
          /\ fuel' = IF result = "Ok" THEN FlattenSeq(pages) ELSE <<>>
          /\ fuelFetchFailed' = (result = "Err")
      BY <2>2 DEF HandOver, fetchVars, JoinInv, JoinTypes
    <3>2. fuel' \in Seq(FuelRow) /\ Len(fuel') \in Nat
      <4>1. pages \in Seq(Seq(FuelRow))
        BY DEF PageInv, FetchInv, FetchTypes
      <4>2. FlattenSeq(pages) \in Seq(FuelRow)
        BY <4>1, FlattenLaid
      <4>3. fuel' \in Seq(FuelRow)
        BY <3>1, <4>2
      <4>4. QED  BY <4>3
    <3>3. fi' <= Len(fuel')
      BY <3>1, <3>2
    <3>4. JoinTypes'
      BY <3>1, <3>2, <3>3 DEF JoinInv, JoinTypes
    <3>5. JoinGood'
      <4>1. 1 .. vi' = {}
        BY <3>1
      <4>2. QED  BY <3>1, <4>1 DEF JoinGood
    <3>6. HandedOver'
      BY <3>1 DEF HandedOver
    <3>7. QED  BY <3>4, <3>5, <3>6 DEF JoinInv
  <2>3. CASE Join
    <3>1. JoinInv'
      BY <2>3, ValidateKeeps, SkipKeeps, TakeKeeps, PushKeeps DEF Join, JoinStep
    <3>2. pc # "wait" /\ UNCHANGED <<fuel, fuelFetchFailed, result, pages>>
      BY <2>3 DEF Join, JoinStep, Validate, SkipOrphan, SkipEnds, TakeFuel, Push, args, fetchVars
    <3>3. QED  BY <3>1, <3>2 DEF HandedOver
  <2>4. QED  BY <2>1, <2>2, <2>3 DEF Next, Step, FetchFuel, vars
<1>3. QED  BY <1>1, <1>2, FetchIsInOrder, PTL DEF Spec

\* The rows that are joined are those RDW answered, in the order of the batches.
LEMMA ReceivedIs ==
    ASSUME PageInv, JoinInv, HandedOver, pc # "wait"
    PROVE  /\ Received = fuel
           /\ result = "Ok" => fuel = FlattenSeq(pages)
           /\ fuelFetchFailed = (result = "Err")
<1>1. CASE result = "Err"
  BY <1>1 DEF HandedOver, Received
<1>2. CASE result # "Err"
  <2>1. result = "Ok" /\ fuel = FlattenSeq(pages) /\ fuelFetchFailed = (result = "Err")
    BY <1>2 DEF HandedOver, PageInv, FetchInv, FetchTypes
  <2>2. /\ Len(pages) = BatchCount /\ Len(answers) = issued /\ issued <= BatchCount
        /\ Len(pages) <= issued /\ issued \in Nat /\ BatchCount \in Nat
        /\ DOMAIN answers = 1 .. issued
    BY <2>1, BatchCountIs DEF PageInv, FetchInv, FetchTypes, FetchGood
  <2>3. issued = Len(pages)
    BY <2>2
  <2>4. pages \in Seq(Seq(FuelRow))
    BY DEF PageInv, FetchInv, FetchTypes
  <2>5. pages = [b \in 1 .. Len(pages) |-> pages[b]]
    <3> DEFINE T == Seq(FuelRow)
    <3>1. pages \in Seq(T)
      BY <2>4
    <3> HIDE DEF T
    <3>2. QED  BY <3>1
  <2>6. \A b \in 1 .. Len(pages) : pages[b] = answers[b].rows
    BY DEF PageInv, FetchInv, FetchGood
  <2>7. pages = [b \in DOMAIN answers |-> answers[b].rows]
    BY <2>2, <2>3, <2>5, <2>6
  <2>8. Received = fuel
    BY <2>1, <2>7 DEF Received, Answered
  <2>9. QED  BY <2>1, <2>8
<1>3. QED  BY <1>1, <1>2

\* How many rows of a plate there are, and the how-manieth each one is.
LEMMA IntervalCount ==
    ASSUME NEW lo \in Nat, NEW n \in Nat
    PROVE  /\ IsFiniteSet(lo + 1 .. lo + n) /\ Cardinality(lo + 1 .. lo + n) = n
           /\ \A k \in lo + 1 .. lo + n :
                Cardinality({m \in lo + 1 .. lo + n : m <= k}) = k - lo
<1>1. IsFiniteSet(lo + 1 .. lo + n) /\ Cardinality(lo + 1 .. lo + n) = n
  <2>1. lo + 1 \in Int /\ lo + n \in Int
    OBVIOUS
  <2>2. /\ IsFiniteSet(lo + 1 .. lo + n)
        /\ Cardinality(lo + 1 .. lo + n) =
             IF lo + 1 > lo + n THEN 0 ELSE (lo + n) - (lo + 1) + 1
    BY <2>1, FS_Interval
  <2>3. QED  BY <2>2
<1>2. ASSUME NEW k \in lo + 1 .. lo + n
      PROVE  Cardinality({m \in lo + 1 .. lo + n : m <= k}) = k - lo
  <2>1. {m \in lo + 1 .. lo + n : m <= k} = lo + 1 .. k
    OBVIOUS
  <2>2. lo + 1 \in Int /\ k \in Int /\ lo + 1 <= k
    OBVIOUS
  <2>3. Cardinality(lo + 1 .. k) = IF lo + 1 > k THEN 0 ELSE k - (lo + 1) + 1
    BY <2>2, FS_Interval
  <2>4. ~ (lo + 1 > k) /\ k - (lo + 1) + 1 = k - lo
    BY <2>2
  <2>5. Cardinality(lo + 1 .. k) = k - lo
    BY <2>3, <2>4
  <2>6. QED  BY <2>1, <2>5
<1>3. QED  BY <1>1, <1>2

\* The join fails on input that is out of order, incomplete or holds a vehicle with a
\* gap in its volgnummers or too many fuels, and on nothing else (merge.rs:62-190).
THEOREM FailsOnBadInputOnly == Spec => []FailsExactlyOnBadInput
<1>1. PageInv /\ JoinInv /\ HandedOver => FailsExactlyOnBadInput
  <2> SUFFICES ASSUME PageInv, JoinInv, HandedOver, pc = "done"
               PROVE  FailsExactlyOnBadInput
    BY DEF FailsExactlyOnBadInput
  <2> DEFINE Whole == \A i \in DOMAIN vehicles : vehicles[i] # NoPlate
             Sorted == \A i, j \in DOMAIN vehicles : i < j => vehicles[i] < vehicles[j]
             Complete == \A i \in DOMAIN fuel :
                           fuel[i].kenteken # NoPlate /\ fuel[i].volgnummer # NoVolgnummer
             InTurn == \A i, j \in DOMAIN fuel : i < j => Precedes(fuel[i], fuel[j])
             Fits(p) == LET own == Positions(fuel, p) IN
                          /\ Cardinality(own) <= MAX_FUEL_ENTRIES
                          /\ \A k \in own :
                               fuel[k].volgnummer = Cardinality({m \in own : m <= k})
             AllFit == \A i \in DOMAIN vehicles : Fits(vehicles[i])
  <2>1. Received = fuel
    BY ReceivedIs
  <2>2. /\ vehicles \in Seq(Plates \cup {NoPlate}) /\ fuel \in Seq(FuelRow)
        /\ Len(vehicles) \in Nat /\ Len(fuel) \in Nat
        /\ DOMAIN vehicles = 1 .. Len(vehicles) /\ DOMAIN fuel = 1 .. Len(fuel)
    BY DEF PageInv, JoinInv, JoinTypes
  <2>3. FailsExactlyOnBadInput <=>
          (error = "none" <=> Whole /\ Sorted /\ Complete /\ InTurn /\ AllFit)
    BY <2>1 DEF FailsExactlyOnBadInput
  <2>4. ValidVehicleOrder(vehicles) <=> Whole /\ Sorted
    <3>1. ValidVehicleOrder(vehicles) => Whole /\ Sorted
      BY <2>2, VehicleOrderIsTotal DEF ValidVehicleOrder
    <3>2. \A i \in 1 .. Len(vehicles) - 1 :
             i \in DOMAIN vehicles /\ i + 1 \in DOMAIN vehicles /\ i < i + 1
      BY <2>2
    <3>3. Whole /\ Sorted => ValidVehicleOrder(vehicles)
      BY <3>2 DEF ValidVehicleOrder
    <3>4. QED  BY <3>1, <3>3
  <2>5. ValidFuelOrder(fuel) <=> Complete /\ InTurn
    <3>1. ValidFuelOrder(fuel) => Complete /\ InTurn
      BY <2>2, FuelOrderIsTotal DEF ValidFuelOrder
    <3>2. \A i \in 1 .. Len(fuel) - 1 :
             i \in DOMAIN fuel /\ i + 1 \in DOMAIN fuel /\ i < i + 1
      BY <2>2
    <3>3. Complete /\ InTurn => ValidFuelOrder(fuel)
      BY <3>2 DEF ValidFuelOrder, Precedes
    <3>4. QED  BY <3>1, <3>3
  <2>6. ASSUME error = "none" PROVE AllFit
    <3> SUFFICES ASSUME NEW i \in 1 .. Len(vehicles) PROVE Fits(vehicles[i])
      BY <2>2
    <3>1. vi = Len(vehicles)
      BY <2>6 DEF JoinInv, JoinGood
    <3>2. Given(widened[i], vehicles[i])
      BY <3>1 DEF JoinInv, JoinGood
    <3> DEFINE own == widened[i].fuels
    <3>3. PICK lo \in 0 .. Len(fuel) :
            /\ Positions(fuel, vehicles[i]) = lo + 1 .. lo + Len(own)
            /\ \A n \in DOMAIN own : own[n] = fuel[lo + n]
      BY <3>2 DEF Given, AreRowsOf
    <3>4. /\ own \in Seq(FuelRow) /\ Len(own) <= MAX_FUEL_ENTRIES
          /\ \A n \in 1 .. Len(own) : own[n].volgnummer = n
      BY <3>2 DEF Given
    <3> HIDE DEF own
    <3>5. lo \in Nat /\ Len(own) \in Nat /\ DOMAIN own = 1 .. Len(own)
      BY <2>2, <3>4
    <3> DEFINE P == Positions(fuel, vehicles[i])  n == Len(own)
    <3>6. P = lo + 1 .. lo + n
      BY <3>3
    <3> HIDE DEF P
    <3>7. Cardinality(P) = n
      BY <3>5, <3>6, IntervalCount
    <3>8. ASSUME NEW k \in P
          PROVE  fuel[k].volgnummer = Cardinality({m \in P : m <= k})
      <4>1. Cardinality({m \in P : m <= k}) = k - lo
        BY <3>5, <3>6, IntervalCount
      <4>2. k - lo \in 1 .. n /\ lo + (k - lo) = k
        <5> HIDE DEF n
        <5>1. lo \in Nat /\ n \in Nat
          BY <3>5 DEF n
        <5>2. QED  BY <3>6, <5>1
      <4>3. own[k - lo] = fuel[k] /\ own[k - lo].volgnummer = k - lo
        BY <3>3, <3>4, <3>5, <4>2
      <4>4. QED  BY <4>1, <4>3
    <3>9. QED  BY <3>4, <3>7, <3>8 DEF P
  <2>7. ASSUME error = "FuelInversion" \/ error = "TooManyFuelEntries" PROVE ~ AllFit
    <3>1. Taking
      BY <2>7 DEF JoinInv, JoinGood
    <3>2. /\ vi \in Nat /\ fi \in Nat /\ Len(fuels) \in Nat /\ Len(fuels) <= fi /\ fi <= Len(fuel)
      BY DEF JoinInv, JoinTypes
    <3>3. vi + 1 \in 1 .. Len(vehicles) /\ Vehicle = vehicles[vi + 1] /\ Vehicle \in Nat
      <4>1. vi + 1 \in 1 .. Len(vehicles)
        BY <2>2, <3>1, <3>2 DEF Taking
      <4>2. QED  BY <2>2, <3>1, <4>1, VehicleOrderIsTotal DEF Vehicle, Taking
    <3> DEFINE P == Positions(fuel, Vehicle)  n == Len(fuels)
    <3>4. P = {k \in 1 .. Len(fuel) : fuel[k].kenteken = Vehicle}
      BY <2>2 DEF Positions
    <3>5. IsFiniteSet(P)
      <4>1. P \in SUBSET (1 .. Len(fuel))
        BY <3>4
      <4>2. IsFiniteSet(1 .. Len(fuel))
        BY <2>2, FS_Interval
      <4> HIDE DEF P
      <4>3. QED  BY <4>1, <4>2, FS_Subset
    <3>6. Before \in Nat /\ Before + n = fi
      BY <3>2 DEF Before
    <3> HIDE DEF P
    <3>7. \A k \in 1 .. Before : k \notin P
      <4> SUFFICES ASSUME NEW k \in 1 .. Before, k \in P PROVE FALSE
        OBVIOUS
      <4>1. fuel[k].kenteken < Vehicle /\ fuel[k].kenteken = Vehicle
        BY <3>1, <3>4 DEF Taking
      <4>2. QED  BY <3>3, <4>1
    <3>8. \A k \in Before + 1 .. Before + n : k \in P
      <4> SUFFICES ASSUME NEW k \in Before + 1 .. Before + n PROVE k \in P
        OBVIOUS
      <4> HIDE DEF n
      <4>1. n \in Nat
        BY <3>2 DEF n
      <4>2. k - Before \in 1 .. n /\ Before + (k - Before) = k /\ k \in 1 .. Len(fuel)
        BY <2>2, <3>2, <3>6, <4>1
      <4>3. fuel[Before + (k - Before)].kenteken = Vehicle
        BY <3>1, <4>2 DEF Taking, n
      <4>4. QED  BY <3>4, <4>2, <4>3
    <3>9. CASE error = "TooManyFuelEntries"
      <4>1. n > MAX_FUEL_ENTRIES
        BY <3>9 DEF JoinInv, JoinGood
      <4> DEFINE Q == Before + 1 .. Before + n
      <4>2. IsFiniteSet(Q) /\ Cardinality(Q) = n
        BY <3>2, <3>6, IntervalCount
      <4>3. Q \in SUBSET P
        BY <3>8
      <4> HIDE DEF Q
      <4>4. Cardinality(Q) <= Cardinality(P) /\ Cardinality(P) \in Nat
        BY <3>5, <4>3, FS_Subset, FS_CardinalityType
      <4>5. ~ (Cardinality(P) <= MAX_FUEL_ENTRIES)
        BY <3>2, <4>1, <4>2, <4>4, MergeJoinAssumption
      <4>6. ~ Fits(vehicles[vi + 1])
        BY <3>3, <4>5 DEF P
      <4>7. QED  BY <2>2, <3>3, <4>6
    <3>10. CASE error = "FuelInversion"
      <4>1. fi < Len(fuel) /\ fuel[fi + 1].kenteken = Vehicle /\ fuel[fi + 1].volgnummer # n + 1
        BY <3>10 DEF JoinInv, JoinGood, Fuel
      <4>2. fi + 1 \in 1 .. Len(fuel) /\ fi + 1 \in P
        <5>1. fi + 1 \in 1 .. Len(fuel)
          BY <2>2, <3>2, <4>1
        <5>2. QED  BY <3>4, <4>1, <5>1
      <4> DEFINE Q == {m \in P : m <= fi + 1}
      <4> HIDE DEF n
      <4>3. n \in Nat
        BY <3>2 DEF n
      <4>4. Q = Before + 1 .. Before + (n + 1)
        <5>1. ASSUME NEW k \in P, k <= fi + 1 PROVE k \in Before + 1 .. Before + (n + 1)
          <6>1. k \in 1 .. Len(fuel) /\ k \notin 1 .. Before
            BY <3>4, <3>7
          <6>2. QED  BY <2>2, <3>2, <3>6, <4>3, <5>1, <6>1
        <5>2. ASSUME NEW k \in Before + 1 .. Before + (n + 1) PROVE k \in P /\ k <= fi + 1
          <6>1. k \in Before + 1 .. Before + n \/ k = fi + 1
            BY <3>2, <3>6, <4>3
          <6>2. k <= fi + 1
            BY <3>2, <3>6, <4>3
          <6>3. QED  BY <3>8, <4>2, <6>1, <6>2
        <5>3. QED  BY <5>1, <5>2
      <4>5. Cardinality(Q) = n + 1
        <5>1. n + 1 \in Nat
          BY <4>3
        <5> HIDE DEF Q
        <5>2. QED  BY <3>6, <4>4, <5>1, IntervalCount
      <4>6. ~ (fuel[fi + 1].volgnummer = Cardinality(Q))
        BY <4>1, <4>5
      <4>7. ~ Fits(vehicles[vi + 1])
        BY <3>3, <4>2, <4>6 DEF P
      <4>8. QED  BY <2>2, <3>3, <4>7
    <3>11. QED  BY <2>7, <3>9, <3>10
  <2> HIDE DEF Whole, Sorted, Complete, InTurn, AllFit
  <2>8. error = "none" => Whole /\ Sorted /\ Complete /\ InTurn /\ AllFit
    BY <2>4, <2>5, <2>6 DEF JoinInv, JoinGood
  <2>9. error # "none" => ~ (Whole /\ Sorted /\ Complete /\ InTurn /\ AllFit)
    BY <2>4, <2>5, <2>7 DEF JoinInv, JoinTypes, JoinGood
  <2>10. QED  BY <2>3, <2>8, <2>9
<1>2. QED  BY <1>1, FetchIsInOrder, JoinInvHolds, PTL

\* A sequence holds a plate's rows in one place only.
LEMMA RowsOfUnique ==
    ASSUME NEW rows \in Seq(FuelRow), NEW p, NEW a \in Seq(FuelRow), NEW b \in Seq(FuelRow),
           AreRowsOf(a, p, rows), AreRowsOf(b, p, rows)
    PROVE  a = b
<1>1. PICK lo \in 0 .. Len(rows) : /\ Positions(rows, p) = lo + 1 .. lo + Len(a)
                                   /\ \A n \in DOMAIN a : a[n] = rows[lo + n]
  BY DEF AreRowsOf
<1>2. PICK hi \in 0 .. Len(rows) : /\ Positions(rows, p) = hi + 1 .. hi + Len(b)
                                   /\ \A n \in DOMAIN b : b[n] = rows[hi + n]
  BY DEF AreRowsOf
<1> DEFINE m == Len(a)  n == Len(b)
<1>3. /\ lo \in Nat /\ hi \in Nat /\ m \in Nat /\ n \in Nat
      /\ DOMAIN a = 1 .. m /\ DOMAIN b = 1 .. n
  BY <1>1, <1>2
<1>4. lo + 1 .. lo + m = hi + 1 .. hi + n
  BY <1>1, <1>2
<1> HIDE DEF m, n
<1>5. m = n
  <2>1. Cardinality(lo + 1 .. lo + m) = m /\ Cardinality(hi + 1 .. hi + n) = n
    BY <1>3, IntervalCount
  <2>2. QED  BY <1>4, <2>1
<1>6. ASSUME NEW i \in 1 .. m PROVE a[i] = b[i]
  <2>1. lo + 1 \in hi + 1 .. hi + n /\ hi + 1 \in lo + 1 .. lo + m
    <3>1. lo + 1 \in lo + 1 .. lo + m /\ hi + 1 \in hi + 1 .. hi + n
      BY <1>3, <1>5
    <3>2. QED  BY <1>4, <3>1
  <2>2. lo = hi
    BY <1>3, <2>1
  <2>3. QED  BY <1>1, <1>2, <1>3, <1>5, <2>2
<1>7. QED  BY <1>3, <1>5, <1>6, SeqEqual DEF m, n

\* A plate whose rows stand in one part of a sequence has them there, and only there.
LEMMA PartAlone ==
    ASSUME NEW q \in Seq(Seq(FuelRow)), NEW s \in Seq(FuelRow), NEW off, Laid(s, q, off),
           NEW p, NEW c \in 1 .. Len(q), NEW own \in Seq(FuelRow), AreRowsOf(own, p, q[c]),
           \A b \in 1 .. Len(q) : b # c => \A i \in 1 .. Len(q[b]) : q[b][i].kenteken # p
    PROVE  AreRowsOf(own, p, s)
<1>1. Len(q) \in Nat /\ \A b \in 1 .. Len(q) : q[b] \in Seq(FuelRow)
  OBVIOUS
<1> DEFINE t == q[c]  l == Len(own)
<1>2. t \in Seq(FuelRow) /\ Len(t) \in Nat /\ DOMAIN t = 1 .. Len(t) /\ DOMAIN s = 1 .. Len(s)
  <2>1. t \in Seq(FuelRow)
    BY <1>1
  <2> HIDE DEF t
  <2>2. QED  BY <2>1
<1>3. PICK lo \in 0 .. Len(t) : /\ Positions(t, p) = lo + 1 .. lo + l
                                /\ \A n \in DOMAIN own : own[n] = t[lo + n]
  BY DEF AreRowsOf
<1>4. lo \in Nat /\ l \in Nat /\ DOMAIN own = 1 .. l /\ lo <= Len(t)
  BY <1>2, <1>3
<1>5. off[c] \in Nat /\ off[Len(q) + 1] = Len(s) /\ Len(s) \in Nat
      /\ \A i \in 1 .. Len(t) : s[off[c] + i] = t[i]
  <2>1. c \in 1 .. Len(q) + 1 /\ Len(q) + 1 \in 1 .. Len(q) + 1
    BY <1>1
  <2>2. off \in [1 .. Len(q) + 1 -> Nat] /\ off[Len(q) + 1] = Len(s)
    BY DEF Laid
  <2>3. \A i \in 1 .. Len(q[c]) : s[off[c] + i] = q[c][i]
    BY DEF Laid
  <2>4. off[c] \in Nat /\ off[Len(q) + 1] \in Nat
    BY <2>1, <2>2
  <2>5. QED  BY <2>2, <2>3, <2>4
<1>6. off[c] + Len(t) <= Len(s)
  <2>1. Len(q) + 1 \in 1 .. Len(q) + 1 /\ c < Len(q) + 1
    BY <1>1
  <2>2. off[c] + Len(q[c]) <= off[Len(q) + 1]
    <3>1. \A d \in 1 .. Len(q) + 1 : c < d => off[c] + Len(q[c]) <= off[d]
      BY LaidInTurn
    <3>2. QED  BY <2>1, <3>1
  <2>3. QED  BY <1>5, <2>2
<1> DEFINE o == off[c]  L == o + lo
<1>7. L \in 0 .. Len(s) /\ L \in Nat /\ o \in Nat /\ L = o + lo
  <2> DEFINE x == Len(t)  y == Len(s)
  <2>1. x \in Nat /\ y \in Nat /\ o \in Nat /\ lo \in Nat /\ lo <= x /\ o + x <= y
    BY <1>2, <1>4, <1>5, <1>6
  <2> HIDE DEF x, y, o
  <2>2. QED  BY <2>1 DEF y
<1> HIDE DEF L, l
<1>8. ASSUME NEW k \in Positions(s, p) PROVE k \in L + 1 .. L + l
  <2>1. k \in 1 .. Len(s) /\ s[k].kenteken = p
    BY <1>2 DEF Positions
  <2>2. \E b \in 1 .. Len(q) : \E j \in 1 .. Len(q[b]) : k = off[b] + j
    <3>1. \A j \in 1 .. Len(s) :
             \E b \in 1 .. Len(q) : \E m \in 1 .. Len(q[b]) : j = off[b] + m
      BY LaidCovers
    <3>2. QED  BY <2>1, <3>1
  <2>3. PICK b \in 1 .. Len(q) : \E j \in 1 .. Len(q[b]) : k = off[b] + j
    BY <2>2
  <2>4. PICK i \in 1 .. Len(q[b]) : k = off[b] + i
    BY <2>3
  <2>5. s[k] = q[b][i]
    BY <2>4 DEF Laid
  <2>6. b = c
    BY <2>1, <2>5
  <2>7. i \in Positions(t, p)
    <3>1. i \in 1 .. Len(t) /\ t[i].kenteken = p
      BY <2>1, <2>5, <2>6
    <3> HIDE DEF t
    <3>2. QED  BY <1>2, <3>1 DEF Positions
  <2>8. i \in lo + 1 .. lo + l /\ k = o + i
    BY <1>3, <2>4, <2>6, <2>7 DEF l
  <2> HIDE DEF o
  <2>9. QED  BY <1>4, <1>7, <2>8
<1>9. ASSUME NEW k \in L + 1 .. L + l PROVE k \in Positions(s, p) /\ k - o \in 1 .. Len(t)
  <2> DEFINE i == k - o
  <2>1. i \in lo + 1 .. lo + l /\ k = o + i
    <3> HIDE DEF o
    <3>1. QED  BY <1>4, <1>7
  <2> HIDE DEF i, t
  <2>2. i \in 1 .. Len(t) /\ t[i].kenteken = p
    BY <1>2, <1>3, <2>1 DEF Positions, l
  <2>3. s[k].kenteken = p
    BY <1>5, <2>1, <2>2
  <2>4. k \in 1 .. Len(s)
    <3>1. o + Len(t) <= Len(s) /\ Len(s) \in Nat
      BY <1>5, <1>6
    <3> HIDE DEF o
    <3>2. QED  BY <1>2, <1>7, <2>1, <2>2, <3>1
  <2>5. QED  BY <1>2, <2>2, <2>3, <2>4 DEF Positions, i
<1>10. \A n \in DOMAIN own : own[n] = s[L + n]
  <2> SUFFICES ASSUME NEW n \in 1 .. l PROVE own[n] = s[L + n]
    BY <1>4
  <2> HIDE DEF t
  <2>1. L + n \in L + 1 .. L + l /\ (L + n) - o = lo + n /\ L + n = o + (lo + n)
    <3> HIDE DEF o
    <3>1. QED  BY <1>4, <1>7
  <2>2. lo + n \in 1 .. Len(t)
    BY <1>9, <2>1
  <2>3. QED  BY <1>3, <1>4, <1>5, <2>1, <2>2
<1>11. Positions(s, p) = L + 1 .. L + l
  BY <1>8, <1>9
<1>12. QED  BY <1>7, <1>10, <1>11 DEF AreRowsOf, l

\* Every plate is in a batch (chunks, lib.rs).
LEMMA InSomeBatch ==
    ASSUME FetchTypes, NEW i \in 1 .. Len(kentekens)
    PROVE  \E c \in 1 .. BatchCount : kentekens[i] \in Batch(c)
<1> DEFINE n == Len(kentekens)  B == BatchSize  d == (i - 1) \div B  e == (n + B - 1) \div B
<1>1. n \in Nat /\ B \in Nat /\ B > 0 /\ DOMAIN kentekens = 1 .. n
  <2>1. kentekens \in Seq(Plates)
    BY DEF FetchTypes
  <2>2. QED  BY <2>1, FuelBatchesAssumption
<1>2. i \in 1 .. n
  OBVIOUS
<1> HIDE DEF n
<1> HIDE DEF B
<1>3. i - 1 \in Nat /\ n + B - 1 \in Nat /\ i - 1 + B <= n + B - 1
  BY <1>1, <1>2
<1>4. d \in Nat /\ B * d <= i - 1
  BY <1>1, <1>3
<1>5. e \in Nat /\ n + B - 1 < B * e + B
  BY <1>1, <1>3
<1> HIDE DEF d, e
<1>6. B * d + B < B * e + B
  BY <1>1, <1>3, <1>4, <1>5
<1>7. d < e
  <2> SUFFICES ASSUME e <= d PROVE FALSE
    BY <1>4, <1>5
  <2>1. B * e <= B * d
    BY <1>1, <1>4, <1>5
  <2>2. QED  BY <1>1, <1>4, <1>5, <1>6, <2>1
<1>8. e = BatchCount
  BY DEF e, BatchCount, n, B
<1>9. d + 1 \in 1 .. BatchCount /\ (d + 1) - 1 = d
  BY <1>4, <1>5, <1>7, <1>8
<1>10. i \in {j \in DOMAIN kentekens : (j - 1) \div BatchSize = (d + 1) - 1}
  BY <1>1, <1>2, <1>9 DEF d, B
<1>11. kentekens[i] \in Batch(d + 1)
  BY <1>10 DEF Batch
<1>12. QED  BY <1>9, <1>11

\* The rows of a batch are those of its plates, each plate's in one place.
LEMMA BatchHoldsRows ==
    ASSUME FetchTypes, NEW c
    PROVE  /\ \A p \in Batch(c) : AreRowsOf(FuelRowsOf(p), p, SortedRows(Batch(c)))
           /\ \A k \in 1 .. Len(SortedRows(Batch(c))) :
                SortedRows(Batch(c))[k].kenteken \in Batch(c)
<1> DEFINE S == Batch(c)  rows == SortedRows(S)  q == PartsOf(S)  n == Cardinality(S)
           order == InOrder(S)
<1>1. /\ rows \in Seq(FuelRow) /\ q \in Seq(Seq(FuelRow)) /\ Len(q) = n
      /\ \A i \in 1 .. n : order[i] \in S /\ q[i] = FuelRowsOf(order[i])
      /\ \E off : Laid(rows, q, off)
  BY SortedRowsAre
<1>2. S \subseteq Range(kentekens) /\ S \in SUBSET Nat /\ IsFiniteSet(S)
  BY BatchIs
<1>3. /\ n \in Nat
      /\ \A i, j \in 1 .. n : i < j => order[i] < order[j]
      /\ \A p \in S : \E i \in 1 .. n : order[i] = p
  <2> HIDE DEF S
  <2>1. QED  BY <1>2, InOrderIs
<1>4. PICK off : Laid(rows, q, off)
  BY <1>1
<1> HIDE DEF q, order, n, rows
<1>5. ASSUME NEW m \in 1 .. n, NEW i \in 1 .. Len(q[m])
      PROVE  q[m][i].kenteken = order[m]
  <2>1. order[m] \in Range(kentekens) /\ q[m] = FuelRowsOf(order[m])
    BY <1>1, <1>2
  <2> DEFINE p == order[m]
  <2> HIDE DEF p
  <2>2. p \in Range(kentekens) /\ q[m] = FuelRowsOf(p)
    BY <2>1 DEF p
  <2>3. i \in 1 .. Len(fuelsOf[p]) /\ q[m][i] = Row(p, fuelsOf[p][i])
    BY <2>2, RowsOfPlate
  <2>4. QED  BY <2>3 DEF Row, p
<1>6. ASSUME NEW p \in S PROVE AreRowsOf(FuelRowsOf(p), p, rows)
  <2>1. PICK m \in 1 .. n : order[m] = p
    BY <1>3
  <2>2. \A b \in 1 .. n : b # m => order[b] # p
    <3> SUFFICES ASSUME NEW b \in 1 .. n, b # m, order[b] = p PROVE FALSE
      OBVIOUS
    <3>1. p \in Nat /\ b \in Nat /\ m \in Nat /\ (b < m \/ m < b)
      BY <1>2, <1>3
    <3>2. p < p
      BY <1>3, <2>1, <3>1
    <3>3. QED  BY <3>1, <3>2
  <2> DEFINE own == FuelRowsOf(p)
  <2>3. own \in Seq(FuelRow) /\ q[m] = own /\ m \in 1 .. Len(q)
    BY <1>1, <1>2, <2>1, RowsOfPlate
  <2> HIDE DEF own
  <2>4. AreRowsOf(own, p, own)
    <3>1. DOMAIN own = 1 .. Len(own) /\ Len(own) \in Nat
      BY <2>3
    <3>2. \A k \in 1 .. Len(own) : own[k].kenteken = p
      BY <1>5, <2>1, <2>3
    <3>3. Positions(own, p) = 0 + 1 .. 0 + Len(own)
      BY <3>1, <3>2 DEF Positions
    <3>4. \A k \in DOMAIN own : own[k] = own[0 + k]
      BY <3>1
    <3>5. 0 \in 0 .. Len(own)
      BY <3>1
    <3>6. QED  BY <3>3, <3>4, <3>5 DEF AreRowsOf
  <2>5. \A b \in 1 .. Len(q) : b # m => \A i \in 1 .. Len(q[b]) : q[b][i].kenteken # p
    BY <1>1, <1>5, <2>2
  <2>6. AreRowsOf(own, p, q[m])
    BY <2>3, <2>4
  <2>7. AreRowsOf(own, p, rows)
    BY <1>1, <1>4, <2>3, <2>5, <2>6, PartAlone
  <2>8. QED  BY <2>7 DEF own
<1>7. ASSUME NEW k \in 1 .. Len(rows) PROVE rows[k].kenteken \in S
  <2>0. q \in Seq(Seq(FuelRow))
    BY <1>1
  <2>1. \E b \in 1 .. Len(q) : \E j \in 1 .. Len(q[b]) : k = off[b] + j
    BY <1>4, <2>0, LaidCovers
  <2>2. PICK b \in 1 .. Len(q) : \E j \in 1 .. Len(q[b]) : k = off[b] + j
    BY <2>1
  <2>3. PICK i \in 1 .. Len(q[b]) : k = off[b] + i
    BY <2>2
  <2>4. rows[k] = q[b][i]
    BY <1>4, <2>3 DEF Laid
  <2>5. QED  BY <1>1, <1>5, <2>4
<1>8. QED  BY <1>6, <1>7 DEF rows

\* If RDW answered what it was asked, the page is joined with all the rows it has of
\* every vehicle.
LEMMA RowsAreOwn ==
    ASSUME PageInv, result = "Ok", strayed = {}, ValidVehicleOrder(vehicles),
           NEW i \in 1 .. Len(vehicles)
    PROVE  /\ FuelRowsOf(vehicles[i]) \in Seq(FuelRow)
           /\ AreRowsOf(FuelRowsOf(vehicles[i]), vehicles[i], FlattenSeq(pages))
<1> DEFINE p == vehicles[i]
<1>1. /\ FetchTypes /\ FetchGood /\ issued \in Nat /\ BatchCount \in Nat /\ issued <= BatchCount
      /\ FuelPageLimit \in Nat
  BY BatchCountIs, FuelBatchesAssumption DEF PageInv, FetchInv, FetchTypes
<1>2. /\ vehicles \in Seq(Plates \cup {NoPlate}) /\ DOMAIN vehicles = 1 .. Len(vehicles)
      /\ Len(vehicles) \in Nat
  BY DEF PageInv
<1>3. /\ \A j \in 1 .. Len(vehicles) : vehicles[j] # NoPlate
      /\ \A j, k \in 1 .. Len(vehicles) : j < k => vehicles[j] < vehicles[k]
      /\ \A j \in 1 .. Len(vehicles) : vehicles[j] \in Nat
  <2>1. \A j \in 1 .. Len(vehicles) : vehicles[j] # NoPlate
    BY <1>2 DEF ValidVehicleOrder
  <2>2. \A j \in 1 .. Len(vehicles) : vehicles[j] \in Plates
    BY <1>2, <2>1
  <2>3. QED  BY <1>2, <2>1, <2>2, VehicleOrderIsTotal, RdwRowsAssumption
<1>4. kentekens = vehicles
  BY <1>2, <1>3, KentekensAre DEF PageInv
<1>5. Len(pages) = BatchCount /\ issued = BatchCount
  BY <1>1 DEF FetchTypes, FetchGood
<1>6. ASSUME NEW b \in 1 .. BatchCount PROVE pages[b] = SortedRows(Batch(b))
  <2> DEFINE all == SortedRows(Batch(b))
  <2>1. all \in Seq(FuelRow) /\ Len(all) \in Nat
    BY <1>1, SortedRowsAre
  <2> HIDE DEF all
  <2>2. answers[b].is = "page" /\ pages[b] = answers[b].rows /\ b \in 1 .. issued
    BY <1>1, <1>5 DEF FetchGood
  <2>3. answers[b] # InFlight /\ b \notin rejected
    <3>1. InFlight.is = "in flight"
      BY DEF InFlight, Answer
    <3>2. b \notin rejected
      BY <1>1, <2>2 DEF FetchGood
    <3>3. QED  BY <2>2, <3>1, <3>2
  <2>4. answers[b] = Arrived(Limited(all))
    BY <1>1, <2>2, <2>3 DEF FetchGood, all
  <2>5. /\ Limited(all) \in Seq(FuelRow)
        /\ Len(Limited(all)) = IF Len(all) <= FuelPageLimit THEN Len(all) ELSE FuelPageLimit
        /\ Len(all) <= FuelPageLimit => Limited(all) = all
    BY <2>1, LimitedIs
  <2>6. Arrived(Limited(all)).rows = Limited(all)
        /\ Arrived(Limited(all)).is = IF Len(Limited(all)) # FuelPageLimit THEN "page" ELSE "failed"
    BY <2>5, ArrivedIs
  <2>7. Limited(all) = all
    BY <1>1, <2>1, <2>2, <2>4, <2>5, <2>6
  <2>8. QED  BY <2>2, <2>4, <2>6, <2>7 DEF all
<1>7. PICK c \in 1 .. BatchCount : p \in Batch(c)
  BY <1>1, <1>4, InSomeBatch
<1>8. ASSUME NEW b \in 1 .. BatchCount, p \in Batch(b) PROVE b = c
  <2>1. PICK j \in DOMAIN kentekens : kentekens[j] = p /\ (j - 1) \div BatchSize = b - 1
    BY <1>8 DEF Batch
  <2>2. PICK k \in DOMAIN kentekens : kentekens[k] = p /\ (k - 1) \div BatchSize = c - 1
    BY <1>7 DEF Batch
  <2>3. j \in 1 .. Len(vehicles) /\ k \in 1 .. Len(vehicles) /\ vehicles[j] = vehicles[k]
    BY <1>2, <1>4, <2>1, <2>2
  <2>4. j = k
    <3>1. vehicles[j] \in Nat /\ ~ (j < k) /\ ~ (k < j)
      BY <1>3, <2>3
    <3>2. QED  BY <1>2, <2>3, <3>1
  <2>5. b - 1 = c - 1
    BY <2>1, <2>2, <2>4
  <2>6. QED  BY <1>1, <2>5
<1>9. p \in Range(kentekens)
  <2>1. i \in DOMAIN kentekens /\ kentekens[i] = p
    BY <1>2, <1>4
  <2>2. QED  BY <2>1 DEF Range
<1> DEFINE own == FuelRowsOf(p)
<1>10. own \in Seq(FuelRow)
  BY <1>1, <1>9, RowsOfPlate
<1>11. pages \in Seq(Seq(FuelRow))
  BY <1>1 DEF FetchTypes
<1>12. PICK off : FlattenSeq(pages) \in Seq(FuelRow) /\ Laid(FlattenSeq(pages), pages, off)
  BY <1>11, FlattenLaid
<1>13. AreRowsOf(own, p, pages[c])
  BY <1>1, <1>6, <1>7, BatchHoldsRows
<1>14. ASSUME NEW b \in 1 .. Len(pages), b # c, NEW k \in 1 .. Len(pages[b])
       PROVE  pages[b][k].kenteken # p
  <2>1. b \in 1 .. BatchCount /\ pages[b] = SortedRows(Batch(b)) /\ p \notin Batch(b)
    BY <1>5, <1>6, <1>8, <1>14
  <2>2. \A m \in 1 .. Len(SortedRows(Batch(b))) : SortedRows(Batch(b))[m].kenteken \in Batch(b)
    BY <1>1, BatchHoldsRows
  <2>3. QED  BY <2>1, <2>2
<1> HIDE DEF own
<1>15. AreRowsOf(own, p, FlattenSeq(pages))
  <2>1. c \in 1 .. Len(pages)
    BY <1>5
  <2>2. \A b \in 1 .. Len(pages) : b # c => \A k \in 1 .. Len(pages[b]) : pages[b][k].kenteken # p
    BY <1>14
  <2> DEFINE s == FlattenSeq(pages)
  <2> HIDE DEF s, p
  <2>3. s \in Seq(FuelRow) /\ Laid(s, pages, off)
    BY <1>12 DEF s
  <2>4. AreRowsOf(own, p, s)
    BY <1>10, <1>11, <1>13, <2>1, <2>2, <2>3, PartAlone
  <2>5. QED  BY <2>4 DEF s
<1>16. QED  BY <1>10, <1>15 DEF own

\* Whatever the order of the answers, every vehicle gets all fuel rows RDW answered
\* for it and no other, which are all it has if RDW answered what it was asked, and a
\* vehicle whose fetch failed is marked (merge_join_sorted, merge.rs:62-190, and
\* fetch_fuel_for_kentekens, lib.rs:429-495).
THEOREM JoinExact == Spec => []JoinIsExact
<1>1. PageInv /\ JoinInv /\ HandedOver => JoinIsExact
  <2> SUFFICES ASSUME PageInv, JoinInv, HandedOver, pc = "done", error = "none"
               PROVE  JoinIsExact
    BY DEF JoinIsExact
  <2>1. vi = Len(vehicles) /\ ValidVehicleOrder(vehicles)
    BY DEF JoinInv, JoinGood
  <2>2. Len(widened) = Len(vehicles) /\ DOMAIN vehicles = 1 .. Len(vehicles)
        /\ fuel \in Seq(FuelRow)
    BY <2>1 DEF JoinInv, JoinTypes, PageInv
  <2>3. /\ Received = fuel
        /\ result = "Ok" => fuel = FlattenSeq(pages)
        /\ fuelFetchFailed = (result = "Err")
    BY ReceivedIs
  <2>4. ASSUME NEW i \in 1 .. Len(vehicles)
        PROVE  LET own == widened[i].fuels IN
               /\ widened[i].vehicle = vehicles[i]
               /\ AreRowsOf(own, vehicles[i], Received)
               /\ widened[i].exportStatus = IF result = "Err" THEN "FuelUnavailable"
                                            ELSE IF own = <<>> THEN "NoFuelData" ELSE "Ok"
               /\ result = "Ok" /\ strayed = {} => own = FuelRowsOf(vehicles[i])
    <3> DEFINE own == widened[i].fuels
    <3>1. Given(widened[i], vehicles[i])
      BY <2>1 DEF JoinInv, JoinGood
    <3>2. /\ widened[i].vehicle = vehicles[i] /\ own \in Seq(FuelRow)
          /\ AreRowsOf(own, vehicles[i], fuel) /\ widened[i].exportStatus = Status(own)
      BY <3>1 DEF Given
    <3>3. Status(own) = IF result = "Err" THEN "FuelUnavailable"
                        ELSE IF own = <<>> THEN "NoFuelData" ELSE "Ok"
      BY <2>3 DEF Status
    <3> HIDE DEF own
    <3>4. ASSUME result = "Ok", strayed = {} PROVE own = FuelRowsOf(vehicles[i])
      <4>1. FuelRowsOf(vehicles[i]) \in Seq(FuelRow)
            /\ AreRowsOf(FuelRowsOf(vehicles[i]), vehicles[i], fuel)
        BY <2>1, <2>3, <3>4, RowsAreOwn
      <4>2. QED  BY <2>2, <3>2, <4>1, RowsOfUnique
    <3>5. QED  BY <2>3, <3>2, <3>3, <3>4 DEF own
  <2>5. QED  BY <2>2, <2>4 DEF JoinIsExact
<1>2. QED  BY <1>1, FetchIsInOrder, JoinInvHolds, PTL

(***************************************************************************)
(* A page comes to an end.                                                 *)
(***************************************************************************)

\* The batches that are issued and not answered yet.
Unanswered == {b \in 1 .. issued : answers[b] = InFlight}

\* How many steps the fetch has left: to issue a batch, to answer it and to
\* yield its page, and to return.
FetchLeft ==
    2 * (BatchCount - issued) + Cardinality(Unanswered) + (BatchCount - Len(pages))
    + (IF result = "none" THEN 1 ELSE 0)

\* The steps between the cursors' moves.
JoinTurn(point) ==
    CASE point = "wait"     -> 4
      [] point = "validate" -> 3
      [] point = "skip"     -> 2
      [] point = "take"     -> 1
      [] OTHER              -> 0

\* How many steps merge_join has left at most: every fuel row is passed once,
\* and every vehicle is pushed once.
JoinLeft == 2 * (Len(vehicles) - vi) + (Len(fuel) - fi) + JoinTurn(pc)

\* The steps of the join, counted down.
LEMMA JoinTurnIs ==
    /\ JoinTurn("wait") = 4 /\ JoinTurn("validate") = 3 /\ JoinTurn("skip") = 2
    /\ JoinTurn("take") = 1 /\ JoinTurn("done") = 0
BY DEF JoinTurn

\* The steps the fetch has left are a natural number.
LEMMA FetchLeftIs ==
    ASSUME FetchInv
    PROVE  /\ BatchCount - issued \in Nat /\ BatchCount - Len(pages) \in Nat
           /\ IsFiniteSet(Unanswered) /\ Cardinality(Unanswered) \in Nat
           /\ FetchLeft \in Nat
<1>1. issued \in Nat /\ issued <= BatchCount /\ Len(pages) \in Nat /\ Len(pages) <= issued
      /\ BatchCount \in Nat
  BY BatchCountIs DEF FetchInv, FetchTypes
<1>2. IsFiniteSet(1 .. issued) /\ Unanswered \in SUBSET (1 .. issued)
  BY <1>1, FS_Interval DEF Unanswered
<1>3. IsFiniteSet(Unanswered) /\ Cardinality(Unanswered) \in Nat
  BY <1>2, FS_Subset, FS_CardinalityType
<1>4. BatchCount - issued \in Nat /\ BatchCount - Len(pages) \in Nat
  BY <1>1
<1>5. QED  BY <1>3, <1>4 DEF FetchLeft

\* The steps the join has left are a natural number.
LEMMA JoinLeftIs ==
    ASSUME PageInv, JoinInv
    PROVE  /\ Len(vehicles) - vi \in Nat /\ Len(fuel) - fi \in Nat
           /\ JoinTurn(pc) \in 0 .. 4 /\ JoinLeft \in Nat
<1>1. /\ Len(vehicles) \in Nat /\ vi \in Nat /\ vi <= Len(vehicles)
      /\ Len(fuel) \in Nat /\ fi \in Nat /\ fi <= Len(fuel)
  BY DEF PageInv, JoinInv, JoinTypes
<1>2. Len(vehicles) - vi \in Nat /\ Len(fuel) - fi \in Nat
  BY <1>1
<1>3. JoinTurn(pc) \in 0 .. 4
  BY JoinTurnIs DEF JoinInv, JoinTypes
<1>4. QED  BY <1>2, <1>3 DEF JoinLeft

\* Issuing, answering and yielding a batch, and returning, each use up a step
\* (fetch_fuel_for_kentekens, lib.rs:429-495).
LEMMA FetchFalls ==
    ASSUME FetchInv, FetchStep
    PROVE  FetchLeft' < FetchLeft
<1> DEFINE n == BatchCount  i == issued  l == Len(pages)  u == Cardinality(Unanswered)
           v == Cardinality(Unanswered')
<1>1. n \in Nat /\ i \in Nat /\ i <= n /\ l \in Nat /\ l <= i /\ u \in Nat
      /\ answers \in Seq(AnswerRecord) /\ Len(answers) = issued
  BY BatchCountIs, FetchLeftIs DEF FetchInv, FetchTypes
<1>2. BatchCount' = BatchCount /\ result = "none" /\ UNCHANGED kentekens
  BY DEF FetchStep, Issue, Reply, Yield, Collect, BatchCount
<1>3. FetchLeft = 2 * (n - i) + u + (n - l) + 1
  BY <1>2 DEF FetchLeft
<1>4. FetchLeft' = 2 * (n - issued') + v + (n - Len(pages')) + (IF result' = "none" THEN 1 ELSE 0)
  BY <1>2 DEF FetchLeft
<1>5. CASE Issue
  <2>1. issued' = i + 1 /\ answers' = Append(answers, InFlight) /\ UNCHANGED <<pages, result>>
    BY <1>5 DEF Issue
  <2>2. \A b \in 1 .. i : answers'[b] = answers[b]
    BY <1>1, <2>1
  <2>3. answers'[i + 1] = InFlight
    BY <1>1, <2>1
  <2>4. Unanswered' = Unanswered \cup {i + 1} /\ i + 1 \notin Unanswered
    <3>1. 1 .. issued' = (1 .. i) \cup {i + 1} /\ i + 1 \notin 1 .. i
      BY <1>1, <2>1
    <3>2. QED  BY <2>2, <2>3, <3>1 DEF Unanswered
  <2>5. v = u + 1
    BY <2>4, FetchLeftIs, FS_AddElement
  <2> HIDE DEF n, i, l, u, v
  <2>6. FetchLeft' = 2 * (n - (i + 1)) + (u + 1) + (n - l) + 1
    BY <1>2, <1>4, <2>1, <2>5 DEF l
  <2>7. QED  BY <1>1, <1>3, <2>6
<1>6. ASSUME NEW b \in 1 .. BatchCount, Reply(b)
      PROVE  FetchLeft' < FetchLeft
  <2>1. b \in 1 .. i /\ answers[b] = InFlight /\ UNCHANGED <<issued, pages, result>>
    BY <1>6 DEF Reply
  <2>2. PICK a \in AnswerRecord : a # InFlight /\ answers' = [answers EXCEPT ![b] = a]
    <3>1. \/ \E rows \in Proper(b) \cup Deviant(b) :
                answers' = [answers EXCEPT ![b] = Arrived(rows)]
          \/ answers' = [answers EXCEPT ![b] = Answer("failed", <<>>)]
      BY <1>6 DEF Reply
    <3>2. \A rows \in Proper(b) \cup Deviant(b) :
             Arrived(rows) \in AnswerRecord /\ Arrived(rows) # InFlight
      BY AnswersAreRows, ArrivedIs DEF FetchInv
    <3>3. Answer("failed", <<>>) \in AnswerRecord /\ Answer("failed", <<>>) # InFlight
      <4>1. <<>> \in Seq(FuelRow)
        OBVIOUS
      <4>2. Answer("failed", <<>>).is # InFlight.is
        BY DEF Answer, InFlight
      <4>3. Answer("failed", <<>>) \in AnswerRecord
        BY <4>1 DEF Answer, AnswerRecord
      <4>4. QED  BY <4>2, <4>3
    <3>4. QED  BY <3>1, <3>2, <3>3
  <2>3. answers'[b] = a /\ \A c \in 1 .. i : c # b => answers'[c] = answers[c]
    BY <1>1, <2>1, <2>2
  <2>4. Unanswered' = Unanswered \ {b} /\ b \in Unanswered
    BY <2>1, <2>2, <2>3 DEF Unanswered
  <2>5. v = u - 1
    BY <2>4, FetchLeftIs, FS_RemoveElement
  <2> HIDE DEF n, i, l, u, v
  <2>6. FetchLeft' = 2 * (n - i) + (u - 1) + (n - l) + 1
    BY <1>2, <1>4, <2>1, <2>5 DEF l, i
  <2>7. QED  BY <1>1, <1>3, <2>6
<1>7. CASE Yield \/ Collect
  <2>1. UNCHANGED <<issued, answers>>
    BY <1>7 DEF Yield, Collect
  <2>2. v = u
    BY <2>1 DEF Unanswered
  <2>3. CASE result' \in {"Ok", "Err"} /\ UNCHANGED pages
    <3> HIDE DEF n, i, l, u, v
    <3>1. FetchLeft' = 2 * (n - i) + u + (n - l) + 0
      BY <1>4, <2>1, <2>2, <2>3 DEF i, l
    <3>2. QED  BY <1>1, <1>3, <3>1
  <2>4. CASE \E page : pages' = Append(pages, page) /\ UNCHANGED result
    <3>1. Len(pages') = l + 1 /\ result' = "none"
      BY <1>2, <2>4 DEF FetchInv, FetchTypes
    <3> HIDE DEF n, i, l, u, v
    <3>2. FetchLeft' = 2 * (n - i) + u + (n - (l + 1)) + 1
      BY <1>4, <2>1, <2>2, <3>1 DEF i
    <3>3. QED  BY <1>1, <1>3, <3>2
  <2>5. QED  BY <1>7, <2>3, <2>4 DEF Yield, Collect
<1>8. QED  BY <1>5, <1>6, <1>7 DEF FetchStep

\* A step of merge_join passes a fuel row, pushes a vehicle, or goes on to the
\* next of the two loops of a vehicle (merge.rs:87-141).
LEMMA JoinFalls ==
    ASSUME PageInv, JoinInv, (PageInv /\ JoinInv)', JoinStep
    PROVE  JoinLeft' < JoinLeft
<1> DEFINE a == Len(vehicles) - vi   r == Len(fuel) - fi   t == JoinTurn(pc)
           b == (Len(vehicles) - vi)'  s == (Len(fuel) - fi)'  u == JoinTurn(pc)'
<1>1. a \in Nat /\ r \in Nat /\ t \in 0 .. 4 /\ JoinLeft = 2 * a + r + t
  BY JoinLeftIs DEF JoinLeft
<1>2. b \in Nat /\ s \in Nat /\ u \in 0 .. 4 /\ JoinLeft' = 2 * b + s + u
  <2>1. (/\ Len(vehicles) - vi \in Nat /\ Len(fuel) - fi \in Nat
         /\ JoinTurn(pc) \in 0 .. 4)'
    BY JoinLeftIs, PTL
  <2>2. QED  BY <2>1 DEF JoinLeft
<1>3. UNCHANGED <<vehicles, fuel>>
  BY DEF JoinStep, Validate, SkipOrphan, SkipEnds, TakeFuel, Push, args
<1>4. vi \in Nat /\ fi \in Nat /\ Len(vehicles) \in Nat /\ Len(fuel) \in Nat
  BY DEF PageInv, JoinInv, JoinTypes
<1>5. CASE /\ UNCHANGED <<vi, fi>>
           /\ \/ pc = "validate" /\ pc' \in {"skip", "done"}
              \/ pc = "skip" /\ pc' = "take"
              \/ pc = "take" /\ pc' = "done"
  <2>1. b = a /\ s = r
    BY <1>3, <1>5
  <2>2. u < t
    BY <1>5, JoinTurnIs
  <2> HIDE DEF a, r, t, b, s, u
  <2>3. QED  BY <1>1, <1>2, <2>1, <2>2
<1>6. CASE /\ vi' = vi /\ fi' = fi + 1
           /\ \/ pc' = pc
              \/ pc = "take" /\ pc' = "done"
  <2>1. b = a /\ s = r - 1
    BY <1>3, <1>4, <1>6
  <2>2. u <= t
    <3>1. CASE pc' = pc
      <4>1. u = t
        BY <3>1
      <4> HIDE DEF t, u
      <4>2. QED  BY <1>1, <4>1
    <3>2. CASE pc = "take" /\ pc' = "done"
      BY <3>2, JoinTurnIs
    <3>3. QED  BY <1>6, <3>1, <3>2
  <2> HIDE DEF a, r, t, b, s, u
  <2>3. QED  BY <1>1, <1>2, <2>1, <2>2
<1>7. CASE /\ vi' = vi + 1 /\ fi' = fi
           /\ pc = "take" /\ pc' \in {"done", "skip"}
  <2>1. b = a - 1 /\ s = r
    BY <1>3, <1>4, <1>7
  <2>2. t = 1 /\ u \in {0, 2}
    BY <1>7, JoinTurnIs
  <2> HIDE DEF a, r, t, b, s, u
  <2>3. QED  BY <1>1, <1>2, <2>1, <2>2
<1>8. CASE Validate
  BY <1>5, <1>8 DEF Validate, Return
<1>9. CASE SkipOrphan
  BY <1>6, <1>9 DEF SkipOrphan
<1>10. CASE SkipEnds
  BY <1>5, <1>10 DEF SkipEnds
<1>11. CASE TakeFuel
  BY <1>5, <1>6, <1>11 DEF TakeFuel, Return
<1>12. CASE Push
  BY <1>7, <1>12 DEF Push
<1>13. QED  BY <1>8, <1>9, <1>10, <1>11, <1>12 DEF JoinStep

\* What a step does to the work that is left: the fetch has fewer steps left,
\* then its rows are handed over, once, and then the join has fewer left.
Advances ==
    /\ FetchLeft \in Nat /\ JoinLeft \in Nat
    /\ FetchFuel => FetchLeft' < FetchLeft /\ pc' = pc
    /\ HandOver => pc = "wait" /\ pc' = "validate" /\ FetchLeft' = FetchLeft
    /\ Join => /\ JoinLeft' < JoinLeft /\ FetchLeft' = FetchLeft
               /\ pc # "wait" /\ pc' # "wait"

\* A page cannot take for ever, for any page, any size and number of batches, and
\* whatever RDW answers (lib.rs:429-495, merge.rs:87-141).
THEOREM EveryStepAdvances == Spec => [][Advances]_vars
<1> DEFINE Known == PageInv /\ JoinInv
<1>1. ASSUME Known, Known', Next PROVE Advances
  <2>1. FetchLeft \in Nat /\ JoinLeft \in Nat
    BY <1>1, FetchLeftIs, JoinLeftIs DEF PageInv
  <2>2. ASSUME FetchFuel PROVE FetchLeft' < FetchLeft /\ pc' = pc
    BY <1>1, <2>2, FetchFalls DEF FetchFuel, PageInv, joinVars
  <2>3. ASSUME UNCHANGED fetchVars PROVE FetchLeft' = FetchLeft
    BY <2>3 DEF fetchVars, FetchLeft, Unanswered, BatchCount
  <2>4. ASSUME HandOver PROVE pc = "wait" /\ pc' = "validate" /\ FetchLeft' = FetchLeft
    BY <2>3, <2>4 DEF HandOver
  <2>5. ASSUME Join
        PROVE  /\ JoinLeft' < JoinLeft /\ FetchLeft' = FetchLeft
               /\ pc # "wait" /\ pc' # "wait"
    <3>1. JoinLeft' < JoinLeft
      BY <1>1, <2>5, JoinFalls DEF Join
    <3>2. pc # "wait" /\ pc' # "wait"
      BY <2>5 DEF Join, JoinStep, Validate, SkipOrphan, SkipEnds, TakeFuel, Push, Return
    <3>3. QED  BY <2>3, <2>5, <3>1, <3>2 DEF Join
  <2>6. QED  BY <2>1, <2>2, <2>4, <2>5 DEF Advances
<1>2. QED  BY <1>1, FetchIsInOrder, JoinInvHolds, PTL DEF Spec

=============================================================================
