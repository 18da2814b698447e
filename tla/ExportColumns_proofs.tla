------------------------- MODULE ExportColumns_proofs -------------------------
(***************************************************************************)
(* Proofs about ExportColumns for every sequence of columns RDW may have,  *)
(* whenever it changes them, and every vehicle: an export has the curated  *)
(* columns in their order, and every cell stands under its own label.      *)
(***************************************************************************)
EXTENDS ExportColumns, TLAPS, FiniteSetTheorems, SequenceTheorems, WellFoundedInduction

(***************************************************************************)
(* Sequences of sequences, laid end to end.                                *)
(***************************************************************************)

\* A non-empty set of natural numbers has a least element.
LEMMA LeastElement ==
    ASSUME NEW S, S \subseteq Nat, S # {}
    PROVE  \E x \in S : \A y \in S : x <= y
<1>1. PICK x \in S : \A y \in S : ~ (<<y, x>> \in OpToRel(<, Nat))
  BY NatLessThanWellFounded, WFMin
<1>2. \A y \in S : ~ (y < x)
  BY <1>1 DEF OpToRel
<1>3. QED  BY <1>2

\* s holds the sequences of q one behind the other, the b-th from off[b] on.
Laid(s, q, off) ==
    /\ off \in [1 .. Len(q) + 1 -> Nat]
    /\ off[1] = 0 /\ \A b \in 1 .. Len(q) : off[b + 1] = off[b] + Len(q[b])
    /\ Len(s) = off[Len(q) + 1]
    /\ \A b \in 1 .. Len(q) : \A i \in 1 .. Len(q[b]) : s[off[b] + i] = q[b][i]

\* f holds the concatenations of the first sequences of q.
Concats(q, f, S) ==
    /\ f \in [1 .. Len(q) -> Seq(S)]
    /\ \A i \in 1 .. Len(q) : f[i] = IF i = 1 THEN q[i] ELSE f[i - 1] \o q[i]

\* A prefix stays what it is when more is appended.
LEMMA PrefixesGrow ==
    ASSUME NEW S, NEW q \in Seq(Seq(S)), NEW f, Concats(q, f, S),
           NEW b \in 1 .. Len(q), NEW n \in 1 .. Len(q), b <= n
    PROVE  /\ Len(f[b]) <= Len(f[n])
           /\ \A i \in 1 .. Len(f[b]) : f[n][i] = f[b][i]
<1> DEFINE Grows(k) == Len(f[b]) <= Len(f[k]) /\ \A i \in 1 .. Len(f[b]) : f[k][i] = f[b][i]
           Bad == {k \in 1 .. Len(q) : b <= k /\ ~ Grows(k)}
<1>1. Len(q) \in Nat /\ \A i \in 1 .. Len(q) : q[i] \in Seq(S) /\ f[i] \in Seq(S)
  <2>1. Len(q) \in Nat /\ \A i \in 1 .. Len(q) : q[i] \in Seq(S)
    OBVIOUS
  <2>2. \A i \in 1 .. Len(q) : f[i] \in Seq(S)
    BY DEF Concats
  <2>3. QED  BY <2>1, <2>2
<1> SUFFICES ASSUME Bad # {} PROVE FALSE
  OBVIOUS
<1>2. PICK k \in Bad : \A m \in Bad : k <= m
  <2>1. Bad \subseteq Nat
    <3> HIDE DEF Grows
    <3>1. QED  BY <1>1
  <2> HIDE DEF Bad
  <2>2. QED  BY <2>1, LeastElement
<1>3. k \in 1 .. Len(q) /\ b <= k /\ ~ Grows(k)
  OBVIOUS
<1>4. Len(f[b]) \in Nat
  BY <1>1
<1>5. k # b
  BY <1>3, <1>4
<1>6. k - 1 \in 1 .. Len(q) /\ b <= k - 1 /\ k - 1 < k /\ k # 1
  BY <1>1, <1>3, <1>5
<1>7. Grows(k - 1)
  <2>1. k - 1 \notin Bad
    <3> HIDE DEF Bad
    <3>1. QED  BY <1>2, <1>3, <1>6
  <2>2. QED  BY <1>6, <2>1
<1> DEFINE s == f[k - 1]  t == q[k]
<1>8. f[k] = s \o t /\ s \in Seq(S) /\ t \in Seq(S)
  BY <1>1, <1>3, <1>6 DEF Concats
<1> HIDE DEF Grows, Bad
<1>9. Grows(k)
  <2> HIDE DEF s, t
  <2>1. /\ Len(s \o t) = Len(s) + Len(t) /\ Len(s) \in Nat /\ Len(t) \in Nat
        /\ \A i \in 1 .. Len(s) + Len(t) : (s \o t)[i] = IF i <= Len(s) THEN s[i] ELSE t[i - Len(s)]
    BY <1>8, ConcatProperties
  <2>2. Len(f[b]) <= Len(s) /\ \A i \in 1 .. Len(f[b]) : s[i] = f[b][i]
    BY <1>7 DEF s, Grows
  <2>3. \A i \in 1 .. Len(f[b]) : i \in 1 .. Len(s) + Len(t) /\ i <= Len(s)
    <3> DEFINE x == Len(f[b])  y == Len(s)  z == Len(t)
    <3>1. x \in Nat /\ y \in Nat /\ z \in Nat /\ x <= y
      BY <1>4, <2>1, <2>2
    <3> HIDE DEF x, y, z
    <3>2. \A i \in 1 .. x : i \in 1 .. y + z /\ i <= y
      BY <3>1
    <3>3. QED  BY <3>2 DEF x, y, z
  <2>4. Len(f[b]) <= Len(s \o t)
    BY <1>4, <2>1, <2>2
  <2>5. QED  BY <1>8, <2>1, <2>2, <2>3, <2>4 DEF Grows
<1>10. QED  BY <1>3, <1>9

\* The concatenations exist, and FlattenSeq is the last of them.
LEMMA FlattenIs ==
    ASSUME NEW S, NEW q \in Seq(Seq(S)), q # <<>>
    PROVE  \E f : Concats(q, f, S) /\ FlattenSeq(q) = f[Len(q)]
<1>1. Len(q) \in Nat \ {0} /\ \A i \in 1 .. Len(q) : q[i] \in Seq(S)
  OBVIOUS
<1> DEFINE Upto(n, f) == /\ f \in [1 .. n -> Seq(S)]
                         /\ \A i \in 1 .. n : f[i] = IF i = 1 THEN q[i] ELSE f[i - 1] \o q[i]
           Bad == {n \in 1 .. Len(q) : ~ \E f : Upto(n, f)}
<1>2. Bad = {}
  <2> SUFFICES ASSUME Bad # {} PROVE FALSE
    OBVIOUS
  <2>1. PICK n \in Bad : \A m \in Bad : n <= m
    <3>1. Bad \subseteq Nat
      <4> HIDE DEF Upto
      <4>1. QED  BY <1>1
    <3> HIDE DEF Bad
    <3>2. QED  BY <3>1, LeastElement
  <2>2. n \in 1 .. Len(q) /\ ~ \E f : Upto(n, f)
    OBVIOUS
  <2>3. CASE n = 1
    <3> HIDE DEF Bad
    <3>1. Upto(1, [i \in 1 .. 1 |-> q[i]])
      BY <1>1
    <3>2. QED  BY <2>2, <2>3, <3>1
  <2>4. CASE n # 1
    <3>1. n - 1 \in 1 .. Len(q) /\ n - 1 < n
      BY <1>1, <2>2, <2>4
    <3>2. n - 1 \notin Bad
      <4> HIDE DEF Bad
      <4>1. QED  BY <2>1, <2>2, <3>1
    <3>3. PICK f : Upto(n - 1, f)
      BY <3>1, <3>2
    <3> DEFINE g == [i \in 1 .. n |-> IF i = n THEN f[n - 1] \o q[n] ELSE f[i]]
    <3>4. g \in [1 .. n -> Seq(S)]
      <4>1. f[n - 1] \in Seq(S) /\ q[n] \in Seq(S)
        BY <1>1, <2>2, <2>4, <3>3
      <4>2. f[n - 1] \o q[n] \in Seq(S)
        BY <4>1
      <4>3. \A i \in 1 .. n : i # n => i \in 1 .. n - 1
        BY <2>2
      <4>4. QED  BY <3>3, <4>2, <4>3
    <3>5. ASSUME NEW i \in 1 .. n
          PROVE  g[i] = IF i = 1 THEN q[i] ELSE g[i - 1] \o q[i]
      <4>1. CASE i = n
        <5>1. g[n] = f[n - 1] \o q[n] /\ g[n - 1] = f[n - 1]
          <6>1. n \in 1 .. n /\ n - 1 \in 1 .. n /\ n - 1 # n
            BY <2>2, <3>1
          <6>2. QED  BY <6>1
        <5>2. QED  BY <2>4, <4>1, <5>1
      <4>2. CASE i # n /\ i = 1
        <5>1. 1 \in 1 .. n - 1 /\ g[1] = f[1]
          BY <2>2, <2>4, <4>2
        <5>2. f[1] = q[1]
          BY <3>3, <5>1
        <5>3. QED  BY <4>2, <5>1, <5>2
      <4>3. CASE i # n /\ i # 1
        <5>1. i \in 1 .. n - 1 /\ i - 1 \in 1 .. n /\ i - 1 # n
          BY <2>2, <4>3
        <5>2. g[i] = f[i] /\ g[i - 1] = f[i - 1]
          BY <4>3, <5>1
        <5>3. f[i] = f[i - 1] \o q[i]
          BY <3>3, <4>3, <5>1
        <5>4. QED  BY <4>3, <5>2, <5>3
      <4>4. QED  BY <4>1, <4>2, <4>3
    <3> HIDE DEF g
    <3>6. Upto(n, g)
      BY <3>4, <3>5
    <3>7. QED  BY <2>2, <3>6
  <2>5. QED  BY <2>3, <2>4
<1>3. \E f : Concats(q, f, S)
  <2>1. Len(q) \in 1 .. Len(q) /\ Len(q) \notin Bad
    <3> HIDE DEF Bad
    <3>1. QED  BY <1>1, <1>2
  <2>2. \A f : Upto(Len(q), f) => Concats(q, f, S)
    BY DEF Concats
  <2> HIDE DEF Upto
  <2>3. QED  BY <2>1, <2>2
<1> DEFINE Rec(f) == f = [i \in 1 .. Len(q) |-> IF i = 1 THEN q[i] ELSE f[i - 1] \o q[i]]
           the == CHOOSE f : Rec(f)
<1>4. PICK f : Concats(q, f, S)
  BY <1>3
<1>5. Rec(the)
  <2>1. f = [i \in 1 .. Len(q) |-> f[i]]
    BY <1>4 DEF Concats
  <2>2. Rec(f)
    BY <1>4, <2>1 DEF Concats
  <2> HIDE DEF Rec
  <2>3. QED  BY <2>2
<1>6. FlattenSeq(q) = the[Len(q)]
  BY <1>1 DEF FlattenSeq
<1> HIDE DEF the
<1>7. \A i \in 1 .. Len(q) : the[i] = f[i]
  <2> DEFINE Differ == {i \in 1 .. Len(q) : the[i] # f[i]}
  <2> SUFFICES ASSUME Differ # {} PROVE FALSE
    OBVIOUS
  <2>1. PICK n \in Differ : \A m \in Differ : n <= m
    <3>1. Differ \subseteq Nat
      BY <1>1
    <3> HIDE DEF Differ
    <3>2. QED  BY <3>1, LeastElement
  <2>2. n \in 1 .. Len(q) /\ the[n] # f[n]
    OBVIOUS
  <2>3. the[n] = IF n = 1 THEN q[n] ELSE the[n - 1] \o q[n]
    BY <1>5, <2>2
  <2>4. f[n] = IF n = 1 THEN q[n] ELSE f[n - 1] \o q[n]
    BY <1>4, <2>2 DEF Concats
  <2>5. n # 1 => the[n - 1] = f[n - 1]
    <3> SUFFICES ASSUME n # 1 PROVE the[n - 1] = f[n - 1]
      OBVIOUS
    <3>1. n - 1 \in 1 .. Len(q) /\ n - 1 < n
      BY <1>1, <2>2
    <3>2. n - 1 \notin Differ
      <4> HIDE DEF Differ
      <4>1. QED  BY <2>1, <2>2, <3>1
    <3>3. QED  BY <3>1, <3>2
  <2>6. QED  BY <2>2, <2>3, <2>4, <2>5
<1>8. Len(q) \in 1 .. Len(q)
  BY <1>1
<1>9. QED  BY <1>4, <1>6, <1>7, <1>8

\* FlattenSeq lays its sequences end to end.
LEMMA FlattenLaid ==
    ASSUME NEW S, NEW q \in Seq(Seq(S))
    PROVE  FlattenSeq(q) \in Seq(S) /\ \E off : Laid(FlattenSeq(q), q, off)
<1>1. CASE q = <<>>
  <2>1. FlattenSeq(q) = <<>> /\ Len(q) = 0
    BY <1>1 DEF FlattenSeq
  <2> DEFINE off == [b \in 1 .. 1 |-> 0]
  <2>2. Laid(<<>>, q, off)
    BY <2>1 DEF Laid
  <2>3. QED  BY <2>1, <2>2
<1>2. CASE q # <<>>
  <2>1. Len(q) \in Nat \ {0} /\ \A i \in 1 .. Len(q) : q[i] \in Seq(S) /\ Len(q[i]) \in Nat
    BY <1>2
  <2>2. PICK f : Concats(q, f, S) /\ FlattenSeq(q) = f[Len(q)]
    BY <1>2, FlattenIs
  <2>3. \A i \in 1 .. Len(q) : f[i] \in Seq(S) /\ Len(f[i]) \in Nat
    BY <2>2 DEF Concats
  <2> DEFINE N == Len(q)
             off == [b \in 1 .. N + 1 |-> IF b = 1 THEN 0 ELSE Len(f[b - 1])]
  <2>4. off \in [1 .. N + 1 -> Nat] /\ off[1] = 0
        /\ \A b \in 1 .. N : off[b + 1] = Len(f[b]) /\ (b # 1 => off[b] = Len(f[b - 1]))
    <3>1. \A b \in 1 .. N + 1 : b # 1 => b - 1 \in 1 .. N
      BY <2>1
    <3>2. \A b \in 1 .. N : b + 1 \in 1 .. N + 1 /\ b + 1 # 1 /\ b + 1 - 1 = b /\ b \in 1 .. N + 1
      BY <2>1
    <3>3. 1 \in 1 .. N + 1
      BY <2>1
    <3> HIDE DEF N
    <3>4. off \in [1 .. N + 1 -> Nat]
      BY <2>3, <3>1 DEF N
    <3>5. QED  BY <3>2, <3>3, <3>4
  <2> HIDE DEF off
  <2>5. ASSUME NEW b \in 1 .. N
        PROVE  /\ off[b + 1] = off[b] + Len(q[b])
               /\ \A i \in 1 .. Len(q[b]) : f[b][off[b] + i] = q[b][i] /\ off[b] + i \in 1 .. Len(f[b])
    <3>1. CASE b = 1
      <4>1. f[b] = q[b] /\ off[b] = 0 /\ off[b + 1] = Len(f[b])
        BY <2>2, <2>4, <3>1 DEF Concats
      <4>2. Len(q[b]) \in Nat
        BY <2>1
      <4>3. QED  BY <4>1, <4>2
    <3>2. CASE b # 1
      <4> DEFINE s == f[b - 1]  t == q[b]
      <4>1. b - 1 \in 1 .. N
        BY <2>1, <3>2
      <4>2. f[b] = s \o t /\ s \in Seq(S) /\ t \in Seq(S) /\ off[b] = Len(s) /\ off[b + 1] = Len(f[b])
        BY <2>1, <2>2, <2>3, <2>4, <3>2, <4>1 DEF Concats
      <4> HIDE DEF s
      <4>3. /\ Len(s \o t) = Len(s) + Len(t) /\ Len(s) \in Nat /\ Len(t) \in Nat
            /\ \A i \in 1 .. Len(s) + Len(t) : (s \o t)[i] = IF i <= Len(s) THEN s[i] ELSE t[i - Len(s)]
        BY <4>2, ConcatProperties
      <4>4. \A i \in 1 .. Len(t) : /\ Len(s) + i \in 1 .. Len(s) + Len(t)
                                   /\ ~ (Len(s) + i <= Len(s)) /\ (Len(s) + i) - Len(s) = i
        BY <4>3
      <4>5. QED  BY <4>2, <4>3, <4>4
    <3>3. QED  BY <3>1, <3>2
  <2>6. ASSUME NEW b \in 1 .. N, NEW i \in 1 .. Len(q[b])
        PROVE  f[N][off[b] + i] = q[b][i]
    <3>1. N \in 1 .. N /\ b <= N
      BY <2>1
    <3>2. \A j \in 1 .. Len(f[b]) : f[N][j] = f[b][j]
      <4>1. Concats(q, f, S) /\ b \in 1 .. Len(q) /\ N \in 1 .. Len(q)
        BY <2>2, <3>1
      <4> HIDE DEF N
      <4>2. QED  BY <3>1, <4>1, PrefixesGrow
    <3>3. QED  BY <2>5, <3>2
  <2>7. Len(f[N]) = off[N + 1] /\ f[N] \in Seq(S)
    <3>1. N \in 1 .. N
      BY <2>1
    <3>2. QED  BY <2>3, <2>4, <3>1
  <2>8. Laid(f[N], q, off)
    BY <2>4, <2>5, <2>6, <2>7 DEF Laid
  <2>9. QED  BY <2>2, <2>7, <2>8
<1>3. QED  BY <1>1, <1>2

\* A sequence ends before the next one begins.
LEMMA LaidInTurn ==
    ASSUME NEW S, NEW q \in Seq(Seq(S)), NEW s, NEW off, Laid(s, q, off),
           NEW b \in 1 .. Len(q), NEW c \in 1 .. Len(q) + 1, b < c
    PROVE  off[b] + Len(q[b]) <= off[c]
<1> DEFINE Bad == {d \in 1 .. Len(q) + 1 : b < d /\ ~ (off[b + 1] <= off[d])}
<1>1. Len(q) \in Nat /\ (\A d \in 1 .. Len(q) + 1 : off[d] \in Nat)
      /\ \A d \in 1 .. Len(q) : Len(q[d]) \in Nat
  <2>1. Len(q) \in Nat /\ \A d \in 1 .. Len(q) : Len(q[d]) \in Nat
    <3>1. Len(q) \in Nat /\ \A d \in 1 .. Len(q) : q[d] \in Seq(S)
      OBVIOUS
    <3>2. QED  BY <3>1
  <2>2. \A d \in 1 .. Len(q) + 1 : off[d] \in Nat
    BY DEF Laid
  <2>3. QED  BY <2>1, <2>2
<1>2. off[b + 1] = off[b] + Len(q[b])
  BY DEF Laid
<1> SUFFICES ASSUME Bad # {} PROVE FALSE
  BY <1>2
<1>3. PICK d \in Bad : \A m \in Bad : d <= m
  <2>1. Bad \subseteq Nat
    BY <1>1
  <2> HIDE DEF Bad
  <2>2. QED  BY <2>1, LeastElement
<1>4. d \in 1 .. Len(q) + 1 /\ b < d /\ ~ (off[b + 1] <= off[d])
  OBVIOUS
<1> HIDE DEF Bad
<1>5. b + 1 \in 1 .. Len(q) + 1 /\ off[b + 1] \in Nat
  BY <1>1
<1>6. d # b + 1
  BY <1>4, <1>5
<1>7. d - 1 \in 1 .. Len(q) /\ b < d - 1 /\ d - 1 < d /\ d - 1 \in 1 .. Len(q) + 1 /\ (d - 1) + 1 = d
  BY <1>1, <1>4, <1>6
<1>8. off[d] = off[d - 1] + Len(q[d - 1])
  BY <1>7 DEF Laid
<1>9. d - 1 \notin Bad
  BY <1>3, <1>4, <1>7
<1>10. off[b + 1] <= off[d - 1]
  BY <1>7, <1>9 DEF Bad
<1>11. off[d - 1] \in Nat /\ Len(q[d - 1]) \in Nat
  BY <1>1, <1>4, <1>7
<1>12. off[d - 1] <= off[d]
  BY <1>8, <1>11
<1>13. QED  BY <1>4, <1>5, <1>8, <1>10, <1>11, <1>12

\* There is nothing in between.
LEMMA LaidCovers ==
    ASSUME NEW S, NEW q \in Seq(Seq(S)), NEW s, NEW off, Laid(s, q, off),
           NEW j \in 1 .. Len(s)
    PROVE  \E b \in 1 .. Len(q) : \E i \in 1 .. Len(q[b]) : j = off[b] + i
<1> DEFINE Behind == {d \in 1 .. Len(q) + 1 : j <= off[d]}
<1>1. Len(q) \in Nat /\ (\A d \in 1 .. Len(q) + 1 : off[d] \in Nat)
      /\ \A d \in 1 .. Len(q) : Len(q[d]) \in Nat
  <2>1. Len(q) \in Nat /\ \A d \in 1 .. Len(q) : Len(q[d]) \in Nat
    <3>1. Len(q) \in Nat /\ \A d \in 1 .. Len(q) : q[d] \in Seq(S)
      OBVIOUS
    <3>2. QED  BY <3>1
  <2>2. \A d \in 1 .. Len(q) + 1 : off[d] \in Nat
    BY DEF Laid
  <2>3. QED  BY <2>1, <2>2
<1>2. Len(s) = off[Len(q) + 1] /\ off[1] = 0 /\ Len(q) + 1 \in 1 .. Len(q) + 1
  BY <1>1 DEF Laid
<1>3. j \in Nat /\ j > 0 /\ j <= Len(s)
  BY <1>1, <1>2
<1>4. PICK d \in Behind : \A m \in Behind : d <= m
  <2>1. Behind \subseteq Nat /\ Len(q) + 1 \in Behind
    BY <1>1, <1>2, <1>3
  <2> HIDE DEF Behind
  <2>2. QED  BY <2>1, LeastElement
<1>5. d \in 1 .. Len(q) + 1 /\ j <= off[d]
  OBVIOUS
<1> HIDE DEF Behind
<1>6. d # 1
  BY <1>2, <1>3, <1>5
<1>7. d - 1 \in 1 .. Len(q) /\ d - 1 < d /\ d - 1 \in 1 .. Len(q) + 1 /\ (d - 1) + 1 = d
  BY <1>1, <1>5, <1>6
<1>8. ~ (j <= off[d - 1])
  <2>1. d - 1 \notin Behind
    BY <1>4, <1>5, <1>7
  <2>2. QED  BY <1>7, <2>1 DEF Behind
<1>9. off[d] = off[d - 1] + Len(q[d - 1])
  BY <1>7 DEF Laid
<1>10. off[d - 1] \in Nat /\ Len(q[d - 1]) \in Nat /\ off[d] \in Nat
  BY <1>1, <1>5, <1>7
<1>11. j - off[d - 1] \in 1 .. Len(q[d - 1]) /\ j = off[d - 1] + (j - off[d - 1])
  BY <1>3, <1>5, <1>8, <1>9, <1>10
<1>12. QED  BY <1>7, <1>11

(***************************************************************************)
(* What a filter keeps.                                                    *)
(***************************************************************************)

\* k is what s has at the given places: its members come from places in
\* ascending order, and every place is among them.
KeptAt(s, places, k, place) ==
    /\ Len(k) \in Nat /\ DOMAIN k = 1 .. Len(k)
    /\ place \in [1 .. Len(k) -> places]
    /\ \A i \in 1 .. Len(k) : k[i] = s[place[i]]
    /\ \A i, j \in 1 .. Len(k) : i < j => place[i] < place[j]
    /\ \A p \in places : \E i \in 1 .. Len(k) : place[i] = p

\* A filter keeps what is at the given places, and nothing else.
LEMMA KeptIs ==
    ASSUME NEW S, NEW s \in Seq(S), NEW places, places \subseteq 1 .. Len(s)
    PROVE  Kept(s, places) \in Seq(S) /\ \E place : KeptAt(s, places, Kept(s, places), place)
<1> DEFINE N == Len(s)
           q == [i \in 1 .. N |-> IF i \in places THEN <<s[i]>> ELSE <<>>]
           k == FlattenSeq(q)
<1>1. N \in Nat /\ DOMAIN s = 1 .. N /\ \A i \in 1 .. N : s[i] \in S
  OBVIOUS
<1>2. Kept(s, places) = k
  BY <1>1 DEF Kept
<1>3. q \in Seq(Seq(S)) /\ Len(q) = N
  <2>1. \A i \in 1 .. N : <<s[i]>> \in Seq(S)
    BY <1>1
  <2>2. <<>> \in Seq(S)
    OBVIOUS
  <2>3. \A i \in 1 .. N : q[i] \in Seq(S)
    BY <2>1, <2>2
  <2> HIDE DEF N
  <2>4. QED  BY <1>1, <2>3
<1>4. /\ \A i \in places : q[i] = <<s[i]>> /\ Len(q[i]) = 1 /\ q[i][1] = s[i]
      /\ \A i \in 1 .. N : i \notin places => q[i] = <<>> /\ Len(q[i]) = 0
  OBVIOUS
<1> HIDE DEF q, k
<1>5. k \in Seq(S)
  BY <1>3, FlattenLaid DEF k
<1>6. PICK off : Laid(k, q, off)
  BY <1>3, FlattenLaid DEF k
<1>7. /\ off \in [1 .. N + 1 -> Nat] /\ off[1] = 0 /\ Len(k) = off[N + 1]
      /\ \A b \in 1 .. N : off[b + 1] = off[b] + Len(q[b])
      /\ \A b \in 1 .. N : \A i \in 1 .. Len(q[b]) : k[off[b] + i] = q[b][i]
  BY <1>3, <1>6 DEF Laid
<1> HIDE DEF N
<1>8. \A b \in places, c \in 1 .. N + 1 : b < c => off[b] + 1 <= off[c]
  <2> SUFFICES ASSUME NEW b \in places, NEW c \in 1 .. N + 1, b < c
               PROVE  off[b] + 1 <= off[c]
    OBVIOUS
  <2>1. b \in 1 .. Len(q) /\ c \in 1 .. Len(q) + 1
    BY <1>3 DEF N
  <2>2. off[b] + Len(q[b]) <= off[c]
    BY <1>3, <1>6, <2>1, LaidInTurn
  <2>3. QED  BY <1>4, <2>2
<1>9. \A j \in 1 .. Len(k) : \E b \in places : j = off[b] + 1
  <2> SUFFICES ASSUME NEW j \in 1 .. Len(k) PROVE \E b \in places : j = off[b] + 1
    OBVIOUS
  <2>0. PICK b \in 1 .. Len(q) : \E i \in 1 .. Len(q[b]) : j = off[b] + i
    <3>1. q \in Seq(Seq(S)) /\ Laid(k, q, off)
      BY <1>3, <1>6
    <3>2. \A m \in 1 .. Len(k) : \E d \in 1 .. Len(q) : \E i \in 1 .. Len(q[d]) : m = off[d] + i
      BY <3>1, LaidCovers
    <3>3. QED  BY <3>2
  <2>1. PICK i \in 1 .. Len(q[b]) : j = off[b] + i
    BY <2>0
  <2>2. b \in places
    BY <1>3, <1>4, <2>1
  <2>3. i = 1
    <3>1. Len(q[b]) = 1
      BY <1>4, <2>2
    <3>2. i \in 1 .. 1
      BY <3>1
    <3>3. QED  BY <3>2
  <2>4. QED  BY <2>1, <2>2, <2>3
<1> DEFINE place == [j \in 1 .. Len(k) |-> CHOOSE b \in places : j = off[b] + 1]
<1>10. \A j \in 1 .. Len(k) : place[j] \in places /\ j = off[place[j]] + 1
  BY <1>9
<1>11. \A b \in places : off[b] \in Nat /\ off[b] + 1 \in 1 .. Len(k) /\ k[off[b] + 1] = s[b]
  <2> SUFFICES ASSUME NEW b \in places
               PROVE  off[b] \in Nat /\ off[b] + 1 \in 1 .. Len(k) /\ k[off[b] + 1] = s[b]
    OBVIOUS
  <2>1. b \in 1 .. N /\ b \in 1 .. N + 1 /\ N + 1 \in 1 .. N + 1 /\ b < N + 1
    BY <1>1 DEF N
  <2>2. off[b] \in Nat /\ off[N + 1] \in Nat
    BY <1>7, <2>1
  <2>3. off[b] + 1 <= Len(k)
    BY <1>7, <1>8, <2>1
  <2>4. k[off[b] + 1] = s[b]
    <3>1. 1 \in 1 .. Len(q[b]) /\ q[b][1] = s[b]
      BY <1>4
    <3>2. QED  BY <1>7, <2>1, <3>1
  <2>5. QED  BY <1>7, <2>2, <2>3, <2>4
<1>12. \A b, c \in places : off[b] = off[c] => b = c
  <2> SUFFICES ASSUME NEW b \in places, NEW c \in places, off[b] = off[c], b # c
               PROVE  FALSE
    OBVIOUS
  <2>1. b \in Nat /\ c \in Nat /\ b \in 1 .. N + 1 /\ c \in 1 .. N + 1
    BY <1>1 DEF N
  <2>2. b < c \/ c < b
    BY <2>1
  <2>3. QED  BY <1>8, <1>11, <2>1, <2>2
<1>13. \A i, j \in 1 .. Len(k) : i < j => place[i] < place[j]
  <2> SUFFICES ASSUME NEW i \in 1 .. Len(k), NEW j \in 1 .. Len(k), i < j,
                      ~ (place[i] < place[j])
               PROVE  FALSE
    OBVIOUS
  <2> DEFINE b == place[i]  c == place[j]
  <2>1. b \in places /\ c \in places /\ i = off[b] + 1 /\ j = off[c] + 1 /\ ~ (b < c)
    BY <1>10
  <2> HIDE DEF place, b, c
  <2>2. b \in Nat /\ c \in Nat /\ b \in 1 .. N + 1 /\ c \in 1 .. N + 1
    BY <1>1, <2>1 DEF N
  <2>3. b = c \/ c < b
    BY <2>1, <2>2
  <2>4. off[b] \in Nat /\ off[c] \in Nat
    BY <1>11, <2>1
  <2>5. b # c
    BY <2>1, <2>4
  <2>6. off[c] + 1 <= off[b]
    BY <1>8, <2>1, <2>2, <2>3, <2>5
  <2>7. QED  BY <2>1, <2>4, <2>6
<1>14. \A p \in places : \E i \in 1 .. Len(k) : place[i] = p
  <2> SUFFICES ASSUME NEW p \in places PROVE \E i \in 1 .. Len(k) : place[i] = p
    OBVIOUS
  <2>1. off[p] + 1 \in 1 .. Len(k) /\ off[p] \in Nat
    BY <1>11
  <2> HIDE DEF place
  <2> DEFINE b == place[off[p] + 1]
  <2>2. b \in places /\ off[p] + 1 = off[b] + 1
    BY <1>10, <2>1
  <2> HIDE DEF b
  <2>3. off[b] \in Nat
    BY <1>11, <2>2
  <2>4. off[b] = off[p]
    BY <2>1, <2>2, <2>3
  <2>5. b = p
    BY <1>12, <2>2, <2>4
  <2>6. QED  BY <2>1, <2>5 DEF b
<1>15. \A i \in 1 .. Len(k) : k[i] = s[place[i]]
  BY <1>10, <1>11
<1>16. Len(k) \in Nat /\ DOMAIN k = 1 .. Len(k)
  BY <1>5
<1>17. place \in [1 .. Len(k) -> places]
  BY <1>10
<1> HIDE DEF place
<1>18. KeptAt(s, places, k, place)
  BY <1>13, <1>14, <1>15, <1>16, <1>17 DEF KeptAt
<1>19. QED  BY <1>2, <1>5, <1>18

\* A non-empty set of numbers up to another has a greatest one.
LEMMA MaxIs ==
    ASSUME NEW n \in Nat, NEW S, S \subseteq 1 .. n, S # {}
    PROVE  Max(S) \in S
<1> DEFINE T == {n - x : x \in S}
<1>1. T \subseteq Nat /\ T # {}
  <2>1. \A x \in S : n - x \in Nat
    OBVIOUS
  <2>2. QED  BY <2>1
<1> HIDE DEF T
<1>2. PICK t \in T : \A y \in T : t <= y
  BY <1>1, LeastElement
<1>3. PICK x \in S : t = n - x
  BY <1>2 DEF T
<1>4. \A y \in S : x >= y
  <2> SUFFICES ASSUME NEW y \in S PROVE x >= y
    OBVIOUS
  <2>1. t <= n - y
    BY <1>2 DEF T
  <2>2. x \in Nat /\ y \in Nat
    OBVIOUS
  <2>3. QED  BY <1>3, <2>1, <2>2
<1>5. QED  BY <1>3, <1>4 DEF Max

\* A sequence with two more members at its end.
LEMMA TwoMore ==
    ASSUME NEW n \in Nat, NEW f, f = [i \in 1 .. n |-> f[i]], NEW a, NEW b
    PROVE  /\ Len(f \o <<a, b>>) = n + 2 /\ DOMAIN (f \o <<a, b>>) = 1 .. n + 2
           /\ \A i \in 1 .. n : (f \o <<a, b>>)[i] = f[i]
           /\ (f \o <<a, b>>)[n + 1] = a /\ (f \o <<a, b>>)[n + 2] = b
           /\ SubSeq(f \o <<a, b>>, n + 1, n + 2) = <<a, b>>
<1> DEFINE S == {f[i] : i \in 1 .. n} \cup {a, b}
           s == <<a, b>>
           c == f \o s
<1>1. f \in Seq(S) /\ Len(f) = n
  OBVIOUS
<1>2. s \in Seq(S) /\ Len(s) = 2 /\ s[1] = a /\ s[2] = b
  OBVIOUS
<1> HIDE DEF S, s
<1>3. /\ c \in Seq(S) /\ Len(c) = n + 2
      /\ \A i \in 1 .. n + 2 : c[i] = IF i <= n THEN f[i] ELSE s[i - n]
  <2>1. /\ c \in Seq(S) /\ Len(c) = Len(f) + Len(s)
        /\ \A i \in 1 .. Len(f) + Len(s) : c[i] = IF i <= Len(f) THEN f[i] ELSE s[i - Len(f)]
    BY <1>1, <1>2, ConcatProperties
  <2>2. QED  BY <1>1, <1>2, <2>1
<1> HIDE DEF c
<1>4. \A i \in 1 .. n : c[i] = f[i]
  BY <1>3
<1>5. c[n + 1] = a /\ c[n + 2] = b
  <2>1. n + 1 \in 1 .. n + 2 /\ n + 2 \in 1 .. n + 2 /\ ~ (n + 1 <= n) /\ ~ (n + 2 <= n)
        /\ (n + 1) - n = 1 /\ (n + 2) - n = 2
    OBVIOUS
  <2>2. QED  BY <1>2, <1>3, <2>1
<1>6. SubSeq(c, n + 1, n + 2) = <<a, b>>
  <2> DEFINE m == n + 1  last == n + 2  t == SubSeq(c, m, last)
  <2>0. m <= last /\ last - m + 1 = 2 /\ m \in 1 .. Len(c) /\ last \in 1 .. Len(c)
        /\ m + 1 - 1 = m /\ m + 2 - 1 = last
    BY <1>3
  <2> HIDE DEF m, last
  <2>1. /\ t \in Seq(S) /\ Len(t) = IF m <= last THEN last - m + 1 ELSE 0
        /\ \A i \in 1 .. last - m + 1 : t[i] = c[m + i - 1]
    <3>1. m \in Int /\ last \in Int /\ \A i \in m .. last : c[i] \in S
      <4>1. m \in Int /\ last \in Int /\ m >= 1 /\ last <= Len(c)
        BY <1>3, <2>0
      <4>2. \A i \in 1 .. Len(c) : c[i] \in S
        BY <1>3
      <4>3. \A i \in m .. last : i \in 1 .. Len(c)
        BY <1>3, <4>1
      <4>4. QED  BY <4>1, <4>2, <4>3
    <3>2. t \in Seq(S)
      BY <3>1, SubSeqProperties
    <3>3. Len(t) = IF m <= last THEN last - m + 1 ELSE 0
      BY <3>1, SubSeqProperties
    <3>4. \A i \in 1 .. last - m + 1 : t[i] = c[m + i - 1]
      BY <3>1, SubSeqProperties
    <3>5. QED  BY <3>2, <3>3, <3>4
  <2>2. Len(t) = 2 /\ t[1] = c[m] /\ t[2] = c[last]
    <3>1. 1 \in 1 .. last - m + 1 /\ 2 \in 1 .. last - m + 1
      BY <2>0
    <3>2. t[1] = c[m + 1 - 1] /\ t[2] = c[m + 2 - 1]
      BY <2>1, <3>1
    <3>3. QED  BY <2>0, <2>1, <3>2
  <2> HIDE DEF t
  <2>3. t = <<t[1], t[2]>>
    BY <2>1, <2>2
  <2>4. QED  BY <1>5, <2>2, <2>3 DEF t, m, last
<1>7. DOMAIN c = 1 .. n + 2
  BY <1>3
<1>8. QED  BY <1>3, <1>4, <1>5, <1>6, <1>7 DEF c, s

(***************************************************************************)
(* The columns of an export.                                               *)
(***************************************************************************)

\* The fields of an export are 35 different ones.
LEMMA FieldsDiffer ==
    /\ DOMAIN VEHICLE_EXPORT_FIELDS = 1 .. 35 /\ Len(VEHICLE_EXPORT_FIELDS) = 35
    /\ \A i, j \in 1 .. 35 : VEHICLE_EXPORT_FIELDS[i] = VEHICLE_EXPORT_FIELDS[j] => i = j
    /\ VEHICLE_EXPORT_FIELDS \in Seq(ToSet(VEHICLE_EXPORT_FIELDS))
<1>1. \A i, j \in 1 .. 35 : VEHICLE_EXPORT_FIELDS[i] = VEHICLE_EXPORT_FIELDS[j] => i = j
  BY SMT DEF VEHICLE_EXPORT_FIELDS
<1>2. DOMAIN VEHICLE_EXPORT_FIELDS = 1 .. 35 /\ Len(VEHICLE_EXPORT_FIELDS) = 35
  BY SMT DEF VEHICLE_EXPORT_FIELDS
<1>3. VEHICLE_EXPORT_FIELDS \in Seq(ToSet(VEHICLE_EXPORT_FIELDS))
  <2>1. VEHICLE_EXPORT_FIELDS = [i \in 1 .. 35 |-> VEHICLE_EXPORT_FIELDS[i]]
    BY SMT DEF VEHICLE_EXPORT_FIELDS
  <2> DEFINE n == 35  V == VEHICLE_EXPORT_FIELDS  S == ToSet(V)
  <2>2. n \in Nat /\ \A i \in 1 .. n : V[i] \in S
    BY <1>2 DEF ToSet
  <2>3. V = [i \in 1 .. n |-> V[i]]
    BY <2>1
  <2> HIDE DEF n, V, S
  <2>4. V \in Seq(S)
    BY <2>2, <2>3
  <2>5. QED  BY <2>4 DEF V, S
<1>4. QED  BY <1>1, <1>2, <1>3

\* The fallback has every one of them.
LEMMA FallbackHasAll ==
    /\ DOMAIN FallbackVehicleFields = 1 .. Len(FallbackVehicleFields)
    /\ Len(FallbackVehicleFields) \in Nat
    /\ \A i \in 1 .. 35 : \E j \in DOMAIN FallbackVehicleFields :
         FallbackVehicleFields[j] = VEHICLE_EXPORT_FIELDS[i]
<1>1. \A i \in 1 .. 35 : \E j \in Nat :
        j > 0 /\ j <= 95 /\ FallbackVehicleFields[j] = VEHICLE_EXPORT_FIELDS[i]
  BY SMT DEF VEHICLE_EXPORT_FIELDS, FallbackVehicleFields
<1>2. /\ DOMAIN FallbackVehicleFields = 1 .. Len(FallbackVehicleFields)
      /\ Len(FallbackVehicleFields) \in Nat /\ Len(FallbackVehicleFields) >= 95
  BY SMT DEF FallbackVehicleFields
<1>3. \A j \in Nat : j > 0 /\ j <= 95 => j \in DOMAIN FallbackVehicleFields
  BY <1>2, SMT
<1>4. \A i \in 1 .. 35 : \E j \in DOMAIN FallbackVehicleFields :
        FallbackVehicleFields[j] = VEHICLE_EXPORT_FIELDS[i]
  BY <1>1, <1>3, ZenonT(40)
<1>5. QED  BY <1>2, <1>4, Zenon

\* Columns whose labels name their own fields.
ColumnsFit(columns) ==
    /\ Len(columns) \in Nat /\ DOMAIN columns = 1 .. Len(columns)
    /\ \A i \in DOMAIN columns :
         columns[i].display = Text(<<columns[i].display.says[1][1], columns[i].field>>,
                                   columns[i].display.lead)

\* The columns of an export are those of its fields that are listed, in the
\* order of its fields, each with a column of that field (widen.rs:86-97).
Selects(w, columns, place) ==
    /\ Len(w) \in Nat /\ DOMAIN w = 1 .. Len(w) /\ w = [i \in 1 .. Len(w) |-> w[i]]
    /\ place \in [1 .. Len(w) -> 1 .. 35]
    /\ \A i, j \in 1 .. Len(w) : i < j => place[i] < place[j]
    /\ \A i \in 1 .. Len(w) : /\ w[i].field = VEHICLE_EXPORT_FIELDS[place[i]]
                              /\ \E c \in DOMAIN columns : w[i] = columns[c]
    /\ \A p \in 1 .. 35 : VEHICLE_EXPORT_FIELDS[p] \in Fields(columns)
                            => \E i \in 1 .. Len(w) : place[i] = p

\* RowWidener::new chooses them so.
LEMMA ColumnsSelected ==
    ASSUME NEW columns, ColumnsFit(columns)
    PROVE  \E place : Selects(VehicleColumns(columns), columns, place)
<1> DEFINE fields == VEHICLE_EXPORT_FIELDS
           listing == {i \in DOMAIN fields : fields[i] \in Fields(columns)}
           listed == Kept(fields, listing)
           last(f) == Max({i \in DOMAIN columns : columns[i].field = f})
           w == [i \in DOMAIN listed |-> columns[last(listed[i])]]
<1>1. VehicleColumns(columns) = w
  BY DEF VehicleColumns
<1>2. fields \in Seq(ToSet(fields)) /\ DOMAIN fields = 1 .. 35 /\ Len(fields) = 35 /\ listing \subseteq 1 .. Len(fields)
  BY FieldsDiffer
<1> HIDE DEF listing
<1>3. PICK place : KeptAt(fields, listing, listed, place)
  BY <1>2, KeptIs
<1> HIDE DEF fields, listed
<1>4. /\ Len(listed) \in Nat /\ DOMAIN listed = 1 .. Len(listed)
      /\ place \in [1 .. Len(listed) -> listing]
      /\ \A i \in 1 .. Len(listed) : listed[i] = fields[place[i]]
      /\ \A i, j \in 1 .. Len(listed) : i < j => place[i] < place[j]
      /\ \A p \in listing : \E i \in 1 .. Len(listed) : place[i] = p
  BY <1>3 DEF KeptAt
<1>5. \A f \in Fields(columns) : last(f) \in DOMAIN columns /\ columns[last(f)].field = f
  <2> SUFFICES ASSUME NEW f \in Fields(columns)
               PROVE  last(f) \in DOMAIN columns /\ columns[last(f)].field = f
    OBVIOUS
  <2> DEFINE all == {i \in DOMAIN columns : columns[i].field = f}
  <2>1. all \subseteq 1 .. Len(columns) /\ all # {} /\ Len(columns) \in Nat
    BY DEF ColumnsFit, Fields
  <2> HIDE DEF all
  <2>2. Max(all) \in all
    BY <2>1, MaxIs
  <2>3. QED  BY <2>2 DEF all
<1> HIDE DEF last
<1>6. \A i \in 1 .. Len(listed) : listed[i] \in Fields(columns)
  BY <1>4 DEF listing, fields
<1>7. Len(w) = Len(listed) /\ DOMAIN w = 1 .. Len(w) /\ w = [i \in 1 .. Len(w) |-> w[i]]
  BY <1>4
<1>8. \A i \in 1 .. Len(w) : /\ w[i].field = fields[place[i]]
                             /\ \E c \in DOMAIN columns : w[i] = columns[c]
  <2> SUFFICES ASSUME NEW i \in 1 .. Len(w)
               PROVE  /\ w[i].field = fields[place[i]]
                      /\ \E c \in DOMAIN columns : w[i] = columns[c]
    OBVIOUS
  <2>1. i \in 1 .. Len(listed) /\ w[i] = columns[last(listed[i])]
    BY <1>4, <1>7
  <2> HIDE DEF w
  <2>2. QED  BY <1>4, <1>5, <1>6, <2>1
<1>9. place \in [1 .. Len(w) -> 1 .. 35]
  BY <1>2, <1>4, <1>7
<1>10. \A p \in 1 .. 35 : fields[p] \in Fields(columns) => p \in listing
  BY <1>2 DEF listing, fields
<1>11. Len(w) \in Nat
  BY <1>4, <1>7
<1> HIDE DEF w
<1>12. Selects(w, columns, place)
  BY <1>4, <1>7, <1>8, <1>9, <1>10, <1>11 DEF Selects, fields
<1>13. QED  BY <1>1, <1>12

(***************************************************************************)
(* The inductive invariant.                                                *)
(***************************************************************************)

\* The labels name their fields; those compiled in are there only all
\* together, and then the fallback is on record (metadata.rs).
MetadataFits ==
    LET columns == metadata.vehicleColumns
    IN  /\ metadata = [vehicleColumns |-> columns, usedFallback |-> metadata.usedFallback]
        /\ ColumnsFit(columns)
        /\ \/ \A i \in DOMAIN columns : columns[i].display.says[1][1] # "compiled in"
           \/ metadata.usedFallback /\ columns = FallbackVehicleColumns

\* An export keeps the widener and the header it began with.
ExportFits ==
    /\ schema \in Schemas
    /\ IF pc \in {"page", "row"}
       THEN widener = VehicleColumns(metadata.vehicleColumns) /\ header = Header(widener)
       ELSE header = <<>>

\* A row is what its vehicle was widened to, under the header of its page.
RowFits ==
    IF pc = "row"
    THEN LET head == source[1].head
             v    == source[1].vehicle
         IN  /\ source = <<[head |-> head, vehicle |-> v]>>
             /\ HeaderIsSound(head) /\ v \in Vehicles
             /\ record = Widen(widener, ParseRecord(head, CsvRecord(head, v)),
                               v.fuels, v.exportStatus)
    ELSE record = <<>>

ColumnsInv == MetadataFits /\ ExportFits /\ RowFits

\* What a text says and how it begins.
LEMMA TextParts ==
    ASSUME NEW a, NEW lead
    PROVE  /\ Text(a, lead).says = <<a>> /\ Text(a, lead).says[1] = a
           /\ Text(a, lead).lead = lead
  BY DEF Text

\* It holds before the labels are loaded.
LEMMA InitFits == Init => ColumnsInv
<1> SUFFICES ASSUME Init PROVE ColumnsInv
  OBVIOUS
<1>1. MetadataFits
  BY DEF Init, MetadataFits, ColumnsFit
<1>2. ExportFits /\ RowFits
  BY DEF Init, ExportFits, RowFits
<1>3. QED  BY <1>1, <1>2 DEF ColumnsInv

\* The labels of an answer that names all its columns name their fields, and
\* none is compiled in.
LEMMA AnswerFits ==
    ASSUME NEW entries \in Schemas, AllNamed(entries)
    PROVE  LET columns == ColumnNames(entries)
           IN  /\ ColumnsFit(columns)
               /\ \A i \in DOMAIN columns : columns[i].display.says[1][1] # "compiled in"
<1> DEFINE columns == ColumnNames(entries)
           Shown(i) == IF entries[i].name = NoName
                       THEN Text(<<"field", entries[i].field>>, "plain")
                       ELSE entries[i].name
<1>1. /\ Len(entries) \in Nat /\ DOMAIN entries = 1 .. Len(entries)
      /\ \A i \in DOMAIN entries : entries[i] \in ToSet(entries)
  <2>1. entries \in Seq(ToSet(entries))
    BY ExportColumnsAssumption
  <2> DEFINE S == ToSet(entries)
  <2> HIDE DEF S
  <2>2. entries \in Seq(S)
    BY <2>1 DEF S
  <2>3. Len(entries) \in Nat /\ DOMAIN entries = 1 .. Len(entries) /\ \A i \in DOMAIN entries : entries[i] \in S
    BY <2>2
  <2>4. QED  BY <2>3 DEF S
<1>2. \A i \in DOMAIN entries :
        /\ Shown(i) = Text(<<Shown(i).says[1][1], entries[i].field>>, Shown(i).lead)
        /\ Shown(i).says[1][1] # "compiled in"
  <2> SUFFICES ASSUME NEW i \in DOMAIN entries
               PROVE  /\ Shown(i) = Text(<<Shown(i).says[1][1], entries[i].field>>, Shown(i).lead)
                      /\ Shown(i).says[1][1] # "compiled in"
    OBVIOUS
  <2>1. CASE entries[i].name = NoName
    <3>1. Shown(i) = Text(<<"field", entries[i].field>>, "plain")
      BY <2>1
    <3> HIDE DEF Shown
    <3>2. Shown(i).says[1][1] = "field" /\ Shown(i).lead = "plain"
      BY <3>1 DEF Text
    <3>3. QED  BY <3>1, <3>2
  <2>2. CASE entries[i].name # NoName
    <3>1. IsLabel(entries[i].name, entries[i].field)
      BY <1>1, <2>2, ExportColumnsAssumption
    <3>2. PICK lead \in Leads :
            /\ entries[i].name = Text(<<entries[i].name.says[1][1], entries[i].field>>, lead)
            /\ entries[i].name.says[1][1] # "compiled in"
      BY <3>1 DEF IsLabel
    <3>3. Shown(i) = entries[i].name
      BY <2>2
    <3>4. entries[i].name.lead = lead
      <4> DEFINE a == <<entries[i].name.says[1][1], entries[i].field>>
      <4>1. entries[i].name = Text(a, lead)
        BY <3>2
      <4> HIDE DEF a
      <4>2. QED  BY <4>1, TextParts
    <3> HIDE DEF Shown
    <3>5. QED  BY <3>2, <3>3, <3>4
  <2>3. QED  BY <2>1, <2>2
<1>3. columns = [i \in DOMAIN entries |-> [field |-> entries[i].field, display |-> Shown(i)]]
  BY DEF ColumnNames
<1> HIDE DEF columns, Shown
<1>4. /\ DOMAIN columns = DOMAIN entries /\ Len(columns) = Len(entries)
      /\ \A i \in DOMAIN entries : columns[i].field = entries[i].field /\ columns[i].display = Shown(i)
  BY <1>1, <1>3
<1>5. QED  BY <1>1, <1>2, <1>4 DEF ColumnsFit, columns

\* So do those compiled in.
LEMMA FallbackFits == ColumnsFit(FallbackVehicleColumns)
<1> DEFINE columns == FallbackVehicleColumns  fields == FallbackVehicleFields
<1>1. DOMAIN fields = 1 .. Len(fields) /\ Len(fields) \in Nat
  BY FallbackHasAll, Zenon
<1> HIDE DEF fields
<1>2. columns = [i \in DOMAIN fields |-> [field |-> fields[i],
                                          display |-> Text(<<"compiled in", fields[i]>>, "plain")]]
  BY DEF FallbackVehicleColumns, fields
<1> HIDE DEF columns
<1>3. DOMAIN columns = 1 .. Len(fields) /\ Len(columns) = Len(fields)
  <2>1. DOMAIN columns = DOMAIN fields
    BY <1>2
  <2>2. QED  BY <1>1, <2>1
<1>4. ASSUME NEW i \in DOMAIN columns
      PROVE  columns[i].display = Text(<<columns[i].display.says[1][1], columns[i].field>>,
                                       columns[i].display.lead)
  <2> DEFINE a == <<"compiled in", fields[i]>>  t == Text(a, "plain")
  <2>1. columns[i] = [field |-> fields[i], display |-> t]
    BY <1>1, <1>2, <1>3
  <2>2. a[1] = "compiled in" /\ a = <<a[1], fields[i]>>
    OBVIOUS
  <2> HIDE DEF a
  <2>3. t.says[1] = a /\ t.lead = "plain" /\ t = Text(a, "plain")
    BY TextParts
  <2> HIDE DEF t
  <2>4. columns[i].display = t /\ columns[i].field = fields[i]
    BY <2>1
  <2>5. QED  BY <2>2, <2>3, <2>4
<1>5. QED  BY <1>1, <1>3, <1>4 DEF ColumnsFit, columns

\* No step breaks it.
LEMMA StepFits == ColumnsInv /\ [Next]_vars => ColumnsInv'
<1> SUFFICES ASSUME ColumnsInv, [Next]_vars PROVE ColumnsInv'
  OBVIOUS
<1> USE DEF ColumnsInv
<1>1. CASE Republish
  BY <1>1 DEF Republish, exportVars, MetadataFits, ExportFits, RowFits
<1>2. CASE Configure
  BY <1>2 DEF Configure, exportVars, MetadataFits, ExportFits, RowFits
<1>3. CASE LoadVehicleColumns
  <2>1. MetadataFits'
    <3>1. CASE AllNamed(schema) /\ metadata' = [metadata EXCEPT !.vehicleColumns = ColumnNames(schema)]
      <4>1. metadata'.vehicleColumns = ColumnNames(schema)
            /\ metadata' = [vehicleColumns |-> metadata'.vehicleColumns, usedFallback |-> metadata'.usedFallback]
        BY <3>1 DEF MetadataFits
      <4>2. QED  BY <3>1, <4>1, AnswerFits DEF MetadataFits, ExportFits
    <3>2. CASE metadata' = [vehicleColumns |-> FallbackVehicleColumns, usedFallback |-> TRUE]
      BY <3>2, FallbackFits DEF MetadataFits
    <3>3. QED  BY <1>3, <3>1, <3>2 DEF LoadVehicleColumns
  <2>2. ExportFits' /\ RowFits'
    BY <1>3 DEF LoadVehicleColumns, exportVars, ExportFits, RowFits
  <2>3. QED  BY <2>1, <2>2
<1>4. CASE LoadFuelColumns
  <2>1. MetadataFits'
    <3>1. PICK failed \in BOOLEAN : metadata' = [metadata EXCEPT !.usedFallback = @ \/ failed]
      BY <1>4 DEF LoadFuelColumns
    <3>2. /\ metadata'.vehicleColumns = metadata.vehicleColumns
          /\ metadata' = [vehicleColumns |-> metadata'.vehicleColumns, usedFallback |-> metadata'.usedFallback]
          /\ metadata.usedFallback => metadata'.usedFallback
      BY <3>1 DEF MetadataFits
    <3>3. QED  BY <3>2 DEF MetadataFits
  <2>2. ExportFits' /\ RowFits'
    BY <1>4 DEF LoadFuelColumns, exportVars, ExportFits, RowFits
  <2>3. QED  BY <2>1, <2>2
<1>5. CASE BeginExport
  BY <1>5 DEF BeginExport, MetadataFits, ExportFits, RowFits
<1>6. CASE FetchPage
  <2> DEFINE head == CsvHeader(schema)
  <2>1. MetadataFits' /\ schema' = schema /\ metadata' = metadata /\ pc = "page"
    BY <1>6 DEF FetchPage, MetadataFits
  <2>2. CASE HeaderIsSound(head)
    <3>1. PICK v \in Vehicles :
            /\ source' = <<[head |-> head, vehicle |-> v]>>
            /\ record' = Widen(widener, ParseRecord(head, CsvRecord(head, v)),
                               v.fuels, v.exportStatus)
      BY <1>6, <2>2 DEF FetchPage
    <3>2. pc' = "row" /\ widener' = widener /\ header' = header
      BY <1>6, <2>2 DEF FetchPage
    <3> HIDE DEF head
    <3>3. source'[1].head = head /\ source'[1].vehicle = v
      BY <3>1
    <3>4. RowFits'
      BY <2>2, <3>1, <3>2, <3>3 DEF RowFits
    <3>5. QED  BY <2>1, <3>2, <3>4 DEF ExportFits
  <2>3. CASE ~ HeaderIsSound(head)
    BY <1>6, <2>1, <2>3 DEF FetchPage, NoExport, ExportFits, RowFits
  <2>4. QED  BY <2>2, <2>3
<1>7. CASE EndExport
  BY <1>7 DEF EndExport, NoExport, MetadataFits, ExportFits, RowFits
<1>8. CASE UNCHANGED vars
  BY <1>8 DEF vars, MetadataFits, ExportFits, RowFits
<1>9. QED
  BY <1>1, <1>2, <1>3, <1>4, <1>5, <1>6, <1>7, <1>8 DEF Next, Start, Export

(***************************************************************************)
(* The header.                                                             *)
(***************************************************************************)

\* p enumerates P in ascending order.
Enumerates(P, m, p) ==
    /\ p \in [1 .. m -> P]
    /\ \A i, j \in 1 .. m : i < j => p[i] < p[j]
    /\ \A x \in P : \E i \in 1 .. m : p[i] = x

\* The m members of p are the first ones of q.
FirstOf(m, p, n, q) == m <= n /\ \A i \in 1 .. m : p[i] = q[i]

\* Two ascending enumerations of the same places: the first is a prefix of the
\* second.
LEMMA SamePrefix ==
    ASSUME NEW K \in Nat, NEW P, P \subseteq 1 .. K,
           NEW m \in Nat, NEW n \in Nat, NEW p, NEW q,
           Enumerates(P, m, p), Enumerates(P, n, q)
    PROVE  FirstOf(m, p, n, q)
<1>0. /\ \A i \in 1 .. m : p[i] \in P /\ p[i] \in Nat
      /\ \A i \in 1 .. n : q[i] \in P /\ q[i] \in Nat
      /\ \A i, j \in 1 .. m : i < j => p[i] < p[j]
      /\ \A i, j \in 1 .. n : i < j => q[i] < q[j]
      /\ \A x \in P : (\E i \in 1 .. m : p[i] = x) /\ \E i \in 1 .. n : q[i] = x
  <2>1. \A x \in P : x \in Nat
    OBVIOUS
  <2>2. QED  BY <2>1 DEF Enumerates
<1> DEFINE Bad == {i \in 1 .. m : ~ (i <= n /\ p[i] = q[i])}
<1>1. Bad = {}
  <2> SUFFICES ASSUME Bad # {} PROVE FALSE
    OBVIOUS
  <2>1. PICK i \in Bad : \A j \in Bad : i <= j
    <3>1. Bad \subseteq Nat
      OBVIOUS
    <3> HIDE DEF Bad
    <3>2. QED  BY <3>1, LeastElement
  <2>2. i \in 1 .. m /\ ~ (i <= n /\ p[i] = q[i])
    OBVIOUS
  <2>3. ASSUME NEW j \in 1 .. m, j < i PROVE j \in 1 .. n /\ p[j] = q[j]
    <3>1. j \notin Bad
      <4> HIDE DEF Bad
      <4>1. QED  BY <2>1, <2>2, <2>3
    <3>2. QED  BY <3>1
  <2> HIDE DEF Bad
  <2>4. p[i] \in P /\ p[i] \in Nat
    BY <1>0, <2>2
  <2>5. PICK k \in 1 .. n : q[k] = p[i]
    BY <1>0, <2>4
  <2>6. ~ (k < i)
    <3> SUFFICES ASSUME k < i PROVE FALSE
      OBVIOUS
    <3>1. k \in 1 .. m
      BY <2>2
    <3>2. p[k] = q[k] /\ p[k] < p[i]
      BY <1>0, <2>2, <2>3, <3>1
    <3>3. QED  BY <2>4, <2>5, <3>2
  <2>7. i \in 1 .. n /\ i < k
    BY <2>2, <2>5, <2>6
  <2>8. q[i] < p[i] /\ q[i] \in P /\ q[i] \in Nat
    BY <1>0, <2>5, <2>7
  <2>9. PICK l \in 1 .. m : p[l] = q[i]
    BY <1>0, <2>8
  <2>10. l < i
    <3>1. ~ (i < l)
      BY <1>0, <2>2, <2>4, <2>8, <2>9
    <3>2. l # i
      BY <2>4, <2>8, <2>9
    <3>3. QED  BY <2>2, <3>1, <3>2
  <2>11. l \in 1 .. n /\ q[l] = q[i]
    BY <2>3, <2>9, <2>10
  <2>12. q[l] < q[i]
    BY <1>0, <2>7, <2>10, <2>11
  <2>13. QED  BY <2>4, <2>8, <2>11, <2>12
<1>2. \A i \in 1 .. m : i <= n /\ p[i] = q[i]
  BY <1>1
<1>3. m <= n
  <2>1. CASE m = 0
    BY <2>1
  <2>2. CASE m # 0
    <3>1. m \in 1 .. m
      BY <2>2
    <3>2. QED  BY <1>2, <3>1
  <2>3. QED  BY <2>1, <2>2
<1>4. QED  BY <1>2, <1>3 DEF FirstOf

\* There is only one.
LEMMA SameEnumeration ==
    ASSUME NEW K \in Nat, NEW P, P \subseteq 1 .. K,
           NEW m \in Nat, NEW n \in Nat, NEW p, NEW q,
           Enumerates(P, m, p), Enumerates(P, n, q)
    PROVE  m = n /\ FirstOf(m, p, n, q)
<1>1. FirstOf(m, p, n, q)
  BY SamePrefix
<1>2. FirstOf(n, q, m, p)
  BY SamePrefix
<1>3. QED  BY <1>1, <1>2 DEF FirstOf

\* neutralize_formula alters nothing but how a text begins, and leaves none
\* that a spreadsheet executes.
LEMMA Neutralized ==
    ASSUME NEW says, NEW lead
    PROVE  LET t == [says |-> says, lead |-> lead]
               u == NeutralizeFormula(t)
           IN  /\ u.says = says
               /\ u.lead = IF Executes(t) THEN "apostrophe" ELSE lead
               /\ ~ Executes(u)
<1> DEFINE t == [says |-> says, lead |-> lead]
<1>1. t.lead = lead /\ t.says = says
  OBVIOUS
<1>2. CASE lead \in {"formula", "minusText"}
  <2>1. NeutralizeFormula(t) = [says |-> says, lead |-> "apostrophe"]
    BY <1>2 DEF NeutralizeFormula
  <2>2. QED  BY <1>1, <1>2, <2>1 DEF Executes
<1>3. CASE lead \notin {"formula", "minusText"}
  <2>1. NeutralizeFormula(t) = t
    BY <1>1, <1>3 DEF NeutralizeFormula
  <2>2. QED  BY <1>1, <1>3, <2>1 DEF Executes
<1>4. QED  BY <1>2, <1>3

\* A header has the labels of its columns, which label their own fields, and
\* two more; no field but those of an export, each at its place.
LEMMA HeaderIs ==
    ASSUME NEW columns, ColumnsFit(columns), NEW place,
           Selects(VehicleColumns(columns), columns, place)
    PROVE  LET w == VehicleColumns(columns)
               n == Len(w)
               h == Header(w)
           IN  /\ n \in Nat /\ Len(h) = n + 2 /\ DOMAIN h = 1 .. n + 2
               /\ SubSeq(h, n + 1, n + 2) = <<BRANDSTOF_HEADER, EXPORT_STATUS_HEADER>>
               /\ \A i \in 1 .. n : /\ h[i].says = w[i].display.says
                                    /\ Labelled(h[i]) = w[i].field
                                    /\ w[i].field = VEHICLE_EXPORT_FIELDS[place[i]]
                                    /\ Place(Labelled(h[i])) = place[i]
               /\ \A i \in 1 .. n + 2 : ~ Executes(h[i])
<1> DEFINE w == VehicleColumns(columns)
           n == Len(w)
           f == [i \in DOMAIN w |-> NeutralizeFormula(w[i].display)]
           h == f \o <<BRANDSTOF_HEADER, EXPORT_STATUS_HEADER>>
<1>1. Header(w) = h
  BY DEF Header
<1>2. /\ n \in Nat /\ DOMAIN w = 1 .. n /\ place \in [1 .. n -> 1 .. 35]
      /\ \A i \in 1 .. n : /\ w[i].field = VEHICLE_EXPORT_FIELDS[place[i]]
                           /\ \E c \in DOMAIN columns : w[i] = columns[c]
  BY DEF Selects
<1> HIDE DEF w
<1>3. f = [i \in 1 .. n |-> f[i]]
  BY <1>2
<1>4. \A i \in 1 .. n : f[i] = NeutralizeFormula(w[i].display)
  BY <1>2
<1> HIDE DEF n, f
<1> DEFINE a == BRANDSTOF_HEADER  b == EXPORT_STATUS_HEADER
<1>5. /\ Len(h) = n + 2 /\ DOMAIN h = 1 .. n + 2
      /\ \A i \in 1 .. n : h[i] = f[i]
      /\ h[n + 1] = BRANDSTOF_HEADER /\ h[n + 2] = EXPORT_STATUS_HEADER
      /\ SubSeq(h, n + 1, n + 2) = <<BRANDSTOF_HEADER, EXPORT_STATUS_HEADER>>
  <2> HIDE DEF a, b
  <2>1. /\ Len(f \o <<a, b>>) = n + 2 /\ DOMAIN (f \o <<a, b>>) = 1 .. n + 2
        /\ \A i \in 1 .. n : (f \o <<a, b>>)[i] = f[i]
        /\ (f \o <<a, b>>)[n + 1] = a /\ (f \o <<a, b>>)[n + 2] = b
        /\ SubSeq(f \o <<a, b>>, n + 1, n + 2) = <<a, b>>
    <3>1. n \in Nat
      BY <1>2
    <3>2. Len(f \o <<a, b>>) = n + 2 /\ DOMAIN (f \o <<a, b>>) = 1 .. n + 2
      BY <1>3, <3>1, TwoMore
    <3>3. \A i \in 1 .. n : (f \o <<a, b>>)[i] = f[i]
      BY <1>3, <3>1, TwoMore
    <3>4. (f \o <<a, b>>)[n + 1] = a /\ (f \o <<a, b>>)[n + 2] = b
      BY <1>3, <3>1, TwoMore
    <3>5. SubSeq(f \o <<a, b>>, n + 1, n + 2) = <<a, b>>
      BY <1>3, <3>1, TwoMore
    <3>6. QED  BY <3>2, <3>3, <3>4, <3>5
  <2>2. h = f \o <<a, b>>
    BY DEF a, b
  <2> HIDE DEF h
  <2>3. QED  BY <2>1, <2>2 DEF a, b
<1> HIDE DEF h
<1>6. ASSUME NEW i \in 1 .. n
      PROVE  /\ h[i].says = w[i].display.says
             /\ Labelled(h[i]) = w[i].field
             /\ Place(Labelled(h[i])) = place[i]
             /\ ~ Executes(h[i])
  <2>1. PICK c \in DOMAIN columns : w[i] = columns[c]
    BY <1>2
  <2> DEFINE d == w[i].display  said == <<d.says[1][1], w[i].field>>  lead == d.lead
  <2>2. d = Text(said, lead)
    BY <2>1 DEF ColumnsFit
  <2>3. h[i] = NeutralizeFormula(d)
    BY <1>4, <1>5
  <2>4. said[2] = w[i].field
    OBVIOUS
  <2> HIDE DEF said, lead, d
  <2>5. d = [says |-> <<said>>, lead |-> lead]
    BY <2>2 DEF Text
  <2>6. h[i].says = <<said>> /\ ~ Executes(h[i])
    BY <2>3, <2>5, Neutralized
  <2>7. d.says = <<said>>
    BY <2>5
  <2>8. Labelled(h[i]) = w[i].field
    BY <2>4, <2>6 DEF Labelled
  <2>9. Place(w[i].field) = place[i]
    <3> DEFINE V == VEHICLE_EXPORT_FIELDS
    <3>1. DOMAIN V = 1 .. 35 /\ \A k, j \in 1 .. 35 : V[k] = V[j] => k = j
      BY FieldsDiffer
    <3>2. w[i].field = V[place[i]] /\ place[i] \in 1 .. 35
      BY <1>2
    <3>3. Place(w[i].field) = CHOOSE k \in DOMAIN V : V[k] = w[i].field
      BY DEF Place
    <3> HIDE DEF V
    <3>4. QED  BY <3>1, <3>2, <3>3
  <2>10. QED  BY <2>6, <2>7, <2>8, <2>9 DEF d
<1>7. ~ Executes(BRANDSTOF_HEADER) /\ ~ Executes(EXPORT_STATUS_HEADER)
  BY DEF Executes, BRANDSTOF_HEADER, EXPORT_STATUS_HEADER, Text
<1>8. \A i \in 1 .. n + 2 : ~ Executes(h[i])
  <2> SUFFICES ASSUME NEW i \in 1 .. n + 2 PROVE ~ Executes(h[i])
    OBVIOUS
  <2>1. i \in 1 .. n \/ i = n + 1 \/ i = n + 2
    BY <1>2
  <2>2. QED  BY <1>5, <1>6, <1>7, <2>1
<1>9. /\ n \in Nat /\ Len(h) = n + 2 /\ DOMAIN h = 1 .. n + 2
      /\ SubSeq(h, n + 1, n + 2) = <<BRANDSTOF_HEADER, EXPORT_STATUS_HEADER>>
      /\ \A i \in 1 .. n : /\ h[i].says = w[i].display.says
                           /\ Labelled(h[i]) = w[i].field
                           /\ w[i].field = VEHICLE_EXPORT_FIELDS[place[i]]
                           /\ Place(Labelled(h[i])) = place[i]
      /\ \A i \in 1 .. n + 2 : ~ Executes(h[i])
  BY <1>2, <1>5, <1>6, <1>8
<1>10. h = Header(w)
  BY <1>1
<1>11. QED  BY <1>9, <1>10 DEF n, w

\* What HeaderIsCurated says of a header made from the columns on record.
LEMMA CuratedWhenOpen ==
    ASSUME MetadataFits, header = Header(VehicleColumns(metadata.vehicleColumns))
    PROVE  HeaderIsCurated
<1> DEFINE columns == metadata.vehicleColumns
           w == VehicleColumns(columns)
           n == Len(w)
           V == VEHICLE_EXPORT_FIELDS
<1>1. ColumnsFit(columns)
  BY DEF MetadataFits
<1>2. PICK place : Selects(w, columns, place)
  BY <1>1, ColumnsSelected
<1>3. /\ place \in [1 .. n -> 1 .. 35]
      /\ \A i, j \in 1 .. n : i < j => place[i] < place[j]
      /\ \A i \in 1 .. n : \E c \in DOMAIN columns : w[i] = columns[c]
      /\ \A p \in 1 .. 35 : V[p] \in Fields(columns) => \E i \in 1 .. n : place[i] = p
  BY <1>2 DEF Selects
<1>4. /\ n \in Nat /\ Len(header) = n + 2 /\ DOMAIN header = 1 .. n + 2
      /\ SubSeq(header, n + 1, n + 2) = <<BRANDSTOF_HEADER, EXPORT_STATUS_HEADER>>
      /\ \A i \in 1 .. n : /\ header[i].says = w[i].display.says
                           /\ Labelled(header[i]) = w[i].field
                           /\ w[i].field = V[place[i]]
                           /\ Place(Labelled(header[i])) = place[i]
      /\ \A i \in 1 .. n + 2 : ~ Executes(header[i])
  BY <1>1, <1>2, HeaderIs
<1>5. DOMAIN V = 1 .. 35 /\ Len(V) = 35
  BY FieldsDiffer
<1> HIDE DEF w, V
<1>6. Len(header) - 2 = n
  BY <1>4
<1> DEFINE places == [i \in 1 .. n |-> Place(Labelled(header[i]))]
<1>7. \A i \in 1 .. n - 1 : places[i] < places[i + 1]
  <2> SUFFICES ASSUME NEW i \in 1 .. n - 1 PROVE places[i] < places[i + 1]
    OBVIOUS
  <2>1. i \in 1 .. n /\ i + 1 \in 1 .. n /\ i < i + 1
    BY <1>4
  <2>2. places[i] = place[i] /\ places[i + 1] = place[i + 1]
    BY <1>4, <2>1
  <2> HIDE DEF places
  <2>3. QED  BY <1>3, <2>1, <2>2
<1>8. \A f \in ToSet(V) \cap Fields(columns) : \E i \in 1 .. n : Labelled(header[i]) = f
  <2> SUFFICES ASSUME NEW f \in ToSet(V) \cap Fields(columns)
               PROVE  \E i \in 1 .. n : Labelled(header[i]) = f
    OBVIOUS
  <2>1. PICK p \in 1 .. 35 : f = V[p]
    BY <1>5 DEF ToSet
  <2>2. PICK i \in 1 .. n : place[i] = p
    BY <1>3, <2>1
  <2>3. QED  BY <1>4, <2>1, <2>2
<1>9. (\E i \in 1 .. n : header[i].says[1][1] = "compiled in") => metadata.usedFallback /\ n = Len(V)
  <2> SUFFICES ASSUME NEW i \in 1 .. n, header[i].says[1][1] = "compiled in"
               PROVE  metadata.usedFallback /\ n = Len(V)
    OBVIOUS
  <2>1. PICK c \in DOMAIN columns : w[i] = columns[c]
    BY <1>3
  <2>2. columns[c].display.says[1][1] = "compiled in"
    BY <1>4, <2>1
  <2>3. metadata.usedFallback /\ columns = FallbackVehicleColumns
    BY <2>2 DEF MetadataFits
  <2>4. \A p \in 1 .. 35 : V[p] \in Fields(columns)
    <3> SUFFICES ASSUME NEW p \in 1 .. 35 PROVE V[p] \in Fields(columns)
      OBVIOUS
    <3> DEFINE fallback == FallbackVehicleFields
    <3>1. PICK j \in DOMAIN fallback : fallback[j] = V[p]
      BY FallbackHasAll, Zenon DEF V
    <3> HIDE DEF fallback
    <3>2. /\ DOMAIN FallbackVehicleColumns = DOMAIN fallback
          /\ \A k \in DOMAIN fallback : FallbackVehicleColumns[k].field = fallback[k]
      BY DEF FallbackVehicleColumns, fallback
    <3>3. j \in DOMAIN columns /\ columns[j].field = V[p]
      BY <2>3, <3>1, <3>2
    <3>4. QED  BY <3>3 DEF Fields
  <2>5. Enumerates(1 .. 35, n, place)
    BY <1>3, <2>4 DEF Enumerates
  <2> DEFINE K == 35  self == [p \in 1 .. K |-> p]  P == 1 .. K
  <2>6. Enumerates(P, K, self)
    BY DEF Enumerates
  <2> HIDE DEF self
  <2>7. n = 35
    <3>1. Enumerates(P, n, place) /\ Enumerates(P, K, self) /\ P \subseteq 1 .. K
          /\ K \in Nat /\ n \in Nat
      BY <1>4, <2>5, <2>6
    <3> HIDE DEF P, n, K
    <3>2. n = K
      BY <3>1, SameEnumeration
    <3>3. QED  BY <3>2 DEF K
  <2>8. QED  BY <1>5, <2>3, <2>7
<1>10. \A i \in DOMAIN header : ~ Executes(header[i])
  BY <1>4
<1> HIDE DEF n, places
<1>11. /\ \A i \in 1 .. n - 1 : places[i] < places[i + 1]
       /\ SubSeq(header, n + 1, n + 2) = <<BRANDSTOF_HEADER, EXPORT_STATUS_HEADER>>
       /\ \A f \in ToSet(V) \cap Fields(columns) : \E i \in 1 .. n : Labelled(header[i]) = f
       /\ (\E i \in 1 .. n : header[i].says[1][1] = "compiled in") => metadata.usedFallback /\ n = Len(V)
       /\ \A i \in DOMAIN header : ~ Executes(header[i])
  BY <1>4, <1>7, <1>8, <1>9, <1>10
<1> DEFINE m == Len(header) - 2
<1>12. m = n
  BY <1>6
<1> HIDE DEF m
<1>13. QED  BY <1>11, <1>12 DEF HeaderIsCurated, places, V, m

\* An export has its columns in the order the code gives them, each once and
\* only the curated ones, with RDW's labels wherever it gave one, whatever RDW
\* published at startup (widen.rs:86-97, metadata.rs:88-128).
THEOREM ColumnsAreCurated == Spec => []HeaderIsCurated
<1>1. ColumnsInv => HeaderIsCurated
  <2> SUFFICES ASSUME ColumnsInv PROVE HeaderIsCurated
    OBVIOUS
  <2>1. CASE pc \in {"page", "row"}
    BY <2>1, CuratedWhenOpen DEF ColumnsInv, ExportFits
  <2>2. CASE pc \notin {"page", "row"}
    BY <2>2 DEF ColumnsInv, ExportFits, HeaderIsCurated
  <2>3. QED  BY <2>1, <2>2
<1>2. QED  BY <1>1, InitFits, StepFits, PTL DEF Spec

(***************************************************************************)
(* The cells of a row.                                                     *)
(***************************************************************************)

\* A text says at most one thing.
LEMMA TextIs ==
    ASSUME NEW t, IsText(t)
    PROVE  /\ t = [says |-> t.says, lead |-> t.lead]
           /\ t = Empty => t.says = <<>> /\ t.lead = "plain"
           /\ t # Empty => t.says = <<t.says[1]>>
<1>1. CASE t = Empty
  BY <1>1 DEF Empty
<1>2. CASE t # Empty
  <2>1. PICK lead \in Leads : t = Text(t.says[1], lead)
    BY <1>2 DEF IsText
  <2> DEFINE a == t.says[1]
  <2>2. t = [says |-> <<a>>, lead |-> lead]
    BY <2>1 DEF Text
  <2> HIDE DEF a
  <2>3. t.says = <<a>> /\ t.lead = lead
    BY <2>2
  <2>4. QED  BY <1>2, <2>2, <2>3 DEF a
<1>3. QED  BY <1>1, <1>2

\* What a vehicle has under a header is a text.
LEMMA CellIsText ==
    ASSUME NEW v \in Vehicles, NEW f
    PROVE  IsText(CellOf(v, f))
<1>1. CASE f \in DOMAIN v.cells
  BY <1>1, ExportColumnsAssumption DEF CellOf
<1>2. CASE f \notin DOMAIN v.cells
  <2>1. CellOf(v, f) = Text(f, "plain")
    BY <1>2 DEF CellOf
  <2>2. Text(f, "plain").says[1] = f
    BY TextParts
  <2>3. QED  BY <2>1, <2>2 DEF IsText, Leads
<1>3. QED  BY <1>1, <1>2

\* A row read by its header has, in every field the header names, the cell of
\* that column, unless it is empty (csv_parse.rs).
LEMMA ReadByHeader ==
    ASSUME NEW head, HeaderIsSound(head), NEW v \in Vehicles, NEW f
    PROVE  LET row == ParseRecord(head, CsvRecord(head, v))
           IN  IF f \in ToSet(head) /\ CellOf(v, f) # Empty
               THEN f \in DOMAIN row /\ row[f] = CellOf(v, f)
               ELSE f \notin DOMAIN row
<1> DEFINE cells == CsvRecord(head, v)
           filled == {head[i] : i \in {j \in DOMAIN cells : cells[j] # Empty}}
           row == [g \in filled |-> cells[CHOOSE i \in DOMAIN head : head[i] = g]]
<1>1. ParseRecord(head, cells) = row
  BY DEF ParseRecord
<1>2. DOMAIN cells = DOMAIN head /\ \A i \in DOMAIN head : cells[i] = CellOf(v, head[i])
  BY DEF CsvRecord
<1>3. \A i, j \in DOMAIN head : head[i] = head[j] => i = j
  BY DEF HeaderIsSound, IsInjective
<1> HIDE DEF cells
<1>4. CASE f \in ToSet(head) /\ CellOf(v, f) # Empty
  <2>1. PICK i \in DOMAIN head : head[i] = f
    BY <1>4 DEF ToSet
  <2>2. f \in filled
    BY <1>2, <1>4, <2>1
  <2>3. (CHOOSE j \in DOMAIN head : head[j] = f) = i
    BY <1>3, <2>1
  <2> HIDE DEF filled
  <2>4. row[f] = CellOf(v, f)
    BY <1>2, <2>1, <2>2, <2>3
  <2>5. QED  BY <1>1, <1>4, <2>2, <2>4 DEF cells
<1>5. CASE ~ (f \in ToSet(head) /\ CellOf(v, f) # Empty)
  <2>1. f \notin filled
    BY <1>2, <1>5 DEF ToSet
  <2> HIDE DEF filled
  <2>2. f \notin DOMAIN row
    BY <2>1
  <2>3. QED  BY <1>1, <1>5, <2>2 DEF cells
<1>6. QED  BY <1>4, <1>5

\* What is written of it under a label.
LEMMA CellIs ==
    ASSUME NEW head, HeaderIsSound(head), NEW v \in Vehicles, NEW f
    PROVE  LET cell == IF f \in ToSet(head) THEN CellOf(v, f) ELSE Empty
               out  == FieldAsString(ParseRecord(head, CsvRecord(head, v)), f)
           IN  /\ out.says = cell.says
               /\ out.lead = IF Executes(cell) THEN "apostrophe" ELSE cell.lead
<1> DEFINE row == ParseRecord(head, CsvRecord(head, v))
           out == FieldAsString(row, f)
           cell == IF f \in ToSet(head) THEN CellOf(v, f) ELSE Empty
<1>1. IF f \in ToSet(head) /\ CellOf(v, f) # Empty
      THEN f \in DOMAIN row /\ row[f] = CellOf(v, f)
      ELSE f \notin DOMAIN row
  BY ReadByHeader
<1> HIDE DEF row
<1>2. CASE cell = Empty
  <2>1. f \notin DOMAIN row
    BY <1>1, <1>2
  <2>2. out = Empty
    BY <2>1 DEF FieldAsString
  <2>3. ~ Executes(Empty)
    BY DEF Executes, Empty
  <2> HIDE DEF cell, out
  <2>4. QED  BY <1>2, <2>2, <2>3 DEF row, cell, out
<1>3. CASE cell # Empty
  <2>1. cell = CellOf(v, f) /\ f \in DOMAIN row /\ row[f] = cell
    BY <1>1, <1>3
  <2>2. IsText(cell)
    BY <2>1, CellIsText
  <2>3. out = NeutralizeFormula(cell)
    BY <2>1 DEF FieldAsString
  <2> HIDE DEF cell, out
  <2> DEFINE says == cell.says  lead == cell.lead
  <2>4. cell = [says |-> says, lead |-> lead]
    BY <2>2, TextIs
  <2> HIDE DEF says, lead
  <2>5. out.says = says /\ out.lead = IF Executes(cell) THEN "apostrophe" ELSE lead
    BY <2>3, <2>4, Neutralized
  <2>6. QED  BY <2>5 DEF row, cell, out, says, lead
<1>4. QED  BY <1>2, <1>3

(***************************************************************************)
(* The fuels of a row.                                                     *)
(***************************************************************************)

\* Sequences of one, laid end to end.
LEMMA FlattenOnes ==
    ASSUME NEW n \in Nat, NEW g
    PROVE  FlattenSeq([i \in 1 .. n |-> <<g[i]>>]) = [i \in 1 .. n |-> g[i]]
<1> DEFINE S == {g[i] : i \in 1 .. n}
           q == [i \in 1 .. n |-> <<g[i]>>]
           k == FlattenSeq(q)
<1>1. q \in Seq(Seq(S)) /\ Len(q) = n
  <2>1. \A i \in 1 .. n : <<g[i]>> \in Seq(S)
    <3>1. \A i \in 1 .. n : g[i] \in S
      OBVIOUS
    <3> HIDE DEF S
    <3>2. QED  BY <3>1
  <2> HIDE DEF S
  <2>2. QED  BY <2>1
<1>2. \A i \in 1 .. n : Len(q[i]) = 1 /\ q[i][1] = g[i]
  OBVIOUS
<1> HIDE DEF S, q
<1>3. k \in Seq(S) /\ \E off : Laid(k, q, off)
  BY <1>1, FlattenLaid
<1> HIDE DEF k
<1>4. PICK off : Laid(k, q, off)
  BY <1>3
<1>5. /\ off \in [1 .. n + 1 -> Nat] /\ off[1] = 0 /\ Len(k) = off[n + 1]
      /\ \A b \in 1 .. n : off[b + 1] = off[b] + 1 /\ k[off[b] + 1] = g[b]
  <2>1. /\ off \in [1 .. n + 1 -> Nat] /\ off[1] = 0 /\ Len(k) = off[n + 1]
        /\ \A b \in 1 .. n : off[b + 1] = off[b] + Len(q[b])
        /\ \A b \in 1 .. n : \A i \in 1 .. Len(q[b]) : k[off[b] + i] = q[b][i]
    BY <1>1, <1>4 DEF Laid
  <2>2. \A b \in 1 .. n : 1 \in 1 .. Len(q[b])
    BY <1>2
  <2>3. QED  BY <1>2, <2>1, <2>2
<1> DEFINE Bad == {b \in 1 .. n + 1 : off[b] # b - 1}
<1>6. Bad = {}
  <2> SUFFICES ASSUME Bad # {} PROVE FALSE
    OBVIOUS
  <2>1. PICK b \in Bad : \A c \in Bad : b <= c
    <3>1. Bad \subseteq Nat
      OBVIOUS
    <3> HIDE DEF Bad
    <3>2. QED  BY <3>1, LeastElement
  <2>2. b \in 1 .. n + 1 /\ off[b] # b - 1
    OBVIOUS
  <2>3. b # 1
    BY <1>5, <2>2
  <2>4. b - 1 \in 1 .. n /\ b - 1 \in 1 .. n + 1 /\ b - 1 < b /\ (b - 1) + 1 = b
    BY <2>2, <2>3
  <2>5. b - 1 \notin Bad
    <3> HIDE DEF Bad
    <3>1. QED  BY <2>1, <2>2, <2>4
  <2>6. off[b - 1] = (b - 1) - 1
    BY <2>4, <2>5
  <2>7. off[b] = off[b - 1] + 1
    <3>1. off[(b - 1) + 1] = off[b - 1] + 1
      BY <1>5, <2>4
    <3>2. QED  BY <2>4, <3>1
  <2>8. QED  BY <2>2, <2>6, <2>7
<1>7. \A b \in 1 .. n + 1 : off[b] = b - 1
  BY <1>6
<1> HIDE DEF Bad
<1>8. Len(k) = n
  BY <1>5, <1>7
<1>9. \A b \in 1 .. n : k[b] = g[b]
  <2> SUFFICES ASSUME NEW b \in 1 .. n PROVE k[b] = g[b]
    OBVIOUS
  <2>1. off[b] + 1 = b
    BY <1>7
  <2>2. QED  BY <1>5, <2>1
<1>10. k = [i \in 1 .. n |-> g[i]]
  BY <1>3, <1>8, <1>9
<1>11. QED  BY <1>10 DEF k, q

\* What a row says of its fuels is what they say, one behind the other.
LEMMA FuelsSay ==
    ASSUME NEW fuels, fuels \in Seq(ToSet(fuels)), \A t \in ToSet(fuels) : IsText(t)
    PROVE  LET filled == {i \in DOMAIN fuels : fuels[i] # Empty}
               parts  == Kept(fuels, filled)
               said   == FlattenSeq([i \in DOMAIN fuels |-> fuels[i].says])
           IN  /\ \E place : KeptAt(fuels, filled, parts, place)
               /\ parts = <<>> => said = <<>>
               /\ said = FlattenSeq([i \in DOMAIN parts |-> parts[i].says])
<1> DEFINE N == Len(fuels)
           filled == {i \in DOMAIN fuels : fuels[i] # Empty}
           parts == Kept(fuels, filled)
           g == [i \in 1 .. N |-> fuels[i].says[1]]
           k == Kept(g, filled)
           T == ToSet(fuels)
<1>1. N \in Nat /\ DOMAIN fuels = 1 .. N /\ fuels \in Seq(T) /\ \A i \in 1 .. N : fuels[i] \in T
  <2>1. fuels \in Seq(T)
    OBVIOUS
  <2> HIDE DEF T
  <2>2. QED  BY <2>1
<1>2. \A i \in 1 .. N : /\ i \in filled <=> fuels[i] # Empty
                        /\ fuels[i].says = IF i \in filled THEN <<g[i]>> ELSE <<>>
  <2> SUFFICES ASSUME NEW i \in 1 .. N
               PROVE  /\ i \in filled <=> fuels[i] # Empty
                      /\ fuels[i].says = IF i \in filled THEN <<g[i]>> ELSE <<>>
    OBVIOUS
  <2>1. i \in filled <=> fuels[i] # Empty
    BY <1>1
  <2>2. IsText(fuels[i])
    BY <1>1
  <2> HIDE DEF filled
  <2> DEFINE t == fuels[i]
  <2>3. (t = Empty => t.says = <<>>) /\ (t # Empty => t.says = <<t.says[1]>>)
    BY <2>2, TextIs
  <2>4. g[i] = t.says[1]
    OBVIOUS
  <2> HIDE DEF g
  <2>5. QED  BY <2>1, <2>3, <2>4
<1>3. filled \subseteq 1 .. N
  BY <1>1
<1>4. \E p : KeptAt(fuels, filled, parts, p)
  <2> HIDE DEF T, filled
  <2>1. QED  BY <1>1, <1>3, KeptIs
<1>5. PICK p : KeptAt(fuels, filled, parts, p)
  BY <1>4
<1> DEFINE S == {g[i] : i \in 1 .. N}
<1>6. g \in Seq(S) /\ Len(g) = N /\ DOMAIN g = 1 .. N
  <2>1. g = [i \in 1 .. N |-> g[i]] /\ \A i \in 1 .. N : g[i] \in S
    OBVIOUS
  <2> HIDE DEF g, S, N
  <2>2. QED  BY <1>1, <2>1
<1>7. k \in Seq(S) /\ \E q : KeptAt(g, filled, k, q)
  <2> HIDE DEF g, S, N, filled
  <2>1. QED  BY <1>3, <1>6, KeptIs
<1>8. PICK q : KeptAt(g, filled, k, q)
  BY <1>7
<1>9. FlattenSeq([i \in DOMAIN fuels |-> fuels[i].says]) = k
  <2> DEFINE a == [i \in DOMAIN fuels |-> fuels[i].says]
             b == [i \in DOMAIN g |-> IF i \in filled THEN <<g[i]>> ELSE <<>>]
  <2>1. a = b
    <3> HIDE DEF g, filled, N
    <3>1. QED  BY <1>1, <1>2, <1>6
  <2>2. k = FlattenSeq(b)
    BY DEF Kept
  <2> HIDE DEF a, b, k
  <2>3. FlattenSeq(a) = k
    BY <2>1, <2>2
  <2>4. QED  BY <2>3 DEF a
<1> DEFINE m == Len(parts)
<1> HIDE DEF g, filled, parts, k, T, S
<1>10. /\ m \in Nat /\ DOMAIN parts = 1 .. m /\ p \in [1 .. m -> filled]
       /\ \A i \in 1 .. m : parts[i] = fuels[p[i]]
       /\ Enumerates(filled, m, p)
  BY <1>5 DEF KeptAt, Enumerates
<1>11. /\ Len(k) \in Nat /\ \A i \in 1 .. Len(k) : k[i] = g[q[i]]
       /\ Enumerates(filled, Len(k), q)
  BY <1>8 DEF KeptAt, Enumerates
<1>12. m = Len(k) /\ \A i \in 1 .. m : p[i] = q[i]
  <2> DEFINE l == Len(k)
  <2>1. l \in Nat /\ Enumerates(filled, l, q) /\ Enumerates(filled, m, p) /\ m \in Nat
    BY <1>10, <1>11
  <2> HIDE DEF l, m, N
  <2>2. m = l /\ FirstOf(m, p, l, q)
    BY <1>1, <1>3, <2>1, SameEnumeration
  <2>3. QED  BY <2>2 DEF l, FirstOf
<1>13. k = [i \in 1 .. m |-> k[i]]
  BY <1>7, <1>12
<1>14. \A i \in 1 .. m : parts[i].says = <<k[i]>>
  <2> SUFFICES ASSUME NEW i \in 1 .. m PROVE parts[i].says = <<k[i]>>
    OBVIOUS
  <2>1. p[i] \in filled /\ parts[i] = fuels[p[i]] /\ k[i] = g[p[i]]
    BY <1>10, <1>11, <1>12
  <2>2. p[i] \in 1 .. N
    BY <1>3, <2>1
  <2>3. QED  BY <1>2, <2>1, <2>2
<1>15. FlattenSeq([i \in DOMAIN parts |-> parts[i].says]) = k
  <2> DEFINE a == [i \in DOMAIN parts |-> parts[i].says]  b == [i \in 1 .. m |-> <<k[i]>>]
  <2>1. a = b
    BY <1>10, <1>14
  <2>2. FlattenSeq(b) = [i \in 1 .. m |-> k[i]]
    <3>1. m \in Nat
      BY <1>10
    <3> HIDE DEF m
    <3>2. QED  BY <3>1, FlattenOnes
  <2> HIDE DEF a, b
  <2>3. FlattenSeq(a) = k
    BY <1>13, <2>1, <2>2
  <2>4. QED  BY <2>3 DEF a
<1>16. parts = <<>> => k = <<>>
  BY <1>7, <1>12
<1>17. QED  BY <1>4, <1>9, <1>15, <1>16 DEF filled, parts

\* One filled place at most if at most one is kept.
LEMMA FewFilled ==
    ASSUME NEW s, NEW places, NEW k, NEW place, KeptAt(s, places, k, place), Len(k) <= 1
    PROVE  Cardinality(places) \in Nat /\ Cardinality(places) <= 1
<1>1. /\ Len(k) \in Nat
      /\ \A x \in places : \E i \in 1 .. Len(k) : place[i] = x
  BY DEF KeptAt
<1>2. \A x, y \in places : x = y
  BY <1>1
<1>3. CASE places = {}
  BY <1>3, FS_EmptySet
<1>4. CASE places # {}
  <2>1. PICK x : x \in places
    BY <1>4
  <2>2. places = {x}
    BY <1>2, <2>1
  <2>3. Cardinality({x}) = 1
    BY FS_Singleton
  <2>4. QED  BY <2>2, <2>3
<1>5. QED  BY <1>3, <1>4

\* The fuels of a row: all of them, never a formula, and no number where there
\* are several (widen.rs, joined_brandstof).
LEMMA FuelsJoined ==
    ASSUME NEW fuels, fuels \in Seq(ToSet(fuels)), \A t \in ToSet(fuels) : IsText(t)
    PROVE  LET joined == JoinedBrandstof(fuels)
           IN  /\ joined.says = FlattenSeq([i \in DOMAIN fuels |-> fuels[i].says])
               /\ ~ Executes(joined)
               /\ Cardinality({i \in DOMAIN fuels : fuels[i] # Empty}) > 1 =>
                    joined.lead # "minusNumber"
<1> DEFINE filled == {i \in DOMAIN fuels : fuels[i] # Empty}
           parts == Kept(fuels, filled)
           said == FlattenSeq([i \in DOMAIN fuels |-> fuels[i].says])
           says == FlattenSeq([i \in DOMAIN parts |-> parts[i].says])
           first == Head(parts).lead
           lead == IF first = "minusNumber" /\ Len(parts) > 1 THEN "minusText" ELSE first
           joined == JoinedBrandstof(fuels)
<1>1. PICK place : KeptAt(fuels, filled, parts, place)
  BY FuelsSay
<1>2. (parts = <<>> => said = <<>>) /\ said = says
  BY FuelsSay
<1>3. joined = IF parts = <<>> THEN Empty ELSE NeutralizeFormula([says |-> says, lead |-> lead])
  BY DEF JoinedBrandstof
<1> HIDE DEF filled, parts, said, says, first, joined
<1>4. CASE parts = <<>>
  <2>1. joined = Empty /\ said = <<>>
    BY <1>2, <1>3, <1>4
  <2>2. Empty.says = <<>> /\ Empty.lead # "minusNumber" /\ ~ Executes(Empty)
    BY DEF Empty, Executes
  <2>3. QED  BY <2>1, <2>2 DEF said, joined
<1>5. CASE parts # <<>>
  <2>1. joined = NeutralizeFormula([says |-> says, lead |-> lead])
    BY <1>3, <1>5
  <2> HIDE DEF lead
  <2>2. joined.says = says /\ ~ Executes(joined)
        /\ joined.lead = IF Executes([says |-> says, lead |-> lead]) THEN "apostrophe" ELSE lead
    BY <2>1, Neutralized
  <2>3. joined.lead = "minusNumber" => Len(parts) <= 1
    <3>1. joined.lead = "minusNumber" => lead = "minusNumber"
      BY <2>2
    <3>2. Len(parts) \in Nat
      BY <1>1 DEF KeptAt
    <3>3. QED  BY <3>1, <3>2 DEF lead
  <2>4. Len(parts) <= 1 => ~ (Cardinality(filled) > 1)
    <3> SUFFICES ASSUME Len(parts) <= 1 PROVE ~ (Cardinality(filled) > 1)
      OBVIOUS
    <3>1. Cardinality(filled) \in Nat /\ Cardinality(filled) <= 1
      BY <1>1, FewFilled
    <3>2. QED  BY <3>1
  <2>5. QED  BY <1>2, <2>2, <2>3, <2>4 DEF said, joined, filled
<1>6. QED  BY <1>4, <1>5

\* What CellsUnderTheirHeader says of a row.
LEMMA CellsWhenWidened ==
    ASSUME MetadataFits, ExportFits, RowFits, pc = "row"
    PROVE  CellsUnderTheirHeader
<1> DEFINE columns == metadata.vehicleColumns
           w == VehicleColumns(columns)
           n == Len(w)
           head == source[1].head
           v == source[1].vehicle
           row == ParseRecord(head, CsvRecord(head, v))
           Said(f) == IF f \in ToSet(head) THEN CellOf(v, f) ELSE Empty
           a == JoinedBrandstof(v.fuels)
           b == Text(v.exportStatus, "plain")
           c == [i \in DOMAIN w |-> FieldAsString(row, w[i].field)]
<1>1. /\ header = Header(w) /\ HeaderIsSound(head) /\ v \in Vehicles
      /\ record = Widen(w, row, v.fuels, v.exportStatus) /\ ColumnsFit(columns)
  BY DEF MetadataFits, ExportFits, RowFits
<1>2. PICK place : Selects(w, columns, place)
  BY <1>1, ColumnsSelected
<1>3. /\ n \in Nat /\ Len(header) = n + 2
      /\ \A i \in 1 .. n : Labelled(header[i]) = w[i].field
  BY <1>1, <1>2, HeaderIs
<1>4. DOMAIN w = 1 .. n
  BY <1>2 DEF Selects
<1>5. record = c \o <<a, b>>
  BY <1>1 DEF Widen
<1> HIDE DEF w
<1>6. c = [i \in 1 .. n |-> c[i]] /\ \A i \in 1 .. n : c[i] = FieldAsString(row, w[i].field)
  BY <1>4
<1> HIDE DEF n, c, a, b
<1>7. /\ Len(record) = n + 2 /\ \A i \in 1 .. n : record[i] = c[i]
      /\ record[n + 1] = a /\ record[n + 2] = b
  <2>1. Len(c \o <<a, b>>) = n + 2
    BY <1>3, <1>6, TwoMore
  <2>2. \A i \in 1 .. n : (c \o <<a, b>>)[i] = c[i]
    BY <1>3, <1>6, TwoMore
  <2>3. (c \o <<a, b>>)[n + 1] = a /\ (c \o <<a, b>>)[n + 2] = b
    BY <1>3, <1>6, TwoMore
  <2>4. QED  BY <1>5, <2>1, <2>2, <2>3
<1>8. ASSUME NEW i \in 1 .. n
      PROVE  LET cell == Said(Labelled(header[i]))
             IN  /\ record[i].says = cell.says
                 /\ record[i].lead = IF Executes(cell) THEN "apostrophe" ELSE cell.lead
  <2> DEFINE f == w[i].field
  <2>1. Labelled(header[i]) = f /\ record[i] = FieldAsString(row, f)
    BY <1>3, <1>6, <1>7
  <2> HIDE DEF f
  <2>2. /\ FieldAsString(row, f).says = Said(f).says
        /\ FieldAsString(row, f).lead = IF Executes(Said(f)) THEN "apostrophe" ELSE Said(f).lead
    <3> HIDE DEF head, v
    <3>1. QED  BY <1>1, CellIs
  <2> HIDE DEF row, Said
  <2>3. QED  BY <2>1, <2>2
<1>9. /\ a.says = FlattenSeq([i \in DOMAIN v.fuels |-> v.fuels[i].says])
      /\ ~ Executes(a)
      /\ Cardinality({i \in DOMAIN v.fuels : v.fuels[i] # Empty}) > 1 => a.lead # "minusNumber"
  <2> DEFINE fuels == v.fuels
  <2>1. fuels \in Seq(ToSet(fuels)) /\ \A t \in ToSet(fuels) : IsText(t)
    BY <1>1, ExportColumnsAssumption
  <2> HIDE DEF fuels
  <2>2. LET joined == JoinedBrandstof(fuels)
        IN  /\ joined.says = FlattenSeq([i \in DOMAIN fuels |-> fuels[i].says])
            /\ ~ Executes(joined)
            /\ Cardinality({i \in DOMAIN fuels : fuels[i] # Empty}) > 1 =>
                 joined.lead # "minusNumber"
    BY <2>1, FuelsJoined
  <2>3. QED  BY <2>2 DEF fuels, a
<1>10. Len(header) - 2 = n
  BY <1>3
<1> DEFINE m == Len(header) - 2
<1> HIDE DEF m, head, v, row, Said, columns
<1>11. /\ Len(record) = Len(header)
       /\ \A i \in 1 .. m : LET cell == Said(Labelled(header[i]))
                            IN  /\ record[i].says = cell.says
                                /\ record[i].lead = IF Executes(cell) THEN "apostrophe" ELSE cell.lead
       /\ record[m + 1].says = FlattenSeq([i \in DOMAIN v.fuels |-> v.fuels[i].says])
       /\ ~ Executes(record[m + 1])
       /\ Cardinality({i \in DOMAIN v.fuels : v.fuels[i] # Empty}) > 1 =>
            record[m + 1].lead # "minusNumber"
       /\ record[m + 2] = b
  <2>1. m = n
    BY <1>10 DEF m
  <2>2. Len(record) = Len(header)
    BY <1>3, <1>7
  <2>3. QED  BY <1>7, <1>8, <1>9, <2>1, <2>2
<1>12. QED  BY <1>11 DEF CellsUnderTheirHeader, m, head, v, Said, b

\* Every cell of an export stands under the label of its own field, although
\* RDW may have moved, added, dropped or renamed columns since the labels were
\* fetched (widen.rs, csv_parse.rs).
THEOREM CellsStayUnderTheirHeader == Spec => []CellsUnderTheirHeader
<1>1. ColumnsInv => CellsUnderTheirHeader
  <2> SUFFICES ASSUME ColumnsInv PROVE CellsUnderTheirHeader
    OBVIOUS
  <2>1. CASE pc = "row"
    BY <2>1, CellsWhenWidened DEF ColumnsInv
  <2>2. CASE pc # "row"
    BY <2>2 DEF ColumnsInv, RowFits, CellsUnderTheirHeader
  <2>3. QED  BY <2>1, <2>2
<1>2. QED  BY <1>1, InitFits, StepFits, PTL DEF Spec

(***************************************************************************)
(* The settings.                                                           *)
(***************************************************************************)

\* The greater of two numbers.
LEMMA MaxOfTwo ==
    ASSUME NEW a \in Int, NEW b \in Int
    PROVE  Max({a, b}) = IF a >= b THEN a ELSE b
<1> DEFINE m == IF a >= b THEN a ELSE b
<1>1. m \in {a, b} /\ \A y \in {a, b} : m >= y
  OBVIOUS
<1>2. \A x \in {a, b} : (\A y \in {a, b} : x >= y) => x = m
  OBVIOUS
<1> HIDE DEF m
<1>3. Max({a, b}) = m
  BY <1>1, <1>2 DEF Max
<1>4. QED  BY <1>3 DEF m

\* The lesser of two numbers.
LEMMA MinOfTwo ==
    ASSUME NEW a \in Int, NEW b \in Int
    PROVE  Min({a, b}) = IF a <= b THEN a ELSE b
<1> DEFINE m == IF a <= b THEN a ELSE b
<1>1. m \in {a, b} /\ \A y \in {a, b} : m <= y
  OBVIOUS
<1>2. \A x \in {a, b} : (\A y \in {a, b} : x <= y) => x = m
  OBVIOUS
<1> HIDE DEF m
<1>3. Min({a, b}) = m
  BY <1>1, <1>2 DEF Min
<1>4. QED  BY <1>3 DEF m

\* What is clamped lies between its bounds.
LEMMA ClampFits ==
    ASSUME NEW n \in Nat, NEW hi \in Nat, hi >= 1
    PROVE  Clamp(n, 1, hi) \in Nat /\ Clamp(n, 1, hi) >= 1 /\ Clamp(n, 1, hi) <= hi
<1>1. Min({n, hi}) = IF n <= hi THEN n ELSE hi
  BY MinOfTwo
<1> DEFINE m == Min({n, hi})
<1>2. m \in Nat /\ m <= hi
  BY <1>1
<1> HIDE DEF m
<1>3. Max({1, m}) = IF 1 >= m THEN 1 ELSE m
  BY <1>2, MaxOfTwo
<1>4. Clamp(n, 1, hi) = Max({1, m})
  BY DEF Clamp, m
<1>5. QED  BY <1>2, <1>3, <1>4

\* Whatever the environment says, and if nothing, every setting lets an export
\* make progress: at least one range, worker, batch and vehicle of a page, and
\* no page above RDW's limit (main.rs:43-72, pipeline.rs:291).
LEMMA ConfigIsUsable ==
    ASSUME NEW env
    PROVE  Usable(Config(env))
<1> DEFINE c == Config(env)
<1>1. /\ EnvUsize(env["FUEL_RANGE_COUNT"], 64) \in Nat
      /\ EnvUsize(env["FUEL_RANGE_WORKERS"], 16) \in Nat
      /\ EnvUsize(env["FUEL_RANGE_PAGE_SIZE"], 3000) \in Nat
      /\ EnvUsize(env["FUEL_CONCURRENCY"], 16) \in Nat
      /\ EnvUsize(env["FUEL_KENTEKEN_BATCH"], 800) \in Nat
  BY SMT DEF EnvUsize
<1>2. \A n \in Nat : AtLeastOne(n) \in Nat /\ AtLeastOne(n) >= 1
  <2> SUFFICES ASSUME NEW n \in Nat PROVE AtLeastOne(n) \in Nat /\ AtLeastOne(n) >= 1
    OBVIOUS
  <2>1. Max({n, 1}) = IF n >= 1 THEN n ELSE 1
    BY MaxOfTwo
  <2>2. QED  BY <2>1 DEF AtLeastOne
<1> DEFINE K == VEHICLE_PAGE_LIMIT
<1>3. K \in Nat /\ K >= 1
  BY SMT DEF VEHICLE_PAGE_LIMIT
<1> HIDE DEF K
<1>4. /\ c.rangeCount = AtLeastOne(EnvUsize(env["FUEL_RANGE_COUNT"], 64))
      /\ c.workerCount = EnvUsize(env["FUEL_RANGE_WORKERS"], 16)
      /\ c.pageSize = Clamp(EnvUsize(env["FUEL_RANGE_PAGE_SIZE"], 3000), 1, K)
      /\ c.fuelConcurrency = AtLeastOne(EnvUsize(env["FUEL_CONCURRENCY"], 16))
      /\ c.fuelKentekenBatch = AtLeastOne(EnvUsize(env["FUEL_KENTEKEN_BATCH"], 800))
  BY SMT DEF Config, K
<1> HIDE DEF c
<1>5. /\ c.rangeCount \in Nat /\ c.rangeCount >= 1
      /\ c.fuelConcurrency >= 1 /\ c.fuelKentekenBatch >= 1
  BY <1>1, <1>2, <1>4, SMT
<1>6. c.pageSize \in 1 .. K
  <2> DEFINE n == EnvUsize(env["FUEL_RANGE_PAGE_SIZE"], 3000)
  <2>1. n \in Nat
    BY <1>1, SMT
  <2>2. c.pageSize = Clamp(n, 1, K)
    BY <1>4, SMT
  <2> HIDE DEF n
  <2>3. QED  BY <1>3, <2>1, <2>2, ClampFits
<1>7. WorkersSpawned(c) \in 1 .. c.rangeCount
  <2> DEFINE n == c.workerCount  hi == AtLeastOne(c.rangeCount)
  <2>1. n \in Nat
    BY <1>1, <1>4, SMT
  <2>2. hi = c.rangeCount /\ hi \in Nat /\ hi >= 1
    <3>1. Max({c.rangeCount, 1}) = c.rangeCount
      BY <1>5, MaxOfTwo
    <3>2. QED  BY <1>5, <3>1 DEF AtLeastOne
  <2>3. WorkersSpawned(c) = Clamp(n, 1, hi)
    BY DEF WorkersSpawned
  <2> HIDE DEF n, hi
  <2>4. QED  BY <2>1, <2>2, <2>3, ClampFits
<1>8. QED  BY <1>5, <1>6, <1>7 DEF Usable, c, K

\* A server that serves has its settings, and they let an export make progress.
ServesUsable ==
    /\ pc # "configure" => config # {}
    /\ \A c \in config : Usable(c)

\* The part of StartsUsable that is not liveness: whatever its environment, a
\* server serves with settings under which an export makes progress, and does
\* not stop serving, whatever RDW answers (main.rs:43-76).
THEOREM StartIsUsable ==
    Spec => /\ []ServesUsable
            /\ [][(pc \in {"serving", "page", "row"}) =>
                    pc' \in {"serving", "page", "row"} /\ UNCHANGED <<config, metadata>>]_vars
<1>1. Init => ServesUsable
  BY DEF Init, ServesUsable
<1>2. ServesUsable /\ [Next]_vars => ServesUsable'
  <2> SUFFICES ASSUME ServesUsable, [Next]_vars PROVE ServesUsable'
    OBVIOUS
  <2>1. CASE Configure
    <3>1. PICK env \in Environments : config' = {Config(env)}
      BY <2>1 DEF Configure
    <3>2. Usable(Config(env))
      BY ConfigIsUsable
    <3> HIDE DEF ServesUsable
    <3>3. config' # {} /\ \A c \in config' : Usable(c)
      BY <3>1, <3>2
    <3>4. QED  BY <3>3 DEF ServesUsable
  <2>2. CASE ~ Configure
    <3>1. UNCHANGED config /\ (pc = "configure" => pc' = "configure")
      BY <2>2 DEF Next, Start, Export, Republish, LoadVehicleColumns, LoadFuelColumns,
                  BeginExport, FetchPage, EndExport, vars
    <3>2. \A c \in config : Usable(c)
      BY DEF ServesUsable
    <3>3. \A c \in config' : Usable(c)
      BY <3>1, <3>2
    <3>4. pc' # "configure" => config' # {}
      BY <3>1 DEF ServesUsable
    <3> HIDE DEF ServesUsable
    <3>5. QED  BY <3>3, <3>4 DEF ServesUsable
  <2>3. QED  BY <2>1, <2>2
<1>3. [Next]_vars =>
        (pc \in {"serving", "page", "row"} =>
           pc' \in {"serving", "page", "row"} /\ UNCHANGED <<config, metadata>>)
  BY DEF Next, Start, Export, Republish, Configure, LoadVehicleColumns, LoadFuelColumns,
         BeginExport, FetchPage, EndExport, vars
<1>4. QED  BY <1>1, <1>2, <1>3, PTL DEF Spec

===============================================================================
