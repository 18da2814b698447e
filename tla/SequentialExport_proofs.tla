---------------------- MODULE SequentialExport_proofs ----------------------
(***************************************************************************)
(* Proofs about SequentialExport for every set of plates, every limit and  *)
(* page size, and any number of changes of the dataset: a limited export   *)
(* holds the first vehicles there are, its summary counts the rows it      *)
(* marks, and every step brings it nearer to its end.                      *)
(***************************************************************************)
EXTENDS SequentialExport, TLAPS, FiniteSetTheorems, SequenceTheorems, WellFoundedInduction

(***************************************************************************)
(* The pages RDW answers.                                                  *)
(***************************************************************************)

\* A non-empty set of natural numbers has a least element.
LEMMA LeastElement ==
    ASSUME NEW S, S \subseteq Nat, S # {}
    PROVE  \E x \in S : \A y \in S : x <= y
<1>1. PICK x \in S : \A y \in S : ~ (<<y, x>> \in OpToRel(<, Nat))
  BY NatLessThanWellFounded, WFMin
<1>2. \A y \in S : ~ (y < x)
  BY <1>1 DEF OpToRel
<1>3. QED  BY <1>2

\* A page ascends behind the cursor, is no longer than asked for, and a vehicle
\* behind the cursor that is not in it comes after a full page
\* ($where, $order and $limit of vehicle_page_url).
LEMMA PageIs ==
    ASSUME dataset \subseteq Plates, NEW after \in Int, NEW n \in Nat \ {0},
           NEW s \in Pages(after, n)
    PROVE  /\ s \in Seq(Plates) /\ Ascending(s) /\ Len(s) <= n
           /\ \A i \in DOMAIN s : s[i] > after
           /\ \A p \in dataset : p > after =>
                \/ \E i \in DOMAIN s : s[i] = p
                \/ Len(s) = n /\ \A i \in DOMAIN s : s[i] < p
<1> DEFINE L == {p \in dataset : p > after}
           G == FirstAfter(after, n)
           Below(p) == {q \in L : q < p}
<1>1. G = {p \in L : Cardinality(Below(p)) < n}
  BY DEF FirstAfter
<1>2. L \subseteq Nat /\ IsFiniteSet(L) /\ L \subseteq Plates
  <2>1. Plates \subseteq Nat /\ IsFiniteSet(Plates) /\ L \in SUBSET Plates
    BY SequentialExportAssumption
  <2> HIDE DEF L
  <2>2. IsFiniteSet(L)
    BY <2>1, FS_Subset
  <2>3. QED  BY <2>1, <2>2
<1>3. G \subseteq L
  BY <1>1
<1>4. ASSUME NEW p \in L
      PROVE  IsFiniteSet(Below(p)) /\ Cardinality(Below(p)) \in Nat
  <2>1. Below(p) \in SUBSET L
    OBVIOUS
  <2> HIDE DEF L, Below
  <2>2. QED  BY <1>2, <2>1, FS_Subset, FS_CardinalityType
<1>5. IsFiniteSet(G) /\ Cardinality(G) \in Nat
  <2> HIDE DEF L, G
  <2>1. QED  BY <1>2, <1>3, FS_Subset, FS_CardinalityType
<1>6. ASSUME NEW p \in L, NEW q \in L, q < p
      PROVE  Cardinality(Below(q)) <= Cardinality(Below(p))
  <2>1. q \in Nat /\ p \in Nat /\ \A r \in L : r \in Nat
    BY <1>2
  <2>2. \A r \in L : r < q => r < p
    BY <1>6, <2>1
  <2>3. Below(q) \in SUBSET Below(p)
    BY <2>2
  <2>4. IsFiniteSet(Below(p))
    BY <1>4
  <2> HIDE DEF L, Below
  <2>5. QED  BY <2>3, <2>4, FS_Subset
<1>7. ASSUME NEW p \in L \ G
      PROVE  \A q \in G : q < p
  <2> SUFFICES ASSUME NEW q \in G, ~ (q < p) PROVE FALSE
    OBVIOUS
  <2>1. p \in Nat /\ q \in Nat /\ q \in L
    BY <1>2, <1>3
  <2>2. p < q
    BY <2>1, <1>7
  <2>3. Cardinality(Below(p)) <= Cardinality(Below(q))
    BY <2>1, <2>2, <1>6
  <2>4. Cardinality(Below(q)) < n
    BY <1>1
  <2>5. Cardinality(Below(p)) < n
    <3>1. Cardinality(Below(p)) \in Nat /\ Cardinality(Below(q)) \in Nat
      BY <1>4, <2>1
    <3> HIDE DEF Below, L, G
    <3>2. QED  BY <3>1, <2>3, <2>4
  <2>6. QED  BY <1>1, <1>7, <2>5
<1>8. ASSUME NEW p \in L \ G
      PROVE  ~ (Cardinality(G) < n)
  <2>1. PICK x \in L \ G : \A y \in L \ G : x <= y
    <3>1. L \ G \subseteq Nat /\ L \ G # {}
      BY <1>2, <1>8
    <3> HIDE DEF L, G
    <3>2. QED  BY <3>1, LeastElement
  <2>2. Below(x) \in SUBSET G
    BY <1>2, <2>1
  <2>3. Cardinality(Below(x)) <= Cardinality(G) /\ Cardinality(Below(x)) \in Nat
    <3>1. Cardinality(Below(x)) \in Nat
      BY <1>4
    <3> HIDE DEF Below, L, G
    <3>2. QED  BY <1>5, <2>2, <3>1, FS_Subset
  <2>4. ~ (Cardinality(Below(x)) < n)
    BY <1>1
  <2> HIDE DEF Below, L, G
  <2>5. QED  BY <1>5, <2>3, <2>4
<1>9. s \in [1 .. Cardinality(G) -> G] /\ ToSet(s) = G /\ Ascending(s)
  BY DEF Pages
<1>10. s \in Seq(Plates) /\ Len(s) = Cardinality(G) /\ DOMAIN s = 1 .. Len(s)
  <2>1. G \subseteq Plates
    BY <1>2, <1>3
  <2> HIDE DEF G, L
  <2>2. QED  BY <1>5, <1>9, <2>1
<1>11. \A i \in DOMAIN s : s[i] \in G
  <2> HIDE DEF G
  <2>1. QED  BY <1>9
<1>12. \A p \in G : \E i \in DOMAIN s : s[i] = p
  <2> HIDE DEF G
  <2>1. QED  BY <1>9 DEF ToSet
<1>13. Len(s) <= n
  <2> DEFINE last == s[Len(s)]
  <2> SUFFICES ASSUME Len(s) # 0 PROVE Len(s) <= n
    BY <1>5, <1>10
  <2>1. Len(s) \in DOMAIN s /\ last \in G
    <3>1. Len(s) \in Nat /\ Len(s) \in DOMAIN s
      BY <1>5, <1>10
    <3> HIDE DEF G
    <3>2. QED  BY <3>1, <1>11
  <2>2. \A p \in G : p # last => p < last
    <3> SUFFICES ASSUME NEW p \in G, p # last PROVE p < last
      OBVIOUS
    <3>1. PICK i \in DOMAIN s : s[i] = p
      BY <1>12
    <3>2. i < Len(s)
      BY <1>5, <1>10, <3>1
    <3>3. QED  BY <1>9, <2>1, <3>1, <3>2 DEF Ascending
  <2> HIDE DEF last
  <2>3. G \ {last} \in SUBSET Below(last)
    BY <1>3, <2>2
  <2>4. IsFiniteSet(G \ {last}) /\ Cardinality(G \ {last}) = Cardinality(G) - 1
    <3> HIDE DEF G
    <3>1. QED  BY <1>5, <2>1, FS_RemoveElement
  <2>5. Cardinality(G \ {last}) <= Cardinality(Below(last))
    <3>1. IsFiniteSet(Below(last))
      BY <1>3, <1>4, <2>1
    <3> HIDE DEF G, Below
    <3>2. QED  BY <2>3, <3>1, FS_Subset
  <2>6. Cardinality(Below(last)) < n /\ Cardinality(Below(last)) \in Nat
    BY <1>1, <1>4, <2>1
  <2> HIDE DEF G, Below
  <2>7. QED  BY <1>5, <1>10, <2>4, <2>5, <2>6
<1>14. \A i \in DOMAIN s : s[i] > after
  BY <1>3, <1>11
<1>15. ASSUME NEW p \in dataset, p > after
       PROVE  \/ \E i \in DOMAIN s : s[i] = p
              \/ Len(s) = n /\ \A i \in DOMAIN s : s[i] < p
  <2>1. CASE p \in G
    BY <1>12, <2>1
  <2>2. CASE p \notin G
    <3>1. p \in L \ G
      BY <1>15, <2>2
    <3>2. ~ (Cardinality(G) < n)
      BY <1>8, <3>1
    <3>3. \A i \in DOMAIN s : s[i] < p
      BY <1>7, <1>11, <3>1
    <3> HIDE DEF G
    <3>4. QED  BY <1>5, <1>10, <1>13, <3>2, <3>3
  <2>3. QED  BY <2>1, <2>2
<1>16. QED  BY <1>9, <1>10, <1>13, <1>14, <1>15

(***************************************************************************)
(* The rows are the first vehicles.                                        *)
(***************************************************************************)

Statuses == {"fuel_unavailable", "fetched"}
InHand == {"fuel", "join", "stage"}

ExportTypes ==
    /\ dataset \subseteq Plates /\ lasting \subseteq dataset
    /\ limit \in Nat /\ cursor \in Int /\ asked \in Nat
    /\ page \in Seq(Plates)
    /\ fuelFailed \in BOOLEAN
    /\ summary \in [attempted : Nat, failures : Nat, affected : Nat]
    /\ rows \in Seq([plate : Plates, status : Statuses])
    /\ result # "none" => pc = "done"

\* The rows ascend up to the cursor, and no vehicle that RDW had throughout is
\* missing among them.
RowsBehind ==
    /\ Len(rows) <= limit
    /\ \A i, j \in DOMAIN rows : i < j => PlateAt(i) < PlateAt(j)
    /\ \A i \in DOMAIN rows : PlateAt(i) <= cursor
    /\ \A p \in lasting : p <= cursor => \E i \in DOMAIN rows : PlateAt(i) = p

\* The page in hand follows on, and fits into what the limit leaves.
PageFollows ==
    pc \in InHand =>
        /\ page # <<>> /\ Ascending(page) /\ \A i \in DOMAIN page : page[i] > cursor
        /\ Len(page) <= asked /\ asked <= Remaining
        /\ \A p \in lasting : p > cursor =>
             \/ \E i \in DOMAIN page : page[i] = p
             \/ Len(page) = asked /\ \A i \in DOMAIN page : page[i] < p

Complete ==
    \A p \in lasting :
       \/ \E i \in DOMAIN rows : PlateAt(i) = p
       \/ Len(rows) = limit /\ \A i \in DOMAIN rows : PlateAt(i) < p

FirstRows == ExportTypes /\ RowsBehind /\ PageFollows /\ (result = "Ok" => Complete)

(***************************************************************************)
(* The summary counts what the rows say.                                   *)
(***************************************************************************)

Unavailable == {i \in DOMAIN rows : rows[i].status = "fuel_unavailable"}

\* The vehicles that are counted and whose rows will be marked.
Owed == IF pc \in {"join", "stage"} /\ fuelFailed THEN Len(page) ELSE 0

SummaryCounts ==
    /\ pc # "done" \/ result = "Ok" => summary.affected = Cardinality(Unavailable) + Owed
    /\ pc \in {"page", "fuel", "stage"} \/ result = "Ok" =>
         ~ ShouldAbort(summary.failures, summary.attempted)

\* The smaller of two numbers.
LEMMA MinOfTwo ==
    ASSUME NEW a \in Int, NEW b \in Int
    PROVE  Min({a, b}) = IF a <= b THEN a ELSE b
<1>1. CASE a <= b
  <2>1. a \in {a, b} /\ \A y \in {a, b} : a <= y
    BY <1>1
  <2>2. \A x \in {a, b} : (\A y \in {a, b} : x <= y) => x = a
    BY <1>1
  <2>3. QED  BY <1>1, <2>1, <2>2 DEF Min
<1>2. CASE ~ (a <= b)
  <2>1. b \in {a, b} /\ \A y \in {a, b} : b <= y
    BY <1>2
  <2>2. \A x \in {a, b} : (\A y \in {a, b} : x <= y) => x = b
    BY <1>2
  <2>3. QED  BY <1>2, <2>1, <2>2 DEF Min
<1>3. QED  BY <1>1, <1>2

\* The size of a page that is asked for (pipeline.rs:130-139).
LEMMA PageSizeIs ==
    ASSUME Remaining \in Nat, Remaining > 0
    PROVE  PageSize \in Nat \ {0} /\ PageSize <= Remaining
<1>1. VEHICLE_PAGE_LIMIT \in Nat \ {0}
  BY SequentialExportAssumption
<1>2. PageSize = IF Remaining <= VEHICLE_PAGE_LIMIT THEN Remaining ELSE VEHICLE_PAGE_LIMIT
  BY <1>1, MinOfTwo DEF PageSize
<1>3. QED  BY <1>1, <1>2

\* A page that fits into the limit is staged whole.
LEMMA StagedWhole ==
    ASSUME ExportTypes, PageFollows, pc = "stage",
           rows' = rows \o SubSeq(RowsOfPage, 1, Min({Remaining, Len(page)}))
    PROVE  /\ rows' \in Seq([plate : Plates, status : Statuses])
           /\ Len(rows') = Len(rows) + Len(page)
           /\ \A i \in 1 .. Len(rows) : rows'[i] = rows[i]
           /\ \A i \in 1 .. Len(page) : rows'[Len(rows) + i] =
                [plate |-> page[i],
                 status |-> IF fuelFailed THEN "fuel_unavailable" ELSE "fetched"]
<1> DEFINE new == RowsOfPage  status == IF fuelFailed THEN "fuel_unavailable" ELSE "fetched"
           Row == [plate : Plates, status : Statuses]
<1>1. /\ page \in Seq(Plates) /\ Len(page) \in Nat /\ DOMAIN page = 1 .. Len(page)
      /\ rows \in Seq(Row) /\ limit \in Nat
  BY DEF ExportTypes
<1>2. status \in Statuses
  BY DEF Statuses
<1>3. new = [i \in 1 .. Len(page) |-> [plate |-> page[i], status |-> status]]
  BY <1>1 DEF RowsOfPage
<1> HIDE DEF status, new
<1>4. new \in Seq(Row) /\ Len(new) = Len(page)
  <2>1. \A i \in 1 .. Len(page) : page[i] \in Plates
    BY <1>1
  <2>2. \A i \in 1 .. Len(page) : [plate |-> page[i], status |-> status] \in Row
    BY <1>2, <2>1
  <2>3. new = [i \in 1 .. Len(page) |-> [plate |-> page[i], status |-> status]]
    BY <1>1, <1>3
  <2> HIDE DEF Row
  <2>4. new \in [1 .. Len(page) -> Row]
    BY <2>2, <2>3
  <2>5. Len(page) \in Nat
    BY <1>1
  <2>6. QED  BY <2>4, <2>5
<1>5. Min({Remaining, Len(page)}) = Len(page)
  <2>1. Len(page) <= asked /\ asked <= Remaining /\ asked \in Nat
    BY DEF PageFollows, InHand, ExportTypes
  <2>2. Len(page) \in Int /\ Remaining \in Int
    <3>1. Len(rows) \in Nat /\ limit \in Nat /\ Len(page) \in Nat
      BY <1>1
    <3>2. QED  BY <3>1 DEF Remaining
  <2> DEFINE b == Len(page)  r == Remaining
  <2>3. b <= r
    <3> HIDE DEF b, r
    <3>1. QED  BY <2>1, <2>2 DEF b, r
  <2> HIDE DEF b, r
  <2>4. Min({r, b}) = b
    <3>1. b \in Int /\ r \in Int
      BY <2>2 DEF b, r
    <3>2. QED  BY <2>3, <3>1, MinOfTwo
  <2>5. QED  BY <2>4 DEF b, r
<1> HIDE DEF Row
<1>6. SubSeq(new, 1, Len(page)) = new
  <2>1. SubSeq(new, 1, Len(page)) \in Seq(Row) /\ Len(SubSeq(new, 1, Len(page))) = Len(new)
    BY <1>1, <1>4
  <2>2. \A i \in 1 .. Len(new) : SubSeq(new, 1, Len(page))[i] = new[i]
    BY <1>1, <1>4
  <2>3. QED  BY <1>4, <2>1, <2>2, SeqEqual
<1>7. rows' = rows \o new
  BY <1>5, <1>6 DEF new
<1>a. rows \in Seq(Row) /\ new \in Seq(Row) /\ Len(new) = Len(page)
  BY <1>1, <1>4
<1>b. /\ rows \o new \in Seq(Row)
      /\ Len(rows \o new) = Len(rows) + Len(new)
      /\ \A i \in 1 .. Len(rows) + Len(new) :
           (rows \o new)[i] = IF i <= Len(rows) THEN rows[i] ELSE new[i - Len(rows)]
  BY <1>a, ConcatProperties
<1>8. rows' \in Seq(Row) /\ Len(rows') = Len(rows) + Len(page)
  BY <1>a, <1>b, <1>7
<1>9. \A i \in 1 .. Len(rows) + Len(new) :
         rows'[i] = IF i <= Len(rows) THEN rows[i] ELSE new[i - Len(rows)]
  BY <1>b, <1>7
<1>c. Len(rows) \in Nat /\ Len(new) \in Nat
  BY <1>a
<1>10. \A i \in 1 .. Len(rows) : rows'[i] = rows[i]
  BY <1>9, <1>c
<1>11. ASSUME NEW i \in 1 .. Len(page)
       PROVE  rows'[Len(rows) + i] = [plate |-> page[i], status |-> status]
  <2>1. Len(rows) + i \in 1 .. Len(rows) + Len(new) /\ ~ (Len(rows) + i <= Len(rows))
        /\ (Len(rows) + i) - Len(rows) = i
    BY <1>a, <1>c
  <2>2. rows'[Len(rows) + i] = new[i]
    BY <1>9, <2>1
  <2>3. QED  BY <1>3, <2>2
<1>12. QED  BY <1>8, <1>10, <1>11 DEF Row, status

\* A page behind the rows keeps them ascending and complete
\* (pipeline.rs:191-220).
LEMMA StageKeepsRows ==
    ASSUME FirstRows, Stage
    PROVE  FirstRows'
<1>1. /\ pc = "stage" /\ result = "none"
      /\ UNCHANGED <<dataset, lasting, limit, asked, page, fuelFailed, summary>>
  BY DEF Stage, rdwVars, FirstRows, ExportTypes
<1>2. CASE Return("Assembly") /\ UNCHANGED <<rows, cursor>>
  BY <1>1, <1>2 DEF Return, FirstRows, ExportTypes, RowsBehind, PageFollows, InHand, PlateAt
<1>3. CASE /\ rows' = rows \o SubSeq(RowsOfPage, 1, Min({Remaining, Len(page)}))
           /\ cursor' = Last(page)
           /\ AfterPage(asked)
  <2> DEFINE n == Len(rows)  k == Len(page)
  <2>1. /\ rows' \in Seq([plate : Plates, status : Statuses])
        /\ Len(rows') = n + k
        /\ \A i \in 1 .. n : rows'[i] = rows[i]
        /\ \A i \in 1 .. k : rows'[n + i].plate = page[i]
    <3>1. ExportTypes /\ PageFollows
      BY DEF FirstRows
    <3>2. \A i \in 1 .. k : rows'[n + i] =
            [plate |-> page[i], status |-> IF fuelFailed THEN "fuel_unavailable" ELSE "fetched"]
      BY <1>1, <1>3, <3>1, StagedWhole
    <3>3. \A i \in 1 .. k : rows'[n + i].plate = page[i]
      <4> SUFFICES ASSUME NEW i \in 1 .. k PROVE rows'[n + i].plate = page[i]
        OBVIOUS
      <4> DEFINE row == [plate |-> page[i],
                         status |-> IF fuelFailed THEN "fuel_unavailable" ELSE "fetched"]
      <4>1. row.plate = page[i]
        OBVIOUS
      <4>2. rows'[n + i] = row
        BY <3>2
      <4> HIDE DEF row
      <4>3. QED  BY <4>1, <4>2
    <3> HIDE DEF n, k
    <3>4. QED  BY <1>1, <1>3, <3>1, <3>3, StagedWhole DEF n, k
  <2>2. /\ n \in Nat /\ k \in Nat \ {0} /\ limit \in Nat /\ asked \in Nat /\ cursor \in Int
        /\ DOMAIN rows = 1 .. n /\ DOMAIN page = 1 .. k /\ DOMAIN rows' = 1 .. n + k
        /\ \A i \in 1 .. n : rows[i].plate \in Nat
        /\ \A i \in 1 .. k : page[i] \in Nat
    <3>1. Plates \subseteq Nat
      BY SequentialExportAssumption
    <3>2. page \in Seq(Plates) /\ rows \in Seq([plate : Plates, status : Statuses])
          /\ limit \in Nat /\ asked \in Nat /\ cursor \in Int
      BY DEF FirstRows, ExportTypes
    <3>3. page # <<>>
      BY <1>1 DEF FirstRows, PageFollows, InHand
    <3>4. n \in Nat /\ k \in Nat \ {0} /\ DOMAIN rows = 1 .. n /\ DOMAIN page = 1 .. k
      BY <3>2, <3>3
    <3>5. DOMAIN rows' = 1 .. n + k
      BY <2>1, <3>4
    <3>6. \A i \in 1 .. n : rows[i].plate \in Plates
      <4> DEFINE Row == [plate : Plates, status : Statuses]
      <4>1. \A i \in 1 .. n : rows[i] \in Row
        <5> HIDE DEF Row
        <5>1. rows \in Seq(Row)
          BY <3>2 DEF Row
        <5>2. QED  BY <5>1
      <4>2. QED  BY <4>1
    <3>7. \A i \in 1 .. k : page[i] \in Plates
      BY <3>2
    <3>8. QED  BY <3>1, <3>2, <3>4, <3>5, <3>6, <3>7
  <2>k. n \in Nat /\ k \in Nat /\ k > 0
    BY <2>2
  <2>3. /\ \A i, j \in 1 .. k : i < j => page[i] < page[j]
        /\ \A i \in 1 .. k : page[i] > cursor
        /\ k <= asked /\ asked <= limit - n
    BY <1>1, <2>2 DEF FirstRows, PageFollows, InHand, Ascending, Remaining
  <2>4. \A i \in 1 .. n : PlateAt(i)' = PlateAt(i) /\ PlateAt(i) <= cursor /\ PlateAt(i) \in Nat
    BY <2>1, <2>2 DEF PlateAt, FirstRows, RowsBehind
  <2>5. \A i \in 1 .. k, j \in 1 .. n + k : j = n + i => PlateAt(j)' = page[i]
    <3> SUFFICES ASSUME NEW i \in 1 .. k, NEW j \in 1 .. n + k, j = n + i
                 PROVE  PlateAt(j)' = page[i]
      OBVIOUS
    <3>1. rows'[j].plate = page[i]
      <4> HIDE DEF n, k
      <4>1. QED  BY <2>1
    <3>2. QED  BY <3>1 DEF PlateAt
  <2>6. \A i \in 1 .. n + k : i \in 1 .. n \/ \E j \in 1 .. k : i = n + j
    <3> SUFFICES ASSUME NEW i \in 1 .. n + k, i \notin 1 .. n PROVE \E j \in 1 .. k : i = n + j
      OBVIOUS
    <3> HIDE DEF n, k
    <3>1. i - n \in 1 .. k /\ i = n + (i - n)
      BY <2>2
    <3>2. QED  BY <3>1
  <2>7. cursor' = page[k] /\ cursor' \in Int /\ \A i \in 1 .. k : page[i] <= cursor'
    <3>1. cursor' = page[k]
      BY <1>3 DEF Last
    <3> HIDE DEF n, k
    <3>2. k \in 1 .. k /\ \A i \in 1 .. k : i = k \/ i < k
      BY <2>k
    <3>3. \A i \in 1 .. k : page[i] \in Nat
      BY <2>2
    <3>4. \A i \in 1 .. k : i < k => page[i] < page[k]
      BY <2>3, <3>2
    <3>5. QED  BY <3>1, <3>2, <3>3, <3>4
  <2>8. cursor < cursor'
    <3> HIDE DEF n, k
    <3>1. k \in 1 .. k
      BY <2>k
    <3>2. QED  BY <2>3, <2>7, <3>1
  <2> HIDE DEF n, k
  <2>9. ExportTypes'
    <3>1. result' # "none" => pc' = "done"
      BY <1>1, <1>3 DEF AfterPage, Return
    <3>2. QED  BY <1>1, <2>1, <2>7, <3>1 DEF FirstRows, ExportTypes
  <2>10. \A i, j \in 1 .. n + k : i < j => PlateAt(i)' < PlateAt(j)'
    <3> SUFFICES ASSUME NEW i \in 1 .. n + k, NEW j \in 1 .. n + k, i < j
                 PROVE  PlateAt(i)' < PlateAt(j)'
      OBVIOUS
    <3>1. CASE i \in 1 .. n /\ j \in 1 .. n
      <4>1. PlateAt(i) < PlateAt(j)
        BY <2>2, <3>1 DEF FirstRows, RowsBehind
      <4>2. QED  BY <2>4, <3>1, <4>1
    <3>2. CASE i \in 1 .. n /\ j \notin 1 .. n
      <4>1. PICK b \in 1 .. k : j = n + b
        BY <2>6, <3>2
      <4>2. PlateAt(j)' = page[b]
        BY <2>5, <4>1
      <4>3. page[b] > cursor /\ page[b] \in Nat
        BY <2>2, <2>3
      <4>4. PlateAt(i)' <= cursor /\ PlateAt(i)' \in Nat
        BY <2>4, <3>2
      <4>5. cursor \in Int
        BY <2>2
      <4>6. QED  BY <4>2, <4>3, <4>4, <4>5
    <3>3. CASE i \notin 1 .. n /\ j \notin 1 .. n
      <4>1. PICK a \in 1 .. k : i = n + a
        BY <2>6, <3>3
      <4>2. PICK b \in 1 .. k : j = n + b
        BY <2>6, <3>3
      <4>3. a < b
        BY <2>k, <4>1, <4>2
      <4>4. page[a] < page[b]
        BY <2>3, <4>3
      <4>5. PlateAt(i)' = page[a] /\ PlateAt(j)' = page[b]
        BY <2>5, <4>1, <4>2
      <4>6. QED  BY <4>4, <4>5
    <3>4. CASE i \notin 1 .. n /\ j \in 1 .. n
      BY <2>k, <3>4
    <3>5. QED  BY <3>1, <3>2, <3>3, <3>4
  <2>11. \A i \in 1 .. n + k : PlateAt(i)' <= cursor'
    <3> SUFFICES ASSUME NEW i \in 1 .. n + k PROVE PlateAt(i)' <= cursor'
      OBVIOUS
    <3>1. CASE i \in 1 .. n
      <4>1. PlateAt(i)' <= cursor /\ PlateAt(i)' \in Nat
        BY <2>4, <3>1
      <4>2. cursor \in Int /\ cursor' \in Int
        BY <2>2, <2>7
      <4>3. QED  BY <2>8, <4>1, <4>2
    <3>2. CASE i \notin 1 .. n
      <4>1. PICK b \in 1 .. k : i = n + b
        BY <2>6, <3>2
      <4>2. PlateAt(i)' = page[b]
        BY <2>5, <4>1
      <4>3. QED  BY <2>7, <4>2
    <3>3. QED  BY <3>1, <3>2
  <2>12. ASSUME NEW p \in lasting
         PROVE  \/ \E i \in 1 .. n + k : PlateAt(i)' = p
                \/ k = asked /\ p > cursor' /\ \A i \in 1 .. n + k : PlateAt(i)' < p
    <3>0. p \in Nat
      BY SequentialExportAssumption DEF FirstRows, ExportTypes
    <3>1. CASE p <= cursor
      <4>1. PICK i \in 1 .. n : PlateAt(i) = p
        BY <2>2, <3>1 DEF FirstRows, RowsBehind
      <4>2. i \in 1 .. n + k
        BY <2>k
      <4>3. QED  BY <2>4, <4>1, <4>2
    <3>2. CASE p > cursor
      <4>1. \/ \E i \in 1 .. k : page[i] = p
            \/ k = asked /\ \A i \in 1 .. k : page[i] < p
        BY <1>1, <2>2, <3>2 DEF FirstRows, PageFollows, InHand, k
      <4>2. CASE \E i \in 1 .. k : page[i] = p
        <5>1. PICK i \in 1 .. k : page[i] = p
          BY <4>2
        <5>2. n + i \in 1 .. n + k
          BY <2>k
        <5>3. PICK j \in 1 .. n + k : j = n + i
          BY <5>2
        <5>4. PlateAt(j)' = page[i]
          BY <2>5, <5>3
        <5>5. QED  BY <5>1, <5>4
      <4>3. CASE k = asked /\ \A i \in 1 .. k : page[i] < p
        <5>1. p > cursor'
          <6>1. k \in 1 .. k
            BY <2>k
          <6>2. QED  BY <2>7, <4>3, <6>1
        <5>2. \A i \in 1 .. n + k : PlateAt(i)' \in Nat
          <6> SUFFICES ASSUME NEW i \in 1 .. n + k PROVE PlateAt(i)' \in Nat
            OBVIOUS
          <6>1. CASE i \in 1 .. n
            BY <2>4, <6>1
          <6>2. CASE i \notin 1 .. n
            <7>1. PICK b \in 1 .. k : i = n + b
              BY <2>6, <6>2
            <7>2. PlateAt(i)' = page[b]
              BY <2>5, <7>1
            <7>3. QED  BY <2>2, <7>2
          <6>3. QED  BY <6>1, <6>2
        <5>3. cursor' \in Int
          BY <2>7
        <5>4. QED  BY <2>11, <3>0, <4>3, <5>1, <5>2, <5>3
      <4>4. QED  BY <4>1, <4>2, <4>3
    <3>3. QED  BY <2>2, <3>0, <3>1, <3>2
  <2>13. RowsBehind'
    <3>1. Len(rows') <= limit'
      BY <1>1, <2>1, <2>2, <2>3
    <3>2. \A p \in lasting' : p <= cursor' => \E i \in 1 .. n + k : PlateAt(i)' = p
      <4> SUFFICES ASSUME NEW p \in lasting, p <= cursor'
                   PROVE  \E i \in 1 .. n + k : PlateAt(i)' = p
        BY <1>1
      <4>1. p \in Nat
        BY SequentialExportAssumption DEF FirstRows, ExportTypes
      <4>2. QED  BY <2>7, <2>12, <4>1
    <3>3. QED  BY <2>2, <2>10, <2>11, <3>1, <3>2 DEF RowsBehind
  <2>14. PageFollows'
    BY <1>3 DEF AfterPage, Return, PageFollows, InHand
  <2>15. result' = "Ok" => Complete'
    <3> SUFFICES ASSUME result' = "Ok", NEW p \in lasting
                 PROVE  \/ \E i \in 1 .. n + k : PlateAt(i)' = p
                        \/ Len(rows') = limit /\ \A i \in 1 .. n + k : PlateAt(i)' < p
      BY <1>1, <2>2 DEF Complete
    <3>1. k < asked \/ n + k >= limit
      BY <1>1, <1>3, <2>1 DEF AfterPage, k
    <3>2. n + k <= limit
      BY <2>2, <2>3
    <3>3. QED  BY <2>1, <2>2, <2>12, <3>1, <3>2
  <2>16. QED  BY <2>9, <2>13, <2>14, <2>15 DEF FirstRows
<1>4. QED  BY <1>2, <1>3 DEF Stage

\* A page that is asked for follows on the rows, and the export may end when
\* nothing is left of the limit or of the vehicles (pipeline.rs:119-165).
LEMMA FetchPageKeepsRows ==
    ASSUME FirstRows, FetchPage
    PROVE  FirstRows'
<1>1. /\ pc = "page" /\ result = "none"
      /\ UNCHANGED <<dataset, lasting, limit, cursor, fuelFailed, summary, rows>>
  BY DEF FetchPage, rdwVars, FirstRows, ExportTypes
<1>2. Len(rows) \in Nat /\ limit \in Nat /\ cursor \in Int /\ Len(rows) <= limit
      /\ asked \in Nat /\ dataset \subseteq Plates /\ lasting \subseteq dataset
      /\ page \in Seq(Plates) /\ Plates \subseteq Nat
  BY SequentialExportAssumption DEF FirstRows, ExportTypes, RowsBehind
<1>3. Remaining \in Nat /\ (Remaining = 0 => Len(rows) = limit)
  BY <1>2 DEF Remaining
<1>4. \A i \in DOMAIN rows : PlateAt(i) <= cursor /\ PlateAt(i) \in Nat
  <2> DEFINE Row == [plate : Plates, status : Statuses]
  <2>1. \A i \in DOMAIN rows : rows[i] \in Row
    <3> HIDE DEF Row
    <3>1. rows \in Seq(Row)
      BY DEF FirstRows, ExportTypes, Row
    <3>2. QED  BY <3>1
  <2>2. \A i \in DOMAIN rows : rows[i].plate \in Nat
    BY <1>2, <2>1
  <2>3. QED  BY <2>2 DEF PlateAt, FirstRows, RowsBehind
<1>5. ExportTypes' /\ RowsBehind' /\ (result' = "Ok" => Complete') /\ PageFollows' =>
        FirstRows'
  BY DEF FirstRows
<1>6. RowsBehind'
  BY <1>1 DEF FirstRows, RowsBehind, PlateAt
<1>7. \A p \in lasting : p <= cursor => \E i \in DOMAIN rows : PlateAt(i) = p
  BY DEF FirstRows, RowsBehind
<1>8. CASE Remaining = 0 /\ Return("Ok") /\ UNCHANGED <<asked, page>>
  <2>1. ExportTypes' /\ PageFollows'
    BY <1>1, <1>8 DEF Return, PageFollows, InHand, FirstRows, ExportTypes
  <2>2. ASSUME NEW p \in lasting
        PROVE  \/ \E i \in DOMAIN rows : PlateAt(i) = p
               \/ Len(rows) = limit /\ \A i \in DOMAIN rows : PlateAt(i) < p
    <3>1. p \in Nat
      BY <1>2
    <3>2. CASE p <= cursor
      BY <1>7, <3>2
    <3>3. CASE p > cursor
      <4>1. \A i \in DOMAIN rows : PlateAt(i) < p
        BY <1>2, <1>4, <3>1, <3>3
      <4>2. QED  BY <1>3, <1>8, <4>1
    <3>4. QED  BY <1>2, <3>1, <3>2, <3>3
  <2>3. Complete'
    BY <1>1, <2>2 DEF Complete, PlateAt
  <2>4. QED  BY <1>5, <1>6, <2>1, <2>3
<1>9. CASE /\ Remaining > 0 /\ asked' = PageSize /\ page' \in Pages(cursor, PageSize)
           /\ IF page' = <<>> THEN Return("Ok") ELSE pc' = "fuel" /\ UNCHANGED result
  <2> DEFINE n == PageSize
  <2>1. n \in Nat \ {0} /\ n <= Remaining
    BY <1>3, <1>9, PageSizeIs
  <2>2. PICK s \in Pages(cursor, n) : s = page'
    BY <1>9
  <2>3. asked' = n
    BY <1>9
  <2> HIDE DEF n
  <2>4. /\ s \in Seq(Plates) /\ Ascending(s) /\ Len(s) <= n
        /\ \A i \in DOMAIN s : s[i] > cursor
        /\ \A p \in dataset : p > cursor =>
             \/ \E i \in DOMAIN s : s[i] = p
             \/ Len(s) = n /\ \A i \in DOMAIN s : s[i] < p
    BY <1>2, <2>1, PageIs
  <2>5. ExportTypes'
    <3>1. page' \in Seq(Plates) /\ asked' \in Nat
      BY <2>1, <2>2, <2>3, <2>4
    <3>2. result' # "none" => pc' = "done"
      BY <1>1, <1>9 DEF Return
    <3>3. QED  BY <1>1, <3>1, <3>2 DEF FirstRows, ExportTypes
  <2>6. PageFollows'
    <3> SUFFICES ASSUME pc' \in InHand PROVE PageFollows'
      BY DEF PageFollows
    <3>1. page' # <<>>
      BY <1>9 DEF Return, InHand
    <3>2. Ascending(page)' /\ \A i \in DOMAIN page' : page'[i] > cursor'
      BY <1>1, <2>2, <2>4 DEF Ascending
    <3>3. Len(page') <= asked' /\ asked' <= Remaining'
      BY <1>1, <2>1, <2>2, <2>3, <2>4 DEF Remaining
    <3>4. \A p \in lasting' : p > cursor' =>
             \/ \E i \in DOMAIN page' : page'[i] = p
             \/ Len(page') = asked' /\ \A i \in DOMAIN page' : page'[i] < p
      <4>1. \A p \in lasting : p \in dataset
        BY <1>2
      <4>2. QED  BY <1>1, <2>2, <2>3, <2>4, <4>1
    <3>5. QED  BY <3>1, <3>2, <3>3, <3>4 DEF PageFollows
  <2>7. result' = "Ok" => Complete'
    <3> SUFFICES ASSUME result' = "Ok", NEW p \in lasting
                 PROVE  \E i \in DOMAIN rows : PlateAt(i) = p
      BY <1>1 DEF Complete, PlateAt
    <3>1. s = <<>>
      BY <1>1, <1>9, <2>2
    <3>2. Len(s) = 0 /\ DOMAIN s = {}
      BY <3>1
    <3>3. p \in Nat /\ p \in dataset
      BY <1>2
    <3>4. ~ (p > cursor)
      BY <2>1, <2>4, <3>2, <3>3
    <3>5. QED  BY <1>2, <1>7, <3>3, <3>4
  <2>8. QED  BY <1>5, <1>6, <2>5, <2>6, <2>7
<1>10. CASE Remaining > 0 /\ Return("Upstream") /\ UNCHANGED <<asked, page>>
  BY <1>1, <1>5, <1>6, <1>10 DEF Return, PageFollows, InHand, FirstRows, ExportTypes
<1>11. QED  BY <1>8, <1>9, <1>10 DEF FetchPage

\* The fuel fetch and the threshold leave the page and the rows alone
\* (pipeline.rs:166-190).
LEMMA FuelAndJudgeKeepRows ==
    ASSUME FirstRows, FetchFuel \/ JoinAndJudge
    PROVE  FirstRows'
<1>1. /\ pc \in InHand /\ result = "none"
      /\ UNCHANGED <<dataset, lasting, limit, cursor, asked, page, rows>>
  BY DEF FetchFuel, JoinAndJudge, rdwVars, FirstRows, ExportTypes, InHand
<1>2. result' # "Ok" /\ (result' # "none" => pc' = "done")
  BY <1>1 DEF FetchFuel, JoinAndJudge, Return
<1>3. fuelFailed' \in BOOLEAN /\ summary' \in [attempted : Nat, failures : Nat, affected : Nat]
  <2>1. Len(page) \in Nat /\ summary \in [attempted : Nat, failures : Nat, affected : Nat]
        /\ fuelFailed \in BOOLEAN
    BY DEF FirstRows, ExportTypes
  <2>2. CASE FetchFuel
    BY <2>1, <2>2 DEF FetchFuel
  <2>3. CASE JoinAndJudge
    BY <2>1, <2>3 DEF JoinAndJudge
  <2>4. QED  BY <2>2, <2>3
<1>4. ExportTypes'
  BY <1>1, <1>2, <1>3 DEF FirstRows, ExportTypes
<1>5. RowsBehind' /\ PageFollows'
  BY <1>1 DEF FirstRows, RowsBehind, PlateAt, PageFollows, InHand, Remaining, Ascending
<1>6. QED  BY <1>2, <1>4, <1>5 DEF FirstRows

\* A change of the dataset can only take vehicles from those RDW had throughout.
LEMMA ChangeKeepsRows ==
    ASSUME FirstRows, Change
    PROVE  FirstRows'
<1>1. /\ UNCHANGED <<limit, pc, cursor, asked, page, fuelFailed, summary, rows, result>>
      /\ lasting' \subseteq dataset' /\ lasting' \subseteq lasting
  BY DEF Change
<1>2. dataset' \subseteq Plates
  BY DEF Change, FirstRows, ExportTypes
<1>3. ExportTypes'
  BY <1>1, <1>2 DEF FirstRows, ExportTypes
<1>4. RowsBehind' /\ PageFollows'
  BY <1>1 DEF FirstRows, RowsBehind, PlateAt, PageFollows, InHand, Remaining, Ascending
<1>5. result' = "Ok" => Complete'
  BY <1>1 DEF FirstRows, Complete, PlateAt
<1>6. QED  BY <1>3, <1>4, <1>5 DEF FirstRows

\* The staged rows ascend up to the cursor with no vehicle missing among them,
\* and the page in hand follows on without a gap (fetch_and_widen,
\* pipeline.rs:103-228).
THEOREM FirstRowsHold == Spec => []FirstRows
<1>1. Init => FirstRows
  <2> SUFFICES ASSUME Init PROVE FirstRows
    OBVIOUS
  <2>1. ExportTypes
    <3>1. dataset \subseteq Plates /\ lasting \subseteq dataset /\ limit \in Nat
          /\ cursor \in Int /\ asked \in Nat
      BY SequentialExportAssumption DEF Init
    <3>a. fuelFailed \in BOOLEAN /\ result = "none"
      BY DEF Init
    <3>2. page \in Seq(Plates) /\ rows \in Seq([plate : Plates, status : Statuses])
      BY DEF Init
    <3>3. summary \in [attempted : Nat, failures : Nat, affected : Nat]
      BY DEF Init
    <3>4. QED  BY <3>1, <3>a, <3>2, <3>3 DEF ExportTypes
  <2>2. RowsBehind
    <3>1. \A p \in lasting : ~ (p <= cursor)
      BY SequentialExportAssumption DEF Init
    <3>2. Len(rows) <= limit /\ DOMAIN rows = {}
      BY SequentialExportAssumption DEF Init
    <3>3. QED  BY <3>1, <3>2 DEF RowsBehind
  <2>3. PageFollows /\ result # "Ok"
    BY DEF Init, PageFollows, InHand
  <2>4. QED  BY <2>1, <2>2, <2>3 DEF FirstRows
<1>2. FirstRows /\ [Next]_vars => FirstRows'
  <2> SUFFICES ASSUME FirstRows, [Next]_vars PROVE FirstRows'
    OBVIOUS
  <2>1. CASE UNCHANGED vars
    BY <2>1 DEF vars, rdwVars, FirstRows, ExportTypes, RowsBehind, PlateAt, PageFollows,
                InHand, Remaining, Ascending, Complete
  <2>2. CASE Next
    BY <2>2, ChangeKeepsRows, FetchPageKeepsRows, FuelAndJudgeKeepRows, StageKeepsRows
       DEF Next, Step
  <2>3. QED  BY <2>1, <2>2
<1>3. QED  BY <1>1, <1>2, PTL DEF Spec

\* A limited export that succeeds holds the first vehicles there are, however
\* RDW changes while it is read (fetch_and_widen, pipeline.rs:103-228).
THEOREM HoldsFirstVehicles == Spec => []FirstVehicles
<1>1. FirstRows => FirstVehicles
  <2> SUFFICES ASSUME FirstRows PROVE FirstVehicles
    OBVIOUS
  <2>1. Len(rows) \in Nat /\ DOMAIN rows = 1 .. Len(rows)
    BY DEF FirstRows, ExportTypes
  <2>2. \A i \in 1 .. Len(rows) - 1 : PlateAt(i) < PlateAt(i + 1)
    <3> SUFFICES ASSUME NEW i \in 1 .. Len(rows) - 1 PROVE PlateAt(i) < PlateAt(i + 1)
      OBVIOUS
    <3>1. i \in DOMAIN rows /\ i + 1 \in DOMAIN rows /\ i < i + 1
      BY <2>1
    <3>2. QED  BY <3>1 DEF FirstRows, RowsBehind
  <2>3. QED  BY <2>2 DEF FirstRows, RowsBehind, Complete, FirstVehicles
<1>2. QED  BY <1>1, FirstRowsHold, PTL

\* The marked rows can be counted.
LEMMA UnavailableIsFinite ==
    ASSUME FirstRows
    PROVE  IsFiniteSet(Unavailable) /\ Cardinality(Unavailable) \in Nat
<1>1. Unavailable \in SUBSET (1 .. Len(rows)) /\ Len(rows) \in Nat
  BY DEF Unavailable, FirstRows, ExportTypes
<1>2. IsFiniteSet(1 .. Len(rows))
  BY <1>1, FS_Interval
<1>3. QED  BY <1>1, <1>2, FS_Subset, FS_CardinalityType

\* Staging marks the rows of a page whose fuel fetch failed, all of them.
LEMMA StageMarks ==
    ASSUME FirstRows, SummaryCounts, pc = "stage", result = "none",
           UNCHANGED <<fuelFailed, summary>>, pc' \notin {"join", "stage"},
           rows' = rows \o SubSeq(RowsOfPage, 1, Min({Remaining, Len(page)}))
    PROVE  summary'.affected = Cardinality(Unavailable)' + Owed'
<1> DEFINE n == Len(rows)  k == Len(page)
<1>1. /\ Len(rows') = n + k
      /\ rows' \in Seq([plate : Plates, status : Statuses])
      /\ \A i \in 1 .. n : rows'[i] = rows[i]
      /\ \A i \in 1 .. k : rows'[n + i] =
           [plate |-> page[i], status |-> IF fuelFailed THEN "fuel_unavailable" ELSE "fetched"]
  BY StagedWhole DEF FirstRows
<1>2. n \in Nat /\ k \in Nat /\ DOMAIN rows = 1 .. n /\ fuelFailed \in BOOLEAN
  BY DEF FirstRows, ExportTypes
<1>3. DOMAIN rows' = 1 .. n + k
  BY <1>1, <1>2
<1>4. ASSUME NEW i \in 1 .. n + k
      PROVE  (rows'[i].status = "fuel_unavailable") <=>
               IF i \in 1 .. n THEN rows[i].status = "fuel_unavailable" ELSE fuelFailed
  <2>1. CASE i \in 1 .. n
    BY <1>1, <2>1
  <2>2. CASE i \notin 1 .. n
    <3> HIDE DEF n, k
    <3>1. i - n \in 1 .. k /\ i = n + (i - n)
      BY <1>2, <2>2
    <3>2. PICK b \in 1 .. k : i = n + b
      BY <3>1
    <3> DEFINE row == [plate |-> page[b],
                       status |-> IF fuelFailed THEN "fuel_unavailable" ELSE "fetched"]
    <3>3. (row.status = "fuel_unavailable") <=> fuelFailed
      BY <1>2
    <3>4. rows'[i] = row
      BY <1>1, <3>2 DEF n, k
    <3> HIDE DEF row
    <3>5. QED  BY <2>2, <3>3, <3>4
  <2>3. QED  BY <2>1, <2>2
<1> DEFINE U == {i \in 1 .. n : rows[i].status = "fuel_unavailable"}
           V == {i \in 1 .. n + k : rows'[i].status = "fuel_unavailable"}
<1>5. Unavailable = U /\ Unavailable' = V
  BY <1>2, <1>3 DEF Unavailable
<1>6. summary.affected = Cardinality(U) + (IF fuelFailed THEN k ELSE 0)
  BY <1>5 DEF SummaryCounts, Owed
<1>7. Owed' = 0
  BY DEF Owed
<1>8. CASE fuelFailed
  <2> DEFINE W == n + 1 .. n + k
  <2>1. V = U \cup W /\ U \cap W = {}
    <3> HIDE DEF n, k
    <3>1. \A i \in 1 .. n : i \in 1 .. n + k /\ i \notin W
      BY <1>2
    <3>2. \A i \in 1 .. n + k : i \notin 1 .. n => i \in W
      BY <1>2
    <3>3. \A i \in W : i \in 1 .. n + k /\ i \notin 1 .. n
      BY <1>2
    <3> HIDE DEF W
    <3>4. \A i \in 1 .. n : i \in V <=> i \in U
      BY <1>4, <3>1
    <3>5. \A i \in W : i \in V
      BY <1>4, <1>8, <3>3
    <3>6. \A i \in V : i \in 1 .. n + k
      OBVIOUS
    <3>7. \A i \in U : i \in 1 .. n
      OBVIOUS
    <3> HIDE DEF U, V
    <3>8. QED  BY <3>1, <3>2, <3>3, <3>4, <3>5, <3>6, <3>7
  <2>2. IsFiniteSet(U)
    <3>1. U \in SUBSET (1 .. n)
      OBVIOUS
    <3>2. IsFiniteSet(1 .. n)
      BY <1>2, FS_Interval
    <3> HIDE DEF U
    <3>3. QED  BY <3>1, <3>2, FS_Subset
  <2>3. IsFiniteSet(W) /\ Cardinality(W) = k
    <3> HIDE DEF n, k
    <3>1. n + 1 \in Int /\ n + k \in Int
      BY <1>2
    <3>2. IsFiniteSet(W) /\ Cardinality(W) = IF n + 1 > n + k THEN 0 ELSE (n + k) - (n + 1) + 1
      BY <3>1, FS_Interval
    <3>3. QED  BY <1>2, <3>2
  <2> HIDE DEF U, V, W
  <2>4. Cardinality(V) = Cardinality(U) + Cardinality(W)
    <3>1. Cardinality(U \cup W) = Cardinality(U) + Cardinality(W) - Cardinality(U \cap W)
      BY <2>2, <2>3, FS_Union
    <3>2. Cardinality(U \cap W) = 0
      BY <2>1, FS_EmptySet
    <3>3. Cardinality(U) \in Nat /\ Cardinality(W) \in Nat
      BY <2>2, <2>3, FS_CardinalityType
    <3>4. QED  BY <2>1, <3>1, <3>2, <3>3
  <2>5. Cardinality(V) \in Nat
    BY <2>1, <2>2, <2>3, FS_Union, FS_CardinalityType
  <2>6. summary'.affected = Cardinality(V)
    BY <1>6, <1>8, <2>3, <2>4
  <2>7. QED  BY <1>5, <1>7, <2>5, <2>6
<1>9. CASE ~ fuelFailed
  <2>1. V = U
    <3>1. \A i \in 1 .. n : i \in 1 .. n + k
      BY <1>2
    <3>2. QED  BY <1>4, <1>9, <3>1
  <2>2. Cardinality(U) \in Nat
    <3>1. U \in SUBSET (1 .. n)
      OBVIOUS
    <3>2. IsFiniteSet(1 .. n)
      BY <1>2, FS_Interval
    <3> HIDE DEF U
    <3>3. QED  BY <3>1, <3>2, FS_Subset, FS_CardinalityType
  <2> HIDE DEF U, V
  <2>3. summary'.affected = Cardinality(V)
    BY <1>6, <1>9, <2>1, <2>2
  <2>4. QED  BY <1>5, <1>7, <2>1, <2>2, <2>3
<1>10. QED  BY <1>2, <1>8, <1>9

\* What the summary counts is marked in the rows or will be once the page in hand
\* is staged, and an export that goes on is below the threshold
\* (pipeline.rs:166-228).
THEOREM SummaryCountsHold == Spec => []SummaryCounts
<1>1. Init => SummaryCounts
  <2> SUFFICES ASSUME Init PROVE SummaryCounts
    OBVIOUS
  <2>1. Unavailable = {} /\ Owed = 0 /\ summary.affected = 0
    BY DEF Init, Unavailable, Owed
  <2>2. ~ ShouldAbort(summary.failures, summary.attempted)
    BY FailureConfigAssumption DEF Init, ShouldAbort
  <2>3. Cardinality(Unavailable) = 0
    BY <2>1, FS_EmptySet
  <2>4. QED  BY <2>1, <2>2, <2>3 DEF SummaryCounts
<1>2. FirstRows /\ SummaryCounts /\ [Next]_vars => SummaryCounts'
  <2> SUFFICES ASSUME FirstRows, SummaryCounts, [Next]_vars PROVE SummaryCounts'
    OBVIOUS
  <2>1. CASE Change \/ UNCHANGED vars
    <3>1. UNCHANGED <<pc, page, fuelFailed, summary, rows, result>>
      BY <2>1 DEF Change, vars
    <3>2. Unavailable' = Unavailable /\ Owed' = Owed
      BY <3>1 DEF Unavailable, Owed
    <3>3. QED  BY <3>1, <3>2 DEF SummaryCounts
  <2>2. CASE FetchPage
    <3>1. /\ pc = "page" /\ UNCHANGED <<fuelFailed, summary, rows>>
          /\ pc' \in {"done", "fuel"}
          /\ pc' = "done" \/ result' # "Ok"
      BY <2>2 DEF FetchPage, Return, FirstRows, ExportTypes
    <3>2. Owed = 0 /\ Owed' = 0 /\ Unavailable' = Unavailable
      BY <3>1 DEF Owed, Unavailable
    <3>3. QED  BY <3>1, <3>2 DEF SummaryCounts
  <2>3. CASE FetchFuel
    <3>1. pc = "fuel" /\ pc' = "join" /\ result' # "Ok" /\ UNCHANGED <<rows, page>>
      BY <2>3 DEF FetchFuel, FirstRows, ExportTypes
    <3>2. summary'.affected = summary.affected + (IF fuelFailed' THEN Len(page) ELSE 0)
      BY <2>3 DEF FetchFuel
    <3>3. summary.affected = Cardinality(Unavailable) /\ summary.affected \in Nat
      <4>1. Owed = 0 /\ summary.affected \in Nat
        BY <3>1 DEF Owed, FirstRows, ExportTypes
      <4>2. Cardinality(Unavailable) \in Nat
        BY UnavailableIsFinite
      <4>3. QED  BY <3>1, <4>1, <4>2 DEF SummaryCounts
    <3>4. Unavailable' = Unavailable /\ Owed' = IF fuelFailed' THEN Len(page) ELSE 0
      BY <3>1 DEF Unavailable, Owed
    <3>5. summary'.affected = Cardinality(Unavailable') + Owed'
      BY <3>2, <3>3, <3>4
    <3>6. QED  BY <3>1, <3>5 DEF SummaryCounts
  <2>4. CASE JoinAndJudge
    <3>1. pc = "join" /\ UNCHANGED <<fuelFailed, summary, rows, page>>
      BY <2>4 DEF JoinAndJudge
    <3>2. \/ pc' = "done" /\ result' # "Ok"
          \/ pc' = "stage" /\ ~ ShouldAbort(summary.failures, summary.attempted)
             /\ result' # "Ok"
      BY <2>4 DEF JoinAndJudge, Return, FirstRows, ExportTypes
    <3>3. Unavailable' = Unavailable
      BY <3>1 DEF Unavailable
    <3>4. pc' = "stage" => Owed' = Owed
      BY <3>1 DEF Owed
    <3>5. QED  BY <3>1, <3>2, <3>3, <3>4 DEF SummaryCounts
  <2>5. CASE Stage
    <3>1. pc = "stage" /\ result = "none" /\ UNCHANGED <<fuelFailed, summary>>
      BY <2>5 DEF Stage, FirstRows, ExportTypes
    <3>2. CASE Return("Assembly")
      BY <3>2 DEF Return, SummaryCounts
    <3>3. CASE /\ rows' = rows \o SubSeq(RowsOfPage, 1, Min({Remaining, Len(page)}))
               /\ AfterPage(asked)
      <4>1. pc' \notin {"join", "stage"}
        BY <3>3 DEF AfterPage, Return
      <4>2. summary'.affected = Cardinality(Unavailable)' + Owed'
        BY <3>1, <3>3, <4>1, StageMarks
      <4>3. ~ ShouldAbort(summary.failures, summary.attempted)
        BY <3>1 DEF SummaryCounts
      <4>4. QED  BY <3>1, <4>2, <4>3 DEF SummaryCounts
    <3>4. QED  BY <2>5, <3>2, <3>3 DEF Stage
  <2>6. QED  BY <2>1, <2>2, <2>3, <2>4, <2>5 DEF Next, Step
<1>3. QED  BY <1>1, <1>2, FirstRowsHold, PTL DEF Spec

\* The summary counts exactly the rows that are marked, and is below the abort
\* threshold (fetch_and_widen, pipeline.rs:103-228).
THEOREM SummaryIsTruthful == Spec => []SummaryTruthful
<1>1. FirstRows /\ SummaryCounts => SummaryTruthful
  <2> SUFFICES ASSUME FirstRows, SummaryCounts, result = "Ok" PROVE SummaryTruthful
    BY DEF SummaryTruthful
  <2>1. pc = "done" /\ Owed = 0
    BY DEF FirstRows, ExportTypes, Owed
  <2>3. Cardinality(Unavailable) \in Nat
    BY UnavailableIsFinite
  <2>4. summary.affected = Cardinality(Unavailable)
    BY <2>1, <2>3 DEF SummaryCounts
  <2>5. QED  BY <2>4 DEF SummaryCounts, SummaryTruthful, Unavailable
<1>2. QED  BY <1>1, FirstRowsHold, SummaryCountsHold, PTL

(***************************************************************************)
(* The threshold is judged exactly.                                        *)
(***************************************************************************)

\* An export that goes on, or ends for another reason, was judged below the
\* threshold; merge_join alone can fail on a page before it is judged.
Judged ==
    /\ pc # "join" /\ result \notin {"Threshold", "DataIntegrity"} =>
         ~ ShouldAbort(summary.failures, summary.attempted)
    /\ result = "Threshold" => ShouldAbort(summary.failures, summary.attempted)

\* should_abort compares with the larger of the two allowances, strictly
\* (failure.rs:58-66).
LEMMA ShouldAbortIs ==
    ASSUME NEW f \in Nat, NEW a \in Nat
    PROVE  ShouldAbort(f, a) <=> f * RATIO_DEN > Max({FLOOR * RATIO_DEN, RATIO_NUM * a})
<1>1. FLOOR \in Nat /\ RATIO_DEN \in Nat /\ RATIO_DEN > 0 /\ RATIO_NUM * a \in Nat
  BY FailureConfigAssumption
<1> DEFINE x == FLOOR * RATIO_DEN  y == RATIO_NUM * a  g == f * RATIO_DEN
<1>2. x \in Int /\ y \in Int /\ g \in Int
  BY <1>1
<1>3. f > FLOOR <=> g > x
  <2>1. CASE f > FLOOR
    <3>1. f - FLOOR \in Nat /\ f - FLOOR > 0 /\ g - x = (f - FLOOR) * RATIO_DEN
      BY <1>1, <2>1
    <3>2. (f - FLOOR) * RATIO_DEN > 0
      BY <1>1, <3>1
    <3>3. QED  BY <1>2, <2>1, <3>1, <3>2
  <2>2. CASE ~ (f > FLOOR)
    <3>1. FLOOR - f \in Nat /\ x - g = (FLOOR - f) * RATIO_DEN
      BY <1>1, <2>2
    <3>2. (FLOOR - f) * RATIO_DEN >= 0
      BY <1>1, <3>1
    <3>3. QED  BY <1>2, <2>2, <3>1, <3>2
  <2>3. QED  BY <2>1, <2>2
<1>4. ShouldAbort(f, a) <=> g > x /\ g > y
  BY <1>3 DEF ShouldAbort
<1> HIDE DEF x, y, g
<1>5. Max({x, y}) = IF x >= y THEN x ELSE y
  <2>1. CASE x >= y
    <3>1. x \in {x, y} /\ \A z \in {x, y} : x >= z
      BY <1>2, <2>1
    <3>2. \A u \in {x, y} : (\A z \in {x, y} : u >= z) => u = x
      BY <1>2, <2>1
    <3>3. QED  BY <2>1, <3>1, <3>2 DEF Max
  <2>2. CASE ~ (x >= y)
    <3>1. y \in {x, y} /\ \A z \in {x, y} : y >= z
      BY <1>2, <2>2
    <3>2. \A u \in {x, y} : (\A z \in {x, y} : u >= z) => u = y
      BY <1>2, <2>2
    <3>3. QED  BY <2>2, <3>1, <3>2 DEF Max
  <2>3. QED  BY <2>1, <2>2
<1>6. g > Max({x, y}) <=> g > x /\ g > y
  BY <1>2, <1>5
<1>7. QED  BY <1>4, <1>6 DEF x, y, g

\* What was judged stays judged until the next fuel fetch (pipeline.rs:166-228).
THEOREM JudgedHolds == Spec => []Judged
<1>1. Init => Judged
  BY FailureConfigAssumption DEF Init, Judged, ShouldAbort
<1>2. FirstRows /\ Judged /\ [Next]_vars => Judged'
  <2> SUFFICES ASSUME FirstRows, Judged, [Next]_vars PROVE Judged'
    OBVIOUS
  <2>1. CASE Change \/ UNCHANGED vars
    BY <2>1 DEF Change, vars, Judged
  <2>2. CASE FetchPage
    <3>1. pc = "page" /\ result = "none" /\ UNCHANGED summary
          /\ pc' \in {"done", "fuel"} /\ result' \in {"none", "Ok", "Upstream"}
      BY <2>2 DEF FetchPage, Return, FirstRows, ExportTypes
    <3>2. QED  BY <3>1 DEF Judged
  <2>3. CASE FetchFuel
    <3>1. pc' = "join" /\ result' = "none"
      BY <2>3 DEF FetchFuel, FirstRows, ExportTypes
    <3>2. QED  BY <3>1 DEF Judged
  <2>4. CASE JoinAndJudge
    <3>1. pc = "join" /\ result = "none" /\ UNCHANGED summary
      BY <2>4 DEF JoinAndJudge, FirstRows, ExportTypes
    <3>2. \/ result' = "DataIntegrity"
          \/ result' = "Threshold" /\ ShouldAbort(summary.failures, summary.attempted)
          \/ result' = "none" /\ ~ ShouldAbort(summary.failures, summary.attempted)
      BY <2>4, <3>1 DEF JoinAndJudge, Return
    <3>3. QED  BY <3>1, <3>2 DEF Judged
  <2>5. CASE Stage
    <3>1. pc = "stage" /\ result = "none" /\ UNCHANGED summary
          /\ result' \in {"none", "Ok", "Assembly"}
      BY <2>5 DEF Stage, AfterPage, Return, FirstRows, ExportTypes
    <3>2. QED  BY <3>1 DEF Judged
  <2>6. QED  BY <2>1, <2>2, <2>3, <2>4, <2>5 DEF Next, Step
<1>3. QED  BY <1>1, <1>2, FirstRowsHold, PTL DEF Spec

\* A limited export ends for its failures exactly if they exceed the larger of
\* floor and ratio, for any configuration and any limit (failure.rs:46-66,
\* pipeline.rs:166-228).
THEOREM ThresholdExact == Spec => []ThresholdIsExact
<1>1. FirstRows /\ Judged => ThresholdIsExact
  <2> SUFFICES ASSUME FirstRows, Judged PROVE ThresholdIsExact
    OBVIOUS
  <2>1. summary.failures \in Nat /\ summary.attempted \in Nat
    BY DEF FirstRows, ExportTypes
  <2>2. ShouldAbort(summary.failures, summary.attempted) <=>
          summary.failures * RATIO_DEN > Max({FLOOR * RATIO_DEN, RATIO_NUM * summary.attempted})
    BY <2>1, ShouldAbortIs
  <2>3. QED  BY <2>2 DEF Judged, ThresholdIsExact
<1>2. QED  BY <1>1, FirstRowsHold, JudgedHolds, PTL

(***************************************************************************)
(* The export cannot go on for ever.                                       *)
(***************************************************************************)

\* The steps to the end of a page that are left at a point of the loop.
Phase(point) == CASE point = "page"  -> 4
                  [] point = "fuel"  -> 3
                  [] point = "join"  -> 2
                  [] point = "stage" -> 1
                  [] OTHER           -> 0

\* How many steps are left at most: a page that is staged brings at least one
\* row, and every page takes four steps.
StepsLeft == 4 * Remaining + Phase(pc)

\* The steps of a page are counted down.
LEMMA PhaseIs ==
    /\ Phase("page") = 4 /\ Phase("fuel") = 3 /\ Phase("join") = 2
    /\ Phase("stage") = 1 /\ Phase("done") = 0
    /\ \A point : Phase(point) \in 0 .. 4
BY DEF Phase

\* The steps that are left are a natural number.
LEMMA StepsLeftIs ==
    ASSUME ExportTypes, Len(rows) <= limit
    PROVE  Remaining \in Nat /\ StepsLeft \in Nat
<1>1. Len(rows) \in Nat /\ limit \in Nat
  BY DEF ExportTypes
<1>2. Remaining \in Nat
  BY <1>1 DEF Remaining
<1>3. QED  BY <1>2, PhaseIs DEF StepsLeft

\* A page in hand brings the limit nearer (pipeline.rs:191-220).
LEMMA StageAdvances ==
    ASSUME FirstRows, Stage, Remaining \in Nat, Remaining' \in Nat
    PROVE  StepsLeft' < StepsLeft
<1>1. pc = "stage" /\ limit' = limit /\ StepsLeft = 4 * Remaining + 1
  BY PhaseIs DEF Stage, StepsLeft
<1>2. CASE Return("Assembly") /\ UNCHANGED <<rows, cursor>>
  <2>1. Remaining' = Remaining /\ pc' = "done"
    BY <1>1, <1>2 DEF Return, Remaining
  <2>2. QED  BY <1>1, <2>1, PhaseIs DEF StepsLeft
<1>3. CASE /\ rows' = rows \o SubSeq(RowsOfPage, 1, Min({Remaining, Len(page)}))
           /\ AfterPage(asked)
  <2>1. Len(rows') = Len(rows) + Len(page)
    BY <1>1, <1>3, StagedWhole DEF FirstRows
  <2>2. Len(page) \in Nat /\ Len(page) > 0 /\ Len(rows) \in Nat /\ limit \in Nat
    <3>1. page \in Seq(Plates) /\ page # <<>> /\ Len(rows) \in Nat /\ limit \in Nat
      BY <1>1 DEF FirstRows, ExportTypes, PageFollows, InHand
    <3>2. QED  BY <3>1, EmptySeq
  <2>3. Remaining' <= Remaining - 1
    BY <1>1, <2>1, <2>2 DEF Remaining
  <2>4. Phase(pc') \in 0 .. 4
    BY PhaseIs
  <2>5. QED  BY <1>1, <2>3, <2>4 DEF StepsLeft
<1>4. QED  BY <1>2, <1>3 DEF Stage

\* The other steps go from one point to the next, and keep the rows
\* (pipeline.rs:126-190).
LEMMA PointsAdvance ==
    ASSUME FetchPage \/ FetchFuel \/ JoinAndJudge, Remaining \in Nat
    PROVE  StepsLeft' < StepsLeft
<1>1. Remaining' = Remaining
  BY DEF FetchPage, FetchFuel, JoinAndJudge, rdwVars, Remaining
<1>2. \/ pc = "page" /\ pc' \in {"fuel", "done"}
      \/ pc = "fuel" /\ pc' = "join"
      \/ pc = "join" /\ pc' \in {"stage", "done"}
  BY DEF FetchPage, FetchFuel, JoinAndJudge, Return
<1>3. Phase(pc') < Phase(pc)
  BY <1>2, PhaseIs
<1>4. Phase(pc) \in 0 .. 4 /\ Phase(pc') \in 0 .. 4
  BY PhaseIs
<1>5. StepsLeft = 4 * Remaining + Phase(pc) /\ StepsLeft' = 4 * Remaining + Phase(pc')
  BY <1>1 DEF StepsLeft
<1>6. QED  BY <1>3, <1>4, <1>5

\* A limited export cannot go on for ever: every step of it, whatever RDW
\* answers, lowers a natural number, which no change of the dataset raises, for
\* every limit and every page size (fetch_and_widen, pipeline.rs:126-220).
THEOREM EveryStepAdvances ==
    Spec => [][/\ StepsLeft \in Nat /\ StepsLeft' \in Nat
               /\ Step => StepsLeft' < StepsLeft
               /\ Change => StepsLeft' = StepsLeft]_vars
<1>1. ASSUME FirstRows, FirstRows'
      PROVE  /\ StepsLeft \in Nat /\ StepsLeft' \in Nat
             /\ Step => StepsLeft' < StepsLeft
             /\ Change => StepsLeft' = StepsLeft
  <2>1. Remaining \in Nat /\ StepsLeft \in Nat
    BY <1>1, StepsLeftIs DEF FirstRows, RowsBehind
  <2>2. Remaining' \in Nat /\ StepsLeft' \in Nat
    <3>1. Len(rows') \in Nat /\ limit' \in Nat /\ Len(rows') <= limit'
      BY <1>1 DEF FirstRows, RowsBehind, ExportTypes
    <3>2. Remaining' \in Nat
      BY <3>1 DEF Remaining
    <3>3. Phase(pc') \in 0 .. 4
      BY PhaseIs
    <3>4. QED  BY <3>2, <3>3 DEF StepsLeft
  <2>3. ASSUME Step PROVE StepsLeft' < StepsLeft
    BY <1>1, <2>1, <2>2, <2>3, StageAdvances, PointsAdvance DEF Step
  <2>4. ASSUME Change PROVE StepsLeft' = StepsLeft
    BY <2>4 DEF Change, StepsLeft, Remaining
  <2>5. QED  BY <2>1, <2>2, <2>3, <2>4
<1>2. QED  BY <1>1, FirstRowsHold, PTL DEF Spec

=============================================================================
