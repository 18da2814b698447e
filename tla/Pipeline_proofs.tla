-------------------------- MODULE Pipeline_proofs --------------------------
(***************************************************************************)
(* Proofs about Pipeline for every number of workers, ranges and plates,   *)
(* every page size, and any number of changes and faults: the ranges       *)
(* partition the plates, the export owns the assembler alone when it       *)
(* returns, its errors surface, no vehicle is staged twice, a successful   *)
(* export is complete, the workers abort it as GlobalAbort does, the       *)
(* fuel-failure summary a client is told tells what it gets, the           *)
(* reconciliation of the staged rows with the count asked for first raises *)
(* no false alarm, and every step leaves less work.                        *)
(***************************************************************************)
EXTENDS Pipeline, TLAPS, FiniteSetTheorems, WellFoundedInduction

(***************************************************************************)
(* The ranges partition the plates, for every number of ranges.            *)
(***************************************************************************)

\* The quotient is the largest number whose product does not pass the dividend.
LEMMA DivBounds ==
    ASSUME NEW a \in Nat, NEW b \in Nat \ {0}
    PROVE  /\ a \div b \in Nat
           /\ (a \div b) * b <= a /\ a < (a \div b) * b + b
OBVIOUS

\* Boundaries never decrease from one range to the next (ranges.rs:42-44).
LEMMA BoundariesAscend ==
    ASSUME NEW i \in Nat, NEW j \in Nat, i <= j
    PROVE  Boundary(i) \in Nat /\ Boundary(i) <= Boundary(j)
<1> DEFINE x == i * Prefixes  y == j * Prefixes
           p == x \div RangeCount  q == y \div RangeCount
<1>1. Prefixes \in Nat /\ Width \in Nat /\ RangeCount \in Nat \ {0}
  BY KentekenRangesAssumption
<1>2. x \in Nat /\ y \in Nat /\ x <= y
  BY <1>1
<1> HIDE DEF x, y
<1>3. p \in Nat /\ q \in Nat /\ p <= q
  BY <1>1, <1>2
<1> HIDE DEF p, q
<1>4. p * Width \in Nat /\ p * Width <= q * Width
  BY <1>1, <1>3
<1>5. QED  BY <1>4 DEF Boundary, p, q, x, y

\* No plate lies in two ranges (ranges.rs:29-33: "no gap and no overlap").
THEOREM RangesDisjoint ==
    ASSUME NEW plate \in Nat, NEW i \in 1 .. RangeCount, NEW j \in 1 .. RangeCount,
           InRange(i, plate), InRange(j, plate)
    PROVE  i = j
<1>1. RangeCount \in Nat  BY KentekenRangesAssumption
<1>2. ASSUME NEW k \in 1 .. RangeCount, NEW l \in 1 .. RangeCount, k < l,
             InRange(k, plate), InRange(l, plate)
      PROVE  FALSE
  <2>1. plate <= Boundary(k) /\ plate > Boundary(l - 1)
    BY <1>1, <1>2 DEF InRange
  <2>2. k \in Nat /\ l - 1 \in Nat /\ k <= l - 1
    BY <1>1, <1>2
  <2>3. Boundary(k) \in Nat /\ Boundary(l - 1) \in Nat /\ Boundary(k) <= Boundary(l - 1)
    BY <2>2, BoundariesAscend
  <2>4. QED  BY <2>1, <2>3
<1>3. QED  BY <1>1, <1>2

\* Multiplication by a natural number keeps the order.
LEMMA TimesMonotone ==
    ASSUME NEW a \in Nat, NEW b \in Nat, NEW c \in Nat, a <= b
    PROVE  a * c \in Nat /\ b * c \in Nat /\ a * c <= b * c
OBVIOUS

\* The quotient rounded down is below q exactly if the dividend is below q * b.
LEMMA FloorBelow ==
    ASSUME NEW x \in Nat, NEW b \in Nat \ {0}, NEW q \in Nat
    PROVE  x \div b < q <=> x < q * b
<1> DEFINE f == x \div b  fb == f * b  qb == q * b
<1>1. f \in Nat /\ fb \in Nat /\ qb \in Nat /\ fb <= x /\ x < fb + b
  BY DivBounds
<1>2. (f + 1) * b = fb + b
  BY <1>1
<1> HIDE DEF f
<1>3. CASE f < q
  <2>1. (f + 1) * b <= q * b  BY <1>1, <1>3, TimesMonotone
  <2> HIDE DEF fb, qb
  <2>2. fb + b <= qb  BY <1>2, <2>1 DEF qb
  <2>3. x < qb  BY <1>1, <2>2
  <2>4. QED  BY <1>3, <2>3 DEF f, qb
<1>4. CASE ~ (f < q)
  <2>1. q * b <= f * b  BY <1>1, <1>4, TimesMonotone
  <2>2. qb <= fb  BY <2>1 DEF qb, fb
  <2> HIDE DEF fb, qb
  <2>3. ~ (x < qb)  BY <1>1, <2>2
  <2>4. QED  BY <1>4, <2>3 DEF f, qb
<1>5. QED  BY <1>3, <1>4

\* A multiple of b is below a exactly if the factor is below a / b rounded up.
LEMMA BelowCeiling ==
    ASSUME NEW a \in Nat, NEW b \in Nat \ {0}, NEW m \in Nat
    PROVE  m * b < a <=> m < (a + b - 1) \div b
<1> DEFINE q == (a + b - 1) \div b  qb == q * b  mb == m * b
<1>1. a + b - 1 \in Nat  OBVIOUS
<1>2. q \in Nat /\ qb \in Nat /\ mb \in Nat /\ qb <= a + b - 1 /\ a + b - 1 < qb + b
  BY <1>1, DivBounds
<1>3. (m + 1) * b = mb + b
  OBVIOUS
<1> HIDE DEF q
<1>4. CASE m < q
  <2>1. (m + 1) * b <= q * b  BY <1>2, <1>4, TimesMonotone
  <2> HIDE DEF qb, mb
  <2>2. mb + b <= qb  BY <1>3, <2>1 DEF qb
  <2>3. mb < a  BY <1>2, <2>2
  <2>4. QED  BY <1>4, <2>3 DEF q, mb
<1>5. CASE ~ (m < q)
  <2>1. q * b <= m * b  BY <1>2, <1>5, TimesMonotone
  <2>2. qb <= mb  BY <2>1 DEF qb, mb
  <2> HIDE DEF qb, mb
  <2>3. ~ (mb < a)  BY <1>2, <2>2
  <2>4. QED  BY <1>5, <2>3 DEF q, mb
<1>6. QED  BY <1>4, <1>5

\* Every plate lies in some range (ranges.rs:29-33: "no gap and no overlap").
THEOREM RangesCover ==
    ASSUME NEW plate \in Nat
    PROVE  \E i \in 1 .. RangeCount : InRange(i, plate)
<1>1. Prefixes \in Nat \ {0} /\ Width \in Nat \ {0} /\ RangeCount \in Nat \ {0}
  BY KentekenRangesAssumption
<1> DEFINE q == (plate + Width - 1) \div Width
           s == (q * RangeCount + Prefixes - 1) \div Prefixes
<1>2. q \in Nat
  <2>1. plate + Width - 1 \in Nat  BY <1>1
  <2>2. QED  BY <1>1, <2>1, DivBounds
<1>3. q * RangeCount \in Nat
  BY <1>1, <1>2, TimesMonotone
<1>4. s \in Nat
  <2>1. q * RangeCount + Prefixes - 1 \in Nat  BY <1>1, <1>3
  <2>2. QED  BY <1>1, <2>1, DivBounds
\* s - 1 is the last boundary below the plate.
<1>5. ASSUME NEW j \in Nat
      PROVE  Boundary(j) < plate <=> j < s
  <2> DEFINE m == (j * Prefixes) \div RangeCount
  <2>1. j * Prefixes \in Nat  BY <1>1, TimesMonotone
  <2>2. m \in Nat  BY <1>1, <2>1, DivBounds
  <2>3. m < q <=> j * Prefixes < q * RangeCount
    BY <1>1, <1>2, <2>1, FloorBelow
  <2>4. j * Prefixes < q * RangeCount <=> j < s
    BY <1>1, <1>3, BelowCeiling
  <2> HIDE DEF m
  <2>5. m * Width < plate <=> m < q
    BY <1>1, <2>2, BelowCeiling
  <2>6. QED  BY <2>3, <2>4, <2>5 DEF Boundary, m
<1> HIDE DEF q, s
<1>6. CASE s = 0
  <2>1. RangeCount > 1 => plate <= Boundary(1)
    <3>1. Boundary(1) \in Nat /\ ~ (Boundary(1) < plate)
      BY <1>4, <1>5, <1>6, BoundariesAscend
    <3>2. QED  BY <3>1
  <2>2. InRange(1, plate)  BY <1>1, <2>1 DEF InRange
  <2>3. QED  BY <1>1, <2>2
<1>7. CASE s \in 1 .. RangeCount
  <2>1. Boundary(s) \in Nat /\ ~ (Boundary(s) < plate)
    BY <1>4, <1>5, BoundariesAscend
  <2>2. s > 1 => plate > Boundary(s - 1)
    BY <1>4, <1>5, BoundariesAscend
  <2>3. InRange(s, plate)  BY <2>1, <2>2 DEF InRange
  <2>4. QED  BY <1>7, <2>3
<1>8. CASE s > RangeCount
  <2>1. RangeCount - 1 \in Nat /\ RangeCount - 1 < s
    BY <1>1, <1>4, <1>8
  <2>2. Boundary(RangeCount - 1) < plate
    BY <1>5, <2>1
  <2>3. InRange(RangeCount, plate)
    BY <1>1, <2>1, <2>2, BoundariesAscend DEF InRange
  <2>4. QED  BY <1>1, <2>3
<1>9. QED  BY <1>1, <1>4, <1>6, <1>7, <1>8

(***************************************************************************)
(* The steps of the workers.                                               *)
(***************************************************************************)

Busy == {"page", "fetch", "fuel", "record", "stage", "emit"}
Active == Busy \cup {"claim", "pop", "flag"}
WorkerSteps == Active \cup Terminal \cup {"unborn"}

\* The steps of one worker.
WorkerStep(w) == Work(w) \/ Panic(w) \/ Cancel(w)

(***************************************************************************)
(* The life of the workers.                                                *)
(***************************************************************************)

\* Where the workers are when the main task spawns, joins, concludes and has
\* returned.
Lifecycle ==
    /\ pc \in [Workers -> WorkerSteps]
    /\ main \in {"count", "join", "wait", "conclude", "returned"}
    /\ joined \subseteq Workers
    /\ \A w \in joined : pc[w] \in Terminal
    /\ main = "count" => joined = {} /\ \A w \in Workers : pc[w] = "unborn"
    /\ main = "conclude" => joined = Workers
    /\ main = "returned" => joined = Workers \/ \A w \in Workers : pc[w] = "unborn"

\* A worker's step moves that worker only, and only while it runs.
LEMMA WorkerMoves ==
    ASSUME NEW w \in Workers, WorkerStep(w), pc \in [Workers -> WorkerSteps]
    PROVE  /\ pc[w] \in Active
           /\ UNCHANGED <<main, joined, result, cancelled, expected>>
           /\ UNCHANGED <<dataset, changes, lasting>>
           /\ \E s \in WorkerSteps \ {"unborn"} : pc' = [pc EXCEPT ![w] = s]
<1> USE DEF Goto, mainVars, rdwVars, Active, Busy, Terminal, WorkerSteps
<1>1. CASE Claim(w)      BY <1>1 DEF Claim
<1>2. CASE Pop(w)        BY <1>2 DEF Pop
<1>3. CASE CheckAbort(w) BY <1>3 DEF CheckAbort
<1>4. CASE FetchPage(w)  BY <1>4 DEF FetchPage, Fail
<1>5. CASE FetchFuel(w)  BY <1>5 DEF FetchFuel
<1>6. CASE Record(w)
  <2>1. pc[w] = "record" /\ UNCHANGED <<rdwVars, mainVars>>
    BY <1>6 DEF Record
  <2>2. CASE UNCHANGED pc
    <3>1. pc' = [pc EXCEPT ![w] = "record"]  BY <2>1, <2>2
    <3>2. QED  BY <2>1, <3>1
  <2>3. CASE Goto(w, IF aborted THEN "claim" ELSE "stage")
    BY <2>1, <2>3
  <2>4. QED  BY <1>6, <2>2, <2>3 DEF Record
<1>7. CASE Stage(w)      BY <1>7 DEF Stage, Fail
<1>8. CASE Emit(w)       BY <1>8 DEF Emit
<1>9. CASE RaiseFlag(w)  BY <1>9 DEF RaiseFlag
<1>10. CASE Panic(w)     BY <1>10 DEF Panic
<1>11. CASE Cancel(w)    BY <1>11 DEF Cancel, Awaiting
<1>12. QED
  BY <1>1, <1>2, <1>3, <1>4, <1>5, <1>6, <1>7, <1>8, <1>9, <1>10, <1>11
  DEF WorkerStep, Work

\* The main task and the tasks it joins (pipeline.rs:291-362).
THEOREM LifecycleHolds == Spec => []Lifecycle
<1>1. Init => Lifecycle
  BY DEF Init, Lifecycle, WorkerSteps
<1>2. Lifecycle /\ [Next]_vars => Lifecycle'
  <2> SUFFICES ASSUME Lifecycle, [Next]_vars PROVE Lifecycle'
    OBVIOUS
  <2>1. CASE Change
    BY <2>1 DEF Change, workerVars, mainVars, Lifecycle
  <2>2. ASSUME NEW w \in Workers, WorkerStep(w) PROVE Lifecycle'
    <3>1. PICK s \in WorkerSteps \ {"unborn"} : pc' = [pc EXCEPT ![w] = s]
      BY <2>2, WorkerMoves DEF Lifecycle
    <3>2. pc[w] \in Active /\ UNCHANGED <<main, joined>>
      BY <2>2, WorkerMoves DEF Lifecycle
    <3>3. w \notin joined /\ pc[w] # "unborn"
      BY <3>2 DEF Lifecycle, Active, Busy, Terminal
    <3>4. main \notin {"count", "conclude", "returned"}
      BY <3>3 DEF Lifecycle
    <3>5. pc' \in [Workers -> WorkerSteps]
      BY <3>1 DEF Lifecycle
    <3>6. \A v \in joined' : pc'[v] \in Terminal
      BY <3>1, <3>2, <3>3 DEF Lifecycle
    <3>7. QED  BY <3>2, <3>4, <3>5, <3>6 DEF Lifecycle
  <2>3. CASE CountAndSpawn
    BY <2>3 DEF CountAndSpawn, Return, Lifecycle, WorkerSteps, Active
  <2>4. CASE JoinLoop
    BY <2>4 DEF JoinLoop, Lifecycle, workerVars
  <2>5. ASSUME NEW w \in Workers, JoinNext(w) PROVE Lifecycle'
    BY <2>5 DEF JoinNext, Lifecycle, workerVars
  <2>6. CASE Conclude
    BY <2>6 DEF Conclude, Return, Lifecycle, workerVars
  <2>7. CASE UNCHANGED vars
    BY <2>7 DEF vars, workerVars, mainVars, Lifecycle
  <2>8. QED
    BY <2>1, <2>2, <2>3, <2>4, <2>5, <2>6, <2>7 DEF Next, MainStep, WorkerStep
<1>3. QED  BY <1>1, <1>2, PTL DEF Spec

\* The handler's Arc::try_unwrap cannot meet its unreachable!, for any number
\* of workers and any cancellation (handlers.rs:166-172).
THEOREM SoleOwner == Spec => []SoleOwnerAtReturn
<1>1. Lifecycle => SoleOwnerAtReturn
  BY DEF Lifecycle, SoleOwnerAtReturn
<1>2. QED  BY <1>1, LifecycleHolds, PTL

(***************************************************************************)
(* Hard errors and panics.                                                 *)
(***************************************************************************)

\* What happened is in the slot, or with a panicked worker nobody has joined
\* yet; the slot holds nothing else; the flag follows the slot.
ErrorsKept ==
    /\ "none" \notin faults
    /\ hardError \in {"none"} \cup faults
    /\ faults # {} =>
         \/ hardError # "none"
         \/ \E w \in Workers \ joined : pc[w] = "panicked"
    /\ \A w \in Workers : pc[w] = "panicked" => "WorkerPanic" \in faults
    /\ \A w \in Workers : pc[w] = "flag" => hardError # "none"
    /\ errorFlag => hardError # "none"
    /\ main = "count" => faults = {}
    /\ main # "returned" => result = "none"
    /\ result # "none" => result \in faults \/ faults = {}

\* fetch_one_range returns an error, which goes into the slot.
LEMMA FailKeepsErrors ==
    ASSUME NEW w \in Workers, NEW e \in {"Upstream", "Staging"}, Fail(w, e),
           pc[w] \in Active, Lifecycle, ErrorsKept,
           UNCHANGED <<main, joined, result, errorFlag>>
    PROVE  ErrorsKept'
<1>1. faults' = faults \cup {e} /\ hardError' = e /\ pc' = [pc EXCEPT ![w] = "flag"]
  BY DEF Fail, Goto
<1>2. e # "none" /\ e \in faults'
  BY <1>1
<1>3. main \notin {"count", "returned"}
  BY DEF Lifecycle, Active, Busy, Terminal
<1>4. \A v \in Workers : pc'[v] = "panicked" => "WorkerPanic" \in faults'
  BY <1>1 DEF ErrorsKept, Lifecycle
<1>5. result' = "none" /\ main' \notin {"count", "returned"}
  BY <1>3 DEF ErrorsKept
<1>6. QED  BY <1>1, <1>2, <1>4, <1>5 DEF ErrorsKept

\* A step that has nothing to do with errors.
LEMMA MoveKeepsErrors ==
    ASSUME NEW w \in Workers, pc[w] \in Active, Lifecycle, ErrorsKept,
           NEW s \in WorkerSteps \ {"flag", "panicked", "unborn"},
           pc' = [pc EXCEPT ![w] = s],
           UNCHANGED <<main, joined, result, hardError, faults>>,
           errorFlag' => hardError # "none"
    PROVE  ErrorsKept'
<1>1. \A v \in Workers : pc'[v] \in {"flag", "panicked"} => pc'[v] = pc[v]
  BY DEF Lifecycle
<1>2. \A v \in Workers : pc[v] = "panicked" => pc'[v] = "panicked"
  BY DEF Lifecycle, Active, Busy
<1>3. QED  BY <1>1, <1>2 DEF ErrorsKept

\* The error slot, its flag and the join errors (pipeline.rs:330-362).
THEOREM ErrorsAreKept == Spec => []ErrorsKept
<1>1. Init => ErrorsKept
  BY DEF Init, ErrorsKept
<1>2. Lifecycle /\ ErrorsKept /\ [Next]_vars => ErrorsKept'
  <2> SUFFICES ASSUME Lifecycle, ErrorsKept, [Next]_vars PROVE ErrorsKept'
    OBVIOUS
  <2>1. CASE Change
    BY <2>1 DEF Change, workerVars, mainVars, errorVars, ErrorsKept
  <2>2. ASSUME NEW w \in Workers, WorkerStep(w) PROVE ErrorsKept'
    <3> USE DEF Goto, errorVars, Terminal, WorkerSteps
    <3>0. pc[w] \in Active /\ UNCHANGED <<main, joined, result>>
      BY <2>2, WorkerMoves DEF Lifecycle
    <3>1. CASE Claim(w)
      BY <3>0, <3>1, MoveKeepsErrors DEF Claim, ErrorsKept, Active, Busy
    <3>2. CASE Pop(w)
      BY <3>0, <3>2, MoveKeepsErrors DEF Pop, ErrorsKept, Active, Busy
    <3>3. CASE CheckAbort(w)
      BY <3>0, <3>3, MoveKeepsErrors DEF CheckAbort, ErrorsKept, Active, Busy
    <3>4. CASE FetchPage(w)
      <4>1. CASE Fail(w, "Upstream") /\ UNCHANGED <<page, errorFlag>>
        BY <3>0, <4>1, FailKeepsErrors
      <4>2. CASE ~ (Fail(w, "Upstream") /\ UNCHANGED <<page, errorFlag>>)
        BY <3>0, <3>4, <4>2, MoveKeepsErrors DEF FetchPage, ErrorsKept, Active, Busy
      <4>3. QED  BY <4>1, <4>2
    <3>5. CASE FetchFuel(w)
      BY <3>0, <3>5, MoveKeepsErrors DEF FetchFuel, ErrorsKept, Active, Busy
    <3>6. CASE Record(w)
      <4>1. UNCHANGED errorVars
        BY <3>6 DEF Record
      <4>2. CASE UNCHANGED pc
        BY <3>0, <4>1, <4>2 DEF ErrorsKept
      <4>3. CASE Goto(w, IF aborted THEN "claim" ELSE "stage")
        BY <3>0, <4>1, <4>3, MoveKeepsErrors DEF ErrorsKept, Active, Busy
      <4>4. QED  BY <3>6, <4>2, <4>3 DEF Record
    <3>7. CASE Stage(w)
      <4>1. CASE Fail(w, "Staging") /\ UNCHANGED <<rows, errorFlag>>
        BY <3>0, <4>1, FailKeepsErrors
      <4>2. CASE pc' = [pc EXCEPT ![w] = "emit"] /\ UNCHANGED errorVars
        <5>1. "emit" \in WorkerSteps \ {"flag", "panicked", "unborn"}
          BY DEF Active, Busy
        <5>2. errorFlag' => hardError # "none"
          BY <4>2 DEF ErrorsKept
        <5>3. QED  BY <3>0, <4>2, <5>1, <5>2, MoveKeepsErrors
      <4>3. QED  BY <3>7, <4>1, <4>2 DEF Stage
    <3>8. CASE Emit(w)
      BY <3>0, <3>8, MoveKeepsErrors DEF Emit, ErrorsKept, Active, Busy
    <3>9. CASE RaiseFlag(w)
      BY <3>0, <3>9, MoveKeepsErrors DEF RaiseFlag, ErrorsKept
    <3>10. CASE Panic(w)
      <4>1. /\ faults' = faults \cup {"WorkerPanic"}
            /\ pc' = [pc EXCEPT ![w] = "panicked"]
            /\ UNCHANGED <<hardError, errorFlag>>
        BY <3>10 DEF Panic
      <4>2. w \notin joined /\ main \notin {"count", "returned"}
        BY <3>0 DEF Lifecycle, Active, Busy
      <4>3. pc'[w] = "panicked" /\ w \in Workers \ joined'
        BY <3>0, <4>1, <4>2 DEF Lifecycle
      <4>4. \A v \in Workers : pc'[v] = "flag" => hardError' # "none"
        BY <4>1 DEF ErrorsKept, Lifecycle
      <4>5. result' = "none" /\ main' \notin {"count", "returned"}
        BY <3>0, <4>2 DEF ErrorsKept
      <4>6. QED  BY <4>1, <4>3, <4>4, <4>5 DEF ErrorsKept
    <3>11. CASE Cancel(w)
      BY <3>0, <3>11, MoveKeepsErrors DEF Cancel, ErrorsKept
    <3>12. QED
      BY <2>2, <3>1, <3>2, <3>3, <3>4, <3>5, <3>6, <3>7, <3>8, <3>9, <3>10, <3>11
      DEF WorkerStep, Work
  <2>3. CASE CountAndSpawn
    <3>1. faults = {} /\ UNCHANGED <<faults, hardError, errorFlag, joined>>
      BY <2>3 DEF CountAndSpawn, ErrorsKept, errorVars
    <3>2. \A v \in Workers : pc'[v] \notin {"flag", "panicked"}
      BY <2>3 DEF CountAndSpawn, Lifecycle
    <3>3. main' # "returned" => result' = "none"
      BY <2>3 DEF CountAndSpawn, Return, ErrorsKept
    <3>4. QED  BY <3>1, <3>2, <3>3 DEF ErrorsKept
  <2>4. CASE JoinLoop
    BY <2>4 DEF JoinLoop, ErrorsKept, workerVars, errorVars
  <2>5. ASSUME NEW w \in Workers, JoinNext(w) PROVE ErrorsKept'
    <3>1. /\ main = "wait" /\ main' = "join" /\ joined' = joined \cup {w}
          /\ UNCHANGED <<pc, faults, result>>
      BY <2>5 DEF JoinNext, workerVars
    <3>2. CASE pc[w] = "panicked"
      <4>1. hardError' = IF hardError = "none" THEN "WorkerPanic" ELSE hardError
        BY <2>5, <3>2 DEF JoinNext
      <4>2. "WorkerPanic" \in faults
        BY <3>2 DEF ErrorsKept
      <4>3. hardError' # "none" /\ hardError' \in faults
        BY <4>1, <4>2 DEF ErrorsKept
      <4>4. QED  BY <3>1, <4>3 DEF ErrorsKept
    <3>3. CASE pc[w] # "panicked"
      <4>1. UNCHANGED <<hardError, errorFlag>>
        BY <2>5, <3>3 DEF JoinNext
      <4>2. QED  BY <3>1, <3>3, <4>1 DEF ErrorsKept
    <3>4. QED  BY <3>2, <3>3
  <2>6. CASE Conclude
    <3>1. joined = Workers /\ UNCHANGED <<pc, joined, hardError, errorFlag, faults>>
          /\ main' = "returned"
      BY <2>6 DEF Conclude, Return, Lifecycle, workerVars, errorVars
    <3>2. faults # {} => hardError # "none"
      BY <3>1 DEF ErrorsKept
    <3>3. hardError # "none" => result' = hardError
      BY <2>6 DEF Conclude, Return
    <3>4. result' \in faults \/ faults = {}
      BY <3>2, <3>3 DEF ErrorsKept
    <3>5. QED  BY <3>1, <3>4 DEF ErrorsKept
  <2>7. CASE UNCHANGED vars
    BY <2>7 DEF vars, workerVars, mainVars, errorVars, ErrorsKept
  <2>8. QED
    BY <2>1, <2>2, <2>3, <2>4, <2>5, <2>6, <2>7 DEF Next, MainStep, WorkerStep
<1>3. QED  BY <1>1, <1>2, LifecycleHolds, PTL DEF Spec

\* A hard error or a panic of any of any number of workers is what the export
\* returns (pipeline.rs:330-362, 364-376).
THEOREM ErrorsDoSurface == Spec => []ErrorsSurface
<1>1. ErrorsKept => ErrorsSurface
  BY DEF ErrorsKept, ErrorsSurface
<1>2. QED  BY <1>1, ErrorsAreKept, PTL

(***************************************************************************)
(* Pages: the vehicles RDW answers with, and the cursor behind them.       *)
(***************************************************************************)

\* Plates are natural numbers below a bound, and finitely many.
LEMMA PlatesFinite ==
    /\ Plates \subseteq Nat /\ IsFiniteSet(Plates)
    /\ \E top \in Nat : \A p \in Plates : p <= top
<1> DEFINE top == Prefixes * Width - 1
<1>1. top \in Nat
  <2>1. Prefixes \in Nat \ {0} /\ Width \in Nat \ {0}
    BY KentekenRangesAssumption
  <2>2. Prefixes * Width \in Nat /\ Prefixes * Width > 0
    BY <2>1
  <2>3. QED  BY <2>2
<1>2. Plates \subseteq 0 .. top
  BY PipelineAssumption
<1> HIDE DEF top
<1>3. IsFiniteSet(0 .. top)
  BY <1>1, FS_Interval
<1>4. IsFiniteSet(Plates)
  BY <1>2, <1>3, FS_Subset
<1>5. QED  BY <1>1, <1>2, <1>4

\* A non-empty set of natural numbers has a least element.
LEMMA LeastElement ==
    ASSUME NEW S, S \subseteq Nat, S # {}
    PROVE  \E x \in S : \A y \in S : x <= y
<1>1. PICK x \in S : \A y \in S : ~ (<<y, x>> \in OpToRel(<, Nat))
  BY NatLessThanWellFounded, WFMin
<1>2. \A y \in S : ~ (y < x)
  BY <1>1 DEF OpToRel
<1>3. QED  BY <1>2

\* The largest plate of a page is one of its plates and above the others.
LEMMA MaxOfPlates ==
    ASSUME NEW S \in SUBSET Plates, S # {}
    PROVE  Max(S) \in S /\ \A p \in S : p <= Max(S)
<1>1. PICK top \in Nat : \A p \in Plates : p <= top
  BY PlatesFinite
<1> DEFINE T == {n \in Nat : \E p \in S : n = top - p}
<1>2. T \subseteq Nat /\ T # {} /\ \A p \in S : top - p \in T
  <2>1. \A p \in S : p \in Nat /\ p <= top /\ top - p \in Nat
    BY <1>1, PlatesFinite
  <2>2. QED  BY <2>1
<1>3. PICK t \in T : \A y \in T : t <= y
  BY <1>2, LeastElement
<1>4. PICK x \in S : t = top - x
  BY <1>3
<1>5. \A p \in S : top - x <= top - p
  BY <1>2, <1>3, <1>4
<1>6. \A p \in S : p \in Nat
  BY PlatesFinite
<1>7. \E m \in S : \A p \in S : m >= p
  BY <1>4, <1>5, <1>6
<1>8. Max(S) \in S /\ \A p \in S : Max(S) >= p
  BY <1>7 DEF Max
<1>9. QED  BY <1>6, <1>8

\* What RDW has left of a range behind a cursor.
Left(i, after) == {p \in dataset : InRange(i, p) /\ p > after}

\* A page is part of what is left; it is empty only if nothing is left; and
\* what it leaves out comes after all of its vehicles, of which there are then
\* as many as a page holds ($order, $limit of vehicle_range_page_url).
LEMMA PageOfRange ==
    ASSUME dataset \subseteq Plates, NEW i, NEW after
    PROVE  /\ NextPage(i, after) \subseteq Left(i, after)
           /\ NextPage(i, after) = {} => Left(i, after) = {}
           /\ \A p \in Left(i, after) \ NextPage(i, after) :
                /\ \A q \in NextPage(i, after) : q < p
                /\ ~ (Cardinality(NextPage(i, after)) < PageSize)
<1> DEFINE L == Left(i, after)
           G == NextPage(i, after)
           Below(p) == {q \in L : q < p}
<1>1. G = {p \in L : Cardinality(Below(p)) < PageSize}
  BY DEF NextPage, Left
<1>2. L \subseteq Nat /\ IsFiniteSet(L)
  BY PlatesFinite, FS_Subset DEF Left
<1>3. G \subseteq L
  BY <1>1
<1>4. PageSize \in Nat \ {0}
  BY PipelineAssumption
<1>5. ASSUME NEW p \in L
      PROVE  IsFiniteSet(Below(p)) /\ Cardinality(Below(p)) \in Nat
  <2>1. Below(p) \in SUBSET L
    OBVIOUS
  <2> HIDE DEF L, Below
  <2>2. QED  BY <1>2, <2>1, FS_Subset, FS_CardinalityType
<1>6. IsFiniteSet(G) /\ Cardinality(G) \in Nat
  <2> HIDE DEF L, G
  <2>1. QED  BY <1>2, <1>3, FS_Subset, FS_CardinalityType
<1>7. ASSUME NEW p \in L, NEW q \in L, q < p
      PROVE  Cardinality(Below(q)) <= Cardinality(Below(p))
  <2>1. q \in Nat /\ p \in Nat /\ \A r \in L : r \in Nat
    BY <1>2
  <2>2. \A r \in L : r < q => r < p
    BY <1>7, <2>1
  <2>3. Below(q) \in SUBSET Below(p)
    BY <2>2
  <2>4. IsFiniteSet(Below(p))
    BY <1>5
  <2> HIDE DEF L, Below
  <2>5. QED  BY <2>3, <2>4, FS_Subset
<1>8. L # {} => G # {}
  <2> SUFFICES ASSUME L # {} PROVE G # {}
    OBVIOUS
  <2>1. PICK x \in L : \A y \in L : x <= y
    BY <1>2, LeastElement
  <2>2. Below(x) = {}
    BY <1>2, <2>1
  <2>3. Cardinality(Below(x)) < PageSize
    BY <2>2, <1>4, FS_EmptySet
  <2>4. QED  BY <1>1, <2>1, <2>3
<1>9. ASSUME NEW p \in L \ G
      PROVE  \A q \in G : q < p
  <2> SUFFICES ASSUME NEW q \in G, ~ (q < p) PROVE FALSE
    OBVIOUS
  <2>1. p \in Nat /\ q \in Nat /\ q \in L
    BY <1>2, <1>3
  <2>2. p < q
    BY <2>1, <1>9
  <2>3. Cardinality(Below(p)) <= Cardinality(Below(q))
    BY <2>1, <2>2, <1>7
  <2>4. Cardinality(Below(q)) < PageSize
    BY <1>1
  <2>5. Cardinality(Below(p)) < PageSize
    <3>1. Cardinality(Below(p)) \in Nat /\ Cardinality(Below(q)) \in Nat
      BY <1>5, <2>1
    <3> HIDE DEF Below, L, G
    <3>2. QED  BY <3>1, <2>3, <2>4, <1>4
  <2>6. QED  BY <1>1, <1>9, <2>5
<1>10. ASSUME NEW p \in L \ G
       PROVE  ~ (Cardinality(G) < PageSize)
  <2>1. PICK x \in L \ G : \A y \in L \ G : x <= y
    <3>1. L \ G \subseteq Nat /\ L \ G # {}
      BY <1>2, <1>10
    <3>2. QED  BY <3>1, LeastElement
  <2>2. Below(x) \in SUBSET G
    BY <1>2, <2>1
  <2>3. Cardinality(Below(x)) <= Cardinality(G) /\ Cardinality(Below(x)) \in Nat
    <3>1. Cardinality(Below(x)) \in Nat
      BY <1>5
    <3> HIDE DEF Below, L, G
    <3>2. QED  BY <1>6, <2>2, <3>1, FS_Subset
  <2>4. ~ (Cardinality(Below(x)) < PageSize)
    BY <1>1
  <2> HIDE DEF Below, L, G
  <2>5. QED  BY <1>4, <1>6, <2>3, <2>4
<1>11. QED  BY <1>3, <1>8, <1>9, <1>10

(***************************************************************************)
(* Ranges: who holds which, and what is in hand.                           *)
(***************************************************************************)

Holding == {"fuel", "record", "stage", "emit"}

\* Ranges are claimed in their order: these are the first ones.
Claimed == RangeCount - Len(queue)

\* The queue holds the ranges nobody has claimed yet, every worker has a range
\* of its own, and a page in hand belongs to it, behind the cursor.
Ownership ==
    /\ dataset \subseteq Plates
    /\ queue \in Seq(Nat) /\ Len(queue) <= RangeCount
    /\ \A i \in 1 .. Len(queue) : queue[i] = Claimed + i
    /\ range \in [Workers -> Nat]
    /\ cursor \in [Workers -> Int]
    /\ page \in [Workers -> SUBSET Plates]
    /\ \A w \in Workers :
         /\ range[w] <= Claimed
         /\ pc[w] \in Busy => range[w] # 0
         /\ pc[w] \in Holding =>
              /\ page[w] # {}
              /\ \A p \in page[w] : InRange(range[w], p) /\ p > cursor[w]
    /\ \A v, w \in Workers : range[v] = range[w] /\ range[v] # 0 => v = w

\* A worker's step that moves only its place.
LEMMA MoveKeepsOwnership ==
    ASSUME Ownership, Lifecycle, NEW w \in Workers, NEW s \in WorkerSteps,
           pc' = [pc EXCEPT ![w] = s],
           UNCHANGED <<dataset, queue, range, cursor, page>>,
           s \in Busy => pc[w] \in Busy, s \in Holding => pc[w] \in Holding
    PROVE  Ownership'
<1>1. \A v \in Workers : pc'[v] \in Busy => pc[v] \in Busy
  BY DEF Lifecycle
<1>2. \A v \in Workers : pc'[v] \in Holding => pc[v] \in Holding
  BY DEF Lifecycle
<1>3. Claimed' = Claimed
  BY DEF Claimed
<1>4. QED  BY <1>1, <1>2, <1>3 DEF Ownership

\* Popping the next range (pipeline.rs:313-316).
LEMMA PopKeepsOwnership ==
    ASSUME Ownership, Lifecycle, NEW w \in Workers, Pop(w)
    PROVE  Ownership'
<1> USE DEF Goto, Busy, Holding, WorkerSteps, Terminal, Active
<1>0. UNCHANGED <<dataset, page>>
  BY DEF Pop, rdwVars
<1>1. CASE queue = <<>>
  BY <1>0, <1>1, MoveKeepsOwnership DEF Pop
<1>2. CASE queue # <<>>
  <2>1. /\ range' = [range EXCEPT ![w] = Head(queue)] /\ queue' = Tail(queue)
        /\ cursor' = [cursor EXCEPT ![w] = -1] /\ pc' = [pc EXCEPT ![w] = "page"]
    BY <1>2 DEF Pop
  <2>2. Len(queue) \in Nat \ {0} /\ Head(queue) = queue[1]
    BY <1>2 DEF Ownership
  <2>3. RangeCount \in Nat
    BY KentekenRangesAssumption
  <2>4. Len(queue') = Len(queue) - 1 /\ Claimed' = Claimed + 1 /\ Claimed \in Nat
    BY <2>1, <2>2, <2>3 DEF Claimed, Ownership
  <2>5. Head(queue) = Claimed + 1
    BY <2>2 DEF Ownership
  <2>6. \A i \in 1 .. Len(queue') : queue'[i] = Claimed' + i
    BY <2>1, <2>2, <2>4 DEF Ownership
  <2>7. /\ range'[w] = Claimed + 1
        /\ \A v \in Workers \ {w} : range'[v] = range[v] /\ range[v] <= Claimed
    BY <2>1, <2>5 DEF Ownership
  <2>8. /\ range' \in [Workers -> Nat] /\ cursor' \in [Workers -> Int]
        /\ queue' \in Seq(Nat)
    BY <2>1, <2>2, <2>4, <2>5 DEF Ownership
  <2>9. \A u, v \in Workers : range'[u] = range'[v] /\ range'[u] # 0 => u = v
    <3> SUFFICES ASSUME NEW u \in Workers, NEW v \in Workers,
                        range'[u] = range'[v], range'[u] # 0, u # v
                 PROVE  FALSE
      OBVIOUS
    <3>1. range[u] \in Nat /\ range[v] \in Nat
      BY DEF Ownership
    <3>2. CASE u = w  BY <2>4, <2>7, <3>1, <3>2
    <3>3. CASE v = w  BY <2>4, <2>7, <3>1, <3>3
    <3>4. CASE u # w /\ v # w
      <4>1. range[u] = range[v] /\ range[u] # 0
        BY <2>7, <3>4
      <4>2. QED  BY <4>1 DEF Ownership
    <3>5. QED  BY <3>2, <3>3, <3>4
  <2>10. \A v \in Workers :
           /\ range'[v] <= Claimed'
           /\ pc'[v] \in Busy => range'[v] # 0
           /\ pc'[v] \in Holding =>
                v # w /\ pc'[v] = pc[v] /\ range'[v] = range[v] /\ cursor'[v] = cursor[v]
    BY <2>1, <2>4, <2>7 DEF Ownership, Lifecycle
  <2>11. \A v \in Workers : pc'[v] \in Holding =>
           /\ page'[v] # {}
           /\ \A p \in page'[v] : InRange(range'[v], p) /\ p > cursor'[v]
    BY <1>0, <2>10 DEF Ownership
  <2>12. Len(queue') <= RangeCount /\ dataset' \subseteq Plates
         /\ page' \in [Workers -> SUBSET Plates]
    BY <1>0, <2>2, <2>3, <2>4 DEF Ownership
  <2> HIDE DEF Busy, Holding
  <2>13. QED
    BY <2>6, <2>8, <2>9, <2>10, <2>11, <2>12 DEF Ownership
<1>3. QED  BY <1>1, <1>2

\* Fetching a page (pipeline.rs:433-444).
LEMMA FetchKeepsOwnership ==
    ASSUME Ownership, Lifecycle, NEW w \in Workers, FetchPage(w)
    PROVE  Ownership'
<1> USE DEF Goto, Busy, Holding, WorkerSteps, Terminal, Active
<1>0. pc[w] = "fetch" /\ UNCHANGED <<dataset, queue, range, cursor>>
  BY DEF FetchPage, rdwVars
<1>1. CASE Fail(w, "Upstream") /\ UNCHANGED <<page, errorFlag>>
  BY <1>0, <1>1, MoveKeepsOwnership DEF Fail
<1>2. CASE page' = [page EXCEPT ![w] = NextPage(range[w], cursor[w])]
           /\ Goto(w, IF page'[w] = {} THEN "claim" ELSE "fuel")
  <2>1. NextPage(range[w], cursor[w]) \subseteq Left(range[w], cursor[w])
    BY PageOfRange DEF Ownership
  <2>2. page'[w] = NextPage(range[w], cursor[w]) /\ page' \in [Workers -> SUBSET Plates]
    BY <1>2, <2>1 DEF Ownership, Left
  <2>3. \A p \in page'[w] : InRange(range[w], p) /\ p > cursor[w]
    BY <2>1, <2>2 DEF Left
  <2>4. pc'[w] \in Holding => page'[w] # {}
    BY <1>2 DEF Lifecycle
  <2>5. \A v \in Workers \ {w} : pc'[v] = pc[v] /\ page'[v] = page[v]
    BY <1>2 DEF Lifecycle, Ownership
  <2>6. Claimed' = Claimed
    BY <1>0 DEF Claimed
  <2>7. \A v \in Workers :
          /\ pc'[v] \in Busy => range'[v] # 0
          /\ pc'[v] \in Holding =>
               /\ page'[v] # {}
               /\ \A p \in page'[v] : InRange(range'[v], p) /\ p > cursor'[v]
    BY <1>0, <2>3, <2>4, <2>5 DEF Ownership
  <2>8. QED  BY <1>0, <2>2, <2>6, <2>7 DEF Ownership
<1>3. QED  BY <1>1, <1>2 DEF FetchPage

\* Counting a page and moving the cursor behind it (pipeline.rs:499-511).
LEMMA EmitKeepsOwnership ==
    ASSUME Ownership, Lifecycle, NEW w \in Workers, Emit(w)
    PROVE  Ownership'
<1> USE DEF Goto, Busy, Holding, WorkerSteps, Terminal, Active
<1>1. /\ pc[w] = "emit" /\ UNCHANGED <<dataset, queue, range, page>>
      /\ cursor' = [cursor EXCEPT ![w] = Max(page[w])]
      /\ pc' \in {[pc EXCEPT ![w] = "claim"], [pc EXCEPT ![w] = "page"]}
  BY DEF Emit, rdwVars
<1>2. Max(page[w]) \in Int
  <2> DEFINE top == Max(page[w])
  <2>1. page[w] \in SUBSET Plates /\ page[w] # {}
    BY <1>1 DEF Ownership
  <2>2. top \in Plates
    BY <2>1, MaxOfPlates
  <2>3. Plates \subseteq Nat
    BY PlatesFinite
  <2> HIDE DEF top
  <2>4. top \in Int
    BY <2>2, <2>3
  <2>5. QED  BY <2>4 DEF top
<1>3. cursor' \in [Workers -> Int]
  BY <1>1, <1>2 DEF Ownership
<1>4. \A v \in Workers :
        /\ pc'[v] \in Busy => pc[v] \in Busy
        /\ pc'[v] \in Holding => pc'[v] = pc[v] /\ cursor'[v] = cursor[v]
  BY <1>1 DEF Lifecycle, Ownership
<1>5. Claimed' = Claimed
  BY <1>1 DEF Claimed
<1> HIDE DEF Busy, Holding
<1>6. \A v \in Workers :
        /\ range'[v] <= Claimed'
        /\ pc'[v] \in Busy => range'[v] # 0
  BY <1>1, <1>4, <1>5 DEF Ownership
<1>7. \A v \in Workers : pc'[v] \in Holding =>
        /\ page'[v] # {}
        /\ \A p \in page'[v] : InRange(range'[v], p) /\ p > cursor'[v]
  BY <1>1, <1>4 DEF Ownership
<1>8. QED  BY <1>1, <1>3, <1>5, <1>6, <1>7 DEF Ownership

\* The queue and the ranges of the workers (pipeline.rs:282-329, 426-511).
THEOREM RangesAreOwned == Spec => []Ownership
<1>1. Init => Ownership
  <2> SUFFICES ASSUME Init PROVE Ownership
    OBVIOUS
  <2>1. RangeCount \in Nat
    BY KentekenRangesAssumption
  <2>2. queue \in Seq(Nat) /\ Len(queue) = RangeCount
        /\ \A i \in 1 .. Len(queue) : queue[i] = i
    BY <2>1 DEF Init
  <2>3. Claimed = 0
    BY <2>1, <2>2 DEF Claimed
  <2>4. QED
    BY <2>1, <2>2, <2>3 DEF Init, Ownership, Busy, Holding
<1>2. Lifecycle /\ Ownership /\ [Next]_vars => Ownership'
  <2> SUFFICES ASSUME Lifecycle, Ownership, [Next]_vars PROVE Ownership'
    OBVIOUS
  <2> USE DEF rdwVars, workerVars
  <2>1. CASE Change
    <3>1. dataset' \subseteq Plates /\ UNCHANGED <<pc, queue, range, cursor, page>>
      BY <2>1 DEF Change, Ownership
    <3>2. QED  BY <3>1 DEF Ownership, Claimed
  <2>2. ASSUME NEW w \in Workers, WorkerStep(w) PROVE Ownership'
    <3> USE DEF Goto, Busy, Holding, WorkerSteps, Terminal, Active
    <3>1. CASE Claim(w)      BY <3>1, MoveKeepsOwnership DEF Claim
    <3>2. CASE Pop(w)        BY <3>2, PopKeepsOwnership
    <3>3. CASE CheckAbort(w) BY <3>3, MoveKeepsOwnership DEF CheckAbort
    <3>4. CASE FetchPage(w)  BY <3>4, FetchKeepsOwnership
    <3>5. CASE FetchFuel(w)  BY <3>5, MoveKeepsOwnership DEF FetchFuel
    <3>6. CASE Record(w)
      <4>1. pc[w] = "record" /\ UNCHANGED <<dataset, queue, range, cursor, page>>
        BY <3>6 DEF Record
      <4>2. CASE UNCHANGED pc
        BY <4>1, <4>2 DEF Ownership, Claimed
      <4>3. CASE Goto(w, IF aborted THEN "claim" ELSE "stage")
        BY <4>1, <4>3, MoveKeepsOwnership
      <4>4. QED  BY <3>6, <4>2, <4>3 DEF Record
    <3>7. CASE Stage(w)      BY <3>7, MoveKeepsOwnership DEF Stage, Fail
    <3>8. CASE Emit(w)       BY <3>8, EmitKeepsOwnership
    <3>9. CASE RaiseFlag(w)  BY <3>9, MoveKeepsOwnership DEF RaiseFlag
    <3>10. CASE Panic(w)     BY <3>10, MoveKeepsOwnership DEF Panic
    <3>11. CASE Cancel(w)    BY <3>11, MoveKeepsOwnership DEF Cancel
    <3>12. QED
      BY <2>2, <3>1, <3>2, <3>3, <3>4, <3>5, <3>6, <3>7, <3>8, <3>9, <3>10, <3>11
      DEF WorkerStep, Work
  <2>3. CASE CountAndSpawn
    <3>1. UNCHANGED <<dataset, queue, range, cursor, page>>
      BY <2>3 DEF CountAndSpawn
    <3>2. \A v \in Workers : pc'[v] \notin Busy /\ pc'[v] \notin Holding
      BY <2>3 DEF CountAndSpawn, Lifecycle, Busy, Holding
    <3>3. QED  BY <3>1, <3>2 DEF Ownership, Claimed
  <2>4. CASE JoinLoop
    BY <2>4 DEF JoinLoop, Ownership, Claimed
  <2>5. ASSUME NEW w \in Workers, JoinNext(w) PROVE Ownership'
    BY <2>5 DEF JoinNext, Ownership, Claimed
  <2>6. CASE Conclude
    BY <2>6 DEF Conclude, Ownership, Claimed
  <2>7. CASE UNCHANGED vars
    BY <2>7 DEF vars, Ownership, Claimed
  <2>8. QED
    BY <2>1, <2>2, <2>3, <2>4, <2>5, <2>6, <2>7 DEF Next, MainStep, WorkerStep
<1>3. QED  BY <1>1, <1>2, LifecycleHolds, PTL DEF Spec

(***************************************************************************)
(* Rows: no vehicle is staged twice.                                       *)
(***************************************************************************)

RowTypes ==
    /\ rows \in [Plates -> [Statuses -> Nat]]
    /\ fuelFailed \in [Workers -> BOOLEAN]

\* A staged vehicle lies in a range that was claimed, and who holds that range
\* has moved the cursor past the vehicle, or is about to.
Behind(p, w) == p <= cursor[w] \/ (pc[w] = "emit" /\ p \in page[w])

StagedOnce ==
    /\ RowTypes
    /\ \A p \in Plates : RowsOf(p) \in {0, 1}
    /\ \A p \in Plates, i \in 1 .. RangeCount :
         RowsOf(p) = 1 /\ InRange(i, p) =>
           /\ i <= Claimed
           /\ \A w \in Workers : range[w] = i /\ pc[w] \in Busy => Behind(p, w)

\* Staging a page adds one row for each of its vehicles (pipeline.rs:490-498).
LEMMA StageAddsRows ==
    ASSUME RowTypes, NEW w \in Workers, NEW s \in Statuses,
           rows' = [p \in Plates |->
                      IF p \in page[w] THEN [rows[p] EXCEPT ![s] = @ + 1] ELSE rows[p]]
    PROVE  /\ rows' \in [Plates -> [Statuses -> Nat]]
           /\ \A p \in Plates :
                RowsOf(p)' = IF p \in page[w] THEN RowsOf(p) + 1 ELSE RowsOf(p)
<1>1. s = "fetched" \/ s = "fuel_unavailable"
  BY DEF Statuses
<1>2. ASSUME NEW p \in Plates
      PROVE  /\ rows'[p] \in [Statuses -> Nat]
             /\ RowsOf(p)' = IF p \in page[w] THEN RowsOf(p) + 1 ELSE RowsOf(p)
  <2> DEFINE r == rows[p]
  <2>1. r \in [Statuses -> Nat] /\ r["fetched"] \in Nat /\ r["fuel_unavailable"] \in Nat
    BY DEF RowTypes, Statuses
  <2>2. rows'[p] = IF p \in page[w] THEN [r EXCEPT ![s] = r[s] + 1] ELSE r
    OBVIOUS
  <2> HIDE DEF r
  <2>3. CASE p \in page[w]
    <3>1. rows'[p] = [r EXCEPT ![s] = r[s] + 1]
      BY <2>2, <2>3
    <3>2. r[s] + 1 \in Nat
      BY <1>1, <2>1
    <3>3. rows'[p] \in [Statuses -> Nat]
      BY <2>1, <3>1, <3>2
    <3>4. rows'[p]["fetched"] + rows'[p]["fuel_unavailable"]
            = r["fetched"] + r["fuel_unavailable"] + 1
      <4>1. "fetched" \in Statuses /\ "fuel_unavailable" \in Statuses
        BY DEF Statuses
      <4>2. CASE s = "fetched"
        <5>1. rows'[p]["fetched"] = r["fetched"] + 1
              /\ rows'[p]["fuel_unavailable"] = r["fuel_unavailable"]
          BY <2>1, <3>1, <4>1, <4>2
        <5>2. QED  BY <5>1, <2>1
      <4>3. CASE s = "fuel_unavailable"
        <5>1. rows'[p]["fuel_unavailable"] = r["fuel_unavailable"] + 1
              /\ rows'[p]["fetched"] = r["fetched"]
          BY <2>1, <3>1, <4>1, <4>3
        <5>2. QED  BY <5>1, <2>1
      <4>4. QED  BY <1>1, <4>2, <4>3
    <3>5. QED  BY <2>3, <3>3, <3>4 DEF RowsOf, r
  <2>4. CASE p \notin page[w]
    <3>1. rows'[p] = r
      BY <2>2, <2>4
    <3>2. QED  BY <2>1, <2>4, <3>1 DEF RowsOf, r
  <2>5. QED  BY <2>3, <2>4
<1>3. QED  BY <1>2

\* A worker's step that stages nothing and moves no cursor.
LEMMA MoveKeepsStaged ==
    ASSUME StagedOnce, Lifecycle, Ownership, NEW w \in Workers, NEW s \in WorkerSteps,
           pc' = [pc EXCEPT ![w] = s], s \in Busy => pc[w] \in Busy, pc[w] # "emit",
           UNCHANGED <<rows, queue, range, cursor>>,
           \A v \in Workers \ {w} : page'[v] = page[v],
           fuelFailed' \in [Workers -> BOOLEAN]
    PROVE  StagedOnce'
<1>1. \A v \in Workers : pc'[v] \in Busy => pc[v] \in Busy
  BY DEF Lifecycle
<1>2. \A v \in Workers : pc[v] = "emit" => pc'[v] = "emit" /\ page'[v] = page[v]
  BY DEF Lifecycle
<1>3. \A p \in Plates : RowsOf(p)' = RowsOf(p)
  BY DEF RowsOf
<1>4. Claimed' = Claimed
  BY DEF Claimed
<1>5. \A p \in Plates, v \in Workers : Behind(p, v) => Behind(p, v)'
  BY <1>2 DEF Behind
<1>6. RowTypes'
  BY DEF StagedOnce, RowTypes
<1>7. QED  BY <1>1, <1>3, <1>4, <1>5, <1>6 DEF StagedOnce

\* The next range holds no staged vehicle.
LEMMA PopKeepsStaged ==
    ASSUME StagedOnce, Lifecycle, Ownership, NEW w \in Workers, Pop(w)
    PROVE  StagedOnce'
<1>0. pc[w] = "pop" /\ UNCHANGED <<rows, page, fuelFailed>>
  BY DEF Pop, outputVars
<1>1. CASE queue = <<>>
  BY <1>0, <1>1, MoveKeepsStaged
  DEF Pop, Goto, Busy, WorkerSteps, Terminal, StagedOnce, RowTypes
<1>2. CASE queue # <<>>
  <2>1. /\ range' = [range EXCEPT ![w] = Head(queue)] /\ queue' = Tail(queue)
        /\ cursor' = [cursor EXCEPT ![w] = -1] /\ pc' = [pc EXCEPT ![w] = "page"]
    BY <1>2 DEF Pop, Goto
  <2>2. RangeCount \in Nat /\ Len(queue) \in Nat \ {0} /\ Head(queue) = queue[1]
    BY <1>2, KentekenRangesAssumption DEF Ownership
  <2>3. Claimed' = Claimed + 1 /\ Claimed \in Nat /\ Head(queue) = Claimed + 1
    BY <2>1, <2>2 DEF Claimed, Ownership
  <2>4. range'[w] = Claimed + 1
    BY <2>1, <2>3 DEF Ownership
  <2>5. \A v \in Workers \ {w} :
          range'[v] = range[v] /\ pc'[v] = pc[v] /\ cursor'[v] = cursor[v]
    BY <2>1 DEF Ownership, Lifecycle
  <2>6. \A p \in Plates : RowsOf(p)' = RowsOf(p)
    BY <1>0 DEF RowsOf
  <2>7. ASSUME NEW p \in Plates, NEW i \in 1 .. RangeCount, RowsOf(p) = 1, InRange(i, p)
        PROVE  /\ i <= Claimed'
               /\ \A v \in Workers : range'[v] = i /\ pc'[v] \in Busy => Behind(p, v)'
    <3>1. i <= Claimed
      BY <2>7 DEF StagedOnce
    <3>2. range'[w] # i
      BY <2>3, <2>4, <3>1
    <3>3. \A v \in Workers \ {w} : Behind(p, v) => Behind(p, v)'
      BY <1>0, <2>5 DEF Behind
    <3>4. \A v \in Workers \ {w} : range[v] = i /\ pc[v] \in Busy => Behind(p, v)
      BY <2>7 DEF StagedOnce
    <3>5. i <= Claimed'
      BY <2>3, <3>1
    <3>6. QED  BY <2>5, <3>2, <3>3, <3>4, <3>5
  <2>8. RowTypes'
    BY <1>0 DEF StagedOnce, RowTypes
  <2>9. QED  BY <2>6, <2>7, <2>8 DEF StagedOnce
<1>3. QED  BY <1>1, <1>2

\* The vehicles of the page in hand were not staged before.
LEMMA StageKeepsStaged ==
    ASSUME StagedOnce, Lifecycle, Ownership, NEW w \in Workers, pc[w] = "stage",
           NEW s \in Statuses,
           rows' = [p \in Plates |->
                      IF p \in page[w] THEN [rows[p] EXCEPT ![s] = @ + 1] ELSE rows[p]],
           pc' = [pc EXCEPT ![w] = "emit"],
           UNCHANGED <<queue, range, cursor, page, fuelFailed>>
    PROVE  StagedOnce'
<1>1. RowTypes' /\ \A p \in Plates :
        RowsOf(p)' = IF p \in page[w] THEN RowsOf(p) + 1 ELSE RowsOf(p)
  BY StageAddsRows DEF StagedOnce, RowTypes
<1>2. /\ page[w] \subseteq Plates /\ range[w] \in 1 .. RangeCount /\ range[w] <= Claimed
      /\ \A p \in page[w] : InRange(range[w], p) /\ p > cursor[w]
  <2>1. range[w] \in Nat /\ range[w] # 0 /\ range[w] <= Claimed /\ Claimed <= RangeCount
    BY KentekenRangesAssumption DEF Ownership, Busy, Claimed
  <2>2. RangeCount \in Nat /\ Claimed \in Int
    BY KentekenRangesAssumption DEF Ownership, Claimed
  <2>3. QED  BY <2>1, <2>2 DEF Ownership, Holding
<1>3. ASSUME NEW p \in page[w]
      PROVE  RowsOf(p) = 0
  <2>1. InRange(range[w], p) /\ p > cursor[w] /\ p \in Plates
    BY <1>2
  <2>2. ~ Behind(p, w)
    <3>1. p \in Nat /\ cursor[w] \in Int
      BY <2>1, PlatesFinite DEF Ownership
    <3>2. QED  BY <2>1, <3>1 DEF Behind
  <2>3. RowsOf(p) # 1
    BY <1>2, <2>1, <2>2 DEF StagedOnce, Busy
  <2>4. QED  BY <2>1, <2>3 DEF StagedOnce
<1>4. Claimed' = Claimed
  BY DEF Claimed
<1>5. \A v \in Workers : pc'[v] \in Busy => pc[v] \in Busy
  BY DEF Lifecycle, Busy
<1>6. \A p \in Plates, v \in Workers : Behind(p, v) => Behind(p, v)'
  BY DEF Behind, Lifecycle
<1>7. \A p \in page[w] : Behind(p, w)'
  BY DEF Behind, Lifecycle
<1>8. ASSUME NEW p \in Plates, NEW i \in 1 .. RangeCount, RowsOf(p)' = 1, InRange(i, p)
      PROVE  /\ i <= Claimed'
             /\ \A v \in Workers : range'[v] = i /\ pc'[v] \in Busy => Behind(p, v)'
  <2>1. CASE p \in page[w]
    <3>1. i = range[w]
      BY <1>2, <1>8, <2>1, RangesDisjoint, PlatesFinite
    <3>2. \A v \in Workers : range[v] = i => v = w
      BY <1>2, <3>1 DEF Ownership
    <3>3. QED  BY <1>2, <1>4, <1>7, <2>1, <3>1, <3>2
  <2>2. CASE p \notin page[w]
    <3>1. RowsOf(p) = 1
      BY <1>1, <1>8, <2>2
    <3>2. /\ i <= Claimed
          /\ \A v \in Workers : range[v] = i /\ pc[v] \in Busy => Behind(p, v)
      BY <1>8, <3>1 DEF StagedOnce
    <3>3. QED  BY <1>4, <1>5, <1>6, <3>2
  <2>3. QED  BY <2>1, <2>2
<1>9. \A p \in Plates : RowsOf(p)' \in {0, 1}
  BY <1>1, <1>3 DEF StagedOnce
<1>10. QED  BY <1>1, <1>8, <1>9 DEF StagedOnce

\* The cursor moves over the whole page.
LEMMA EmitKeepsStaged ==
    ASSUME StagedOnce, Lifecycle, Ownership, NEW w \in Workers, Emit(w)
    PROVE  StagedOnce'
<1> DEFINE top == Max(page[w])
<1>1. /\ pc[w] = "emit" /\ UNCHANGED <<rows, queue, range, page, fuelFailed>>
      /\ cursor' = [cursor EXCEPT ![w] = top]
      /\ pc' \in {[pc EXCEPT ![w] = "claim"], [pc EXCEPT ![w] = "page"]}
  BY DEF Emit, Goto
<1>2. page[w] \in SUBSET Plates /\ page[w] # {} /\ \A p \in page[w] : p > cursor[w]
  BY <1>1 DEF Ownership, Holding
<1>3. top \in page[w] /\ \A p \in page[w] : p <= top
  BY <1>2, MaxOfPlates
<1>4. Plates \subseteq Nat /\ cursor[w] \in Int
  BY PlatesFinite DEF Ownership
<1> HIDE DEF top
<1>5. top > cursor[w] /\ top \in Nat
  BY <1>2, <1>3, <1>4
<1>6. cursor'[w] = top /\ \A v \in Workers \ {w} : cursor'[v] = cursor[v] /\ pc'[v] = pc[v]
  <2>1. cursor'[w] = top /\ \A v \in Workers \ {w} : cursor'[v] = cursor[v]
    BY <1>1 DEF Ownership
  <2>2. \A v \in Workers \ {w} : pc'[v] = pc[v]
    BY <1>1 DEF Lifecycle
  <2>3. QED  BY <2>1, <2>2
<1>7. \A p \in Plates : Behind(p, w) => p <= top
  <2> SUFFICES ASSUME NEW p \in Plates, Behind(p, w) PROVE p <= top
    OBVIOUS
  <2>1. p \in Nat
    BY <1>4
  <2>2. CASE p <= cursor[w]
    BY <2>1, <2>2, <1>4, <1>5
  <2>3. CASE p \in page[w]
    BY <2>3, <1>3
  <2>4. QED  BY <2>2, <2>3 DEF Behind
<1>8. \A p \in Plates, v \in Workers : Behind(p, v) => Behind(p, v)'
  BY <1>1, <1>6, <1>7 DEF Behind
<1>9. \A v \in Workers : pc'[v] \in Busy => pc[v] \in Busy
  BY <1>1, <1>6 DEF Busy
<1>10. Claimed' = Claimed /\ \A p \in Plates : RowsOf(p)' = RowsOf(p)
  BY <1>1 DEF Claimed, RowsOf
<1>11. RowTypes'
  BY <1>1 DEF StagedOnce, RowTypes
<1>12. QED  BY <1>1, <1>8, <1>9, <1>10, <1>11 DEF StagedOnce

\* Every staged vehicle is behind the cursor of its range.
THEOREM RowsStagedOnce == Spec => []StagedOnce
<1>1. Init => StagedOnce
  <2> SUFFICES ASSUME Init PROVE StagedOnce
    OBVIOUS
  <2>1. RowTypes
    BY DEF Init, RowTypes
  <2>2. \A p \in Plates : RowsOf(p) = 0
    BY DEF Init, RowsOf, Statuses
  <2>3. QED  BY <2>1, <2>2 DEF StagedOnce
<1>2. Lifecycle /\ Ownership /\ StagedOnce /\ [Next]_vars => StagedOnce'
  <2> SUFFICES ASSUME Lifecycle, Ownership, StagedOnce, [Next]_vars PROVE StagedOnce'
    OBVIOUS
  <2> USE DEF outputVars, workerVars
  <2>0. ASSUME UNCHANGED <<rows, queue, range, cursor, page, pc, fuelFailed>>
        PROVE  StagedOnce'
    BY <2>0 DEF StagedOnce, RowTypes, RowsOf, Claimed, Behind
  <2>1. CASE Change
    BY <2>0, <2>1 DEF Change
  <2>2. ASSUME NEW w \in Workers, WorkerStep(w) PROVE StagedOnce'
    <3> USE DEF Goto, Busy, WorkerSteps, Terminal, Active
    <3>0. fuelFailed \in [Workers -> BOOLEAN]
      BY DEF StagedOnce, RowTypes
    <3>1. CASE Claim(w)      BY <3>0, <3>1, MoveKeepsStaged DEF Claim
    <3>2. CASE Pop(w)        BY <3>2, PopKeepsStaged
    <3>3. CASE CheckAbort(w) BY <3>0, <3>3, MoveKeepsStaged DEF CheckAbort
    <3>4. CASE FetchPage(w)
      <4>1. /\ pc[w] = "fetch" /\ UNCHANGED <<rows, queue, range, cursor, fuelFailed>>
            /\ \A v \in Workers \ {w} : page'[v] = page[v]
        BY <3>4 DEF FetchPage, Ownership
      <4>2. PICK s \in {"claim", "fuel", "flag"} : pc' = [pc EXCEPT ![w] = s]
        BY <3>4 DEF FetchPage, Fail
      <4>3. QED  BY <3>0, <4>1, <4>2, MoveKeepsStaged
    <3>5. CASE FetchFuel(w)
      <4>1. fuelFailed' \in [Workers -> BOOLEAN]
        BY <3>0, <3>5 DEF FetchFuel
      <4>2. QED  BY <3>5, <4>1, MoveKeepsStaged DEF FetchFuel
    <3>6. CASE Record(w)
      <4>1. pc[w] = "record" /\ UNCHANGED <<rows, queue, range, cursor, page, fuelFailed>>
        BY <3>6 DEF Record
      <4>2. CASE UNCHANGED pc
        BY <2>0, <4>1, <4>2
      <4>3. CASE Goto(w, IF aborted THEN "claim" ELSE "stage")
        BY <3>0, <4>1, <4>3, MoveKeepsStaged
      <4>4. QED  BY <3>6, <4>2, <4>3 DEF Record
    <3>7. CASE Stage(w)
      <4> DEFINE status == IF fuelFailed[w] THEN "fuel_unavailable" ELSE "fetched"
      <4>1. pc[w] = "stage" /\ UNCHANGED <<queue, range, cursor, page, fuelFailed>>
        BY <3>7 DEF Stage
      <4>2. CASE Fail(w, "Staging") /\ UNCHANGED <<rows, errorFlag>>
        BY <3>0, <4>1, <4>2, MoveKeepsStaged DEF Fail
      <4>3. CASE ~ (Fail(w, "Staging") /\ UNCHANGED <<rows, errorFlag>>)
        <5>1. /\ rows' = [p \in Plates |->
                            IF p \in page[w] THEN [rows[p] EXCEPT ![status] = @ + 1]
                            ELSE rows[p]]
              /\ pc' = [pc EXCEPT ![w] = "emit"]
          BY <3>7, <4>3 DEF Stage
        <5>2. status \in Statuses
          BY DEF Statuses
        <5> HIDE DEF status
        <5>3. QED  BY <4>1, <5>1, <5>2, StageKeepsStaged
      <4>4. QED  BY <4>2, <4>3
    <3>8. CASE Emit(w)       BY <3>8, EmitKeepsStaged
    <3>9. CASE RaiseFlag(w)  BY <3>0, <3>9, MoveKeepsStaged DEF RaiseFlag
    <3>10. CASE Panic(w)     BY <3>0, <3>10, MoveKeepsStaged DEF Panic
    <3>11. CASE Cancel(w)    BY <3>0, <3>11, MoveKeepsStaged DEF Cancel, Awaiting
    <3>12. QED
      BY <2>2, <3>1, <3>2, <3>3, <3>4, <3>5, <3>6, <3>7, <3>8, <3>9, <3>10, <3>11
      DEF WorkerStep, Work
  <2>3. CASE CountAndSpawn
    <3>1. UNCHANGED <<rows, queue, range, cursor, page, fuelFailed>>
      BY <2>3 DEF CountAndSpawn
    <3>2. \A v \in Workers : pc'[v] \notin Busy /\ pc[v] # "emit"
      BY <2>3 DEF CountAndSpawn, Lifecycle, Busy
    <3>3. QED
      BY <3>1, <3>2 DEF StagedOnce, RowTypes, RowsOf, Claimed
  <2>4. CASE JoinLoop
    BY <2>0, <2>4 DEF JoinLoop
  <2>5. ASSUME NEW w \in Workers, JoinNext(w) PROVE StagedOnce'
    BY <2>0, <2>5 DEF JoinNext
  <2>6. CASE Conclude
    BY <2>0, <2>6 DEF Conclude
  <2>7. CASE UNCHANGED vars
    BY <2>0, <2>7 DEF vars
  <2>8. QED
    BY <2>1, <2>2, <2>3, <2>4, <2>5, <2>6, <2>7 DEF Next, MainStep, WorkerStep
<1>3. QED  BY <1>1, <1>2, LifecycleHolds, RangesAreOwned, PTL DEF Spec

\* No vehicle is exported twice, for any number of workers, ranges and changes
\* of RDW's dataset while the export runs (pipeline.rs:426-511, ranges.rs:21-61).
THEOREM NothingTwice == Spec => []NoDuplicateRows
<1>1. StagedOnce => NoDuplicateRows
  BY DEF StagedOnce, NoDuplicateRows
<1>2. QED  BY <1>1, RowsStagedOnce, PTL

(***************************************************************************)
(* Completeness: what a successful export has staged.                      *)
(***************************************************************************)

\* The export will not succeed.
Doomed == aborted \/ hardError # "none" \/ \E w \in Workers : pc[w] = "panicked"

\* Workers are cancelled only when the export is doomed; nothing is claimed
\* before the count; the lasting vehicles are still there.
Background ==
    /\ lasting \subseteq dataset
    /\ hardError \in {"none", "Upstream", "Staging", "WorkerPanic"}
    /\ cancelled => aborted \/ hardError # "none"
    /\ \A w \in Workers : pc[w] = "cancelled" => cancelled
    /\ main = "count" => Claimed = 0

\* A vehicle that the holder of its range has yet to stage: the page that
\* brings it will be asked for, or is in hand, or follows the one in hand.
Ahead(p, w) ==
    /\ p > cursor[w]
    /\ \/ pc[w] \in {"page", "fetch"}
       \/ pc[w] \in {"fuel", "record", "stage"} /\ p \in page[w]
       \/ /\ pc[w] \in Holding
          /\ \A q \in page[w] : q < p
          /\ ~ (Cardinality(page[w]) < PageSize)

\* Unless the export is doomed, a worker ends only when no range is left, and
\* every lasting vehicle of a claimed range is staged or ahead of its holder.
NothingLost ==
    ~ Doomed =>
      /\ (\E w \in Workers : pc[w] = "done") => Len(queue) = 0
      /\ \A p \in lasting, i \in 1 .. RangeCount :
           InRange(i, p) /\ i <= Claimed =>
             RowsOf(p) = 1 \/ \E w \in Workers : range[w] = i /\ Ahead(p, w)

\* A doomed export stays doomed.
LEMMA DoomIsKept ==
    ASSUME Lifecycle, [Next]_vars, Doomed
    PROVE  Doomed'
<1>1. CASE Change
  BY <1>1 DEF Change, Doomed, abortVars, errorVars, workerVars
<1>2. ASSUME NEW w \in Workers, WorkerStep(w) PROVE Doomed'
  <2>1. \A v \in Workers : pc[v] = "panicked" => pc'[v] = "panicked"
    BY <1>2, WorkerMoves DEF Lifecycle, Active, Busy
  <2>2. aborted => aborted'
    <3> USE <1>2 DEF abortVars, WorkerStep, Work
    <3>1. CASE Record(w)
      BY <3>1 DEF Record, Abort!Count, Abort!Tally, Abort!Judge, Abort!Answer
    <3>2. CASE ~ Record(w)
      BY <3>2 DEF Claim, Pop, CheckAbort, FetchPage, FetchFuel, Stage, Emit,
                  RaiseFlag, Panic, Cancel
    <3>3. QED  BY <3>1, <3>2
  <2>3. hardError # "none" => hardError' # "none"
    <3> USE <1>2 DEF errorVars, WorkerStep, Work
    <3>1. CASE FetchPage(w) \/ Stage(w)
      BY <3>1 DEF FetchPage, Stage, Fail
    <3>2. CASE ~ (FetchPage(w) \/ Stage(w))
      BY <3>2 DEF Claim, Pop, CheckAbort, FetchFuel, Record, Emit, RaiseFlag, Panic,
                  Cancel
    <3>3. QED  BY <3>1, <3>2
  <2>4. QED  BY <2>1, <2>2, <2>3 DEF Doomed
<1>3. CASE CountAndSpawn
  BY <1>3 DEF CountAndSpawn, Doomed, abortVars, errorVars, Lifecycle
<1>4. CASE JoinLoop
  BY <1>4 DEF JoinLoop, Doomed, abortVars, errorVars, workerVars
<1>5. ASSUME NEW w \in Workers, JoinNext(w) PROVE Doomed'
  BY <1>5 DEF JoinNext, Doomed, abortVars, workerVars
<1>6. CASE Conclude
  BY <1>6 DEF Conclude, Doomed, abortVars, errorVars, workerVars
<1>7. CASE UNCHANGED vars
  BY <1>7 DEF vars, Doomed, abortVars, errorVars, workerVars
<1>8. QED
  BY <1>1, <1>2, <1>3, <1>4, <1>5, <1>6, <1>7 DEF Next, MainStep, WorkerStep

\* The join loop cancels for a reason, and RDW's vehicles of the whole export
\* are those every page can still contain (pipeline.rs:333-343).
THEOREM BackgroundHolds == Spec => []Background
<1>1. Init => Background
  <2> SUFFICES ASSUME Init PROVE Background
    OBVIOUS
  <2>1. RangeCount \in Nat
    BY KentekenRangesAssumption
  <2>2. Claimed = 0
    BY <2>1 DEF Init, Claimed
  <2>3. QED  BY <2>2 DEF Init, Background
<1>2. Lifecycle /\ ErrorsKept /\ Background /\ [Next]_vars => Background'
  <2> SUFFICES ASSUME Lifecycle, ErrorsKept, Background, [Next]_vars PROVE Background'
    OBVIOUS
  <2> USE DEF outputVars, workerVars, mainVars, errorVars, rdwVars, abortVars, Claimed
  <2>1. CASE Change
    <3>1. lasting' \subseteq dataset'
      BY <2>1 DEF Change, Background
    <3>2. QED  BY <2>1, <3>1 DEF Change, Background
  <2>2. ASSUME NEW w \in Workers, WorkerStep(w) PROVE Background'
    <3>1. UNCHANGED <<main, cancelled, dataset, lasting>>
      BY <2>2, WorkerMoves DEF Lifecycle
    <3>2. main # "count"
      BY <2>2, WorkerMoves DEF Lifecycle, Active, Busy
    <3>3. hardError' \in {hardError, "Upstream", "Staging"}
      BY <2>2 DEF WorkerStep, Work, Claim, Pop, CheckAbort, FetchPage, FetchFuel,
         Record, Stage, Emit, RaiseFlag, Panic, Cancel, Fail
    <3>4. \A v \in Workers : pc'[v] = "cancelled" => cancelled
      <4>1. PICK s \in WorkerSteps : pc' = [pc EXCEPT ![w] = s]
        BY <2>2, WorkerMoves DEF Lifecycle
      <4>2. pc'[w] = "cancelled" => pc[w] = "cancelled" \/ cancelled
        BY <2>2 DEF WorkerStep, Work, Claim, Pop, CheckAbort, FetchPage, FetchFuel,
           Record, Stage, Emit, RaiseFlag, Panic, Cancel, Fail, Goto, Lifecycle
      <4>3. QED  BY <4>1, <4>2 DEF Background, Lifecycle
    <3>5. aborted \/ hardError # "none" => aborted' \/ hardError' # "none"
      <4>1. aborted => aborted'
        BY <2>2 DEF WorkerStep, Work, Claim, Pop, CheckAbort, FetchPage, FetchFuel,
           Record, Stage, Emit, RaiseFlag, Panic, Cancel,
           Abort!Count, Abort!Tally, Abort!Judge, Abort!Answer
      <4>2. QED  BY <3>3, <4>1
    <3>6. QED  BY <3>1, <3>2, <3>3, <3>4, <3>5 DEF Background
  <2>3. CASE CountAndSpawn
    BY <2>3 DEF CountAndSpawn, Background, Return, Lifecycle
  <2>4. CASE JoinLoop
    BY <2>4 DEF JoinLoop, Background, ErrorsKept
  <2>5. ASSUME NEW w \in Workers, JoinNext(w) PROVE Background'
    BY <2>5 DEF JoinNext, Background
  <2>6. CASE Conclude
    BY <2>6 DEF Conclude, Background, Return
  <2>7. CASE UNCHANGED vars
    BY <2>7 DEF vars, Background
  <2>8. QED
    BY <2>1, <2>2, <2>3, <2>4, <2>5, <2>6, <2>7 DEF Next, MainStep, WorkerStep
<1>3. QED  BY <1>1, <1>2, LifecycleHolds, ErrorsAreKept, PTL DEF Spec

\* A worker's step that changes neither a cursor, a page nor a row, and takes
\* nothing that is ahead out of the way.
LEMMA MoveKeepsNothingLost ==
    ASSUME NothingLost, Lifecycle, NEW w \in Workers, NEW s \in WorkerSteps,
           Doomed => Doomed',
           pc' = [pc EXCEPT ![w] = s],
           UNCHANGED <<lasting, rows, queue, range, cursor, page>>,
           s # "done",
           \/ pc[w] \notin Busy
           \/ pc[w] = "page" /\ s = "fetch"
           \/ pc[w] \in {"fuel", "record"} /\ s \in {"record", "stage"}
    PROVE  NothingLost'
<1>1. \A v \in Workers : pc'[v] = "done" => pc[v] = "done"
  BY DEF Lifecycle
<1>2. \A p \in lasting, v \in Workers : Ahead(p, v) => Ahead(p, v)'
  BY DEF Lifecycle, Ahead, Busy, Holding
<1>3. Claimed' = Claimed /\ \A p \in lasting : RowsOf(p)' = RowsOf(p)
  BY DEF Claimed, RowsOf
<1>4. QED  BY <1>1, <1>2, <1>3 DEF NothingLost

\* Popping a range: all its lasting vehicles are ahead (pipeline.rs:313-316).
LEMMA PopKeepsNothingLost ==
    ASSUME NothingLost, Lifecycle, Ownership, Background, NEW w \in Workers, Pop(w),
           Doomed => Doomed'
    PROVE  NothingLost'
<1> USE DEF outputVars, rdwVars, Goto
<1>1. pc[w] = "pop" /\ UNCHANGED <<lasting, rows, page>>
  BY DEF Pop
<1>2. \A p \in lasting : RowsOf(p)' = RowsOf(p) /\ ~ Ahead(p, w)
  BY <1>1 DEF RowsOf, Ahead, Holding
<1>3. CASE queue = <<>> /\ pc' = [pc EXCEPT ![w] = "done"]
           /\ UNCHANGED <<queue, range, cursor>>
  <2>1. Len(queue') = 0 /\ Claimed' = Claimed
    BY <1>3 DEF Claimed
  <2>2. \A p \in lasting, v \in Workers : Ahead(p, v) => Ahead(p, v)'
    BY <1>1, <1>2, <1>3 DEF Lifecycle, Ahead
  <2>3. QED  BY <1>1, <1>2, <1>3, <2>1, <2>2 DEF NothingLost
<1>4. CASE /\ queue # <<>>
           /\ range' = [range EXCEPT ![w] = Head(queue)]
           /\ queue' = Tail(queue)
           /\ cursor' = [cursor EXCEPT ![w] = -1]
           /\ pc' = [pc EXCEPT ![w] = "page"]
  <2>1. Len(queue) \in Nat \ {0} /\ queue[1] = Claimed + 1 /\ Head(queue) = queue[1]
        /\ Len(queue') = Len(queue) - 1
    BY <1>4 DEF Ownership
  <2>2. Claimed \in Int /\ Claimed' = Claimed + 1 /\ range'[w] = Claimed + 1
    <3>1. RangeCount \in Nat
      BY KentekenRangesAssumption
    <3>2. QED  BY <1>4, <2>1, <3>1 DEF Claimed, Ownership
  <2>3. \A p \in lasting, v \in Workers :
           Ahead(p, v) => v # w /\ range'[v] = range[v] /\ Ahead(p, v)'
    BY <1>1, <1>2, <1>4 DEF Lifecycle, Ahead, Ownership
  <2>4. \A p \in lasting : Ahead(p, w)'
    <3>1. \A p \in lasting : p \in Nat
      BY PlatesFinite DEF Background, Ownership
    <3>2. cursor'[w] = -1 /\ pc'[w] = "page" /\ lasting' = lasting
      BY <1>1, <1>4 DEF Ownership, Lifecycle
    <3>3. QED  BY <3>1, <3>2 DEF Ahead
  <2>5. ~ Doomed => \A v \in Workers : pc'[v] # "done"
    <3>1. ~ Doomed => \A v \in Workers : pc[v] # "done"
      BY <2>1 DEF NothingLost
    <3>2. QED  BY <1>4, <3>1 DEF Lifecycle
  <2>6. ASSUME ~ Doomed', NEW p \in lasting', NEW i \in 1 .. RangeCount,
               InRange(i, p), i <= Claimed'
        PROVE  RowsOf(p)' = 1 \/ \E v \in Workers : range'[v] = i /\ Ahead(p, v)'
    <3>1. p \in lasting
      BY <1>1, <2>6
    <3>2. CASE i = Claimed + 1
      BY <2>2, <2>4, <3>1, <3>2
    <3>3. CASE i <= Claimed
      <4>1. RowsOf(p) = 1 \/ \E v \in Workers : range[v] = i /\ Ahead(p, v)
        BY <2>6, <3>1, <3>3 DEF NothingLost
      <4>2. QED  BY <1>2, <2>3, <3>1, <4>1
    <3>4. QED  BY <2>2, <2>6, <3>2, <3>3
  <2> HIDE DEF Claimed
  <2>7. QED  BY <2>5, <2>6 DEF NothingLost
<1>5. QED  BY <1>3, <1>4 DEF Pop

\* Fetching a page: what was ahead is in the page or follows it
\* (pipeline.rs:443-455).
LEMMA FetchKeepsNothingLost ==
    ASSUME NothingLost, Lifecycle, Ownership, Background, NEW w \in Workers,
           FetchPage(w), Doomed => Doomed'
    PROVE  NothingLost'
<1> USE DEF outputVars, rdwVars, Goto
<1>1. pc[w] = "fetch" /\ UNCHANGED <<lasting, rows, queue, range, cursor>>
  BY DEF FetchPage
<1>2. CASE Fail(w, "Upstream")
  BY <1>2 DEF Fail, Doomed, NothingLost
<1>3. CASE /\ page' = [page EXCEPT ![w] = NextPage(range[w], cursor[w])]
           /\ pc' = [pc EXCEPT ![w] = IF page'[w] = {} THEN "claim" ELSE "fuel"]
  <2> DEFINE next == NextPage(range[w], cursor[w])
             left == Left(range[w], cursor[w])
  <2>1. page'[w] = next /\ \A v \in Workers \ {w} : page'[v] = page[v] /\ pc'[v] = pc[v]
    BY <1>3 DEF Ownership, Lifecycle
  <2>2. pc'[w] = IF next = {} THEN "claim" ELSE "fuel"
    BY <1>3, <2>1 DEF Lifecycle
  <2>3. /\ next = {} => left = {}
        /\ \A p \in left \ next : (\A q \in next : q < p) /\ ~ (Cardinality(next) < PageSize)
    BY PageOfRange DEF Ownership
  <2>4. \A p \in lasting : InRange(range[w], p) /\ p > cursor[w] => p \in left
    BY DEF Left, Background
  <2> HIDE DEF next, left
  <2>5. ASSUME NEW p \in lasting, InRange(range[w], p), Ahead(p, w)
        PROVE  Ahead(p, w)'
    <3>1. p \in left /\ p > cursor[w] /\ cursor'[w] = cursor[w]
      BY <1>1, <2>4, <2>5 DEF Ahead
    <3>2. pc'[w] = "fuel"
      BY <2>2, <2>3, <3>1
    <3>3. CASE p \in next
      BY <2>1, <3>1, <3>2, <3>3 DEF Ahead
    <3>4. CASE p \notin next
      BY <2>1, <2>3, <3>1, <3>2, <3>4 DEF Ahead, Holding
    <3>5. QED  BY <3>3, <3>4
  <2>6. \A p \in lasting, v \in Workers :
           InRange(range[v], p) /\ Ahead(p, v) => Ahead(p, v)'
    <3>1. ASSUME NEW p \in lasting, NEW v \in Workers \ {w}, Ahead(p, v)
          PROVE  Ahead(p, v)'
      BY <1>1, <2>1, <3>1 DEF Ahead
    <3>2. QED  BY <2>5, <3>1
  <2>7. \A v \in Workers : pc'[v] = "done" => pc[v] = "done"
    BY <2>1, <2>2
  <2>8. Claimed' = Claimed /\ \A p \in lasting : RowsOf(p)' = RowsOf(p)
    BY <1>1 DEF Claimed, RowsOf
  <2>9. QED  BY <1>1, <2>6, <2>7, <2>8 DEF NothingLost
<1>4. QED  BY <1>2, <1>3 DEF FetchPage

\* Staging a page: its vehicles are staged, the rest stays ahead
\* (pipeline.rs:470-498).
LEMMA StageKeepsNothingLost ==
    ASSUME NothingLost, Lifecycle, Ownership, StagedOnce, StagedOnce', Background,
           NEW w \in Workers, Stage(w), Doomed => Doomed'
    PROVE  NothingLost'
<1> DEFINE status == IF fuelFailed[w] THEN "fuel_unavailable" ELSE "fetched"
<1> USE DEF outputVars, rdwVars, Goto
<1>1. pc[w] = "stage" /\ UNCHANGED <<lasting, queue, range, cursor, page>>
  BY DEF Stage
<1>2. CASE Fail(w, "Staging")
  BY <1>2 DEF Fail, Doomed, NothingLost
<1>3. CASE /\ rows' = [p \in Plates |->
                         IF p \in page[w] THEN [rows[p] EXCEPT ![status] = @ + 1]
                         ELSE rows[p]]
           /\ pc' = [pc EXCEPT ![w] = "emit"]
  <2>1. status \in Statuses
    BY DEF Statuses
  <2> HIDE DEF status
  <2>2. \A p \in Plates :
          RowsOf(p)' = IF p \in page[w] THEN RowsOf(p) + 1 ELSE RowsOf(p)
    BY <1>3, <2>1, StageAddsRows DEF StagedOnce
  <2>3. lasting \subseteq Plates
    BY DEF Background, Ownership
  <2>4. \A p \in Plates : RowsOf(p) \in {0, 1} /\ RowsOf(p)' \in {0, 1}
    BY DEF StagedOnce
  <2>5. \A p \in lasting : RowsOf(p) = 1 => RowsOf(p)' = 1
    BY <2>2, <2>3, <2>4
  <2>6. \A p \in lasting : p \in page[w] => RowsOf(p)' = 1
    BY <2>2, <2>3, <2>4
  <2>7. pc'[w] = "emit" /\ \A v \in Workers \ {w} : pc'[v] = pc[v]
    BY <1>3 DEF Lifecycle
  <2>8. \A p \in lasting : Ahead(p, w) => RowsOf(p)' = 1 \/ Ahead(p, w)'
    BY <1>1, <2>6, <2>7 DEF Ahead, Holding
  <2>9. \A p \in lasting, v \in Workers \ {w} : Ahead(p, v) => Ahead(p, v)'
    BY <1>1, <2>7 DEF Ahead
  <2>10. \A v \in Workers : pc'[v] = "done" => pc[v] = "done"
    BY <2>7
  <2>11. Claimed' = Claimed
    BY <1>1 DEF Claimed
  <2>12. QED  BY <1>1, <2>5, <2>8, <2>9, <2>10, <2>11 DEF NothingLost
<1>4. QED  BY <1>2, <1>3 DEF Stage

\* Behind a short page nothing is ahead; behind a full one the next page asks
\* for what is (pipeline.rs:499-507).
LEMMA EmitKeepsNothingLost ==
    ASSUME NothingLost, Lifecycle, Ownership, Background, NEW w \in Workers, Emit(w),
           Doomed => Doomed'
    PROVE  NothingLost'
<1> DEFINE top == Max(page[w])
<1> USE DEF outputVars, rdwVars, Goto
<1>1. /\ pc[w] = "emit" /\ UNCHANGED <<lasting, rows, queue, range, page>>
      /\ cursor' = [cursor EXCEPT ![w] = top]
      /\ pc' = [pc EXCEPT ![w] = IF Cardinality(page[w]) < PageSize
                                 THEN "claim" ELSE "page"]
  BY DEF Emit
<1>2. page[w] \in SUBSET Plates /\ page[w] # {}
  BY <1>1 DEF Ownership, Holding
<1>3. top \in page[w]
  BY <1>2, MaxOfPlates
<1> HIDE DEF top
<1>4. cursor'[w] = top /\ \A v \in Workers \ {w} : cursor'[v] = cursor[v]
  BY <1>1 DEF Ownership
<1>5. /\ pc'[w] = IF Cardinality(page[w]) < PageSize THEN "claim" ELSE "page"
      /\ \A v \in Workers \ {w} : pc'[v] = pc[v]
  BY <1>1 DEF Lifecycle
<1>6. \A p \in lasting : p \in Nat
  BY PlatesFinite DEF Background, Ownership
<1>7. top \in Nat
  BY <1>2, <1>3, PlatesFinite
<1>8. ASSUME NEW p \in lasting, Ahead(p, w)
      PROVE  Ahead(p, w)'
  <2>1. (\A q \in page[w] : q < p) /\ ~ (Cardinality(page[w]) < PageSize)
    BY <1>1, <1>8 DEF Ahead
  <2>2. pc'[w] = "page"
    BY <1>5, <2>1
  <2>3. p > top
    BY <1>3, <1>6, <1>7, <2>1
  <2>4. QED  BY <1>4, <2>2, <2>3 DEF Ahead
<1>9. \A p \in lasting, v \in Workers \ {w} : Ahead(p, v) => Ahead(p, v)'
  BY <1>1, <1>4, <1>5 DEF Ahead
<1>10. \A v \in Workers : pc'[v] = "done" => pc[v] = "done"
  BY <1>5
<1>11. Claimed' = Claimed /\ \A p \in lasting : RowsOf(p)' = RowsOf(p)
  BY <1>1 DEF Claimed, RowsOf
<1>12. QED  BY <1>1, <1>8, <1>9, <1>10, <1>11 DEF NothingLost

\* Nothing that lasts falls between a claim, a cursor and a page.
THEOREM NothingIsLost == Spec => []NothingLost
<1> DEFINE Known == Lifecycle /\ ErrorsKept /\ Ownership /\ StagedOnce /\ Background
<1>1. Init => NothingLost
  <2> SUFFICES ASSUME Init PROVE NothingLost
    OBVIOUS
  <2>1. RangeCount \in Nat
    BY KentekenRangesAssumption
  <2>2. Claimed = 0
    BY <2>1 DEF Init, Claimed
  <2>3. QED  BY <2>2 DEF Init, NothingLost
<1>2. Known /\ Known' /\ NothingLost /\ [Next]_vars => NothingLost'
  <2> SUFFICES ASSUME Lifecycle, ErrorsKept, Ownership, StagedOnce, Background,
                      StagedOnce', NothingLost, [Next]_vars
               PROVE  NothingLost'
    OBVIOUS
  <2>0. Doomed => Doomed'
    BY DoomIsKept
  <2> USE DEF outputVars, workerVars, rdwVars
  <2>1. CASE Change
    <3>1. UNCHANGED <<rows, queue, range, cursor, page, pc>>
      BY <2>1 DEF Change
    <3>2. CASE main = "count"
      <4>1. Claimed' = 0 /\ \A v \in Workers : pc'[v] = "unborn"
        BY <3>1, <3>2 DEF Background, Lifecycle, Claimed
      <4>2. QED  BY <4>1 DEF NothingLost
    <3>3. CASE main # "count"
      <4>1. lasting' \subseteq lasting
        BY <2>1, <3>3 DEF Change
      <4>2. Claimed' = Claimed /\ \A p \in lasting : RowsOf(p)' = RowsOf(p)
        BY <3>1 DEF Claimed, RowsOf
      <4>3. \A p \in lasting, v \in Workers : Ahead(p, v) => Ahead(p, v)'
        BY <3>1 DEF Ahead
      <4>4. QED  BY <2>0, <3>1, <4>1, <4>2, <4>3 DEF NothingLost
    <3>4. QED  BY <3>2, <3>3
  <2>2. ASSUME NEW w \in Workers, WorkerStep(w) PROVE NothingLost'
    <3> USE DEF Goto, Busy, WorkerSteps, Terminal, Active
    <3>0. SUFFICES ASSUME ~ Doomed' PROVE NothingLost'
      BY DEF NothingLost
    <3>1. CASE Claim(w)
      <4>1. ~ (aborted \/ errorFlag)
        BY <2>0, <3>0 DEF Doomed, ErrorsKept
      <4>2. QED  BY <2>0, <3>1, <4>1, MoveKeepsNothingLost DEF Claim
    <3>2. CASE Pop(w)        BY <2>0, <3>2, PopKeepsNothingLost
    <3>3. CASE CheckAbort(w)
      <4>1. ~ aborted
        BY <2>0, <3>0 DEF Doomed
      <4>2. QED  BY <2>0, <3>3, <4>1, MoveKeepsNothingLost DEF CheckAbort
    <3>4. CASE FetchPage(w)  BY <2>0, <3>4, FetchKeepsNothingLost
    <3>5. CASE FetchFuel(w)  BY <2>0, <3>5, MoveKeepsNothingLost DEF FetchFuel
    <3>6. CASE Record(w)
      <4>1. pc[w] = "record" /\ UNCHANGED <<lasting, rows, queue, range, cursor, page>>
        BY <3>6 DEF Record
      <4>2. CASE UNCHANGED pc
        <5>1. pc' = [pc EXCEPT ![w] = "record"]
          BY <4>1, <4>2 DEF Lifecycle
        <5>2. QED  BY <2>0, <4>1, <5>1, MoveKeepsNothingLost
      <4>3. CASE Goto(w, IF aborted THEN "claim" ELSE "stage")
        <5>1. ~ aborted
          BY <2>0, <3>0 DEF Doomed
        <5>2. QED  BY <2>0, <4>1, <4>3, <5>1, MoveKeepsNothingLost
      <4>4. QED  BY <3>6, <4>2, <4>3 DEF Record
    <3>7. CASE Stage(w)      BY <2>0, <3>7, StageKeepsNothingLost
    <3>8. CASE Emit(w)       BY <2>0, <3>8, EmitKeepsNothingLost
    <3>9. CASE RaiseFlag(w)
      BY <2>0, <3>0, <3>9 DEF RaiseFlag, ErrorsKept, Doomed
    <3>10. CASE Panic(w)
      BY <3>0, <3>10 DEF Panic, Doomed, Lifecycle
    <3>11. CASE Cancel(w)
      BY <2>0, <3>0, <3>11 DEF Cancel, Background, Doomed
    <3>12. QED
      BY <2>2, <3>1, <3>2, <3>3, <3>4, <3>5, <3>6, <3>7, <3>8, <3>9, <3>10, <3>11
      DEF WorkerStep, Work
  <2>3. CASE CountAndSpawn
    <3>1. Claimed = 0 /\ UNCHANGED queue
      BY <2>3 DEF CountAndSpawn, Background
    <3>2. Claimed' = 0
      BY <3>1 DEF Claimed
    <3>3. \A v \in Workers : pc'[v] # "done"
      BY <2>3 DEF CountAndSpawn, Lifecycle
    <3>4. QED  BY <3>2, <3>3 DEF NothingLost
  <2>4. ASSUME UNCHANGED <<lasting, rows, queue, range, cursor, page, pc>>
        PROVE  NothingLost'
    BY <2>0, <2>4 DEF NothingLost, Ahead, RowsOf, Claimed
  <2>5. CASE JoinLoop
    BY <2>4, <2>5 DEF JoinLoop
  <2>6. ASSUME NEW w \in Workers, JoinNext(w) PROVE NothingLost'
    BY <2>4, <2>6 DEF JoinNext
  <2>7. CASE Conclude
    BY <2>4, <2>7 DEF Conclude
  <2>8. CASE UNCHANGED vars
    BY <2>4, <2>8 DEF vars
  <2>9. QED
    BY <2>1, <2>2, <2>3, <2>5, <2>6, <2>7, <2>8 DEF Next, MainStep, WorkerStep
<1>3. QED
  BY <1>1, <1>2, LifecycleHolds, ErrorsAreKept, RangesAreOwned, RowsStagedOnce,
     BackgroundHolds, PTL DEF Spec

\* When the join loop has ended without an error or an abort, every worker has
\* ended by itself, the queue is empty, and nothing that lasts is missing.
LEMMA AllStaged ==
    ASSUME Lifecycle, ErrorsKept, Ownership, Background, NothingLost,
           main = "conclude", hardError = "none", ~ aborted
    PROVE  /\ ~ Doomed
           /\ \A w \in Workers : pc[w] = "done"
           /\ \A p \in lasting : RowsOf(p) = 1
<1>1. joined = Workers /\ \A w \in Workers : pc[w] \in Terminal
  BY DEF Lifecycle
<1>2. \A w \in Workers : pc[w] # "panicked"
  BY <1>1 DEF ErrorsKept
<1>3. \A w \in Workers : pc[w] = "done"
  BY <1>1, <1>2 DEF Background, Terminal
<1>4. ~ Doomed
  BY <1>2 DEF Doomed
<1>5. Len(queue) = 0
  BY <1>3, <1>4, PipelineAssumption DEF NothingLost
<1>6. ASSUME NEW p \in lasting PROVE RowsOf(p) = 1
  <2>1. p \in Nat
    BY PlatesFinite DEF Background, Ownership
  <2>2. PICK i \in 1 .. RangeCount : InRange(i, p)
    BY <2>1, RangesCover
  <2>3. i <= Claimed
    BY <1>5, KentekenRangesAssumption DEF Claimed
  <2>4. \A w \in Workers : ~ Ahead(p, w)
    BY <1>3 DEF Ahead, Holding
  <2>5. QED  BY <1>4, <2>2, <2>3, <2>4 DEF NothingLost
<1>7. QED  BY <1>3, <1>4, <1>6

\* What the export returns is complete (pipeline.rs:364-405).
CompleteWhenOk ==
    /\ main # "returned" => result = "none"
    /\ CompleteOnSuccess

\* Never partial: an export that succeeds has staged every lasting vehicle,
\* for any workers, ranges, page size, changes and faults.
THEOREM SuccessIsComplete == Spec => []CompleteOnSuccess
<1> DEFINE Known == Lifecycle /\ ErrorsKept /\ Ownership /\ StagedOnce /\ Background
                    /\ NothingLost
<1>1. Init => CompleteWhenOk
  BY DEF Init, CompleteWhenOk, CompleteOnSuccess
<1>2. Known /\ CompleteWhenOk /\ [Next]_vars => CompleteWhenOk'
  <2> SUFFICES ASSUME Lifecycle, ErrorsKept, Ownership, StagedOnce, Background,
                      NothingLost, CompleteWhenOk, [Next]_vars
               PROVE  CompleteWhenOk'
    OBVIOUS
  <2> USE DEF mainVars, outputVars, workerVars, rdwVars, Return
  <2>0. ASSUME UNCHANGED <<main, result>>, main # "returned"
        PROVE  CompleteWhenOk'
    BY <2>0 DEF CompleteWhenOk, CompleteOnSuccess
  <2>1. CASE Change
    BY <2>0, <2>1 DEF Change
  <2>2. ASSUME NEW w \in Workers, WorkerStep(w) PROVE CompleteWhenOk'
    <3>1. pc[w] \in Active /\ UNCHANGED <<main, result>>
      BY <2>2, WorkerMoves DEF Lifecycle
    <3>2. main # "returned"
      BY <3>1 DEF Lifecycle, Active, Busy, Terminal
    <3>3. QED  BY <2>0, <3>1, <3>2
  <2>3. CASE CountAndSpawn
    BY <2>3 DEF CountAndSpawn, CompleteWhenOk, CompleteOnSuccess
  <2>4. CASE JoinLoop
    BY <2>4 DEF JoinLoop, CompleteWhenOk, CompleteOnSuccess
  <2>5. ASSUME NEW w \in Workers, JoinNext(w) PROVE CompleteWhenOk'
    BY <2>5 DEF JoinNext, CompleteWhenOk, CompleteOnSuccess
  <2>6. CASE Conclude
    <3>1. main = "conclude" /\ main' = "returned" /\ UNCHANGED <<lasting, rows>>
      BY <2>6 DEF Conclude
    <3>2. SUFFICES ASSUME result' = "Ok", NEW p \in lasting PROVE RowsOf(p) = 1
      BY <3>1 DEF CompleteWhenOk, CompleteOnSuccess, RowsOf
    <3>3. hardError = "none" /\ ~ aborted
      BY <2>6, <3>2 DEF Conclude, Background
    <3>4. QED  BY <3>1, <3>3, AllStaged
  <2>7. CASE UNCHANGED vars
    BY <2>7 DEF vars, CompleteWhenOk, CompleteOnSuccess, RowsOf
  <2>8. QED
    BY <2>1, <2>2, <2>3, <2>4, <2>5, <2>6, <2>7 DEF Next, MainStep, WorkerStep
<1>3. CompleteWhenOk => CompleteOnSuccess
  BY DEF CompleteWhenOk
<1>4. QED
  BY <1>1, <1>2, <1>3, LifecycleHolds, ErrorsAreKept, RangesAreOwned, RowsStagedOnce,
     BackgroundHolds, NothingIsLost, PTL DEF Spec

(***************************************************************************)
(* The shared abort: what GlobalAbort promises for every set of workers,   *)
(* every floor and every ratio, and that the export is an instance of it.  *)
(***************************************************************************)

\* The threshold falls with the number of attempts (failure.rs:58-66): what
\* is above it for many attempts is above it for fewer.
LEMMA ExcessMonotone ==
    ASSUME NEW f \in Nat, NEW a \in Nat, NEW b \in Nat, a <= b,
           Abort!ShouldAbort(f, b)
    PROVE  Abort!ShouldAbort(f, a)
<1> DEFINE x == RATIO_NUM * a  y == RATIO_NUM * b  z == f * RATIO_DEN
<1>1. RATIO_NUM \in Nat /\ RATIO_DEN \in Nat
  BY FailureConfigAssumption
<1>2. x <= y
  BY <1>1
<1>3. x \in Nat /\ y \in Nat /\ z \in Nat
  BY <1>1
<1>4. f > FLOOR /\ z > y
  BY DEF Abort!ShouldAbort
<1> HIDE DEF x, y, z
<1>5. f > FLOOR /\ z > x
  BY <1>2, <1>3, <1>4
<1>6. QED  BY <1>5 DEF Abort!ShouldAbort, x, z

\* The counters are natural numbers, and every call is at a known step.
THEOREM AbortTyped == Abort!Spec => []Abort!TypeOK
<1>1. Abort!Init => Abort!TypeOK
  <2>1. Abort!NoCall \in Abort!Calls  BY DEF Abort!NoCall, Abort!Calls, Abort!Steps
  <2>2. [w \in Workers |-> Abort!NoCall] \in [Workers -> Abort!Calls]  BY <2>1
  <2>3. Abort!Init => attempted \in Nat /\ failures \in Nat
    BY DEF Abort!Init
  <2>4. Abort!Init => aborted \in BOOLEAN /\ call \in [Workers -> Abort!Calls]
    BY <2>2 DEF Abort!Init
  <2>5. QED  BY <2>3, <2>4 DEF Abort!TypeOK
<1>2. Abort!TypeOK /\ [Abort!Next]_Abort!abortVars => Abort!TypeOK'
  <2> SUFFICES ASSUME Abort!TypeOK, [Abort!Next]_Abort!abortVars PROVE Abort!TypeOK'
    OBVIOUS
  <2> USE DEF Abort!TypeOK, Abort!Calls, Abort!Steps
  <2>1. ASSUME NEW w \in Workers, NEW failed \in BOOLEAN, Abort!Count(w, failed)
        PROVE  Abort!TypeOK'
    BY <2>1 DEF Abort!Count
  <2>2. ASSUME NEW w \in Workers, Abort!Tally(w)
        PROVE  Abort!TypeOK'
    <3>1. failures' \in Nat  BY <2>2 DEF Abort!Tally
    <3>2. [call[w] EXCEPT !.at = "tallied", !.f = failures'] \in Abort!Calls
      BY <3>1
    <3>3. call' = [call EXCEPT ![w] = [call[w] EXCEPT !.at = "tallied",
                                                      !.f = failures']]
      BY <2>2 DEF Abort!Tally
    <3>4. call' \in [Workers -> Abort!Calls]  BY <3>2, <3>3
    <3>5. QED  BY <2>2, <3>1, <3>4 DEF Abort!Tally
  <2>3. ASSUME NEW w \in Workers, Abort!Judge(w)
        PROVE  Abort!TypeOK'
    BY <2>3 DEF Abort!Judge
  <2>4. ASSUME NEW w \in Workers, Abort!Answer(w)
        PROVE  Abort!TypeOK'
    BY <2>4 DEF Abort!Answer, Abort!NoCall
  <2>5. CASE UNCHANGED Abort!abortVars
    BY <2>5 DEF Abort!abortVars
  <2>6. QED  BY <2>1, <2>2, <2>3, <2>4, <2>5 DEF Abort!Next
<1>3. QED  BY <1>1, <1>2, PTL DEF Abort!Spec

\* The inductive invariant: some call that is about to judge has seen every
\* failure, and no call has seen more than the totals.
THEOREM ExcessSeen == Abort!Spec => []Abort!ExcessIsSeen
<1>1. Abort!Init => Abort!ExcessIsSeen
  BY FailureConfigAssumption DEF Abort!Init, Abort!ExcessIsSeen, Abort!ShouldAbort, Abort!NoCall
<1>2. Abort!TypeOK /\ Abort!ExcessIsSeen /\ [Abort!Next]_Abort!abortVars => Abort!ExcessIsSeen'
  <2> SUFFICES ASSUME Abort!TypeOK, Abort!ExcessIsSeen, [Abort!Next]_Abort!abortVars
               PROVE Abort!ExcessIsSeen'
    OBVIOUS
  <2>0. /\ attempted \in Nat /\ failures \in Nat /\ aborted \in BOOLEAN
        /\ call \in [Workers -> Abort!Calls]
        /\ \A w \in Workers : call[w].a \in Nat /\ call[w].f \in Nat
    BY FailureConfigAssumption DEF Abort!TypeOK, Abort!Calls
  <2>1. ASSUME NEW w \in Workers, NEW failed \in BOOLEAN, Abort!Count(w, failed)
        PROVE  Abort!ExcessIsSeen'
    <3>1. /\ attempted' = attempted + 1 /\ failures' = failures
          /\ aborted' = aborted /\ call[w].at = "idle"
          /\ \A v \in Workers : v # w => call'[v] = call[v]
          /\ call'[w].a = attempted + 1 /\ call'[w].f = 0
      BY <2>0, <2>1 DEF Abort!Count
    <3>2. Abort!ShouldAbort(failures, attempted + 1) => Abort!ShouldAbort(failures, attempted)
      BY <2>0, ExcessMonotone
    <3>3. QED  BY <2>0, <3>1, <3>2 DEF Abort!ExcessIsSeen
  <2>2. ASSUME NEW w \in Workers, Abort!Tally(w)
        PROVE  Abort!ExcessIsSeen'
    <3>1. /\ attempted' = attempted /\ aborted' = aborted
          /\ failures' \in Nat /\ failures' >= failures
          /\ \A v \in Workers : v # w => call'[v] = call[v]
          /\ call'[w].at = "tallied" /\ call'[w].f = failures'
          /\ call'[w].a = call[w].a
      BY <2>0, <2>2 DEF Abort!Tally, Abort!Calls
    <3>2. QED  BY <2>0, <3>1 DEF Abort!ExcessIsSeen
  <2>3. ASSUME NEW w \in Workers, Abort!Judge(w)
        PROVE  Abort!ExcessIsSeen'
    <3>1. /\ attempted' = attempted /\ failures' = failures
          /\ aborted' = (aborted \/ Abort!ShouldAbort(call[w].f, call[w].a))
          /\ \A v \in Workers : v # w => call'[v] = call[v]
          /\ call'[w].f = call[w].f /\ call'[w].a = call[w].a
      BY <2>0, <2>3 DEF Abort!Judge, Abort!Calls
    <3>2. ASSUME Abort!ShouldAbort(failures, attempted), call[w].f = failures
          PROVE  aborted'
      <4>1. call[w].a <= attempted  BY DEF Abort!ExcessIsSeen
      <4>2. Abort!ShouldAbort(call[w].f, call[w].a)
        BY <2>0, <3>2, <4>1, ExcessMonotone
      <4>3. QED  BY <3>1, <4>2
    <3>3. QED  BY <2>0, <3>1, <3>2 DEF Abort!ExcessIsSeen
  <2>4. ASSUME NEW w \in Workers, Abort!Answer(w)
        PROVE  Abort!ExcessIsSeen'
    <3>1. /\ attempted' = attempted /\ failures' = failures /\ aborted' = aborted
          /\ call[w].at = "judged"
          /\ \A v \in Workers : v # w => call'[v] = call[v]
          /\ call'[w].f = 0 /\ call'[w].a = 0
      BY <2>0, <2>4 DEF Abort!Answer, Abort!NoCall
    <3>2. QED  BY <2>0, <3>1 DEF Abort!ExcessIsSeen
  <2>5. CASE UNCHANGED Abort!abortVars
    BY <2>5 DEF Abort!abortVars, Abort!ExcessIsSeen
  <2>6. QED  BY <2>1, <2>2, <2>3, <2>4, <2>5 DEF Abort!Next
<1>3. QED  BY <1>1, <1>2, AbortTyped, PTL DEF Abort!Spec

\* An excess is never missed (record_and_check, abort.rs:39-50): when every
\* call has returned, totals above the threshold mean an aborted export.
THEOREM AbortNotMissed == Abort!Spec => []Abort!NoMissedAbort
<1>1. Abort!ExcessIsSeen => Abort!NoMissedAbort
  BY DEF Abort!ExcessIsSeen, Abort!NoMissedAbort, Abort!Quiet
<1>2. QED  BY <1>1, ExcessSeen, PTL

\* FLOOR failures never abort an export, whatever the interleaving: the floor
\* clause of should_abort (failure.rs:54-57) survives the stale locals.
THEOREM FloorNeverAborts == Abort!Spec => []Abort!FloorTolerated
<1>1. Abort!Init => Abort!FloorTolerated
  BY DEF Abort!Init, Abort!FloorTolerated
<1>2. Abort!TypeOK /\ Abort!ExcessIsSeen /\ Abort!FloorTolerated /\ [Abort!Next]_Abort!abortVars
        => Abort!FloorTolerated'
  <2> SUFFICES ASSUME Abort!TypeOK, Abort!ExcessIsSeen, Abort!FloorTolerated, [Abort!Next]_Abort!abortVars
               PROVE Abort!FloorTolerated'
    OBVIOUS
  <2>0. FLOOR \in Nat /\ failures \in Nat
        /\ \A w \in Workers : call[w].f \in Nat /\ call[w].f <= failures
    BY FailureConfigAssumption DEF Abort!TypeOK, Abort!Calls, Abort!ExcessIsSeen
  <2>1. ASSUME NEW w \in Workers, Abort!Judge(w)
        PROVE  Abort!FloorTolerated'
    <3>1. failures' = failures /\ (aborted' => aborted \/ call[w].f > FLOOR)
      BY <2>1 DEF Abort!Judge, Abort!ShouldAbort
    <3>2. call[w].f > FLOOR => failures > FLOOR
      BY <2>0
    <3>3. QED  BY <3>1, <3>2 DEF Abort!FloorTolerated
  <2>2. ASSUME NEW w \in Workers,
               (\E failed \in BOOLEAN : Abort!Count(w, failed)) \/ Abort!Tally(w) \/ Abort!Answer(w)
        PROVE  Abort!FloorTolerated'
    <3>1. aborted' = aborted /\ (failures' = failures \/ failures' = failures + 1)
      BY <2>2 DEF Abort!Count, Abort!Tally, Abort!Answer
    <3>2. failures > FLOOR => failures' > FLOOR
      BY <2>0, <3>1
    <3>3. QED  BY <3>1, <3>2 DEF Abort!FloorTolerated
  <2>3. CASE UNCHANGED Abort!abortVars
    BY <2>3 DEF Abort!abortVars, Abort!FloorTolerated
  <2>4. QED  BY <2>1, <2>2, <2>3 DEF Abort!Next
<1>3. QED  BY <1>1, <1>2, AbortTyped, ExcessSeen, PTL DEF Abort!Spec

\* The workers use the counters and the flag only through record_and_check
\* (pipeline.rs:460-468).
LEMMA WorkersCount == Spec => Abort!Spec
<1>1. Init => Abort!Init
  BY DEF Init
<1>2. StagedOnce /\ [Next]_vars => [Abort!Next]_Abort!abortVars
  <2> SUFFICES ASSUME StagedOnce, [Next]_vars PROVE [Abort!Next]_Abort!abortVars
    OBVIOUS
  <2> USE DEF Abort!abortVars, abortVars
  <2>1. CASE Change
    BY <2>1 DEF Change
  <2>2. ASSUME NEW w \in Workers, WorkerStep(w)
        PROVE  [Abort!Next]_Abort!abortVars
    <3>1. CASE Record(w)
      <4>1. \/ Abort!Count(w, fuelFailed[w]) \/ Abort!Tally(w)
            \/ Abort!Judge(w) \/ Abort!Answer(w)
        BY <3>1 DEF Record
      <4>2. fuelFailed[w] \in BOOLEAN
        BY DEF StagedOnce, RowTypes
      <4>3. QED  BY <4>1, <4>2 DEF Abort!Next
    <3>2. CASE ~ Record(w)
      BY <2>2, <3>2 DEF WorkerStep, Work, Claim, Pop, CheckAbort, FetchPage, FetchFuel,
         Stage, Emit, RaiseFlag, Panic, Cancel
    <3>3. QED  BY <3>1, <3>2
  <2>3. CASE MainStep
    BY <2>3 DEF MainStep, CountAndSpawn, JoinLoop, JoinNext, Conclude
  <2>4. CASE UNCHANGED vars
    BY <2>4 DEF vars
  <2>5. QED  BY <2>1, <2>2, <2>3, <2>4 DEF Next, WorkerStep
<1>3. QED
  BY <1>1, <1>2, RowsStagedOnce, PTL DEF Spec, Abort!Spec

\* Whichever workers end, fail or are cancelled between the two counters, an
\* excess is not missed (abort.rs:39-50).
THEOREM ExportAbortNotMissed == Spec => []NoMissedAbort
<1>1. Abort!NoMissedAbort => NoMissedAbort
  BY DEF NoMissedAbort
<1>2. QED  BY <1>1, WorkersCount, AbortNotMissed, PTL

\* FLOOR failed fuel fetches never abort an export (failure.rs:54-57).
THEOREM ExportFloorTolerated == Spec => []FloorTolerated
<1>1. Abort!FloorTolerated => FloorTolerated
  BY DEF FloorTolerated
<1>2. QED  BY <1>1, WorkersCount, FloorNeverAborts, PTL

(***************************************************************************)
(* The fuel-failure summary (pipeline.rs:457-469).                         *)
(***************************************************************************)

\* A call of record_and_check lies within its worker's step "record", and
\* counts the outcome of that worker's fetch.
CallsFit ==
    /\ \A w \in Workers : call[w].at # "idle" => pc[w] = "record"
    /\ \A w \in Workers : call[w].at = "counted" => call[w].failed = fuelFailed[w]

\* Fetches in the summary that the shared counters do not have yet.
Uncounted == {w \in Workers : pc[w] = "record" /\ call[w].at = "idle"}
Untallied == {w \in Workers : /\ pc[w] = "record" /\ fuelFailed[w]
                              /\ call[w].at \in {"idle", "counted"}}

SummaryTypes == summary \in [attempted : Nat, failures : Nat, affected : Nat]

SummaryCounts ==
    /\ SummaryTypes
    /\ summary.attempted = attempted + Cardinality(Uncounted)
    /\ summary.failures = failures + Cardinality(Untallied)

\* The types of the shared counters.
THEOREM CountersTyped == Spec => []Abort!TypeOK
BY WorkersCount, AbortTyped, PTL

\* The workers are finitely many, and so is every group of them.
LEMMA WorkerGroupsFinite ==
    ASSUME NEW S \in SUBSET Workers
    PROVE  IsFiniteSet(S) /\ Cardinality(S) \in Nat
<1>1. IsFiniteSet(S)
  BY FS_Subset, PipelineAssumption
<1>2. QED  BY <1>1, FS_CardinalityType

\* Adding one worker to a group, or taking one out of it.
LEMMA OneWorker ==
    ASSUME NEW S \in SUBSET Workers, NEW w \in Workers, w \notin S
    PROVE  Cardinality(S \cup {w}) = Cardinality(S) + 1
<1>1. IsFiniteSet(S)
  BY WorkerGroupsFinite
<1>2. QED  BY <1>1, FS_AddElement

\* The steps in which a worker neither fetches fuel nor counts the fetch.
LEMMA OtherStepsKeepCounts ==
    ASSUME SummaryCounts, CallsFit, Lifecycle, NEW w \in Workers, NEW s \in WorkerSteps,
           pc[w] # "record", s # "record", pc' = [pc EXCEPT ![w] = s],
           UNCHANGED <<summary, attempted, failures, call, fuelFailed>>
    PROVE  SummaryCounts' /\ CallsFit'
<1>1. Uncounted' = Uncounted
  BY DEF Uncounted, Lifecycle
<1>2. Untallied' = Untallied
  BY DEF Untallied, Lifecycle
<1>3. CallsFit'
  BY DEF CallsFit, Lifecycle
<1>4. QED  BY <1>1, <1>2, <1>3 DEF SummaryCounts, SummaryTypes

\* A fuel fetch enters the summary, and waits to be counted.
LEMMA FetchFuelKeepsCounts ==
    ASSUME SummaryCounts, CallsFit, Lifecycle, RowTypes, Abort!TypeOK, Ownership,
           NEW w \in Workers, FetchFuel(w)
    PROVE  SummaryCounts' /\ CallsFit'
<1> USE DEF abortVars, Goto
<1>1. /\ pc[w] = "fuel" /\ pc' = [pc EXCEPT ![w] = "record"]
      /\ UNCHANGED <<attempted, failures, call>>
  BY DEF FetchFuel
<1>2. PICK failed \in BOOLEAN :
        /\ fuelFailed' = [fuelFailed EXCEPT ![w] = failed]
        /\ summary' = [attempted |-> summary.attempted + 1,
                       failures  |-> summary.failures + (IF failed THEN 1 ELSE 0),
                       affected  |-> summary.affected +
                                     (IF failed THEN Cardinality(page[w]) ELSE 0)]
  BY DEF FetchFuel
<1>3. call[w].at = "idle"
  BY <1>1 DEF CallsFit
<1>4. pc'[w] = "record" /\ fuelFailed'[w] = failed
      /\ \A v \in Workers \ {w} : pc'[v] = pc[v] /\ fuelFailed'[v] = fuelFailed[v]
  BY <1>1, <1>2 DEF Lifecycle, RowTypes
<1>5. Uncounted' = Uncounted \cup {w} /\ w \notin Uncounted
  BY <1>1, <1>3, <1>4 DEF Uncounted
<1>6. Untallied' = (IF failed THEN Untallied \cup {w} ELSE Untallied) /\ w \notin Untallied
  BY <1>1, <1>3, <1>4 DEF Untallied
<1>7. Cardinality(Uncounted') = Cardinality(Uncounted) + 1
  BY <1>5, OneWorker DEF Uncounted
<1>8. Cardinality(Untallied') = Cardinality(Untallied) + (IF failed THEN 1 ELSE 0)
  <2>1. Untallied \in SUBSET Workers
    BY DEF Untallied
  <2>2. Cardinality(Untallied) \in Nat
    BY <2>1, WorkerGroupsFinite
  <2>3. failed => Cardinality(Untallied \cup {w}) = Cardinality(Untallied) + 1
    BY <1>6, <2>1, OneWorker
  <2>4. QED  BY <1>6, <2>2, <2>3
<1>9. Cardinality(Uncounted) \in Nat /\ Cardinality(Untallied) \in Nat
  BY WorkerGroupsFinite DEF Uncounted, Untallied
<1>10. Cardinality(page[w]) \in Nat
  <2>1. IsFiniteSet(page[w])
    BY PlatesFinite, FS_Subset DEF Ownership
  <2>2. QED  BY <2>1, FS_CardinalityType
<1>11. attempted \in Nat /\ failures \in Nat
  BY DEF Abort!TypeOK
<1>12. SummaryTypes'
  BY <1>2, <1>10 DEF SummaryCounts, SummaryTypes
<1> HIDE DEF Uncounted, Untallied
<1>13. summary'.attempted = attempted' + Cardinality(Uncounted')
  BY <1>1, <1>2, <1>7, <1>9, <1>11 DEF SummaryCounts
<1>14. summary'.failures = failures' + Cardinality(Untallied')
  BY <1>1, <1>2, <1>8, <1>9, <1>11 DEF SummaryCounts
<1>15. CallsFit'
  BY <1>1, <1>3, <1>4 DEF CallsFit
<1>16. QED  BY <1>12, <1>13, <1>14, <1>15 DEF SummaryCounts

\* record_and_check moves a fetch from the waiting ones to the counters.
LEMMA RecordKeepsCounts ==
    ASSUME SummaryCounts, CallsFit, Lifecycle, RowTypes, Abort!TypeOK,
           NEW w \in Workers, Record(w)
    PROVE  SummaryCounts' /\ CallsFit'
<1> USE DEF outputVars, Goto
<1>1. pc[w] = "record" /\ UNCHANGED <<summary, fuelFailed>>
  BY DEF Record
<1>2. attempted \in Nat /\ failures \in Nat
      /\ call \in [Workers -> [at : {"idle", "counted", "tallied", "judged"},
                               failed : BOOLEAN, a : Nat, f : Nat]]
  BY DEF Abort!TypeOK, Abort!Calls, Abort!Steps
<1>3. Cardinality(Uncounted) \in Nat /\ Cardinality(Untallied) \in Nat
      /\ Cardinality(Uncounted') \in Nat /\ Cardinality(Untallied') \in Nat
  BY WorkerGroupsFinite DEF Uncounted, Untallied
<1>4. CASE Abort!Count(w, fuelFailed[w]) /\ UNCHANGED pc
  <2>1. /\ attempted' = attempted + 1 /\ failures' = failures /\ call[w].at = "idle"
        /\ call'[w].at = "counted" /\ call'[w].failed = fuelFailed[w]
        /\ \A v \in Workers \ {w} : call'[v] = call[v]
    BY <1>2, <1>4 DEF Abort!Count
  <2>2. Uncounted = Uncounted' \cup {w} /\ w \notin Uncounted'
    BY <1>1, <1>4, <2>1 DEF Uncounted
  <2>3. Untallied' = Untallied
    BY <1>1, <1>4, <2>1 DEF Untallied
  <2>4. Cardinality(Uncounted) = Cardinality(Uncounted') + 1
    BY <2>2, OneWorker DEF Uncounted
  <2>5. CallsFit'
    BY <1>1, <1>4, <2>1 DEF CallsFit
  <2> HIDE DEF Uncounted, Untallied
  <2>6. QED
    BY <1>1, <1>2, <1>3, <2>1, <2>3, <2>4, <2>5 DEF SummaryCounts, SummaryTypes
<1>5. CASE Abort!Tally(w) /\ UNCHANGED pc
  <2>1. /\ attempted' = attempted /\ call[w].at = "counted"
        /\ call'[w].at = "tallied" /\ call[w].failed = fuelFailed[w]
        /\ failures' = failures + (IF fuelFailed[w] THEN 1 ELSE 0)
        /\ \A v \in Workers \ {w} : call'[v] = call[v]
    <3>1. call[w].at = "counted" /\ call[w].failed = fuelFailed[w] /\ attempted' = attempted
      BY <1>5 DEF Abort!Tally, CallsFit
    <3>2. failures' = IF call[w].failed THEN failures + 1 ELSE failures
      BY <1>5 DEF Abort!Tally
    <3>3. failures' = failures + (IF fuelFailed[w] THEN 1 ELSE 0)
      BY <1>2, <3>1, <3>2
    <3>4. call'[w].at = "tallied" /\ \A v \in Workers \ {w} : call'[v] = call[v]
      BY <1>2, <1>5 DEF Abort!Tally
    <3>5. QED  BY <3>1, <3>3, <3>4
  <2>2. Uncounted' = Uncounted
    BY <1>1, <1>5, <2>1 DEF Uncounted
  <2>3. /\ Untallied = (IF fuelFailed[w] THEN Untallied' \cup {w} ELSE Untallied')
        /\ w \notin Untallied'
    BY <1>1, <1>5, <2>1 DEF Untallied
  <2>4. Cardinality(Untallied) =
          Cardinality(Untallied') + (IF fuelFailed[w] THEN 1 ELSE 0)
    <3>1. Untallied' \in SUBSET Workers
      BY DEF Untallied
    <3>2. Cardinality(Untallied' \cup {w}) = Cardinality(Untallied') + 1
      BY <2>3, <3>1, OneWorker
    <3> HIDE DEF Untallied
    <3>3. QED  BY <1>3, <2>3, <3>2
  <2>5. CallsFit'
    BY <1>1, <1>5, <2>1 DEF CallsFit
  <2> HIDE DEF Uncounted, Untallied
  <2>6. QED
    BY <1>1, <1>2, <1>3, <2>1, <2>2, <2>4, <2>5 DEF SummaryCounts, SummaryTypes
<1>6. CASE Abort!Judge(w) /\ UNCHANGED pc
  <2>1. /\ UNCHANGED <<attempted, failures>> /\ call[w].at = "tallied"
        /\ call'[w].at = "judged" /\ \A v \in Workers \ {w} : call'[v] = call[v]
    BY <1>2, <1>6 DEF Abort!Judge
  <2>2. Uncounted' = Uncounted /\ Untallied' = Untallied
    BY <1>1, <1>6, <2>1 DEF Uncounted, Untallied
  <2>3. CallsFit'
    BY <1>1, <1>6, <2>1 DEF CallsFit
  <2>4. QED  BY <1>1, <2>1, <2>2, <2>3 DEF SummaryCounts, SummaryTypes
<1>7. CASE Abort!Answer(w) /\ Goto(w, IF aborted THEN "claim" ELSE "stage")
  <2>1. /\ UNCHANGED <<attempted, failures>> /\ call[w].at = "judged"
        /\ call'[w].at = "idle" /\ \A v \in Workers \ {w} : call'[v] = call[v]
    BY <1>2, <1>7 DEF Abort!Answer, Abort!NoCall
  <2>2. pc'[w] # "record" /\ \A v \in Workers \ {w} : pc'[v] = pc[v]
    BY <1>7 DEF Lifecycle
  <2>3. Uncounted' = Uncounted /\ Untallied' = Untallied
    BY <1>1, <2>1, <2>2 DEF Uncounted, Untallied
  <2>4. CallsFit'
    BY <1>1, <2>1, <2>2 DEF CallsFit
  <2>5. QED  BY <1>1, <2>1, <2>3, <2>4 DEF SummaryCounts, SummaryTypes
<1>8. QED  BY <1>4, <1>5, <1>6, <1>7 DEF Record

\* The summary is what the shared counters count, save for the fetches whose
\* record_and_check is still under way.
THEOREM SummaryIsCounted == Spec => [](SummaryCounts /\ CallsFit)
<1>1. Init => SummaryCounts /\ CallsFit
  <2> SUFFICES ASSUME Init PROVE SummaryCounts /\ CallsFit
    OBVIOUS
  <2>1. Uncounted = {} /\ Untallied = {}
    BY DEF Init, Uncounted, Untallied
  <2>2. Cardinality(Uncounted) = 0 /\ Cardinality(Untallied) = 0
    BY <2>1, FS_EmptySet
  <2>3. attempted = 0 /\ failures = 0 /\ CallsFit
    BY DEF Init, Abort!Init, Abort!NoCall, CallsFit
  <2>4. QED  BY <2>2, <2>3 DEF Init, SummaryCounts, SummaryTypes
<1>2. /\ Lifecycle /\ StagedOnce /\ Abort!TypeOK /\ Ownership
      /\ SummaryCounts /\ CallsFit /\ [Next]_vars
      => SummaryCounts' /\ CallsFit'
  <2> SUFFICES ASSUME Lifecycle, StagedOnce, Abort!TypeOK, Ownership,
                      SummaryCounts, CallsFit, [Next]_vars
               PROVE  SummaryCounts' /\ CallsFit'
    OBVIOUS
  <2>0. ASSUME UNCHANGED <<summary, attempted, failures, call, fuelFailed, pc>>
        PROVE  SummaryCounts' /\ CallsFit'
    BY <2>0 DEF SummaryCounts, SummaryTypes, CallsFit, Uncounted, Untallied
  <2> USE DEF outputVars, abortVars, workerVars
  <2>1. ASSUME NEW w \in Workers, WorkerStep(w) PROVE SummaryCounts' /\ CallsFit'
    <3>1. CASE FetchFuel(w)
      BY <3>1, FetchFuelKeepsCounts DEF StagedOnce
    <3>2. CASE Record(w)
      BY <3>2, RecordKeepsCounts DEF StagedOnce
    <3>3. CASE ~ FetchFuel(w) /\ ~ Record(w)
      <4>1. PICK s \in WorkerSteps : pc' = [pc EXCEPT ![w] = s]
        BY <2>1, WorkerMoves DEF Lifecycle
      <4>2. UNCHANGED <<summary, attempted, failures, call, fuelFailed>>
        BY <2>1, <3>3 DEF WorkerStep, Work, Claim, Pop, CheckAbort, FetchPage, Stage,
           Emit, RaiseFlag, Panic, Cancel
      <4>3. pc[w] # "record"
        BY <2>1, <3>3 DEF WorkerStep, Work, Claim, Pop, CheckAbort, FetchPage, Stage,
           Emit, RaiseFlag, Panic, Cancel, Awaiting
      <4>4. pc'[w] # "record"
        BY <2>1, <3>3 DEF WorkerStep, Work, Claim, Pop, CheckAbort, FetchPage, Stage,
           Emit, RaiseFlag, Panic, Cancel, Fail, Goto, Lifecycle
      <4>5. s # "record"
        BY <4>1, <4>4 DEF Lifecycle
      <4>6. QED  BY <4>1, <4>2, <4>3, <4>5, OtherStepsKeepCounts
    <3>4. QED  BY <3>1, <3>2, <3>3
  <2>2. CASE Change
    BY <2>0, <2>2 DEF Change
  <2>3. CASE CountAndSpawn
    <3>1. UNCHANGED <<summary, attempted, failures, call, fuelFailed>>
          /\ \A w \in Workers : pc[w] # "record" /\ pc'[w] # "record"
      BY <2>3 DEF CountAndSpawn, Lifecycle
    <3>2. Uncounted' = Uncounted /\ Untallied' = Untallied
      BY <3>1 DEF Uncounted, Untallied
    <3>3. CallsFit'
      BY <3>1 DEF CallsFit
    <3>4. QED  BY <3>1, <3>2, <3>3 DEF SummaryCounts, SummaryTypes
  <2>4. CASE JoinLoop
    BY <2>0, <2>4 DEF JoinLoop
  <2>5. ASSUME NEW w \in Workers, JoinNext(w) PROVE SummaryCounts' /\ CallsFit'
    BY <2>0, <2>5 DEF JoinNext
  <2>6. CASE Conclude
    BY <2>0, <2>6 DEF Conclude
  <2>7. CASE UNCHANGED vars
    BY <2>0, <2>7 DEF vars
  <2>8. QED
    BY <2>1, <2>2, <2>3, <2>4, <2>5, <2>6, <2>7 DEF Next, MainStep, WorkerStep
<1>3. QED
  BY <1>1, <1>2, LifecycleHolds, RowsStagedOnce, CountersTyped, RangesAreOwned, PTL
  DEF Spec

(***************************************************************************)
(* The affected vehicles.                                                  *)
(***************************************************************************)

\* The vehicles marked fuel_unavailable, and those about to be.
Marked == {p \in Plates : rows[p]["fuel_unavailable"] > 0}
ToMark(w) == {p \in page[w] : pc[w] \in {"record", "stage"} /\ fuelFailed[w]}
Affected == {p \in Plates : p \in Marked \/ \E w \in Workers : p \in ToMark(w)}

AffectedCounted == ~ Doomed => summary.affected = Cardinality(Affected)

\* Pages in hand are disjoint: their ranges are.
LEMMA PagesDisjoint ==
    ASSUME Ownership, NEW v \in Workers, NEW w \in Workers, v # w,
           pc[v] \in Holding, pc[w] \in Holding
    PROVE  page[v] \cap page[w] = {}
<1> SUFFICES ASSUME NEW p \in page[v], p \in page[w] PROVE FALSE
  OBVIOUS
<1>1. p \in Nat
  BY PlatesFinite DEF Ownership
<1>2. InRange(range[v], p) /\ InRange(range[w], p)
  BY DEF Ownership
<1>3. range[v] \in 1 .. RangeCount /\ range[w] \in 1 .. RangeCount /\ range[v] # range[w]
  <2>1. RangeCount \in Nat /\ Len(queue) \in Nat
    BY KentekenRangesAssumption DEF Ownership
  <2>2. pc[v] \in Busy /\ pc[w] \in Busy
    BY DEF Holding, Busy
  <2>3. QED  BY <2>1, <2>2 DEF Ownership, Claimed
<1>4. QED  BY <1>1, <1>2, <1>3, RangesDisjoint

\* A page whose fuel rows are being fetched has no vehicle that is staged.
LEMMA FreshPage ==
    ASSUME Ownership, StagedOnce, NEW w \in Workers, pc[w] \in Holding \ {"emit"},
           NEW p \in page[w]
    PROVE  RowsOf(p) = 0
<1>1. p \in Plates /\ InRange(range[w], p) /\ p > cursor[w]
  BY DEF Ownership
<1>2. range[w] \in 1 .. RangeCount /\ pc[w] \in Busy
  <2>1. RangeCount \in Nat /\ Len(queue) \in Nat
    BY KentekenRangesAssumption DEF Ownership
  <2>2. pc[w] \in Busy
    BY DEF Holding, Busy
  <2>3. QED  BY <2>1, <2>2 DEF Ownership, Claimed
<1>3. p \in Nat /\ cursor[w] \in Int
  BY <1>1, PlatesFinite DEF Ownership
<1>4. ~ Behind(p, w)
  BY <1>1, <1>3 DEF Behind, Holding
<1>5. QED  BY <1>1, <1>2, <1>4 DEF StagedOnce

\* Steps that neither fetch fuel nor stage.
LEMMA OtherStepsKeepAffected ==
    ASSUME AffectedCounted, Lifecycle, Doomed => Doomed',
           NEW w \in Workers, NEW s \in WorkerSteps, pc' = [pc EXCEPT ![w] = s],
           UNCHANGED <<summary, rows, fuelFailed>>,
           \A v \in Workers \ {w} : page'[v] = page[v],
           \/ pc[w] \notin {"record", "stage"} /\ s \notin {"record", "stage"}
           \/ pc[w] = "record" /\ s \in {"record", "stage"} /\ page'[w] = page[w]
    PROVE  AffectedCounted'
<1>1. \A v \in Workers : ToMark(v)' = ToMark(v)
  BY DEF ToMark, Lifecycle
<1>2. Affected' = Affected
  BY <1>1 DEF Affected, Marked
<1>3. QED  BY <1>2 DEF AffectedCounted

\* A failed fuel fetch affects the vehicles of its page, each of them once.
LEMMA FetchFuelKeepsAffected ==
    ASSUME AffectedCounted, Lifecycle, Ownership, StagedOnce, SummaryTypes,
           Doomed => Doomed', NEW w \in Workers, FetchFuel(w)
    PROVE  AffectedCounted'
<1> USE DEF Goto
<1>1. pc[w] = "fuel" /\ pc' = [pc EXCEPT ![w] = "record"] /\ UNCHANGED <<page, rows>>
  BY DEF FetchFuel
<1>2. PICK failed \in BOOLEAN :
        /\ fuelFailed' = [fuelFailed EXCEPT ![w] = failed]
        /\ summary' = [attempted |-> summary.attempted + 1,
                       failures  |-> summary.failures + (IF failed THEN 1 ELSE 0),
                       affected  |-> summary.affected +
                                     (IF failed THEN Cardinality(page[w]) ELSE 0)]
  BY DEF FetchFuel
<1>3. pc'[w] = "record" /\ fuelFailed'[w] = failed
      /\ \A v \in Workers \ {w} : pc'[v] = pc[v] /\ fuelFailed'[v] = fuelFailed[v]
  BY <1>1, <1>2 DEF Lifecycle, StagedOnce, RowTypes
<1>4. /\ ToMark(w) = {} /\ ToMark(w)' = (IF failed THEN page[w] ELSE {})
      /\ \A v \in Workers \ {w} : ToMark(v)' = ToMark(v)
  BY <1>1, <1>3 DEF ToMark
<1>5. page[w] \subseteq Plates
  BY DEF Ownership
<1>6. Affected' = Affected \cup (IF failed THEN page[w] ELSE {})
  BY <1>1, <1>4, <1>5 DEF Affected, Marked
<1>7. Affected \cap page[w] = {}
  <2> SUFFICES ASSUME NEW p \in page[w], p \in Affected PROVE FALSE
    OBVIOUS
  <2>1. p \notin Marked
    <3>1. RowsOf(p) = 0
      BY <1>1, FreshPage DEF Holding
    <3>2. rows[p]["fetched"] \in Nat /\ rows[p]["fuel_unavailable"] \in Nat
      BY <1>5 DEF StagedOnce, RowTypes, Statuses
    <3>3. QED  BY <3>1, <3>2 DEF Marked, RowsOf
  <2>2. ASSUME NEW v \in Workers, p \in ToMark(v) PROVE FALSE
    <3>1. v # w
      BY <1>4, <2>2
    <3>2. p \in page[v] /\ pc[v] \in Holding
      BY <2>2 DEF ToMark, Holding
    <3>3. QED  BY <1>1, <3>1, <3>2, PagesDisjoint DEF Holding
  <2>3. QED  BY <2>1, <2>2 DEF Affected
<1>8. IsFiniteSet(Affected) /\ IsFiniteSet(page[w])
  BY <1>5, PlatesFinite, FS_Subset DEF Affected
<1>9. Cardinality(Affected \cup page[w]) = Cardinality(Affected) + Cardinality(page[w])
  <2>1. Cardinality(Affected) \in Nat /\ Cardinality(page[w]) \in Nat
    BY <1>8, FS_CardinalityType
  <2>2. Cardinality(Affected \cap page[w]) = 0
    BY <1>7, FS_EmptySet
  <2>3. Cardinality(Affected \cup page[w]) =
          Cardinality(Affected) + Cardinality(page[w]) - Cardinality(Affected \cap page[w])
    BY <1>8, FS_Union
  <2> HIDE DEF Affected
  <2>4. QED  BY <2>1, <2>2, <2>3
<1>10. summary.affected \in Nat
  BY DEF SummaryTypes
<1> HIDE DEF Affected
<1>11. CASE failed
  BY <1>2, <1>6, <1>9, <1>11 DEF AffectedCounted
<1>12. CASE ~ failed
  BY <1>2, <1>6, <1>10, <1>12 DEF AffectedCounted
<1>13. QED  BY <1>11, <1>12

\* Staging marks the vehicles of a page whose fuel fetch failed.
LEMMA StageKeepsAffected ==
    ASSUME AffectedCounted, Lifecycle, Ownership, StagedOnce, Doomed => Doomed',
           NEW w \in Workers, Stage(w)
    PROVE  AffectedCounted'
<1> USE DEF Goto
<1>1. pc[w] = "stage" /\ UNCHANGED <<page, fuelFailed, summary>>
  BY DEF Stage
<1>2. CASE Fail(w, "Staging")
  BY <1>2 DEF Fail, Doomed, AffectedCounted
<1>3. CASE /\ rows' = [p \in Plates |->
                         IF p \in page[w]
                         THEN [rows[p] EXCEPT ![IF fuelFailed[w] THEN "fuel_unavailable"
                                                ELSE "fetched"] = @ + 1]
                         ELSE rows[p]]
           /\ pc' = [pc EXCEPT ![w] = "emit"]
  <2>1. pc'[w] = "emit" /\ \A v \in Workers \ {w} : pc'[v] = pc[v]
    BY <1>3 DEF Lifecycle
  <2>2. /\ ToMark(w) = (IF fuelFailed[w] THEN page[w] ELSE {}) /\ ToMark(w)' = {}
        /\ \A v \in Workers \ {w} : ToMark(v)' = ToMark(v)
    BY <1>1, <2>1 DEF ToMark
  <2>3. fuelFailed[w] \in BOOLEAN
    BY DEF StagedOnce, RowTypes
  <2>4. ASSUME NEW p \in Plates
        PROVE  p \in Marked' <=> p \in Marked \/ p \in ToMark(w)
    <3> DEFINE r == rows[p]
    <3>1. r \in [Statuses -> Nat] /\ r["fuel_unavailable"] \in Nat
      BY DEF StagedOnce, RowTypes, Statuses
    <3>2. rows'[p]["fuel_unavailable"] =
            IF p \in page[w] /\ fuelFailed[w] THEN r["fuel_unavailable"] + 1
            ELSE r["fuel_unavailable"]
      <4>1. rows'[p] = IF p \in page[w]
                       THEN [r EXCEPT ![IF fuelFailed[w] THEN "fuel_unavailable"
                                        ELSE "fetched"] = @ + 1]
                       ELSE r
        BY <1>3
      <4> HIDE DEF r
      <4>2. QED  BY <2>3, <3>1, <4>1 DEF Statuses
    <3>3. QED  BY <2>2, <3>1, <3>2 DEF Marked
  <2>5. Affected' = Affected
    BY <2>2, <2>4 DEF Affected
  <2>6. QED  BY <1>1, <2>5 DEF AffectedCounted
<1>4. QED  BY <1>2, <1>3 DEF Stage

\* The summary counts every vehicle that is or will be marked, and each once.
THEOREM AffectedIsCounted == Spec => []AffectedCounted
<1> DEFINE Known == Lifecycle /\ Ownership /\ StagedOnce /\ ErrorsKept /\ Background
                    /\ SummaryCounts
<1>1. Init => AffectedCounted
  <2> SUFFICES ASSUME Init PROVE AffectedCounted
    OBVIOUS
  <2>1. Affected = {}
    BY DEF Init, Affected, Marked, ToMark, Statuses
  <2>2. Cardinality(Affected) = 0
    BY <2>1, FS_EmptySet
  <2>3. QED  BY <2>2 DEF Init, AffectedCounted
<1>2. Known /\ AffectedCounted /\ [Next]_vars => AffectedCounted'
  <2> SUFFICES ASSUME Lifecycle, Ownership, StagedOnce, ErrorsKept, Background,
                      SummaryCounts, AffectedCounted, [Next]_vars
               PROVE  AffectedCounted'
    OBVIOUS
  <2>a. Doomed => Doomed'
    BY DoomIsKept
  <2>0. ASSUME UNCHANGED <<summary, rows, fuelFailed, page, pc>>
        PROVE  AffectedCounted'
    BY <2>a, <2>0 DEF AffectedCounted, Affected, Marked, ToMark
  <2> USE DEF outputVars, workerVars
  <2>1. ASSUME NEW w \in Workers, WorkerStep(w) PROVE AffectedCounted'
    <3> USE DEF Goto, Busy, WorkerSteps, Terminal, Active
    <3>0. SUFFICES ASSUME ~ Doomed' PROVE AffectedCounted'
      BY DEF AffectedCounted
    <3>1. CASE Claim(w)      BY <2>a, <3>1, OtherStepsKeepAffected DEF Claim
    <3>2. CASE Pop(w)
      <4>1. /\ pc[w] = "pop" /\ UNCHANGED <<summary, rows, fuelFailed, page>>
            /\ \E s \in {"done", "page"} : pc' = [pc EXCEPT ![w] = s]
        BY <3>2 DEF Pop
      <4>2. QED  BY <2>a, <4>1, OtherStepsKeepAffected
    <3>3. CASE CheckAbort(w) BY <2>a, <3>3, OtherStepsKeepAffected DEF CheckAbort
    <3>4. CASE FetchPage(w)
      <4>1. /\ pc[w] = "fetch" /\ UNCHANGED <<summary, rows, fuelFailed>>
            /\ \A v \in Workers \ {w} : page'[v] = page[v]
        BY <3>4 DEF FetchPage, Ownership
      <4>2. PICK s \in {"claim", "fuel", "flag"} : pc' = [pc EXCEPT ![w] = s]
        BY <3>4 DEF FetchPage, Fail
      <4>3. QED  BY <2>a, <4>1, <4>2, OtherStepsKeepAffected
    <3>5. CASE FetchFuel(w)
      BY <2>a, <3>5, FetchFuelKeepsAffected DEF SummaryCounts
    <3>6. CASE Record(w)
      <4>1. pc[w] = "record" /\ UNCHANGED <<summary, rows, fuelFailed, page>>
        BY <3>6 DEF Record
      <4>2. CASE UNCHANGED pc
        BY <2>0, <4>1, <4>2
      <4>3. CASE Goto(w, IF aborted THEN "claim" ELSE "stage")
        <5>1. ~ aborted
          BY <2>a, <3>0 DEF Doomed
        <5>2. QED  BY <2>a, <4>1, <4>3, <5>1, OtherStepsKeepAffected
      <4>4. QED  BY <3>6, <4>2, <4>3 DEF Record
    <3>7. CASE Stage(w)      BY <2>a, <3>7, StageKeepsAffected
    <3>8. CASE Emit(w)
      <4>1. /\ pc[w] = "emit" /\ UNCHANGED <<summary, rows, fuelFailed, page>>
            /\ \E s \in {"claim", "page"} : pc' = [pc EXCEPT ![w] = s]
        BY <3>8 DEF Emit
      <4>2. QED  BY <2>a, <4>1, OtherStepsKeepAffected
    <3>9. CASE RaiseFlag(w)  BY <2>a, <3>9, OtherStepsKeepAffected DEF RaiseFlag
    <3>10. CASE Panic(w)
      BY <3>0, <3>10 DEF Panic, Doomed, Lifecycle
    <3>11. CASE Cancel(w)
      BY <2>a, <3>0, <3>11 DEF Cancel, Background, Doomed
    <3>12. QED
      BY <2>1, <3>1, <3>2, <3>3, <3>4, <3>5, <3>6, <3>7, <3>8, <3>9, <3>10, <3>11
      DEF WorkerStep, Work
  <2>2. CASE Change
    BY <2>0, <2>2 DEF Change
  <2>3. CASE CountAndSpawn
    <3>1. UNCHANGED <<summary, rows, fuelFailed, page>>
          /\ \A w \in Workers : /\ pc[w] \notin {"record", "stage"}
                                /\ pc'[w] \notin {"record", "stage"}
      BY <2>3 DEF CountAndSpawn, Lifecycle
    <3>2. Affected' = Affected
      BY <3>1 DEF Affected, Marked, ToMark
    <3>3. QED  BY <2>a, <3>1, <3>2 DEF AffectedCounted
  <2>4. CASE JoinLoop
    BY <2>0, <2>4 DEF JoinLoop
  <2>5. ASSUME NEW w \in Workers, JoinNext(w) PROVE AffectedCounted'
    BY <2>0, <2>5 DEF JoinNext
  <2>6. CASE Conclude
    BY <2>0, <2>6 DEF Conclude
  <2>7. CASE UNCHANGED vars
    BY <2>0, <2>7 DEF vars
  <2>8. QED
    BY <2>1, <2>2, <2>3, <2>4, <2>5, <2>6, <2>7 DEF Next, MainStep, WorkerStep
<1>3. QED
  BY <1>1, <1>2, LifecycleHolds, RangesAreOwned, RowsStagedOnce, ErrorsAreKept,
     BackgroundHolds, SummaryIsCounted, PTL DEF Spec

\* What the client is told in X-Export-Warnings is what it gets
\* (pipeline.rs:388-405, handlers.rs:186-211).
TrueWhenOk ==
    /\ main # "returned" => result = "none"
    /\ SummaryTruthful

\* The summary of every successful export counts exactly the rows marked
\* fuel_unavailable and agrees with counters below the threshold.
THEOREM SummaryIsTruthful == Spec => []SummaryTruthful
<1> DEFINE Known == Lifecycle /\ ErrorsKept /\ Ownership /\ Background /\ NothingLost
                    /\ SummaryCounts /\ CallsFit /\ AffectedCounted /\ NoMissedAbort
                    /\ Abort!TypeOK
<1>1. Init => TrueWhenOk
  BY DEF Init, TrueWhenOk, SummaryTruthful
<1>2. Known /\ TrueWhenOk /\ [Next]_vars => TrueWhenOk'
  <2> SUFFICES ASSUME Lifecycle, ErrorsKept, Ownership, Background, NothingLost,
                      SummaryCounts, CallsFit, AffectedCounted, NoMissedAbort,
                      Abort!TypeOK,
                      TrueWhenOk, [Next]_vars
               PROVE  TrueWhenOk'
    OBVIOUS
  <2> USE DEF mainVars, outputVars, workerVars, abortVars, Return
  <2>0. ASSUME UNCHANGED <<main, result>>, main # "returned"
        PROVE  TrueWhenOk'
    BY <2>0 DEF TrueWhenOk, SummaryTruthful
  <2>a. ASSUME result' # "Ok", main' = "returned"
        PROVE  TrueWhenOk'
    BY <2>a DEF TrueWhenOk, SummaryTruthful
  <2>1. CASE Change
    BY <2>0, <2>1 DEF Change
  <2>2. ASSUME NEW w \in Workers, WorkerStep(w) PROVE TrueWhenOk'
    <3>1. pc[w] \in Active /\ UNCHANGED <<main, result>>
      BY <2>2, WorkerMoves DEF Lifecycle
    <3>2. main # "returned"
      BY <3>1 DEF Lifecycle, Active, Busy, Terminal
    <3>3. QED  BY <2>0, <3>1, <3>2
  <2>3. CASE CountAndSpawn
    <3>1. CASE result' = "Upstream" /\ main' = "returned"
      BY <2>a, <3>1
    <3>2. CASE main' = "join" /\ UNCHANGED result /\ main = "count"
      BY <3>2 DEF TrueWhenOk, SummaryTruthful
    <3>3. QED  BY <2>3, <3>1, <3>2 DEF CountAndSpawn
  <2>4. CASE JoinLoop
    BY <2>4 DEF JoinLoop, TrueWhenOk, SummaryTruthful
  <2>5. ASSUME NEW w \in Workers, JoinNext(w) PROVE TrueWhenOk'
    BY <2>5 DEF JoinNext, TrueWhenOk, SummaryTruthful
  <2>6. CASE Conclude
    <3>1. /\ main = "conclude" /\ main' = "returned"
          /\ UNCHANGED <<rows, summary, attempted, failures>>
      BY <2>6 DEF Conclude
    <3>2. CASE result' # "Ok"
      BY <2>a, <3>1, <3>2
    <3>3. CASE result' = "Ok"
      <4>1. hardError = "none" /\ ~ aborted
        BY <2>6, <3>3 DEF Conclude, Background
      <4>2. ~ Doomed /\ \A w \in Workers : pc[w] = "done"
        BY <3>1, <4>1, AllStaged
      <4>3. Uncounted = {} /\ Untallied = {} /\ Affected = Marked
        BY <4>2 DEF Uncounted, Untallied, Affected, Marked, ToMark
      <4>4. Cardinality(Uncounted) = 0 /\ Cardinality(Untallied) = 0
        BY <4>3, FS_EmptySet
      <4>5. summary.failures = failures /\ summary.attempted = attempted
        BY <4>4 DEF SummaryCounts, Abort!TypeOK
      <4>6. summary.affected = Cardinality(Marked)
        BY <4>2, <4>3 DEF AffectedCounted
      <4>7. \A w \in Workers : call[w].at = "idle"
        BY <4>2 DEF CallsFit
      <4>8. ~ ShouldAbort(failures, attempted)
        BY <4>1, <4>7 DEF NoMissedAbort, Abort!NoMissedAbort, Abort!Quiet,
                          ShouldAbort, Abort!ShouldAbort
      <4>9. SummaryTruthful'
        BY <3>1, <4>5, <4>6, <4>8 DEF SummaryTruthful, Marked, ShouldAbort
      <4>10. QED  BY <3>1, <4>9 DEF TrueWhenOk
    <3>4. QED  BY <3>2, <3>3
  <2>7. CASE UNCHANGED vars
    BY <2>7 DEF vars, TrueWhenOk, SummaryTruthful, ShouldAbort
  <2>8. QED
    BY <2>1, <2>2, <2>3, <2>4, <2>5, <2>6, <2>7 DEF Next, MainStep, WorkerStep
<1>3. TrueWhenOk => SummaryTruthful
  BY DEF TrueWhenOk
<1>4. QED
  BY <1>1, <1>2, <1>3, LifecycleHolds, ErrorsAreKept, RangesAreOwned, BackgroundHolds,
     NothingIsLost, SummaryIsCounted, AffectedIsCounted, ExportAbortNotMissed,
     CountersTyped, PTL
  DEF Spec

(***************************************************************************)
(* The reconciliation (pipeline.rs:376-386).                               *)
(***************************************************************************)

\* The staged vehicles that are counted already: not those of a page between
\* its staging and its count.
Counted == {p \in Plates : RowsOf(p) = 1 /\ ~ \E w \in Workers : pc[w] = "emit" /\ p \in page[w]}

EmitCounts ==
    /\ \A w \in Workers : pc[w] = "emit" => \A p \in page[w] : RowsOf(p) = 1
    /\ emitted = Cardinality(Counted)

\* Groups of plates are finite.
LEMMA PlateGroupsFinite ==
    ASSUME NEW S \in SUBSET Plates
    PROVE  IsFiniteSet(S) /\ Cardinality(S) \in Nat
<1>1. IsFiniteSet(S)
  BY PlatesFinite, FS_Subset
<1>2. QED  BY <1>1, FS_CardinalityType

\* Joining disjoint groups of plates adds their sizes.
LEMMA DisjointGroups ==
    ASSUME NEW S \in SUBSET Plates, NEW T \in SUBSET Plates, S \cap T = {}
    PROVE  Cardinality(S \cup T) = Cardinality(S) + Cardinality(T)
<1>1. IsFiniteSet(S) /\ IsFiniteSet(T) /\ Cardinality(S) \in Nat /\ Cardinality(T) \in Nat
  BY PlateGroupsFinite
<1>2. Cardinality(S \cap T) = 0
  BY FS_EmptySet
<1>3. Cardinality(S \cup T) = Cardinality(S) + Cardinality(T) - Cardinality(S \cap T)
  BY <1>1, FS_Union
<1>4. QED  BY <1>1, <1>2, <1>3

\* A step of a worker that neither stages nor counts.
LEMMA OtherStepsKeepEmitted ==
    ASSUME EmitCounts, Lifecycle, NEW w \in Workers, NEW s \in WorkerSteps,
           pc[w] # "emit", s # "emit", pc' = [pc EXCEPT ![w] = s],
           UNCHANGED <<rows, emitted>>, \A v \in Workers \ {w} : page'[v] = page[v]
    PROVE  EmitCounts'
<1>1. \A v \in Workers : /\ pc'[v] = "emit" <=> pc[v] = "emit"
                         /\ pc[v] = "emit" => page'[v] = page[v]
  BY DEF Lifecycle
<1>2. \A p \in Plates : RowsOf(p)' = RowsOf(p)
  BY DEF RowsOf
<1>3. Counted' = Counted
  BY <1>1, <1>2 DEF Counted
<1>4. \A v \in Workers : pc'[v] = "emit" => \A p \in page'[v] : RowsOf(p)' = 1
  <2>1. \A p : RowsOf(p)' = RowsOf(p)
    BY DEF RowsOf
  <2>2. QED  BY <1>1, <2>1 DEF EmitCounts
<1>5. QED  BY <1>3, <1>4 DEF EmitCounts

\* Staging a page does not count it yet (pipeline.rs:490-498).
LEMMA StageKeepsEmitted ==
    ASSUME EmitCounts, Lifecycle, Ownership, StagedOnce, NEW w \in Workers, Stage(w)
    PROVE  EmitCounts'
<1> DEFINE status == IF fuelFailed[w] THEN "fuel_unavailable" ELSE "fetched"
<1> USE DEF Goto
<1>1. pc[w] = "stage" /\ UNCHANGED <<page, emitted>>
  BY DEF Stage
<1>2. CASE Fail(w, "Staging") /\ UNCHANGED rows
  BY <1>1, <1>2, OtherStepsKeepEmitted DEF Fail, WorkerSteps, Active
<1>3. CASE /\ rows' = [p \in Plates |->
                         IF p \in page[w] THEN [rows[p] EXCEPT ![status] = @ + 1]
                         ELSE rows[p]]
           /\ pc' = [pc EXCEPT ![w] = "emit"]
  <2>1. status \in Statuses
    BY DEF Statuses
  <2> HIDE DEF status
  <2>2. \A p \in Plates :
          RowsOf(p)' = IF p \in page[w] THEN RowsOf(p) + 1 ELSE RowsOf(p)
    BY <1>3, <2>1, StageAddsRows DEF StagedOnce
  <2>3. pc'[w] = "emit" /\ \A v \in Workers \ {w} : pc'[v] = pc[v]
    BY <1>3 DEF Lifecycle
  <2>4. \A v \in Workers : page[v] \subseteq Plates
    BY DEF Ownership
  <2>5. \A p \in page[w] : RowsOf(p) = 0
    BY <1>1, FreshPage DEF Holding
  <2>6. \A p \in page[w] : RowsOf(p)' = 1
    BY <2>2, <2>4, <2>5
  <2>7. ASSUME NEW v \in Workers \ {w}, pc[v] = "emit", NEW p \in page[v]
        PROVE  RowsOf(p)' = 1
    <3>1. RowsOf(p) = 1 /\ p \in Plates
      BY <2>4, <2>7 DEF EmitCounts
    <3>2. p \notin page[w]
      BY <1>1, <2>7, PagesDisjoint DEF Holding
    <3>3. QED  BY <2>2, <3>1, <3>2
  <2>8. ASSUME NEW p \in Plates PROVE p \in Counted' <=> p \in Counted
    <3>1. CASE p \in page[w]
      BY <1>1, <2>3, <2>5, <3>1 DEF Counted
    <3>2. CASE p \notin page[w]
      BY <1>1, <2>2, <2>3, <3>2 DEF Counted
    <3>3. QED  BY <3>1, <3>2
  <2>9. Counted' = Counted
    BY <2>8 DEF Counted
  <2>10. QED  BY <1>1, <2>3, <2>6, <2>7, <2>9 DEF EmitCounts
<1>4. QED  BY <1>2, <1>3 DEF Stage

\* emitted_count.fetch_add: the page is counted, once (pipeline.rs:499).
LEMMA EmitKeepsEmitted ==
    ASSUME EmitCounts, Lifecycle, Ownership, StagedOnce, NEW w \in Workers, Emit(w)
    PROVE  EmitCounts'
<1> USE DEF Goto
<1>1. /\ pc[w] = "emit" /\ UNCHANGED <<rows, page>>
      /\ emitted' = emitted + Cardinality(page[w])
      /\ pc' \in {[pc EXCEPT ![w] = "claim"], [pc EXCEPT ![w] = "page"]}
  BY DEF Emit
<1>2. pc'[w] # "emit" /\ \A v \in Workers \ {w} : pc'[v] = pc[v]
  BY <1>1 DEF Lifecycle
<1>3. page[w] \subseteq Plates /\ \A p \in page[w] : RowsOf(p) = 1
  BY <1>1 DEF Ownership, EmitCounts
<1>4. \A p : RowsOf(p)' = RowsOf(p)
  BY <1>1 DEF RowsOf
<1>5. \A v \in Workers \ {w} : pc[v] = "emit" => page[v] \cap page[w] = {}
  BY <1>1, PagesDisjoint DEF Holding
<1>6. Counted' = Counted \cup page[w] /\ Counted \cap page[w] = {}
  <2>1. ASSUME NEW p \in Plates PROVE p \in Counted' <=> p \in Counted \/ p \in page[w]
    <3>1. CASE p \in page[w]
      BY <1>1, <1>2, <1>3, <1>4, <1>5, <3>1 DEF Counted
    <3>2. CASE p \notin page[w]
      BY <1>1, <1>2, <1>4, <3>2 DEF Counted
    <3>3. QED  BY <3>1, <3>2
  <2>2. Counted \cap page[w] = {}
    BY <1>1 DEF Counted
  <2>3. Counted' \subseteq Plates /\ Counted \subseteq Plates
    BY DEF Counted
  <2> HIDE DEF Counted
  <2>4. QED  BY <1>3, <2>1, <2>2, <2>3
<1>7. Cardinality(Counted') = Cardinality(Counted) + Cardinality(page[w])
  BY <1>3, <1>6, DisjointGroups DEF Counted
<1>8. \A v \in Workers : pc'[v] = "emit" => \A p \in page'[v] : RowsOf(p)' = 1
  BY <1>1, <1>2, <1>4 DEF EmitCounts
<1>9. QED  BY <1>1, <1>7, <1>8 DEF EmitCounts

\* emitted_count is the number of the vehicles staged and counted.
THEOREM EmittedIsCounted == Spec => []EmitCounts
<1>1. Init => EmitCounts
  <2> SUFFICES ASSUME Init PROVE EmitCounts
    OBVIOUS
  <2>1. Counted = {}
    BY DEF Init, Counted, RowsOf, Statuses
  <2>2. Cardinality(Counted) = 0
    BY <2>1, FS_EmptySet
  <2>3. QED  BY <2>2 DEF Init, EmitCounts
<1>2. Lifecycle /\ Ownership /\ StagedOnce /\ EmitCounts /\ [Next]_vars => EmitCounts'
  <2> SUFFICES ASSUME Lifecycle, Ownership, StagedOnce, EmitCounts, [Next]_vars
               PROVE  EmitCounts'
    OBVIOUS
  <2>0. ASSUME UNCHANGED <<rows, emitted, page, pc>>
        PROVE  EmitCounts'
    BY <2>0 DEF EmitCounts, Counted, RowsOf
  <2> USE DEF outputVars, workerVars
  <2>1. ASSUME NEW w \in Workers, WorkerStep(w) PROVE EmitCounts'
    <3>1. CASE Stage(w)
      BY <3>1, StageKeepsEmitted
    <3>2. CASE Emit(w)
      BY <3>2, EmitKeepsEmitted
    <3>3. CASE ~ Stage(w) /\ ~ Emit(w)
      <4>1. PICK s \in WorkerSteps : pc' = [pc EXCEPT ![w] = s]
        BY <2>1, WorkerMoves DEF Lifecycle
      <4>2. UNCHANGED <<rows, emitted>>
        BY <2>1, <3>3 DEF WorkerStep, Work, Claim, Pop, CheckAbort, FetchPage,
           FetchFuel, Record, RaiseFlag, Panic, Cancel
      <4>3. \A v \in Workers \ {w} : page'[v] = page[v]
        <5>1. page' \in {page, [page EXCEPT ![w] = NextPage(range[w], cursor[w])]}
          BY <2>1, <3>3 DEF WorkerStep, Work, Claim, Pop, CheckAbort, FetchPage,
             FetchFuel, Record, RaiseFlag, Panic, Cancel
        <5>2. QED  BY <5>1 DEF Ownership
      <4>4. pc[w] # "emit"
        BY <2>1, <3>3 DEF WorkerStep, Work, Claim, Pop, CheckAbort, FetchPage,
           FetchFuel, Record, RaiseFlag, Panic, Cancel, Awaiting
      <4>5. pc'[w] # "emit"
        BY <2>1, <3>3, <4>4 DEF WorkerStep, Work, Claim, Pop, CheckAbort, FetchPage,
           FetchFuel, Record, RaiseFlag, Panic, Cancel, Fail, Goto, Lifecycle
      <4>6. s # "emit"
        BY <4>1, <4>5 DEF Lifecycle
      <4>7. QED  BY <4>1, <4>2, <4>3, <4>4, <4>6, OtherStepsKeepEmitted
    <3>4. QED  BY <3>1, <3>2, <3>3
  <2>2. CASE Change
    BY <2>0, <2>2 DEF Change
  <2>3. CASE CountAndSpawn
    <3>1. /\ UNCHANGED <<rows, emitted, page>>
          /\ \A w \in Workers : pc[w] # "emit" /\ pc'[w] # "emit"
      BY <2>3 DEF CountAndSpawn, Lifecycle
    <3>2. Counted' = Counted
      BY <3>1 DEF Counted, RowsOf
    <3>3. QED  BY <3>1, <3>2 DEF EmitCounts
  <2>4. CASE JoinLoop
    BY <2>0, <2>4 DEF JoinLoop
  <2>5. ASSUME NEW w \in Workers, JoinNext(w) PROVE EmitCounts'
    BY <2>0, <2>5 DEF JoinNext
  <2>6. CASE Conclude
    BY <2>0, <2>6 DEF Conclude
  <2>7. CASE UNCHANGED vars
    BY <2>0, <2>7 DEF vars
  <2>8. QED
    BY <2>1, <2>2, <2>3, <2>4, <2>5, <2>6, <2>7 DEF Next, MainStep, WorkerStep
<1>3. QED
  BY <1>1, <1>2, LifecycleHolds, RangesAreOwned, RowsStagedOnce, PTL DEF Spec

\* What the workers have seen of RDW, and what of all that did not last.
Seen == {p \in Plates : RowsOf(p) = 1 \/ \E w \in Workers : pc[w] \in Holding /\ p \in page[w]}
Strays == (Seen \cup dataset) \ lasting

\* What came and went since the count is at most what changed since then.
Drift ==
    /\ changes \in Nat
    /\ main = "count" => lasting = dataset /\ Seen = {}
    /\ Cardinality(Strays) <= changes
    /\ main \in {"join", "wait", "conclude"} =>
         /\ expected \in Nat
         /\ Cardinality(lasting) <= expected
         /\ expected <= Cardinality(lasting) + changes

\* A larger group of plates is not smaller, and one plate more is one more.
LEMMA GroupSizes ==
    ASSUME NEW S \in SUBSET Plates, NEW T \in SUBSET Plates
    PROVE  /\ S \subseteq T => Cardinality(S) <= Cardinality(T)
           /\ \A p : S \subseteq T \cup {p} => Cardinality(S) <= Cardinality(T) + 1
<1>1. IsFiniteSet(S) /\ IsFiniteSet(T) /\ Cardinality(S) \in Nat /\ Cardinality(T) \in Nat
  BY PlateGroupsFinite
<1>2. S \subseteq T => Cardinality(S) <= Cardinality(T)
  BY <1>1, FS_Subset
<1>3. ASSUME NEW p, S \subseteq T \cup {p}
      PROVE  Cardinality(S) <= Cardinality(T) + 1
  <2>1. /\ IsFiniteSet(T \cup {p})
        /\ Cardinality(T \cup {p}) =
             IF p \in T THEN Cardinality(T) ELSE Cardinality(T) + 1
    BY <1>1, FS_AddElement
  <2>2. Cardinality(S) <= Cardinality(T \cup {p})
    BY <1>3, <2>1, FS_Subset
  <2>3. QED  BY <1>1, <2>1, <2>2
<1>4. QED  BY <1>2, <1>3

\* A change of the dataset makes at most one plate a stray.
LEMMA ChangeDrifts ==
    ASSUME Drift, Background, Ownership, Lifecycle, Change
    PROVE  Drift'
<1> USE DEF workerVars, mainVars, outputVars
<1>1. PICK p \in Plates :
        dataset' = IF p \in dataset THEN dataset \ {p} ELSE dataset \cup {p}
  BY DEF Change
<1>2. changes' = changes + 1 /\ UNCHANGED <<rows, page, pc, main, expected>>
  BY DEF Change
<1>3. Seen' = Seen
  BY <1>2 DEF Seen, RowsOf
<1>4. Seen \in SUBSET Plates /\ dataset \in SUBSET Plates /\ lasting \in SUBSET Plates
      /\ dataset' \in SUBSET Plates
  BY <1>1 DEF Seen, Background, Ownership
<1> HIDE DEF Seen
<1>5. CASE main = "count"
  <2>1. lasting' = dataset' /\ Seen' = {}
    BY <1>3, <1>5 DEF Change, Drift
  <2>2. Strays' = {}
    BY <2>1 DEF Strays
  <2>3. Cardinality(Strays') = 0
    BY <2>2, FS_EmptySet
  <2>4. QED  BY <1>2, <1>5, <2>1, <2>3 DEF Drift
<1>6. CASE main # "count"
  <2>1. lasting' = lasting \cap dataset'
    BY <1>6 DEF Change
  <2>2. Strays' \subseteq Strays \cup {p}
    BY <1>1, <1>3, <2>1 DEF Strays, Background
  <2>3. lasting' \subseteq lasting /\ lasting \subseteq lasting' \cup {p}
    BY <1>1, <2>1 DEF Background
  <2>4. Strays \in SUBSET Plates /\ Strays' \in SUBSET Plates /\ lasting' \in SUBSET Plates
    BY <1>3, <1>4, <2>1 DEF Strays
  <2>5. Cardinality(Strays') <= Cardinality(Strays) + 1
    BY <2>2, <2>4, GroupSizes
  <2>6. /\ Cardinality(lasting') <= Cardinality(lasting)
        /\ Cardinality(lasting) <= Cardinality(lasting') + 1
    BY <1>4, <2>3, <2>4, GroupSizes
  <2>7. /\ Cardinality(Strays) \in Nat /\ Cardinality(Strays') \in Nat
        /\ Cardinality(lasting) \in Nat /\ Cardinality(lasting') \in Nat
    BY <1>4, <2>4, PlateGroupsFinite
  <2> HIDE DEF Strays
  <2>8. QED  BY <1>2, <1>6, <2>5, <2>6, <2>7 DEF Drift
<1>7. QED  BY <1>5, <1>6

\* The dataset drifts from what was counted only as often as it changes.
THEOREM DriftIsBounded == Spec => []Drift
<1>1. Init => Drift
  <2> SUFFICES ASSUME Init PROVE Drift
    OBVIOUS
  <2>1. Seen = {}
    BY DEF Init, Seen, RowsOf, Statuses, Holding
  <2>2. Strays = {}
    BY <2>1 DEF Init, Strays
  <2>3. Cardinality(Strays) = 0
    BY <2>2, FS_EmptySet
  <2>4. QED  BY <2>1, <2>3 DEF Init, Drift
<1>2. /\ Lifecycle /\ Ownership /\ StagedOnce /\ StagedOnce' /\ Background
      /\ Drift /\ [Next]_vars
      => Drift'
  <2> SUFFICES ASSUME Lifecycle, Ownership, StagedOnce, StagedOnce', Background, Drift,
                      [Next]_vars
               PROVE  Drift'
    OBVIOUS
  <2>a. /\ Strays \in SUBSET Plates /\ lasting \in SUBSET Plates
        /\ Cardinality(Strays) \in Nat /\ Cardinality(lasting) \in Nat
    <3>1. Strays \in SUBSET Plates /\ lasting \in SUBSET Plates
      BY DEF Strays, Seen, Background, Ownership
    <3>2. QED  BY <3>1, PlateGroupsFinite
  <2>0. ASSUME UNCHANGED <<rows, page, pc, dataset, lasting, changes, expected>>,
               main # "count", main' # "count", main' \in {"join", "wait", "conclude"} =>
                 main \in {"join", "wait", "conclude"}
        PROVE  Drift'
    <3>1. Strays' = Strays
      BY <2>0 DEF Strays, Seen, RowsOf
    <3>2. QED  BY <2>0, <3>1 DEF Drift
  <2> USE DEF outputVars, workerVars, rdwVars, mainVars
  <2>1. ASSUME NEW w \in Workers, WorkerStep(w) PROVE Drift'
    <3>1. /\ UNCHANGED <<main, expected, dataset, changes, lasting>>
          /\ main # "count"
      BY <2>1, WorkerMoves DEF Lifecycle, Active, Busy
    <3>2. PICK s \in WorkerSteps : pc' = [pc EXCEPT ![w] = s]
      BY <2>1, WorkerMoves DEF Lifecycle
    <3>3. Seen' \subseteq Seen \cup dataset
      <4>1. CASE Stage(w)
        <5>1. pc[w] = "stage" /\ UNCHANGED page
          BY <4>1 DEF Stage
        <5>2. ASSUME NEW p \in Plates, p \notin page[w] PROVE RowsOf(p)' = RowsOf(p)
          BY <4>1, <5>2 DEF Stage, RowsOf
        <5>3. ASSUME NEW p \in Seen' PROVE p \in Seen
          <6>1. CASE p \in page[w]
            BY <5>1, <5>3, <6>1 DEF Seen, Holding
          <6>2. CASE p \notin page[w]
            <7>1. p \in Plates /\ RowsOf(p)' = RowsOf(p)
              BY <5>2, <5>3, <6>2 DEF Seen
            <7>2. \A v \in Workers : pc'[v] \in Holding /\ p \in page'[v] =>
                     pc[v] \in Holding /\ p \in page[v]
              BY <3>2, <5>1, <6>2 DEF Lifecycle
            <7>3. QED  BY <5>3, <7>1, <7>2 DEF Seen
          <6>3. QED  BY <6>1, <6>2
        <5>4. QED  BY <5>3
      <4>2. CASE FetchPage(w)
        <5>1. /\ UNCHANGED rows
              /\ page' \in {page, [page EXCEPT ![w] = NextPage(range[w], cursor[w])]}
              /\ pc[w] = "fetch"
          BY <4>2 DEF FetchPage
        <5>2. \A v \in Workers \ {w} : page'[v] = page[v] /\ pc'[v] = pc[v]
          BY <3>2, <5>1 DEF Lifecycle, Ownership
        <5>3. pc'[w] \in Holding => page'[w] \subseteq dataset
          <6>1. CASE Fail(w, "Upstream") /\ UNCHANGED page
            BY <6>1 DEF Fail, Goto, Holding, Lifecycle
          <6>2. CASE page' = [page EXCEPT ![w] = NextPage(range[w], cursor[w])]
            BY <6>2 DEF NextPage, Ownership
          <6>3. QED  BY <4>2, <6>1, <6>2 DEF FetchPage
        <5>4. QED  BY <5>1, <5>2, <5>3 DEF Seen, RowsOf
      <4>3. CASE ~ Stage(w) /\ ~ FetchPage(w)
        <5>1. UNCHANGED <<rows, page>>
          BY <2>1, <4>3 DEF WorkerStep, Work, Claim, Pop, CheckAbort, FetchFuel, Record,
             Emit, RaiseFlag, Panic, Cancel
        <5>2. pc'[w] \in Holding => pc[w] \in Holding
          BY <2>1, <4>3 DEF WorkerStep, Work, Claim, Pop, CheckAbort, FetchFuel, Record,
             Emit, RaiseFlag, Panic, Cancel, Goto, Lifecycle, Holding
        <5>3. \A v \in Workers : pc'[v] \in Holding => pc[v] \in Holding
          BY <3>2, <5>2 DEF Lifecycle
        <5>4. QED  BY <5>1, <5>3 DEF Seen, RowsOf
      <4>4. QED  BY <4>1, <4>2, <4>3
    <3>4. Strays' \subseteq Strays
      BY <3>1, <3>3 DEF Strays
    <3>5. Cardinality(Strays') <= Cardinality(Strays) /\ Cardinality(Strays') \in Nat
      <4>1. Strays' \in SUBSET Plates
        BY <2>a, <3>4
      <4>2. QED  BY <2>a, <3>4, <4>1, GroupSizes, PlateGroupsFinite
    <3> HIDE DEF Strays
    <3>6. QED  BY <2>a, <3>1, <3>5 DEF Drift
  <2>2. CASE Change
    BY <2>2, ChangeDrifts
  <2>3. CASE CountAndSpawn
    <3>1. /\ main = "count" /\ UNCHANGED <<rows, page, dataset, lasting, changes>>
          /\ \A w \in Workers : pc'[w] \notin Holding
          /\ \/ main' = "join" /\ expected' = Cardinality(dataset)
             \/ main' = "returned"
      BY <2>3 DEF CountAndSpawn, Return, Lifecycle, Holding
    <3>2. \A w \in Workers : pc[w] \notin Holding
      BY <3>1 DEF Lifecycle, Holding
    <3>3. Seen' = Seen
      BY <3>1, <3>2 DEF Seen, RowsOf
    <3>4. Strays' = Strays
      BY <3>1, <3>3 DEF Strays
    <3>5. lasting = dataset
      BY <3>1 DEF Drift
    <3> HIDE DEF Strays
    <3>6. QED  BY <2>a, <3>1, <3>4, <3>5 DEF Drift
  <2>4. CASE JoinLoop
    BY <2>0, <2>4 DEF JoinLoop
  <2>5. ASSUME NEW w \in Workers, JoinNext(w) PROVE Drift'
    BY <2>0, <2>5 DEF JoinNext
  <2>6. CASE Conclude
    BY <2>0, <2>6 DEF Conclude, Return
  <2>7. CASE UNCHANGED vars
    BY <2>7 DEF vars, Drift, Strays, Seen, RowsOf
  <2>8. QED
    BY <2>1, <2>2, <2>3, <2>4, <2>5, <2>6, <2>7 DEF Next, MainStep, WorkerStep
<1>3. QED
  BY <1>1, <1>2, LifecycleHolds, RangesAreOwned, RowsStagedOnce, BackgroundHolds, PTL
  DEF Spec

\* The tolerance of a count is a number.
LEMMA ToleranceIsNumber ==
    ASSUME NEW count \in Nat
    PROVE  Tolerance(count) \in Int
<1> DEFINE q == count \div ToleranceDivisor
           S == {ToleranceFloor, q}
<1>1. q \in Nat
  BY PipelineAssumption, DivBounds
<1> HIDE DEF q
<1>2. S \subseteq Nat /\ \E m \in S : \A x \in S : m >= x
  <2>1. ToleranceFloor \in Nat
    BY PipelineAssumption
  <2>2. CASE ToleranceFloor >= q
    BY <1>1, <2>1, <2>2
  <2>3. CASE ~ (ToleranceFloor >= q)
    BY <1>1, <2>1, <2>3
  <2>4. QED  BY <1>1, <2>1, <2>2, <2>3
<1>3. Max(S) \in S
  BY <1>2 DEF Max
<1>4. QED  BY <1>2, <1>3 DEF Tolerance, q

\* No false alarm (pipeline.rs:376-386): the export reports a mismatch only if
\* RDW changed more often than the tolerance, for any tolerance.
FalseAlarmFree ==
    /\ main # "returned" => result = "none"
    /\ MismatchMeansChange

\* A mismatch always means that RDW changed more often than the tolerance.
THEOREM MismatchIsChange == Spec => []MismatchMeansChange
<1> DEFINE Known == Lifecycle /\ ErrorsKept /\ Ownership /\ StagedOnce /\ Background
                    /\ NothingLost /\ EmitCounts /\ Drift
<1>1. Init => FalseAlarmFree
  BY DEF Init, FalseAlarmFree, MismatchMeansChange
<1>2. Known /\ FalseAlarmFree /\ [Next]_vars => FalseAlarmFree'
  <2> SUFFICES ASSUME Lifecycle, ErrorsKept, Ownership, StagedOnce, Background,
                      NothingLost, EmitCounts, Drift, FalseAlarmFree, [Next]_vars
               PROVE  FalseAlarmFree'
    OBVIOUS
  <2> USE DEF mainVars, outputVars, workerVars, rdwVars, Return
  <2>0. ASSUME UNCHANGED <<main, result>>, main # "returned"
        PROVE  FalseAlarmFree'
    BY <2>0 DEF FalseAlarmFree, MismatchMeansChange
  <2>1. CASE Change
    BY <2>0, <2>1 DEF Change
  <2>2. ASSUME NEW w \in Workers, WorkerStep(w) PROVE FalseAlarmFree'
    <3>1. pc[w] \in Active /\ UNCHANGED <<main, result>>
      BY <2>2, WorkerMoves DEF Lifecycle
    <3>2. main # "returned"
      BY <3>1 DEF Lifecycle, Active, Busy, Terminal
    <3>3. QED  BY <2>0, <3>1, <3>2
  <2>3. CASE CountAndSpawn
    <3>1. CASE result' = "Upstream" /\ main' = "returned"
      BY <3>1 DEF FalseAlarmFree, MismatchMeansChange
    <3>2. CASE main' = "join" /\ UNCHANGED result /\ main = "count"
      BY <3>2 DEF FalseAlarmFree, MismatchMeansChange
    <3>3. QED  BY <2>3, <3>1, <3>2 DEF CountAndSpawn
  <2>4. CASE JoinLoop
    BY <2>4 DEF JoinLoop, FalseAlarmFree, MismatchMeansChange
  <2>5. ASSUME NEW w \in Workers, JoinNext(w) PROVE FalseAlarmFree'
    BY <2>5 DEF JoinNext, FalseAlarmFree, MismatchMeansChange
  <2>6. CASE Conclude
    <3> DEFINE diff == IF expected >= emitted THEN expected - emitted
                       ELSE emitted - expected
               staged == {p \in Plates : RowsOf(p) = 1}
    <3>1. main = "conclude" /\ main' = "returned" /\ UNCHANGED <<expected, changes>>
      BY <2>6 DEF Conclude
    <3>2. SUFFICES ASSUME result' = "Mismatch" PROVE changes > Tolerance(expected)
      BY <3>1 DEF FalseAlarmFree, MismatchMeansChange, Tolerance
    <3>3. hardError = "none" /\ ~ aborted /\ diff > Tolerance(expected)
      BY <2>6, <3>2 DEF Conclude, Background
    <3>4. /\ \A w \in Workers : pc[w] = "done"
          /\ \A p \in lasting : RowsOf(p) = 1
      BY <3>1, <3>3, AllStaged
    <3>5. Counted = staged /\ Seen = staged
      BY <3>4 DEF Counted, Seen, Holding
    <3>6. lasting \subseteq staged /\ staged \in SUBSET Plates /\ lasting \in SUBSET Plates
      BY <3>4 DEF Background, Ownership
    <3> HIDE DEF staged
    <3>7. staged \ lasting \subseteq Strays /\ Strays \in SUBSET Plates
      BY <3>5, <3>6 DEF Strays, Ownership
    <3>8. Cardinality(staged) = Cardinality(lasting) + Cardinality(staged \ lasting)
      <4>1. staged = lasting \cup (staged \ lasting)
        BY <3>6
      <4>2. Cardinality(lasting \cup (staged \ lasting)) =
              Cardinality(lasting) + Cardinality(staged \ lasting)
        BY <3>6, DisjointGroups
      <4>3. QED  BY <4>1, <4>2
    <3>9. Cardinality(staged \ lasting) <= Cardinality(Strays)
      BY <3>6, <3>7, GroupSizes
    <3>10. /\ Cardinality(lasting) \in Nat /\ Cardinality(staged \ lasting) \in Nat
           /\ Cardinality(Strays) \in Nat
      BY <3>6, <3>7, PlateGroupsFinite
    <3>11. emitted = Cardinality(staged)
      BY <3>5 DEF EmitCounts
    <3>12. /\ changes \in Nat /\ expected \in Nat /\ Cardinality(Strays) <= changes
           /\ Cardinality(lasting) <= expected
           /\ expected <= Cardinality(lasting) + changes
      BY <3>1 DEF Drift
    <3>13. diff \in Nat /\ diff <= changes
      BY <3>8, <3>9, <3>10, <3>11, <3>12
    <3> HIDE DEF diff
    <3>14. Tolerance(expected) \in Int
      BY <3>12, ToleranceIsNumber
    <3> DEFINE tolerance == Tolerance(expected)
    <3>15. tolerance \in Int /\ diff > tolerance
      BY <3>3, <3>14
    <3> HIDE DEF tolerance
    <3>16. changes > tolerance
      BY <3>12, <3>13, <3>15
    <3>17. QED  BY <3>16 DEF tolerance
  <2>7. CASE UNCHANGED vars
    BY <2>7 DEF vars, FalseAlarmFree, MismatchMeansChange, Tolerance
  <2>8. QED
    BY <2>1, <2>2, <2>3, <2>4, <2>5, <2>6, <2>7 DEF Next, MainStep, WorkerStep
<1>3. FalseAlarmFree => MismatchMeansChange
  BY DEF FalseAlarmFree
<1>4. QED
  BY <1>1, <1>2, <1>3, LifecycleHolds, ErrorsAreKept, RangesAreOwned, RowsStagedOnce,
     BackgroundHolds, NothingIsLost, EmittedIsCounted, DriftIsBounded, PTL DEF Spec

(***************************************************************************)
(* The work of an export comes to an end.                                  *)
(***************************************************************************)

\* The steps that are left at a point of the page loop, until the cursor moves
\* or the worker ends; at is how far its call of record_and_check is.
Turn(point, at) ==
    CASE point = "unborn"                     -> 12
      [] point = "page"                       -> 11
      [] point = "fetch"                      -> 10
      [] point = "fuel"                       -> 9
      [] point = "record" /\ at = "idle"      -> 8
      [] point = "record" /\ at = "counted"   -> 7
      [] point = "record" /\ at = "tallied"   -> 6
      [] point = "record" /\ at = "judged"    -> 5
      [] point = "stage"                      -> 4
      [] point = "emit"                       -> 3
      [] point = "claim"                      -> 2
      [] point \in {"pop", "flag"}            -> 1
      [] OTHER                                -> 0

\* How many plates a range can hold after the cursor of a worker.
PlatesLeft(w) == Prefixes * Width - cursor[w]

\* How many steps a worker has left at most, unless it claims a range.
WorkLeft(w) == 12 * PlatesLeft(w) + Turn(pc[w], call[w].at)

\* The steps the main task has left at a point of its loop, and in all.
MainTurn(point) ==
    CASE point = "count"              -> 3
      [] point = "join"               -> 2
      [] point \in {"wait", "conclude"} -> 1
      [] OTHER                        -> 0

MainLeft == 3 * Cardinality(Workers \ joined) + MainTurn(main)

\* The steps of a page are counted down, and those of a call within them.
LEMMA TurnIs ==
    ASSUME NEW at
    PROVE  /\ Turn("unborn", at) = 12 /\ Turn("page", at) = 11 /\ Turn("fetch", at) = 10
           /\ Turn("fuel", at) = 9
           /\ Turn("record", "idle") = 8 /\ Turn("record", "counted") = 7
           /\ Turn("record", "tallied") = 6 /\ Turn("record", "judged") = 5
           /\ Turn("stage", at) = 4 /\ Turn("emit", at) = 3 /\ Turn("claim", at) = 2
           /\ Turn("pop", at) = 1 /\ Turn("flag", at) = 1
           /\ Turn("done", at) = 0 /\ Turn("panicked", at) = 0 /\ Turn("cancelled", at) = 0
<1>1. Turn("unborn", at) = 12 /\ Turn("page", at) = 11 /\ Turn("fetch", at) = 10
      /\ Turn("fuel", at) = 9
  BY DEF Turn
<1>2. Turn("record", "idle") = 8 /\ Turn("record", "counted") = 7
      /\ Turn("record", "tallied") = 6 /\ Turn("record", "judged") = 5
  BY DEF Turn
<1>3. Turn("stage", at) = 4 /\ Turn("emit", at) = 3 /\ Turn("claim", at) = 2
  BY DEF Turn
<1>4. Turn("pop", at) = 1 /\ Turn("flag", at) = 1
  BY DEF Turn
<1>5. Turn("done", at) = 0 /\ Turn("panicked", at) = 0 /\ Turn("cancelled", at) = 0
  BY DEF Turn
<1>6. QED  BY <1>1, <1>2, <1>3, <1>4, <1>5

\* The steps of a page are a natural number.
LEMMA TurnFits ==
    ASSUME NEW point \in WorkerSteps, NEW at \in Abort!Steps
    PROVE  Turn(point, at) \in 0 .. 12
BY TurnIs DEF WorkerSteps, Active, Busy, Terminal, Abort!Steps

\* The same of the main task.
LEMMA MainTurnIs ==
    /\ MainTurn("count") = 3 /\ MainTurn("join") = 2 /\ MainTurn("wait") = 1
    /\ MainTurn("conclude") = 1 /\ MainTurn("returned") = 0
BY DEF MainTurn

\* No worker's cursor leaves the plates.
CursorFits == \A w \in Workers : cursor[w] < Prefixes * Width

\* There are finitely many plates.
LEMMA EndIs ==
    Prefixes * Width \in Nat /\ Prefixes * Width > 0 /\ \A p \in Plates : p < Prefixes * Width
<1>1. Prefixes \in Nat \ {0} /\ Width \in Nat \ {0}
  BY KentekenRangesAssumption
<1>2. Prefixes * Width \in Nat /\ Prefixes * Width > 0
  BY <1>1
<1> DEFINE end == Prefixes * Width
<1>3. Plates \subseteq 0 .. end - 1
  BY PipelineAssumption
<1> HIDE DEF end
<1>4. end \in Nat => \A p \in Plates : p < end
  BY <1>3
<1>5. QED  BY <1>2, <1>4 DEF end

\* Where a step of a worker brings its cursor: a new range starts before its
\* plates, and a page that is staged ends among them, behind the cursor.
LEMMA CursorMoves ==
    ASSUME Lifecycle, Ownership, NEW w \in Workers, WorkerStep(w)
    PROVE  \/ UNCHANGED <<cursor, queue>>
           \/ /\ queue # <<>> /\ queue' = Tail(queue)
              /\ cursor' = [cursor EXCEPT ![w] = -1]
           \/ /\ Emit(w)
              /\ \E p \in Plates : p > cursor[w] /\ cursor' = [cursor EXCEPT ![w] = p]
<1>1. CASE Pop(w)
  BY <1>1 DEF Pop
<1>2. CASE Emit(w)
  <2>1. pc[w] \in Holding /\ cursor' = [cursor EXCEPT ![w] = Max(page[w])]
    BY <1>2 DEF Emit, Holding
  <2>2. page[w] \in SUBSET Plates /\ page[w] # {} /\ \A p \in page[w] : p > cursor[w]
    BY <2>1 DEF Ownership
  <2>3. Max(page[w]) \in page[w]
    BY <2>2, MaxOfPlates
  <2>4. QED  BY <1>2, <2>1, <2>2, <2>3
<1>3. CASE ~ Pop(w) /\ ~ Emit(w)
  BY <1>3 DEF WorkerStep, Work, Claim, CheckAbort, FetchPage, FetchFuel, Record, Stage,
     RaiseFlag, Panic, Cancel
<1>4. QED  BY <1>1, <1>2, <1>3

\* The cursors stay among the plates (pipeline.rs:313-316, 500-505).
THEOREM CursorsFit == Spec => []CursorFits
<1>1. Init => CursorFits
  <2> SUFFICES ASSUME Init PROVE CursorFits
    OBVIOUS
  <2>1. \A w \in Workers : cursor[w] = -1
    BY DEF Init
  <2> DEFINE end == Prefixes * Width
  <2>2. end \in Nat
    BY EndIs
  <2> HIDE DEF end
  <2>3. \A w \in Workers : cursor[w] < end
    BY <2>1, <2>2
  <2>4. QED  BY <2>3 DEF CursorFits, end
<1>2. Lifecycle /\ Ownership /\ CursorFits /\ [Next]_vars => CursorFits'
  <2> SUFFICES ASSUME Lifecycle, Ownership, CursorFits, [Next]_vars PROVE CursorFits'
    OBVIOUS
  <2>1. ASSUME NEW w \in Workers, WorkerStep(w) PROVE CursorFits'
    <3>1. \/ cursor' = cursor
          \/ \E p \in Plates \cup {-1} : cursor' = [cursor EXCEPT ![w] = p]
      BY <2>1, CursorMoves
    <3>2. -1 < Prefixes * Width /\ \A p \in Plates : p < Prefixes * Width
      <4> DEFINE end == Prefixes * Width
      <4>1. end \in Nat
        BY EndIs
      <4> HIDE DEF end
      <4>2. -1 < end
        BY <4>1
      <4>3. QED  BY <4>2, EndIs DEF end
    <3>3. \A v \in Workers : cursor'[v] = cursor[v] \/ cursor'[v] \in Plates \cup {-1}
      BY <3>1 DEF Ownership
    <3>4. QED  BY <3>2, <3>3 DEF CursorFits
  <2>2. CASE Change \/ MainStep \/ UNCHANGED vars
    <3>1. cursor' = cursor
      BY <2>2 DEF Change, MainStep, CountAndSpawn, JoinLoop, JoinNext, Conclude, vars,
         workerVars
    <3>2. QED  BY <3>1 DEF CursorFits
  <2>3. QED  BY <2>1, <2>2 DEF Next, WorkerStep
<1>3. QED  BY <1>1, <1>2, LifecycleHolds, RangesAreOwned, PTL DEF Spec

\* The steps a worker has left are a natural number.
LEMMA WorkLeftIs ==
    ASSUME Lifecycle, Ownership, CursorFits, Abort!TypeOK, NEW w \in Workers
    PROVE  /\ PlatesLeft(w) \in Nat /\ Turn(pc[w], call[w].at) \in 0 .. 12
           /\ WorkLeft(w) \in Nat
<1>1. PlatesLeft(w) \in Nat
  <2> DEFINE end == Prefixes * Width  c == cursor[w]
  <2>1. end \in Nat /\ c \in Int /\ c < end
    BY EndIs DEF CursorFits, Ownership
  <2> HIDE DEF end, c
  <2>2. end - c \in Nat
    BY <2>1
  <2>3. QED  BY <2>2 DEF end, c, PlatesLeft
<1>2. Turn(pc[w], call[w].at) \in 0 .. 12
  BY TurnFits DEF Lifecycle, Abort!TypeOK, Abort!Calls
<1>3. QED  BY <1>1, <1>2 DEF WorkLeft

\* A worker's step leaves the other workers where they are.
LEMMA OthersStay ==
    ASSUME Lifecycle, Ownership, Abort!TypeOK, NEW w \in Workers, WorkerStep(w),
           NEW v \in Workers \ {w}
    PROVE  WorkLeft(v)' = WorkLeft(v)
<1>1. pc'[v] = pc[v]
  BY WorkerMoves DEF Lifecycle
<1>2. cursor'[v] = cursor[v]
  <2>1. cursor' = cursor \/ \E c : cursor' = [cursor EXCEPT ![w] = c]
    BY CursorMoves
  <2>2. QED  BY <2>1 DEF Ownership
<1>3. call'[v] = call[v]
  <2>1. CASE Record(w)
    BY <2>1 DEF Record, Abort!Count, Abort!Tally, Abort!Judge, Abort!Answer, Abort!TypeOK
  <2>2. CASE ~ Record(w)
    BY <2>2 DEF WorkerStep, Work, Claim, Pop, CheckAbort, FetchPage, FetchFuel, Stage,
       Emit, RaiseFlag, Panic, Cancel, abortVars
  <2>3. QED  BY <2>1, <2>2
<1>4. QED  BY <1>1, <1>2, <1>3 DEF WorkLeft, PlatesLeft

\* A step of a worker is the next one of its page, or of its call, except where
\* it claims a range or turns to the next page.
LEMMA TurnFalls ==
    ASSUME Lifecycle, Ownership, Abort!TypeOK, NEW w \in Workers, WorkerStep(w)
    PROVE  \/ Turn(pc[w], call[w].at)' < Turn(pc[w], call[w].at)
           \/ Pop(w) /\ queue # <<>> /\ queue' = Tail(queue)
           \/ Emit(w)
<1> USE DEF Goto
<1>1. pc \in [Workers -> WorkerSteps] /\ call \in [Workers -> Abort!Calls]
  BY DEF Lifecycle, Abort!TypeOK
<1>2. CASE Claim(w)
  <2>1. pc[w] = "claim" /\ pc'[w] \in {"done", "pop"}
    BY <1>1, <1>2 DEF Claim
  <2>2. QED  BY <2>1, TurnIs
<1>3. CASE Pop(w)
  <2>1. CASE queue = <<>>
    <3>1. pc[w] = "pop" /\ pc'[w] = "done"
      BY <1>1, <1>3, <2>1 DEF Pop
    <3>2. QED  BY <3>1, TurnIs
  <2>2. CASE queue # <<>>
    BY <1>3, <2>2 DEF Pop
  <2>3. QED  BY <2>1, <2>2
<1>4. CASE CheckAbort(w)
  <2>1. pc[w] = "page" /\ pc'[w] \in {"claim", "fetch"}
    BY <1>1, <1>4 DEF CheckAbort
  <2>2. QED  BY <2>1, TurnIs
<1>5. CASE FetchPage(w)
  <2>1. pc[w] = "fetch" /\ pc'[w] \in {"claim", "fuel", "flag"}
    BY <1>1, <1>5 DEF FetchPage, Fail
  <2>2. QED  BY <2>1, TurnIs
<1>6. CASE FetchFuel(w)
  <2>1. pc[w] = "fuel" /\ pc'[w] = "record"
    BY <1>1, <1>6 DEF FetchFuel
  <2>2. call'[w].at \in Abort!Steps
    BY <1>1, <1>6 DEF FetchFuel, abortVars, Abort!Calls
  <2>3. QED  BY <2>1, <2>2, TurnIs DEF Abort!Steps
<1>7. CASE Record(w)
  <2>1. pc[w] = "record"
    BY <1>7 DEF Record
  <2>2. CASE UNCHANGED pc /\ Abort!Count(w, fuelFailed[w])
    <3>1. pc'[w] = "record" /\ call[w].at = "idle" /\ call'[w].at = "counted"
      BY <1>1, <2>1, <2>2 DEF Abort!Count
    <3>2. QED  BY <2>1, <3>1, TurnIs
  <2>3. CASE UNCHANGED pc /\ Abort!Tally(w)
    <3>1. pc'[w] = "record" /\ call[w].at = "counted" /\ call'[w].at = "tallied"
      BY <1>1, <2>1, <2>3 DEF Abort!Tally, Abort!Calls
    <3>2. QED  BY <2>1, <3>1, TurnIs
  <2>4. CASE UNCHANGED pc /\ Abort!Judge(w)
    <3>1. pc'[w] = "record" /\ call[w].at = "tallied" /\ call'[w].at = "judged"
      BY <1>1, <2>1, <2>4 DEF Abort!Judge, Abort!Calls
    <3>2. QED  BY <2>1, <3>1, TurnIs
  <2>5. CASE Abort!Answer(w) /\ pc' = [pc EXCEPT ![w] = IF aborted THEN "claim" ELSE "stage"]
    <3>1. pc'[w] \in {"claim", "stage"} /\ call[w].at = "judged"
      BY <1>1, <2>5 DEF Abort!Answer
    <3>2. QED  BY <2>1, <3>1, TurnIs
  <2>6. QED  BY <1>7, <2>2, <2>3, <2>4, <2>5 DEF Record
<1>8. CASE Stage(w)
  <2>1. pc[w] = "stage" /\ pc'[w] \in {"emit", "flag"}
    BY <1>1, <1>8 DEF Stage, Fail
  <2>2. QED  BY <2>1, TurnIs
<1>9. CASE RaiseFlag(w)
  <2>1. pc[w] = "flag" /\ pc'[w] = "done"
    BY <1>1, <1>9 DEF RaiseFlag
  <2>2. QED  BY <2>1, TurnIs
<1>10. CASE Panic(w)
  <2>1. pc[w] = "stage" /\ pc'[w] = "panicked"
    BY <1>1, <1>10 DEF Panic
  <2>2. QED  BY <2>1, TurnIs
<1>11. CASE Cancel(w)
  <2>1. pc[w] \in {"pop", "fetch", "fuel", "stage"} /\ pc'[w] = "cancelled"
    BY <1>1, <1>11 DEF Cancel, Awaiting
  <2>2. QED  BY <2>1, TurnIs
<1>12. CASE Emit(w)
  BY <1>12
<1>13. QED
  BY <1>2, <1>3, <1>4, <1>5, <1>6, <1>7, <1>8, <1>9, <1>10, <1>11, <1>12 DEF WorkerStep, Work

\* A step of a worker leaves it fewer steps, or the others fewer ranges.
LEMMA WorkFalls ==
    ASSUME Lifecycle, Ownership, CursorFits, Abort!TypeOK,
           (Lifecycle /\ Ownership /\ CursorFits /\ Abort!TypeOK)',
           NEW w \in Workers, WorkerStep(w)
    PROVE  \/ WorkLeft(w)' < WorkLeft(w) /\ queue' = queue
           \/ queue # <<>> /\ queue' = Tail(queue)
<1> DEFINE n == PlatesLeft(w)   t == Turn(pc[w], call[w].at)
           m == PlatesLeft(w)'  u == Turn(pc[w], call[w].at)'
<1>1. n \in Nat /\ t \in 0 .. 12 /\ WorkLeft(w) = 12 * n + t
  BY WorkLeftIs DEF WorkLeft
<1>2. m \in Nat /\ u \in 0 .. 12 /\ WorkLeft(w)' = 12 * m + u
  <2>1. (PlatesLeft(w) \in Nat /\ Turn(pc[w], call[w].at) \in 0 .. 12)'
    BY WorkLeftIs, PTL
  <2>2. QED  BY <2>1 DEF WorkLeft
<1>3. CASE UNCHANGED <<cursor, queue>> /\ ~ Emit(w)
  <2>1. m = n
    BY <1>3 DEF PlatesLeft
  <2>2. ~ (queue # <<>> /\ queue' = Tail(queue))
    <3>1. queue \in Seq(Nat)
      BY DEF Ownership
    <3>2. queue # <<>> => Len(Tail(queue)) = Len(queue) - 1 /\ Len(queue) \in Nat
      BY <3>1
    <3>3. QED  BY <1>3, <3>2
  <2>3. u < t
    BY <1>3, <2>2, TurnFalls
  <2> HIDE DEF n, t, m, u
  <2>4. QED  BY <1>1, <1>2, <1>3, <2>1, <2>3
<1>4. CASE Emit(w)
  <2>1. pc[w] = "emit" /\ pc'[w] \in {"claim", "page"} /\ queue' = queue
    BY <1>4 DEF Emit, Goto, Lifecycle
  <2>2. t = 3 /\ u \in {2, 11}
    BY <2>1, TurnIs
  <2>3. PICK p \in Plates : p > cursor[w] /\ cursor' = [cursor EXCEPT ![w] = p]
    <3>1. cursor' = [cursor EXCEPT ![w] = Max(page[w])] /\ page[w] \in SUBSET Plates
          /\ page[w] # {} /\ \A p \in page[w] : p > cursor[w]
      BY <1>4 DEF Emit, Ownership, Holding
    <3>2. Max(page[w]) \in page[w]
      BY <3>1, MaxOfPlates
    <3>3. QED  BY <3>1, <3>2
  <2>4. m <= n - 1
    <3> DEFINE end == Prefixes * Width
    <3>1. end \in Nat /\ cursor[w] \in Int /\ p \in Nat /\ cursor'[w] = p
      BY <2>3, EndIs, PlatesFinite DEF Ownership
    <3>2. n = end - cursor[w] /\ m = end - p
      BY <3>1 DEF PlatesLeft
    <3> HIDE DEF end, n, m
    <3>3. QED  BY <2>3, <3>1, <3>2
  <2> HIDE DEF n, t, m, u
  <2>5. QED  BY <1>1, <1>2, <2>1, <2>2, <2>4
<1>5. QED  BY <1>3, <1>4, CursorMoves

\* The steps the main task has left are a natural number.
LEMMA MainLeftIs ==
    ASSUME Lifecycle
    PROVE  MainLeft \in Nat
<1>1. Cardinality(Workers \ joined) \in Nat
  BY WorkerGroupsFinite
<1>2. MainTurn(main) \in Nat
  BY MainTurnIs DEF Lifecycle
<1>3. QED  BY <1>1, <1>2 DEF MainLeft

\* The main task goes on to its next step, or joins one worker more, and gives
\* no worker more to do (pipeline.rs:291-405).
LEMMA MainFalls ==
    ASSUME Lifecycle, Ownership, CursorFits, Abort!TypeOK, MainStep
    PROVE  /\ MainLeft' < MainLeft
           /\ UNCHANGED <<queue, cursor, call>>
           /\ \A w \in Workers : WorkLeft(w)' <= WorkLeft(w)
<1> DEFINE unjoined == Cardinality(Workers \ joined)
<1>0. unjoined \in Nat
  BY WorkerGroupsFinite
<1>1. CASE CountAndSpawn
  <2>1. /\ main = "count" /\ main' \in {"join", "returned"} /\ joined' = joined
        /\ UNCHANGED <<queue, cursor, call>>
        /\ pc' \in {pc, [w \in Workers |-> "claim"]}
    BY <1>1 DEF CountAndSpawn, Return, abortVars
  <2>2. MainLeft = 3 * unjoined + 3 /\ MainLeft' = 3 * unjoined + MainTurn(main')
    BY <2>1, MainTurnIs DEF MainLeft
  <2>3. MainTurn(main') \in {0, 2}
    BY <2>1, MainTurnIs
  <2>4. MainLeft' < MainLeft
    <3> HIDE DEF unjoined
    <3>1. QED  BY <1>0, <2>2, <2>3
  <2>5. ASSUME NEW w \in Workers PROVE WorkLeft(w)' <= WorkLeft(w)
    <3>1. pc[w] = "unborn" /\ pc'[w] \in {"unborn", "claim"}
      BY <2>1 DEF Lifecycle
    <3>2. PlatesLeft(w)' = PlatesLeft(w) /\ PlatesLeft(w) \in Nat
      BY <2>1, WorkLeftIs DEF PlatesLeft
    <3>3. Turn(pc[w], call[w].at) = 12 /\ Turn(pc'[w], call'[w].at) \in {2, 12}
      BY <3>1, TurnIs
    <3>4. QED  BY <3>2, <3>3 DEF WorkLeft
  <2>6. QED  BY <2>1, <2>4, <2>5
<1>2. ASSUME UNCHANGED <<pc, queue, cursor, call>>
      PROVE  \A w \in Workers : WorkLeft(w)' <= WorkLeft(w)
  <2>1. \A w \in Workers : WorkLeft(w)' = WorkLeft(w) /\ WorkLeft(w) \in Nat
    BY <1>2, WorkLeftIs DEF WorkLeft, PlatesLeft
  <2>2. QED  BY <2>1
<1>3. CASE JoinLoop \/ Conclude
  <2>1. /\ \/ main = "join" /\ main' \in {"wait", "conclude"}
           \/ main = "conclude" /\ main' = "returned"
        /\ joined' = joined
    <3>1. CASE JoinLoop
      BY <3>1 DEF JoinLoop
    <3>2. CASE Conclude
      BY <3>2 DEF Conclude, Return
    <3>3. QED  BY <1>3, <3>1, <3>2
  <2>2. MainLeft = 3 * unjoined + MainTurn(main) /\ MainLeft' = 3 * unjoined + MainTurn(main')
    BY <2>1 DEF MainLeft
  <2>3. \/ MainTurn(main) = 2 /\ MainTurn(main') = 1
        \/ MainTurn(main) = 1 /\ MainTurn(main') = 0
    <3>1. CASE main = "join" /\ main' \in {"wait", "conclude"}
      <4>1. main' = "wait" \/ main' = "conclude"
        BY <3>1
      <4>2. QED  BY <3>1, <4>1, MainTurnIs
    <3>2. CASE main = "conclude" /\ main' = "returned"
      BY <3>2, MainTurnIs
    <3>3. QED  BY <2>1, <3>1, <3>2
  <2>4. MainLeft' < MainLeft
    <3> HIDE DEF unjoined
    <3>1. QED  BY <1>0, <2>2, <2>3
  <2>5. UNCHANGED <<pc, queue, cursor, call>>
    BY <1>3 DEF JoinLoop, Conclude, workerVars, abortVars
  <2>6. QED  BY <1>2, <2>4, <2>5
<1>4. ASSUME NEW w \in Workers, JoinNext(w)
      PROVE  MainLeft' < MainLeft /\ UNCHANGED <<pc, queue, cursor, call>>
  <2>1. /\ main = "wait" /\ main' = "join" /\ w \notin joined /\ joined' = joined \cup {w}
        /\ UNCHANGED <<pc, queue, cursor, call>>
    BY <1>4 DEF JoinNext, workerVars, abortVars
  <2> DEFINE S == Workers \ joined'
  <2>2. S \in SUBSET Workers /\ w \notin S /\ Workers \ joined = S \cup {w}
    BY <2>1
  <2>3. unjoined = Cardinality(S) + 1 /\ Cardinality(S) \in Nat
    BY <2>2, OneWorker, WorkerGroupsFinite
  <2>4. MainLeft = 3 * unjoined + 1 /\ MainLeft' = 3 * Cardinality(S) + 2
    BY <2>1, MainTurnIs DEF MainLeft
  <2>5. MainLeft' < MainLeft
    <3> HIDE DEF unjoined, S
    <3>1. QED  BY <1>0, <2>3, <2>4
  <2>6. QED  BY <2>1, <2>5
<1>5. QED  BY <1>1, <1>2, <1>3, <1>4 DEF MainStep, JoinLoop, Conclude, workerVars, abortVars

\* What a step does to the work that is left: a step of a worker leaves it
\* fewer steps, or takes one of the ranges that are never put back, and leaves
\* the others as many as before; a step of the main task leaves that task
\* fewer, and no worker more; a change of RDW's dataset adds none.
Advances ==
    /\ MainLeft \in Nat /\ Len(queue) \in Nat /\ \A w \in Workers : WorkLeft(w) \in Nat
    /\ \A w \in Workers : WorkerStep(w) =>
         /\ \/ WorkLeft(w)' < WorkLeft(w) /\ queue' = queue
            \/ Len(queue') < Len(queue)
         /\ \A v \in Workers \ {w} : WorkLeft(v)' = WorkLeft(v)
         /\ MainLeft' = MainLeft
    /\ MainStep =>
         /\ MainLeft' < MainLeft /\ queue' = queue
         /\ \A w \in Workers : WorkLeft(w)' <= WorkLeft(w)
    /\ Change =>
         /\ MainLeft' = MainLeft /\ queue' = queue
         /\ \A w \in Workers : WorkLeft(w)' = WorkLeft(w)

\* An export cannot go on for ever: every step leaves less work, for any number
\* of workers, ranges and plates, any page size, and any faults
\* (fetch_and_widen_concurrent, pipeline.rs:291-405).
THEOREM EveryStepAdvances == Spec => [][Advances]_vars
<1> DEFINE Known == Lifecycle /\ Ownership /\ CursorFits /\ Abort!TypeOK
<1>1. ASSUME Known, Known' PROVE Advances
  <2>1. MainLeft \in Nat /\ queue \in Seq(Nat) /\ Len(queue) \in Nat
    BY <1>1, MainLeftIs DEF Ownership
  <2>2. \A w \in Workers : WorkLeft(w) \in Nat
    BY <1>1, WorkLeftIs
  <2>3. ASSUME NEW w \in Workers, WorkerStep(w)
        PROVE  /\ \/ WorkLeft(w)' < WorkLeft(w) /\ queue' = queue
                  \/ Len(queue') < Len(queue)
               /\ \A v \in Workers \ {w} : WorkLeft(v)' = WorkLeft(v)
               /\ MainLeft' = MainLeft
    <3>1. \/ WorkLeft(w)' < WorkLeft(w) /\ queue' = queue
          \/ queue # <<>> /\ queue' = Tail(queue)
      BY <1>1, <2>3, WorkFalls
    <3>2. queue # <<>> => Len(Tail(queue)) < Len(queue)
      BY <2>1
    <3>3. \A v \in Workers \ {w} : WorkLeft(v)' = WorkLeft(v)
      BY <1>1, <2>3, OthersStay
    <3>4. MainLeft' = MainLeft
      BY <1>1, <2>3, WorkerMoves DEF MainLeft, Lifecycle
    <3>5. QED  BY <3>1, <3>2, <3>3, <3>4
  <2>4. ASSUME MainStep
        PROVE  /\ MainLeft' < MainLeft /\ queue' = queue
               /\ \A w \in Workers : WorkLeft(w)' <= WorkLeft(w)
    BY <1>1, <2>4, MainFalls
  <2>5. ASSUME Change
        PROVE  /\ MainLeft' = MainLeft /\ queue' = queue
               /\ \A w \in Workers : WorkLeft(w)' = WorkLeft(w)
    BY <2>5 DEF Change, MainLeft, WorkLeft, PlatesLeft, workerVars, abortVars, mainVars
  <2>6. QED  BY <2>1, <2>2, <2>3, <2>4, <2>5 DEF Advances
<1>2. QED
  BY <1>1, LifecycleHolds, RangesAreOwned, CursorsFit, CountersTyped, PTL DEF Spec

=============================================================================
