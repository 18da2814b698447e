--------------------------- MODULE Assembler_proofs ---------------------------
(***************************************************************************)
(* Proofs about Assembler for every size of part, page and export, and any *)
(* number of failing file operations: what is left on the disk, what is in *)
(* the parts, and what the client is told about them.                      *)
(***************************************************************************)
EXTENDS Assembler, TLAPS, SequenceTheorems, WellFoundedInduction, FiniteSetTheorems

Open == IF current = NoPart THEN {} ELSE {current.path}

\* The assembler knows every file it has made: the open part and the closed
\* ones, as long as no file operation has failed; files have fresh numbers.
FilesKnown ==
    /\ nextFile \in Nat \ {0}
    /\ files \subseteq 1 .. nextFile - 1
    /\ partPaths \in Seq(1 .. nextFile - 1)
    /\ current \in [path : Nat, rowCount : Nat]
    /\ current # NoPart => current.path \in 1 .. nextFile - 1
    /\ faults \in Nat
    /\ faults = 0 => ~ exportFailed
    /\ pc = "finish" => ~ exportFailed
    /\ ~ exportFailed /\ pc \in {"idle", "write", "finish"} =>
         files = Open \cup ToSet(partPaths)

LeftOver ==
    /\ pc = "assembled" => files = {output.path}
    /\ pc \in {"responded", "refused"} => files = {}
    /\ pc = "aborted" /\ faults = 0 => files = {}

\* The set of a sequence, when it grows, when it has one element, or none.
LEMMA ElementsOf ==
    ASSUME NEW S, NEW q \in Seq(S)
    PROVE  /\ ToSet(q) \subseteq S
           /\ \A x : ToSet(Append(q, x)) = ToSet(q) \cup {x}
           /\ Len(q) = 1 => ToSet(q) = {Head(q)}
           /\ ToSet(<<>>) = {}
<1>1. ToSet(q) \subseteq S /\ ToSet(<<>>) = {}
  BY DEF ToSet
<1>2. ASSUME NEW x PROVE ToSet(Append(q, x)) = ToSet(q) \cup {x}
  <2>1. Len(Append(q, x)) = Len(q) + 1 /\ Append(q, x)[Len(q) + 1] = x
        /\ \A i \in 1 .. Len(q) : Append(q, x)[i] = q[i]
    OBVIOUS
  <2>2. DOMAIN Append(q, x) = 1 .. Len(q) + 1 /\ DOMAIN q = 1 .. Len(q) /\ Len(q) \in Nat
    OBVIOUS
  <2>3. QED  BY <2>1, <2>2 DEF ToSet
<1>3. Len(q) = 1 => ToSet(q) = {Head(q)}
  BY DEF ToSet
<1>4. QED  BY <1>1, <1>2, <1>3

\* No part is a part of the first number.
LEMMA NoPartTyped == NoPart \in [path : Nat, rowCount : Nat]
BY DEF NoPart

\* A failing file operation is counted, and ends a finish or a write.
LEMMA FaultEnds ==
    ASSUME FilesKnown, Fault
    PROVE  /\ faults' \in Nat /\ faults' # 0
           /\ \/ pc = "write" /\ pc' = "idle" /\ exportFailed'
              \/ pc = "finish" /\ pc' = "finishFailed" /\ UNCHANGED exportFailed
              \/ pc = "assembled" /\ pc' = "refused" /\ UNCHANGED exportFailed
BY DEF FilesKnown, Fault

\* Opening a part (csv_writer.rs:161-176).
LEMMA OpenKeepsFiles ==
    ASSUME FilesKnown, LeftOver, OpenNewPart, current = NoPart, UNCHANGED partPaths,
           pc \in {"write", "finish"}
    PROVE  FilesKnown' /\ LeftOver'
<1>0. nextFile \in Nat \ {0} /\ partPaths \in Seq(1 .. nextFile)
  BY DEF FilesKnown
<1>1. CASE /\ Create(<<Header>>)
           /\ current' = [path |-> nextFile, rowCount |-> 0]
           /\ UNCHANGED errorVars
  <2>1. current'.path = nextFile /\ current' # NoPart
    BY <1>0, <1>1 DEF NoPart
  <2>2. nextFile' = nextFile + 1 /\ files' = files \cup {nextFile}
    BY <1>1 DEF Create
  <2>3. UNCHANGED <<pc, exportFailed, faults>>
    BY <1>1 DEF errorVars
  <2>4. FilesKnown'
    <3>1. current' \in [path : Nat, rowCount : Nat]
      BY <1>0, <1>1
    <3>2. files' \subseteq 1 .. nextFile' - 1 /\ current'.path \in 1 .. nextFile' - 1
          /\ nextFile' \in Nat \ {0}
      BY <1>0, <2>1, <2>2 DEF FilesKnown
    <3>3. partPaths' \in Seq(1 .. nextFile' - 1)
      BY <1>0, <2>2
    <3>4. ~ exportFailed /\ pc \in {"idle", "write", "finish"} =>
            files' = Open' \cup ToSet(partPaths')
      BY <2>1, <2>2 DEF FilesKnown, Open
    <3>5. QED  BY <2>3, <3>1, <3>2, <3>3, <3>4 DEF FilesKnown
  <2>5. QED  BY <2>3, <2>4 DEF LeftOver
<1>2. CASE Fault /\ UNCHANGED <<nextFile, files, content, current>>
  <2>1. FilesKnown'
    BY <1>2, FaultEnds DEF FilesKnown
  <2>2. QED  BY <1>2, <2>1, FaultEnds DEF LeftOver
<1>3. CASE Create(<<>>) /\ Fault /\ UNCHANGED current
  <2>1. nextFile' = nextFile + 1 /\ files' = files \cup {nextFile}
    BY <1>3 DEF Create
  <2>2. FilesKnown'
    BY <1>0, <1>3, <2>1, FaultEnds DEF FilesKnown
  <2>3. QED  BY <1>3, <2>2, FaultEnds DEF LeftOver
<1>4. QED  BY <1>1, <1>2, <1>3 DEF OpenNewPart

\* Closing a part: it is no longer open, and among the closed ones unless that
\* failed (csv_writer.rs:178-194).
LEMMA CloseKeepsFiles ==
    ASSUME FilesKnown, LeftOver, CloseCurrentPart, current # NoPart,
           UNCHANGED <<nextFile, files>>, pc \in {"write", "finish"}
    PROVE  FilesKnown' /\ LeftOver'
<1>1. CASE partPaths' = Append(partPaths, current.path) /\ UNCHANGED errorVars
  <2>1. ToSet(partPaths') = ToSet(partPaths) \cup {current.path}
    BY <1>1, ElementsOf DEF FilesKnown
  <2>2. partPaths' \in Seq(1 .. nextFile - 1)
    BY <1>1 DEF FilesKnown
  <2>3. Open' \cup ToSet(partPaths') = Open \cup ToSet(partPaths)
    BY <2>1 DEF CloseCurrentPart, Open
  <2>4. UNCHANGED <<pc, exportFailed, faults>> /\ current' = NoPart
    BY <1>1 DEF errorVars, CloseCurrentPart
  <2>5. FilesKnown'
    BY <2>2, <2>3, <2>4, NoPartTyped DEF FilesKnown
  <2>6. QED  BY <2>4, <2>5 DEF LeftOver
<1>2. CASE Fault /\ UNCHANGED partPaths
  <2>1. FilesKnown'
    BY <1>2, FaultEnds, NoPartTyped DEF FilesKnown, CloseCurrentPart
  <2>2. QED  BY <1>2, <2>1, FaultEnds DEF LeftOver
<1>3. QED  BY <1>1, <1>2 DEF CloseCurrentPart

\* Steps that touch no file, and neither finish nor give up.
LEMMA QuietKeepsFiles ==
    ASSUME FilesKnown, LeftOver, UNCHANGED <<nextFile, files, partPaths, exportFailed>>,
           \/ current' = current
           \/ /\ current # NoPart /\ current'.path = current.path /\ current' # NoPart
              /\ current' \in [path : Nat, rowCount : Nat],
           faults' \in Nat, faults' = 0 => faults = 0,
           pc \in {"idle", "write"}, pc' \in {"idle", "write", "dropped"}
    PROVE  FilesKnown' /\ LeftOver'
<1>1. Open' = Open
  BY DEF Open
<1>2. FilesKnown'
  BY <1>1 DEF FilesKnown
<1>3. QED  BY <1>2 DEF LeftOver

\* The archive takes the place of its parts, or nothing does
\* (csv_writer.rs:214-262).
LEMMA ZipKeepsFiles ==
    ASSUME FilesKnown, LeftOver, FinishZip
    PROVE  FilesKnown' /\ LeftOver'
<1>1. /\ pc = "finish" /\ current = NoPart /\ nextFile' = nextFile + 1
      /\ partPaths' = <<>> /\ current' = current
  BY DEF FinishZip
<1>2. files = ToSet(partPaths) /\ nextFile \notin ToSet(partPaths) /\ nextFile \in Nat \ {0}
  <2>1. files = ToSet(partPaths) /\ files \subseteq 1 .. nextFile - 1 /\ nextFile \in Nat \ {0}
    BY <1>1 DEF FilesKnown, Open
  <2>2. QED  BY <2>1
<1>3. CASE /\ files' = (files \cup {nextFile}) \ ToSet(partPaths)
           /\ output' = [kind |-> "zip", path |-> nextFile, parts |-> Entries,
                         report |-> {ReportText(summary, reportedOn')}]
           /\ pc' = "assembled" /\ UNCHANGED <<exportFailed, faults>>
  <2>1. files' = {nextFile} /\ output'.path = nextFile
    BY <1>2, <1>3
  <2>2. FilesKnown'
    BY <1>1, <1>2, <1>3, <2>1 DEF FilesKnown
  <2>3. QED  BY <1>3, <2>1, <2>2 DEF LeftOver
<1>4. CASE files' = files \ ToSet(partPaths) /\ Fault
  <2>1. files' = {}
    BY <1>2, <1>4
  <2>2. FilesKnown'
    BY <1>1, <1>2, <1>4, <2>1, FaultEnds DEF FilesKnown
  <2>3. QED  BY <1>1, <1>4, <2>2, FaultEnds DEF LeftOver
<1>5. QED  BY <1>3, <1>4 DEF FinishZip

\* The assembler keeps track of its files, and leaves none over.
THEOREM FilesAreKnown == Spec => [](FilesKnown /\ LeftOver)
<1>1. Init => FilesKnown /\ LeftOver
  <2> SUFFICES ASSUME Init PROVE FilesKnown /\ LeftOver
    OBVIOUS
  <2>1. Open = {} /\ ToSet(partPaths) = {}
    BY DEF Init, Open, ToSet
  <2>2. partPaths = <<>> /\ partPaths \in Seq(1 .. nextFile - 1)
    BY DEF Init
  <2>3. QED  BY <2>1, <2>2, NoPartTyped DEF Init, FilesKnown, LeftOver
<1>2. FilesKnown /\ LeftOver /\ [Next]_vars => FilesKnown' /\ LeftOver'
  <2> SUFFICES ASSUME FilesKnown, LeftOver, [Next]_vars PROVE FilesKnown' /\ LeftOver'
    OBVIOUS
  <2> USE DEF outputVars, errorVars
  <2>1. CASE WriteRows
    BY <2>1, QuietKeepsFiles DEF WriteRows, FilesKnown
  <2>2. CASE OpenForRow
    BY <2>2, OpenKeepsFiles DEF OpenForRow
  <2>3. CASE CloseFull
    BY <2>3, CloseKeepsFiles DEF CloseFull
  <2>4. CASE WriteRecord
    <3>1. CASE current' = [current EXCEPT !.rowCount = @ + 1] /\ UNCHANGED errorVars
      <4>1. /\ current' # NoPart /\ current'.path = current.path
            /\ current' \in [path : Nat, rowCount : Nat]
        <5>1. /\ current \in [path : Nat, rowCount : Nat] /\ current # NoPart
              /\ current.path \in 1 .. nextFile - 1 /\ nextFile \in Nat
          BY <2>4 DEF WriteRecord, FilesKnown
        <5>2. current' = [path |-> current.path, rowCount |-> current.rowCount + 1]
          BY <3>1, <5>1
        <5>3. current.path # 0
          BY <5>1
        <5>4. QED  BY <5>1, <5>2, <5>3 DEF NoPart
      <4>2. QED  BY <2>4, <3>1, <4>1, QuietKeepsFiles DEF WriteRecord, FilesKnown
    <3>2. CASE Fault /\ UNCHANGED current
      <4>1. FilesKnown'
        BY <2>4, <3>2, FaultEnds DEF WriteRecord, FilesKnown
      <4>2. QED  BY <2>4, <3>2, <4>1, FaultEnds DEF WriteRecord, LeftOver
    <3>3. QED  BY <2>4, <3>1, <3>2 DEF WriteRecord
  <2>5. CASE WriteDone
    BY <2>5, QuietKeepsFiles DEF WriteDone, FilesKnown
  <2>6. CASE Abort
    <3>1. /\ pc' = "aborted" /\ current' = NoPart /\ partPaths' = <<>> /\ pc = "idle"
          /\ UNCHANGED <<nextFile, exportFailed, faults>>
          /\ files' = files \ ({current.path} \cup ToSet(partPaths))
      BY <2>6 DEF Abort
    <3>2. faults = 0 => files' = {}
      BY <3>1 DEF FilesKnown, Open
    <3>3. files' \subseteq 1 .. nextFile' - 1 /\ partPaths' \in Seq(1 .. nextFile' - 1)
      <4>1. files \subseteq 1 .. nextFile - 1 /\ nextFile' = nextFile /\ files' \subseteq files
        BY <3>1 DEF FilesKnown
      <4>2. files' \subseteq 1 .. nextFile' - 1
        BY <4>1
      <4>3. partPaths' \in Seq(1 .. nextFile' - 1)
        BY <3>1
      <4>4. QED  BY <4>2, <4>3
    <3>4. current' \in [path : Nat, rowCount : Nat] /\ current' = NoPart
      BY <3>1 DEF NoPart
    <3>5. FilesKnown'
      BY <3>1, <3>3, <3>4 DEF FilesKnown
    <3>6. QED  BY <3>1, <3>2, <3>5 DEF LeftOver
  <2>7. CASE Drop
    <3>1. FilesKnown'
      BY <2>7, NoPartTyped DEF Drop, FilesKnown
    <3>2. QED  BY <2>7, <3>1 DEF Drop, LeftOver
  <2>8. CASE Finish
    <3>1. /\ pc = "idle" /\ pc' = "finish" /\ ~ exportFailed
          /\ UNCHANGED <<nextFile, files, current, partPaths, exportFailed, faults>>
      BY <2>8 DEF Finish
    <3>2. FilesKnown'
      BY <3>1 DEF FilesKnown, Open
    <3>3. QED  BY <3>1, <3>2 DEF LeftOver
  <2>9. CASE OpenHeaderOnly
    BY <2>9, OpenKeepsFiles DEF OpenHeaderOnly
  <2>10. CASE CloseFinal
    BY <2>10, CloseKeepsFiles DEF CloseFinal
  <2>11. CASE FinishCsv
    <3>1. /\ pc = "finish" /\ current = NoPart /\ Len(partPaths) = 1 /\ partPaths' = <<>>
          /\ UNCHANGED <<nextFile, files, current>>
      BY <2>11 DEF FinishCsv
    <3>2. files = {Head(partPaths)}
      <4>1. ToSet(partPaths) = {Head(partPaths)}
        BY <3>1, ElementsOf DEF FilesKnown
      <4>2. QED  BY <3>1, <4>1 DEF FilesKnown, Open
    <3>3. CASE /\ output' = [kind |-> "csv", path |-> Head(partPaths),
                             parts |-> <<content[Head(partPaths)]>>, report |-> {}]
               /\ pc' = "assembled" /\ UNCHANGED <<exportFailed, faults>>
      <4>1. output'.path = Head(partPaths)
        BY <3>3
      <4>2. FilesKnown'
        BY <3>1, <3>3 DEF FilesKnown
      <4>3. QED  BY <3>1, <3>2, <3>3, <4>1, <4>2 DEF LeftOver
    <3>4. CASE Fault
      <4>1. FilesKnown'
        BY <3>1, <3>4, FaultEnds DEF FilesKnown
      <4>2. QED  BY <3>1, <3>4, <4>1, FaultEnds DEF LeftOver
    <3>5. QED  BY <2>11, <3>3, <3>4 DEF FinishCsv
  <2>12. CASE FinishZip
    BY <2>12, ZipKeepsFiles
  <2>13. CASE Respond
    <3>1. /\ pc = "assembled" /\ files' = files \ {output.path}
          /\ UNCHANGED <<nextFile, current, partPaths>>
      BY <2>13 DEF Respond
    <3>2. files' = {}
      BY <3>1 DEF LeftOver
    <3>3. pc' \in {"responded", "refused"} /\ faults' \in Nat
          /\ (exportFailed' <=> exportFailed) /\ (faults' = 0 => faults = 0)
      <4>1. CASE Fault
        BY <3>1, <4>1, FaultEnds
      <4>2. CASE UNCHANGED <<exportFailed, faults>> /\ pc' \in {"responded", "refused"}
        BY <4>2 DEF FilesKnown
      <4>3. QED  BY <2>13, <4>1, <4>2 DEF Respond
    <3>4. FilesKnown'
      BY <3>1, <3>2, <3>3 DEF FilesKnown
    <3>5. QED  BY <3>2, <3>3, <3>4 DEF LeftOver
  <2>14. CASE UNCHANGED vars
    <3>1. UNCHANGED <<nextFile, files, current, partPaths, pc, output, exportFailed, faults>>
      BY <2>14 DEF vars
    <3>2. QED  BY <3>1 DEF FilesKnown, LeftOver, Open
  <2>15. QED
    BY <2>1, <2>2, <2>3, <2>4, <2>5, <2>6, <2>7, <2>8, <2>9, <2>10, <2>11, <2>12,
       <2>13, <2>14 DEF Next
<1>3. QED  BY <1>1, <1>2, PTL DEF Spec

\* A finished export leaves its own file only, a response or a refusal nothing,
\* and neither does an abort when nothing failed.
THEOREM OnlyTheOutputRemains == Spec => []OnlyOutputRemains
<1>1. LeftOver => OnlyOutputRemains
  BY DEF LeftOver, OnlyOutputRemains
<1>2. QED  BY <1>1, FilesAreKnown, PTL

(***************************************************************************)
(* Sequences of sequences, laid end to end.                                *)
(***************************************************************************)

\* A non-empty set of natural numbers has a least element.
LEMMA LeastElement ==
    ASSUME NEW S, S \subseteq Nat, S # {}
    PROVE  \E x \in S : \A y \in S : x <= y
<1>1. PICK x \in S : \A y \in S : ~ (<<y, x>> \in OpToRel(<, Nat))
  BY NatLessThanWellFounded, WFMin
<1>2. \A y \in S : ~ (y < x)
  BY <1>1 DEF OpToRel
<1>3. QED  BY <1>2

\* g holds the concatenations of the first sequences of q, up to the n-th.
Concatenates(g, q, n) ==
    /\ g[1] = q[1]
    /\ \A i \in 2 .. n : g[i] = g[i - 1] \o q[i]

\* FlattenSeq is the last of these concatenations, whichever function holds them.
LEMMA FlattenIs ==
    ASSUME NEW S, NEW q \in Seq(Seq(S)), q # <<>>
    PROVE  /\ FlattenSeq(q) \in Seq(S)
           /\ \A g : Concatenates(g, q, Len(q)) => FlattenSeq(q) = g[Len(q)]
<1>1. Len(q) \in Nat \ {0} /\ \A i \in 1 .. Len(q) : q[i] \in Seq(S)
  OBVIOUS
<1> DEFINE Concats(n, f) == /\ f \in [1 .. n -> Seq(S)]
                            /\ \A i \in 1 .. n : f[i] = IF i = 1 THEN q[i] ELSE f[i - 1] \o q[i]
           Bad == {n \in 1 .. Len(q) : ~ \E f : Concats(n, f)}
<1>2. Bad = {}
  <2> SUFFICES ASSUME Bad # {} PROVE FALSE
    OBVIOUS
  <2>1. PICK n \in Bad : \A m \in Bad : n <= m
    <3>1. Bad \subseteq Nat
      <4> HIDE DEF Concats
      <4>1. QED  BY <1>1
    <3> HIDE DEF Bad
    <3>2. QED  BY <3>1, LeastElement
  <2>2. n \in 1 .. Len(q) /\ ~ \E f : Concats(n, f)
    OBVIOUS
  <2>3. CASE n = 1
    <3> HIDE DEF Bad
    <3>1. Concats(1, [i \in 1 .. 1 |-> q[i]])
      BY <1>1
    <3>2. QED  BY <2>2, <2>3, <3>1
  <2>4. CASE n # 1
    <3>1. n - 1 \in 1 .. Len(q) /\ n - 1 < n
      BY <1>1, <2>2, <2>4
    <3>2. n - 1 \notin Bad
      <4> HIDE DEF Bad
      <4>1. QED  BY <2>1, <2>2, <3>1
    <3>3. PICK f : Concats(n - 1, f)
      BY <3>1, <3>2
    <3> DEFINE g == [i \in 1 .. n |-> IF i = n THEN f[n - 1] \o q[n] ELSE f[i]]
    <3>4. g \in [1 .. n -> Seq(S)]
      <4>1. f[n - 1] \in Seq(S) /\ q[n] \in Seq(S)
        BY <1>1, <2>2, <2>4, <3>3
      <4>2. f[n - 1] \o q[n] \in Seq(S)
        BY <4>1
      <4>3. \A i \in 1 .. n : i # n => i \in 1 .. n - 1
        BY <2>2
      <4>4. QED  BY <3>3, <4>2, <4>3
    <3>5. ASSUME NEW i \in 1 .. n
          PROVE  g[i] = IF i = 1 THEN q[i] ELSE g[i - 1] \o q[i]
      <4>1. CASE i = n
        <5>1. g[n] = f[n - 1] \o q[n] /\ g[n - 1] = f[n - 1]
          <6>1. n \in 1 .. n /\ n - 1 \in 1 .. n /\ n - 1 # n
            BY <2>2, <3>1
          <6>2. QED  BY <6>1
        <5>2. QED  BY <2>4, <4>1, <5>1
      <4>2. CASE i # n /\ i = 1
        <5>1. 1 \in 1 .. n - 1 /\ g[1] = f[1]
          BY <2>2, <2>4, <4>2
        <5>2. f[1] = q[1]
          BY <3>3, <5>1
        <5>3. QED  BY <4>2, <5>1, <5>2
      <4>3. CASE i # n /\ i # 1
        <5>1. i \in 1 .. n - 1 /\ i - 1 \in 1 .. n /\ i - 1 # n
          BY <2>2, <4>3
        <5>2. g[i] = f[i] /\ g[i - 1] = f[i - 1]
          BY <4>3, <5>1
        <5>3. f[i] = f[i - 1] \o q[i]
          BY <3>3, <4>3, <5>1
        <5>4. QED  BY <4>3, <5>2, <5>3
      <4>4. QED  BY <4>1, <4>2, <4>3
    <3> HIDE DEF g
    <3>6. Concats(n, g)
      BY <3>4, <3>5
    <3>7. QED  BY <2>2, <3>6
  <2>5. QED  BY <2>3, <2>4
<1>3. \E f : Concats(Len(q), f)
  <2>1. Len(q) \in 1 .. Len(q) /\ Len(q) \notin Bad
    <3> HIDE DEF Bad
    <3>1. QED  BY <1>1, <1>2
  <2> HIDE DEF Concats
  <2>2. QED  BY <2>1
<1> DEFINE Rec(f) == f = [i \in 1 .. Len(q) |-> IF i = 1 THEN q[i] ELSE f[i - 1] \o q[i]]
           the == CHOOSE f : Rec(f)
<1>4. Rec(the) /\ FlattenSeq(q) = the[Len(q)]
  <2>1. Rec(the)
    <3>1. PICK f : Concats(Len(q), f)
      BY <1>3
    <3>2. f = [i \in 1 .. Len(q) |-> f[i]]
      BY <3>1
    <3>3. Rec(f)
      BY <3>1, <3>2
    <3> HIDE DEF Rec
    <3>4. QED  BY <3>3
  <2>2. FlattenSeq(q) = the[Len(q)]
    BY <1>1 DEF FlattenSeq
  <2>3. QED  BY <2>1, <2>2
<1> HIDE DEF the
<1>5. ASSUME NEW f, Rec(f), NEW g, Concatenates(g, q, Len(q))
      PROVE  \A i \in 1 .. Len(q) : f[i] = g[i]
  <2> DEFINE Differ == {i \in 1 .. Len(q) : f[i] # g[i]}
  <2> SUFFICES ASSUME Differ # {} PROVE FALSE
    OBVIOUS
  <2>1. PICK n \in Differ : \A m \in Differ : n <= m
    <3>1. Differ \subseteq Nat
      BY <1>1
    <3> HIDE DEF Differ
    <3>2. QED  BY <3>1, LeastElement
  <2>2. n \in 1 .. Len(q) /\ f[n] # g[n]
    OBVIOUS
  <2>3. f[n] = IF n = 1 THEN q[n] ELSE f[n - 1] \o q[n]
    BY <1>5, <2>2
  <2>4. CASE n = 1
    BY <1>5, <2>2, <2>3, <2>4 DEF Concatenates
  <2>5. CASE n # 1
    <3>1. n - 1 \in 1 .. Len(q) /\ n - 1 < n /\ n \in 2 .. Len(q)
      BY <1>1, <2>2, <2>5
    <3>2. n - 1 \notin Differ
      <4> HIDE DEF Differ
      <4>1. QED  BY <2>1, <2>2, <3>1
    <3>3. f[n - 1] = g[n - 1]
      BY <3>1, <3>2
    <3>4. g[n] = g[n - 1] \o q[n]
      BY <1>5, <3>1 DEF Concatenates
    <3>5. QED  BY <2>2, <2>3, <2>5, <3>3, <3>4
  <2>6. QED  BY <2>4, <2>5
<1>6. FlattenSeq(q) \in Seq(S)
  <2>1. PICK f : Concats(Len(q), f)
    BY <1>3
  <2>2. Concatenates(f, q, Len(q))
    <3>1. 1 \in 1 .. Len(q) /\ \A i \in 2 .. Len(q) : i \in 1 .. Len(q) /\ i # 1
      BY <1>1
    <3>2. QED  BY <2>1, <3>1 DEF Concatenates
  <2>3. the[Len(q)] = f[Len(q)] /\ f[Len(q)] \in Seq(S)
    <3>1. Len(q) \in 1 .. Len(q)
      BY <1>1
    <3> HIDE DEF Rec
    <3>2. \A i \in 1 .. Len(q) : the[i] = f[i]
      BY <1>4, <1>5, <2>2
    <3>3. QED  BY <2>1, <3>1, <3>2
  <2>4. QED  BY <1>4, <2>3
<1>7. ASSUME NEW g, Concatenates(g, q, Len(q)) PROVE FlattenSeq(q) = g[Len(q)]
  <2> HIDE DEF Rec
  <2>1. Len(q) \in 1 .. Len(q) /\ \A i \in 1 .. Len(q) : the[i] = g[i]
    BY <1>1, <1>4, <1>5, <1>7
  <2>2. QED  BY <1>4, <2>1
<1>8. QED  BY <1>6, <1>7

(***************************************************************************)
(* What is in the parts.                                                   *)
(***************************************************************************)

E == EXCEL_MAX_DATA_ROWS

\* The i-th part, with so many rows behind its header.
PartOf(i, count) ==
    [j \in 1 .. count + 1 |-> IF j = 1 THEN Header ELSE (i - 1) * E + (j - 1)]

\* The parts of a whole export: all are full but the last, which has only the
\* header in an export without rows.
WholeExport(parts) ==
    /\ parts \in Seq(Seq(Nat)) /\ parts # <<>>
    /\ \E last \in 0 .. E :
         /\ \A i \in 1 .. Len(parts) :
              parts[i] = PartOf(i, IF i < Len(parts) THEN E ELSE last)
         /\ submitted = (Len(parts) - 1) * E + last
         /\ last = 0 => Len(parts) = 1

\* The rows that are in the parts.
Staged == Len(partPaths) * E + current.rowCount

\* All closed parts are full, the open one holds the rows after them, and what
\* is left of the batch follows on.
PartsFollow ==
    /\ \A i \in 1 .. Len(partPaths) : content[partPaths[i]] = PartOf(i, E)
    /\ current.rowCount \in 0 .. E
    /\ current # NoPart =>
         content[current.path] = PartOf(Len(partPaths) + 1, current.rowCount)
    /\ Staged <= submitted
    /\ batch = [i \in 1 .. submitted - Staged |-> Staged + i]

\* Nothing has been written, or the open part has a row.
NothingOrRow ==
    \/ current = NoPart /\ partPaths = <<>> /\ submitted = 0
    \/ current # NoPart /\ current.rowCount > 0

ContentTyped ==
    /\ content \in Seq(Seq(Nat)) /\ Len(content) = nextFile - 1
    /\ submitted \in Nat /\ batch \in Seq(Nat)
    /\ current # NoPart => current.path \notin ToSet(partPaths)

WritesInOrder ==
    ~ exportFailed /\ pc \in {"idle", "write"} =>
        /\ PartsFollow
        /\ pc = "idle" => batch = <<>>
        /\ batch = <<>> => NothingOrRow

FinishesInOrder ==
    pc = "finish" =>
        \/ /\ PartsFollow /\ batch = <<>>
           /\ \/ NothingOrRow
              \/ current # NoPart /\ partPaths = <<>> /\ submitted = 0
        \/ /\ current = NoPart
           /\ WholeExport([i \in 1 .. Len(partPaths) |-> content[partPaths[i]]])

OutputIsWhole ==
    pc \in {"assembled", "responded"} =>
        /\ WholeExport(output.parts)
        /\ output.kind = IF Len(output.parts) = 1 THEN "csv" ELSE "zip"

StagedInOrder == ContentTyped /\ WritesInOrder /\ FinishesInOrder /\ OutputIsWhole

\* A part with one more row, and what is behind its header.
LEMMA PartIs ==
    ASSUME NEW i \in Nat \ {0}, NEW c \in Nat
    PROVE  /\ PartOf(i, c) \in Seq(Nat) /\ Len(PartOf(i, c)) = c + 1
           /\ Head(PartOf(i, c)) = Header
           /\ Append(PartOf(i, c), (i - 1) * E + (c + 1)) = PartOf(i, c + 1)
           /\ Tail(PartOf(i, c)) = [j \in 1 .. c |-> (i - 1) * E + j]
           /\ PartOf(i, 0) = <<Header>>
<1>1. E \in Nat \ {0} /\ i - 1 \in Nat /\ (i - 1) * E \in Nat
  BY AssemblerAssumption DEF E
<1> DEFINE base == (i - 1) * E
<1>2. base \in Nat
  BY <1>1
<1> HIDE DEF base
<1>3. \A n \in Nat : PartOf(i, n) = [j \in 1 .. n + 1 |-> IF j = 1 THEN Header ELSE base + (j - 1)]
  BY DEF PartOf, base
<1>4. \A n \in Nat : /\ PartOf(i, n) \in Seq(Nat) /\ Len(PartOf(i, n)) = n + 1
                     /\ PartOf(i, n)[1] = Header
                     /\ \A j \in 2 .. n + 1 : PartOf(i, n)[j] = base + (j - 1)
  <2> SUFFICES ASSUME NEW n \in Nat
               PROVE  /\ PartOf(i, n) \in Seq(Nat) /\ Len(PartOf(i, n)) = n + 1
                      /\ PartOf(i, n)[1] = Header
                      /\ \A j \in 2 .. n + 1 : PartOf(i, n)[j] = base + (j - 1)
    OBVIOUS
  <2>1. \A j \in 1 .. n + 1 : (IF j = 1 THEN Header ELSE base + (j - 1)) \in Nat
    BY <1>2 DEF Header
  <2> DEFINE value(j) == IF j = 1 THEN Header ELSE base + (j - 1)
  <2>2. n + 1 \in Nat /\ PartOf(i, n) = [j \in 1 .. n + 1 |-> value(j)]
    BY <1>3
  <2>3. value(1) = Header /\ \A j \in 2 .. n + 1 : value(j) = base + (j - 1)
    OBVIOUS
  <2>4. 1 \in 1 .. n + 1 /\ \A j \in 2 .. n + 1 : j \in 1 .. n + 1
    OBVIOUS
  <2>5. \A j \in 1 .. n + 1 : value(j) \in Nat
    BY <2>1
  <2> HIDE DEF value
  <2>6. PartOf(i, n) \in Seq(Nat) /\ Len(PartOf(i, n)) = n + 1
    BY <2>2, <2>5
  <2>7. \A j \in 1 .. n + 1 : PartOf(i, n)[j] = value(j)
    BY <2>2
  <2>8. QED  BY <2>3, <2>4, <2>6, <2>7
<1>5. Append(PartOf(i, c), base + (c + 1)) = PartOf(i, c + 1)
  <2> DEFINE p == PartOf(i, c)  q == PartOf(i, c + 1)  x == base + (c + 1)
  <2>1. p \in Seq(Nat) /\ Len(p) = c + 1 /\ q \in Seq(Nat) /\ Len(q) = c + 2 /\ x \in Nat
    BY <1>2, <1>4
  <2>2. \A j \in 1 .. c + 1 : p[j] = q[j]
    <3>0. c + 1 \in Nat
      OBVIOUS
    <3>1. p[1] = q[1]
      <4>1. PartOf(i, c)[1] = Header /\ PartOf(i, c + 1)[1] = Header
        BY <1>4, <3>0
      <4>2. QED  BY <4>1
    <3>2. \A j \in 2 .. c + 1 : j \in 2 .. c + 2
      OBVIOUS
    <3>3. \A j \in 2 .. c + 1 : p[j] = q[j]
      BY <1>4, <3>2
    <3>4. QED  BY <3>1, <3>3
  <2>3. q[c + 2] = x
    BY <1>2, <1>4
  <2> HIDE DEF p, q, x
  <2>4. Append(p, x) \in Seq(Nat) /\ Len(Append(p, x)) = c + 2
    BY <2>1
  <2>5. \A j \in 1 .. c + 2 : Append(p, x)[j] = q[j]
    BY <2>1, <2>2, <2>3
  <2>6. Append(p, x) = q
    BY <2>1, <2>4, <2>5, SeqEqual
  <2>7. QED  BY <2>6 DEF p, q, x
<1>6. Tail(PartOf(i, c)) = [j \in 1 .. c |-> base + j]
  <2> DEFINE p == PartOf(i, c)  t == [j \in 1 .. c |-> base + j]
  <2>1. p \in Seq(Nat) /\ Len(p) = c + 1 /\ \A j \in 2 .. c + 1 : p[j] = base + (j - 1)
    BY <1>4
  <2>2. t \in Seq(Nat) /\ Len(t) = c /\ \A j \in 1 .. c : t[j] = base + j
    BY <1>2
  <2> HIDE DEF p, t
  <2>3. Tail(p) \in Seq(Nat) /\ Len(Tail(p)) = c /\ \A j \in 1 .. c : Tail(p)[j] = p[j + 1]
    BY <2>1
  <2>4. \A j \in 1 .. c : Tail(p)[j] = t[j]
    BY <1>2, <2>1, <2>2, <2>3
  <2>5. Tail(p) = t
    BY <2>2, <2>3, <2>4, SeqEqual
  <2>6. QED  BY <2>5 DEF p, t
<1>7. PartOf(i, 0) = <<Header>>
  <2> DEFINE p == PartOf(i, 0)
  <2>1. p \in Seq(Nat) /\ Len(p) = 1 /\ p[1] = Header
    <3>1. 0 \in Nat /\ 0 + 1 = 1
      OBVIOUS
    <3>2. p \in Seq(Nat) /\ Len(p) = 0 + 1 /\ p[1] = Header
      BY <1>4, <3>1
    <3>3. QED  BY <3>1, <3>2
  <2>2. <<Header>> \in Seq(Nat)
    BY DEF Header
  <2> HIDE DEF p
  <2>3. p = <<Header>>
    BY <2>1, <2>2, SeqEqual
  <2>4. QED  BY <2>3 DEF p
<1>8. Head(PartOf(i, c)) = Header
  BY <1>4
<1>9. QED  BY <1>4, <1>5, <1>6, <1>7, <1>8 DEF base

\* The size of a full part, and of one more.
LEMMA FullParts ==
    E \in Nat \ {0} /\ \A n \in Nat : n * E \in Nat /\ (n + 1) * E = n * E + E
<1>1. E \in Nat \ {0}
  BY AssemblerAssumption DEF E
<1>2. \A n \in Nat : n * E \in Nat
  BY <1>1
<1>3. \A n \in Nat : (n + 1) * E = n * E + E
  BY <1>1
<1>4. QED  BY <1>1, <1>2, <1>3

\* After a failure nothing is promised but the types.
LEMMA FaultKeepsOrder ==
    ASSUME FilesKnown, Fault, ContentTyped'
    PROVE  StagedInOrder'
BY FaultEnds DEF StagedInOrder, WritesInOrder, FinishesInOrder, OutputIsWhole

\* A new part begins with the header (csv_writer.rs:161-176).
LEMMA OpenKeepsOrder ==
    ASSUME FilesKnown, StagedInOrder, OpenNewPart, current = NoPart,
           UNCHANGED <<partPaths, batch, submitted, output>>,
           \/ pc = "write" /\ batch # <<>>
           \/ pc = "finish" /\ partPaths = <<>>
    PROVE  StagedInOrder'
<1> DEFINE n == Len(partPaths)
<1>1. /\ nextFile \in Nat \ {0} /\ partPaths \in Seq(1 .. nextFile - 1)
      /\ content \in Seq(Seq(Nat)) /\ Len(content) = nextFile - 1
      /\ submitted \in Nat /\ batch \in Seq(Nat)
  BY DEF FilesKnown, StagedInOrder, ContentTyped
<1>2. ToSet(partPaths) \subseteq 1 .. nextFile - 1
  BY <1>1, ElementsOf
<1>3. ASSUME NEW rows \in Seq(Nat), Create(rows)
      PROVE  /\ content' \in Seq(Seq(Nat)) /\ Len(content') = nextFile' - 1
             /\ content'[nextFile] = rows
             /\ \A p \in 1 .. nextFile - 1 : content'[p] = content[p]
             /\ nextFile \notin ToSet(partPaths)
  <2>1. content' = Append(content, rows) /\ nextFile' = nextFile + 1
    BY <1>3 DEF Create
  <2>2. content \in Seq(Seq(Nat)) /\ Len(content) = nextFile - 1 /\ nextFile \in Nat
    BY <1>1
  <2>3. content' \in Seq(Seq(Nat)) /\ Len(content') = nextFile' - 1
    BY <2>1, <2>2
  <2>4. content'[nextFile] = rows /\ \A p \in 1 .. nextFile - 1 : content'[p] = content[p]
    BY <2>1, <2>2
  <2>5. nextFile \notin ToSet(partPaths)
    BY <1>2, <2>2
  <2>6. QED  BY <2>3, <2>4, <2>5
<1>4. CASE /\ Create(<<Header>>)
           /\ current' = [path |-> nextFile, rowCount |-> 0]
           /\ UNCHANGED errorVars
  <2>0. <<Header>> \in Seq(Nat)
    BY DEF Header
  <2>1. /\ content' \in Seq(Seq(Nat)) /\ Len(content') = nextFile' - 1
        /\ content'[nextFile] = <<Header>>
        /\ \A p \in 1 .. nextFile - 1 : content'[p] = content[p]
        /\ nextFile \notin ToSet(partPaths)
    BY <1>3, <1>4, <2>0
  <2>2. current'.path = nextFile /\ current'.rowCount = 0 /\ current' # NoPart
        /\ current.rowCount = 0
    BY <1>1, <1>4 DEF NoPart
  <2>3. UNCHANGED <<pc, exportFailed>>
    BY <1>4 DEF errorVars
  <2>4. ContentTyped'
    BY <1>1, <2>1, <2>2 DEF ContentTyped
  <2>5. ASSUME PartsFollow PROVE PartsFollow'
    <3>1. \A i \in 1 .. n : partPaths[i] \in 1 .. nextFile - 1
      <4>1. partPaths \in Seq(1 .. nextFile - 1) /\ nextFile \in Nat
        BY <1>1
      <4>2. QED  BY <4>1
    <3>2. \A i \in 1 .. n : content'[partPaths'[i]] = PartOf(i, E)
      BY <2>1, <2>5, <3>1 DEF PartsFollow
    <3>3. content'[current'.path] = PartOf(n + 1, current'.rowCount)
      <4>1. n + 1 \in Nat \ {0}
        BY <1>1
      <4>2. PartOf(n + 1, 0) = <<Header>>
        BY <4>1, PartIs
      <4>3. QED  BY <2>1, <2>2, <4>2
    <3>4. Staged' = Staged
      BY <2>2 DEF Staged
    <3>5. current'.rowCount \in 0 .. E
      BY <2>2, FullParts
    <3>6. QED  BY <2>5, <3>2, <3>3, <3>4, <3>5 DEF PartsFollow
  <2>6. WritesInOrder'
    BY <2>3, <2>5 DEF WritesInOrder, StagedInOrder
  <2>7. FinishesInOrder'
    <3> SUFFICES ASSUME pc = "finish" PROVE FinishesInOrder'
      BY <2>3 DEF FinishesInOrder
    <3>1. partPaths = <<>>
      OBVIOUS
    <3>2. [i \in 1 .. Len(partPaths) |-> content[partPaths[i]]] = <<>>
      BY <3>1
    <3>3. PartsFollow /\ batch = <<>> /\ submitted = 0
      BY <3>2 DEF StagedInOrder, FinishesInOrder, NothingOrRow, WholeExport
    <3>4. QED  BY <2>2, <2>5, <3>1, <3>3 DEF FinishesInOrder
  <2>8. OutputIsWhole'
    BY <2>3 DEF OutputIsWhole
  <2>9. QED  BY <2>4, <2>6, <2>7, <2>8 DEF StagedInOrder
<1>5. CASE Fault /\ UNCHANGED <<nextFile, files, content, current>>
  <2>1. ContentTyped'
    BY <1>5 DEF StagedInOrder, ContentTyped
  <2>2. QED  BY <1>5, <2>1, FaultKeepsOrder
<1>6. CASE Create(<<>>) /\ Fault /\ UNCHANGED current
  <2>1. ContentTyped'
    <3>1. <<>> \in Seq(Nat)
      OBVIOUS
    <3>2. content' \in Seq(Seq(Nat)) /\ Len(content') = nextFile' - 1
      BY <1>3, <1>6, <3>1
    <3>3. QED  BY <1>6, <3>2 DEF StagedInOrder, ContentTyped
  <2>2. QED  BY <1>6, <2>1, FaultKeepsOrder
<1>7. QED  BY <1>4, <1>5, <1>6 DEF OpenNewPart

\* A part is closed when it is full, or by finish (csv_writer.rs:178-194).
LEMMA CloseKeepsOrder ==
    ASSUME FilesKnown, StagedInOrder, CloseCurrentPart, current # NoPart,
           UNCHANGED <<nextFile, content, batch, submitted, output>>,
           \/ pc = "write" /\ batch # <<>> /\ PartIsFull
           \/ pc = "finish"
    PROVE  StagedInOrder'
<1> DEFINE n == Len(partPaths)
<1>1. /\ nextFile \in Nat \ {0} /\ partPaths \in Seq(1 .. nextFile - 1)
      /\ content \in Seq(Seq(Nat)) /\ Len(content) = nextFile - 1
      /\ submitted \in Nat /\ batch \in Seq(Nat)
      /\ current.path \in 1 .. nextFile - 1 /\ current' = NoPart
      /\ current.rowCount \in Nat /\ n \in Nat
  BY DEF FilesKnown, StagedInOrder, ContentTyped, CloseCurrentPart
<1>0. \A i \in 1 .. n + 1 : i \in 1 .. n \/ i = n + 1
  <2> HIDE DEF n
  <2>1. QED  BY <1>1
<1>2. ContentTyped'
  BY <1>1 DEF ContentTyped, StagedInOrder
<1>3. CASE Fault
  BY <1>2, <1>3, FaultKeepsOrder
<1>4. CASE partPaths' = Append(partPaths, current.path) /\ UNCHANGED errorVars
  <2>1. /\ Len(partPaths') = n + 1 /\ partPaths'[n + 1] = current.path
        /\ \A i \in 1 .. n : partPaths'[i] = partPaths[i]
        /\ partPaths' \in Seq(1 .. nextFile - 1)
    BY <1>1, <1>4
  <2>2. UNCHANGED <<pc, exportFailed>>
    BY <1>4 DEF errorVars
  <2>3. current'.rowCount = 0
    BY <1>1 DEF NoPart
  <2>4. WritesInOrder'
    <3> SUFFICES ASSUME ~ exportFailed, pc = "write"
                 PROVE  PartsFollow' /\ batch # <<>>
      BY <2>2 DEF WritesInOrder
    <3>1. PartsFollow /\ current.rowCount = E /\ batch # <<>>
      <4>1. PartsFollow /\ PartIsFull /\ batch # <<>>
        BY DEF StagedInOrder, WritesInOrder
      <4>2. QED  BY <4>1, FullParts DEF PartIsFull, PartsFollow, E
    <3>2. \A i \in 1 .. n + 1 : content'[partPaths'[i]] = PartOf(i, E)
      <4>1. \A i \in 1 .. n : content'[partPaths'[i]] = PartOf(i, E)
        BY <2>1, <3>1 DEF PartsFollow
      <4>2. content'[partPaths'[n + 1]] = PartOf(n + 1, E)
        <5>1. content[current.path] = PartOf(n + 1, current.rowCount)
          BY <3>1 DEF PartsFollow
        <5>2. content' = content /\ partPaths'[n + 1] = current.path
          BY <2>1
        <5>3. QED  BY <3>1, <5>1, <5>2
      <4>3. QED  BY <1>0, <4>1, <4>2
    <3>3. Staged' = Staged
      BY <1>1, <2>1, <2>3, <3>1, FullParts DEF Staged
    <3>4. current'.rowCount \in 0 .. E
      BY <2>3, FullParts
    <3>5. PartsFollow'
      BY <1>1, <2>1, <3>1, <3>2, <3>3, <3>4 DEF PartsFollow
    <3>6. QED  BY <3>1, <3>5
  <2>5. FinishesInOrder'
    <3> SUFFICES ASSUME pc = "finish" PROVE FinishesInOrder'
      BY <2>2 DEF FinishesInOrder
    <3> DEFINE parts == [i \in 1 .. Len(partPaths) |-> content[partPaths[i]]]
    <3>1. /\ PartsFollow /\ batch = <<>>
          /\ current.rowCount > 0 \/ partPaths = <<>>
      BY DEF StagedInOrder, FinishesInOrder, NothingOrRow
    <3>2. parts' \in Seq(Seq(Nat)) /\ Len(parts') = n + 1 /\ parts' # <<>>
      <4>1. \A i \in 1 .. n + 1 : content'[partPaths'[i]] \in Seq(Nat)
        BY <1>1, <2>1
      <4>2. Len(partPaths') \in Nat /\ Len(partPaths') = n + 1
        BY <1>1, <2>1
      <4>3. parts' \in Seq(Seq(Nat)) /\ Len(parts') = n + 1
        BY <4>1, <4>2
      <4> HIDE DEF parts
      <4>4. Len(parts') # 0
        BY <1>1, <4>3
      <4>5. QED  BY <4>3, <4>4
    <3>3. submitted = n * E + current.rowCount
      <4>1. n * E \in Nat
        BY <1>1, FullParts
      <4>2. Staged \in Nat /\ Staged = n * E + current.rowCount
        BY <1>1, <4>1 DEF Staged
      <4>3. Staged <= submitted /\ <<>> = [i \in 1 .. submitted - Staged |-> Staged + i]
        BY <3>1 DEF PartsFollow
      <4>4. 1 .. submitted - Staged = {}
        <5> DEFINE rest == [i \in 1 .. submitted - Staged |-> Staged + i]
        <5>1. DOMAIN rest = 1 .. submitted - Staged
          OBVIOUS
        <5>2. rest = <<>>
          BY <4>3
        <5> HIDE DEF rest
        <5>3. DOMAIN rest = {}
          BY <5>2
        <5>4. QED  BY <5>1, <5>3
      <4>5. ~ (1 <= submitted - Staged)
        <5>1. submitted - Staged \in Int
          BY <1>1, <4>2
        <5>2. 1 <= submitted - Staged => 1 \in 1 .. submitted - Staged
          BY <5>1
        <5>3. QED  BY <4>4, <5>2
      <4>6. submitted = Staged
        BY <1>1, <4>2, <4>3, <4>5
      <4>7. QED  BY <4>2, <4>6
    <3>4. \A i \in 1 .. n + 1 : parts'[i] = PartOf(i, IF i < n + 1 THEN E ELSE current.rowCount)
      <4>1. \A i \in 1 .. n + 1 : parts'[i] = content[partPaths'[i]]
        BY <1>1, <2>1
      <4>2. \A i \in 1 .. n : parts'[i] = PartOf(i, E)
        <5>1. \A i \in 1 .. n : i \in 1 .. n + 1 /\ partPaths'[i] = partPaths[i]
          BY <1>1, <2>1
        <5>2. \A i \in 1 .. n : content[partPaths[i]] = PartOf(i, E)
          BY <3>1 DEF PartsFollow
        <5> HIDE DEF parts
        <5>3. QED  BY <4>1, <5>1, <5>2
      <4>3. content[current.path] = PartOf(n + 1, current.rowCount)
        BY <3>1 DEF PartsFollow
      <4>4. parts'[n + 1] = PartOf(n + 1, current.rowCount)
        BY <1>1, <2>1, <4>1, <4>3
      <4>5. ~ (n + 1 < n + 1) /\ \A i \in 1 .. n : i < n + 1
        BY <1>1
      <4> HIDE DEF parts, n
      <4>6. QED  BY <1>0, <4>2, <4>4, <4>5
    <3>5. current.rowCount = 0 => n + 1 = 1
      BY <1>1, <3>1
    <3>6. WholeExport(parts)'
      <4>1. current.rowCount \in 0 .. E /\ (n + 1) - 1 = n /\ submitted' = submitted
        BY <1>1, <3>1 DEF PartsFollow
      <4> HIDE DEF parts, n
      <4>2. QED  BY <3>2, <3>3, <3>4, <3>5, <4>1 DEF WholeExport
    <3>7. QED  BY <1>1, <3>6 DEF FinishesInOrder
  <2>6. OutputIsWhole'
    BY <2>2 DEF OutputIsWhole
  <2>7. QED  BY <1>2, <2>4, <2>5, <2>6 DEF StagedInOrder
<1>5. QED  BY <1>3, <1>4 DEF CloseCurrentPart

\* A row goes behind those of the open part (csv_writer.rs:127-159).
LEMMA RecordKeepsOrder ==
    ASSUME FilesKnown, StagedInOrder, WriteRecord
    PROVE  StagedInOrder'
<1> DEFINE n == Len(partPaths)
<1>1. /\ nextFile \in Nat \ {0} /\ partPaths \in Seq(1 .. nextFile - 1)
      /\ content \in Seq(Seq(Nat)) /\ Len(content) = nextFile - 1
      /\ submitted \in Nat /\ batch \in Seq(Nat) /\ n \in Nat
      /\ current \in [path : Nat, rowCount : Nat] /\ current # NoPart
      /\ current.path \in 1 .. nextFile - 1 /\ current.path \notin ToSet(partPaths)
      /\ pc = "write" /\ batch # <<>> /\ ~ PartIsFull
      /\ UNCHANGED <<nextFile, files, partPaths, submitted, output>>
  BY DEF FilesKnown, StagedInOrder, ContentTyped, WriteRecord, outputVars
<1>2. CASE Fault /\ UNCHANGED <<content, current, batch>>
  <2>1. ContentTyped'
    BY <1>1, <1>2 DEF ContentTyped
  <2>2. QED  BY <1>2, <2>1, FaultKeepsOrder
<1>3. CASE /\ content' = [content EXCEPT ![current.path] = Append(@, Head(batch))]
           /\ current' = [current EXCEPT !.rowCount = @ + 1]
           /\ batch' = Tail(batch)
           /\ UNCHANGED errorVars
  <2>1. UNCHANGED <<pc, exportFailed>>
    BY <1>3 DEF errorVars
  <2>2. /\ current'.path = current.path /\ current'.rowCount = current.rowCount + 1
        /\ current' # NoPart
    <3>1. current' = [path |-> current.path, rowCount |-> current.rowCount + 1]
      BY <1>1, <1>3
    <3>2. QED  BY <1>1, <3>1 DEF NoPart
  <2>3. Head(batch) \in Nat /\ Tail(batch) \in Seq(Nat)
    BY <1>1
  <2>4. /\ content' \in Seq(Seq(Nat)) /\ Len(content') = Len(content)
        /\ content'[current.path] = Append(content[current.path], Head(batch))
        /\ \A p \in 1 .. nextFile - 1 : p # current.path => content'[p] = content[p]
    <3>1. content \in [1 .. nextFile - 1 -> Seq(Nat)] /\ nextFile - 1 \in Nat
      BY <1>1
    <3>2. Append(content[current.path], Head(batch)) \in Seq(Nat)
      BY <1>1, <2>3, <3>1
    <3>3. content' \in [1 .. nextFile - 1 -> Seq(Nat)]
      BY <1>3, <3>1, <3>2
    <3>4. content' \in Seq(Seq(Nat)) /\ Len(content') = nextFile - 1
      BY <3>1, <3>3
    <3>5. QED  BY <1>1, <1>3, <3>1, <3>4
  <2>5. ContentTyped'
    BY <1>1, <1>3, <2>2, <2>3, <2>4 DEF ContentTyped
  <2>6. WritesInOrder'
    <3> SUFFICES ASSUME ~ exportFailed PROVE PartsFollow' /\ NothingOrRow'
      BY <1>1, <2>1 DEF WritesInOrder
    <3>1. PartsFollow
      BY <1>1 DEF StagedInOrder, WritesInOrder
    <3>2. n * E \in Nat /\ Staged = n * E + current.rowCount /\ Staged \in Nat
          /\ current.rowCount \in Nat
      <4>1. n \in Nat /\ current.rowCount \in Nat
        BY <1>1
      <4>2. n * E \in Nat
        BY <4>1, FullParts
      <4>3. Staged = n * E + current.rowCount
        BY DEF Staged
      <4> HIDE DEF n
      <4>4. QED  BY <4>1, <4>2, <4>3
    <3>3. Staged' = Staged + 1
      BY <1>1, <2>2, <3>2 DEF Staged
    <3> DEFINE k == submitted - Staged
    <3>4. k \in Nat /\ batch = [i \in 1 .. k |-> Staged + i]
      <4>1. Staged <= submitted /\ batch = [i \in 1 .. k |-> Staged + i]
        BY <3>1 DEF PartsFollow
      <4>2. submitted \in Nat
        BY <1>1
      <4>3. k \in Nat
        BY <3>2, <4>1, <4>2
      <4>4. QED  BY <4>1, <4>3
    <3>5. k # 0
      <4>1. Len([i \in 1 .. k |-> Staged + i]) = k
        BY <3>4
      <4> HIDE DEF k
      <4>2. Len(batch) = k
        BY <3>4, <4>1
      <4>3. QED  BY <1>1, <4>2
    <3> HIDE DEF k
    <3>6. Head(batch) = Staged + 1
      BY <3>2, <3>4, <3>5
    <3>7. Tail(batch) = [i \in 1 .. k - 1 |-> Staged + 1 + i]
      <4> DEFINE t == Tail(batch)  u == [i \in 1 .. k - 1 |-> Staged + 1 + i]
      <4>1. Len(batch) = k /\ \A i \in 1 .. k : batch[i] = Staged + i
        BY <3>4
      <4>2. t \in Seq(Nat) /\ Len(t) = k - 1 /\ \A i \in 1 .. k - 1 : t[i] = batch[i + 1]
        <5>1. batch \in Seq(Nat) /\ Len(batch) \in Nat /\ Len(batch) # 0
          BY <1>1, <3>4, <3>5, <4>1
        <5>2. /\ Tail(batch) \in Seq(Nat) /\ Len(Tail(batch)) = Len(batch) - 1
              /\ \A i \in 1 .. Len(batch) - 1 : Tail(batch)[i] = batch[i + 1]
          BY <5>1
        <5>3. QED  BY <4>1, <5>2
      <4>3. \A i \in 1 .. k - 1 : t[i] = Staged + 1 + i
        BY <3>2, <3>4, <4>1, <4>2
      <4>4. u \in Seq(Nat) /\ Len(u) = k - 1 /\ \A i \in 1 .. k - 1 : u[i] = Staged + 1 + i
        BY <3>2, <3>4, <3>5
      <4> HIDE DEF t, u
      <4>5. t = u
        BY <4>2, <4>3, <4>4, SeqEqual
      <4>6. QED  BY <4>5 DEF t, u
    <3>8. content'[current.path] = PartOf(n + 1, current.rowCount + 1)
      <4>1. content[current.path] = PartOf(n + 1, current.rowCount)
        BY <1>1, <3>1 DEF PartsFollow
      <4>2. n + 1 \in Nat \ {0} /\ (n + 1) - 1 = n
        BY <1>1
      <4>3. Append(PartOf(n + 1, current.rowCount), ((n + 1) - 1) * E + (current.rowCount + 1))
              = PartOf(n + 1, current.rowCount + 1)
        BY <3>2, <4>2, PartIs
      <4>4. Head(batch) = n * E + (current.rowCount + 1)
        BY <3>2, <3>6
      <4> HIDE DEF n
      <4>5. QED  BY <2>4, <4>1, <4>2, <4>3, <4>4
    <3>9. \A i \in 1 .. n : content'[partPaths'[i]] = PartOf(i, E)
      <4>1. \A i \in 1 .. n : partPaths[i] \in 1 .. nextFile - 1 /\ partPaths[i] # current.path
        <5>1. DOMAIN partPaths = 1 .. n /\ \A i \in 1 .. n : partPaths[i] \in 1 .. nextFile - 1
          <6>1. partPaths \in Seq(1 .. nextFile - 1) /\ nextFile \in Nat
            BY <1>1
          <6>2. DOMAIN partPaths = 1 .. n
            BY <6>1
          <6>3. \A i \in 1 .. n : partPaths[i] \in 1 .. nextFile - 1
            BY <6>1
          <6>4. QED  BY <6>2, <6>3
        <5>2. current.path \notin {partPaths[i] : i \in DOMAIN partPaths}
          BY <1>1 DEF ToSet
        <5>3. QED  BY <5>1, <5>2
      <4>2. \A i \in 1 .. n : content[partPaths[i]] = PartOf(i, E)
        BY <3>1 DEF PartsFollow
      <4>3. \A p \in 1 .. nextFile - 1 : p # current.path => content'[p] = content[p]
        BY <2>4
      <4>4. partPaths' = partPaths
        BY <1>1
      <4> HIDE DEF n
      <4>5. QED  BY <4>1, <4>2, <4>3, <4>4
    <3>10. current'.rowCount \in 0 .. E
      <4>1. ~ (current.rowCount >= E)
        BY <1>1 DEF PartIsFull, E
      <4>2. current.rowCount \in Nat /\ current'.rowCount = current.rowCount + 1 /\ E \in Nat
        BY <2>2, <3>2, FullParts
      <4>3. QED  BY <4>1, <4>2
    <3>11. Staged' <= submitted' /\ submitted' - Staged' = k - 1
      <4>1. submitted' = submitted /\ submitted \in Nat
        BY <1>1
      <4>2. k = submitted - Staged /\ Staged \in Nat /\ k \in Nat \ {0} /\ Staged' = Staged + 1
        BY <3>2, <3>3, <3>4, <3>5 DEF k
      <4>3. QED  BY <4>1, <4>2
    <3>12. batch' = [i \in 1 .. submitted' - Staged' |-> Staged' + i]
      BY <1>3, <3>3, <3>7, <3>11
    <3>13. PartsFollow'
      BY <1>1, <2>2, <3>8, <3>9, <3>10, <3>11, <3>12 DEF PartsFollow
    <3>14. NothingOrRow'
      BY <2>2, <3>2 DEF NothingOrRow
    <3>15. QED  BY <3>13, <3>14
  <2>7. FinishesInOrder' /\ OutputIsWhole'
    BY <1>1, <2>1 DEF FinishesInOrder, OutputIsWhole
  <2>8. QED  BY <2>5, <2>6, <2>7 DEF StagedInOrder
<1>4. QED  BY <1>2, <1>3 DEF WriteRecord

\* The next page of rows follows on those before.
LEMMA WriteRowsKeepsOrder ==
    ASSUME FilesKnown, StagedInOrder, WriteRows
    PROVE  StagedInOrder'
<1>1. PICK n \in 1 .. MaxBatch : /\ batch' = [i \in 1 .. n |-> submitted + i]
                                 /\ submitted' = submitted + n
  BY DEF WriteRows
<1>2. /\ pc = "idle" /\ pc' = "write"
      /\ UNCHANGED <<nextFile, files, content, current, partPaths, output, exportFailed>>
  BY DEF WriteRows, outputVars
<1>3. submitted \in Nat /\ n \in Nat \ {0} /\ submitted' \in Nat /\ batch' \in Seq(Nat)
  <2>1. submitted \in Nat /\ n \in Nat \ {0}
    BY AssemblerAssumption DEF StagedInOrder, ContentTyped
  <2>2. \A i \in 1 .. n : submitted + i \in Nat
    BY <2>1
  <2>3. QED  BY <1>1, <2>1, <2>2
<1>4. ContentTyped'
  BY <1>2, <1>3 DEF StagedInOrder, ContentTyped
<1>5. ASSUME ~ exportFailed PROVE PartsFollow' /\ batch' # <<>>
  <2>1. PartsFollow /\ batch = <<>>
    BY <1>2, <1>5 DEF StagedInOrder, WritesInOrder
  <2>2. Staged \in Nat /\ Staged' = Staged
    <3>1. Len(partPaths) \in Nat /\ current.rowCount \in Nat
      BY DEF FilesKnown
    <3>2. Len(partPaths) * E \in Nat
      BY <3>1, FullParts
    <3>3. QED  BY <1>2, <3>1, <3>2 DEF Staged
  <2>3. submitted = Staged
    <3> DEFINE rest == [i \in 1 .. submitted - Staged |-> Staged + i]
    <3>1. DOMAIN rest = 1 .. submitted - Staged
      OBVIOUS
    <3>2. rest = <<>> /\ Staged <= submitted
      BY <2>1 DEF PartsFollow
    <3> HIDE DEF rest
    <3>3. 1 .. submitted - Staged = {}
      BY <3>1, <3>2
    <3>4. submitted - Staged \in Int
      BY <1>3, <2>2
    <3>5. 1 <= submitted - Staged => 1 \in 1 .. submitted - Staged
      BY <3>4
    <3>6. QED  BY <1>3, <2>2, <3>2, <3>3, <3>5
  <2>4. submitted' - Staged' = n /\ Staged' <= submitted'
    BY <1>1, <1>3, <2>2, <2>3
  <2>5. batch' = [i \in 1 .. submitted' - Staged' |-> Staged' + i]
    BY <1>1, <2>2, <2>3, <2>4
  <2>6. PartsFollow'
    BY <1>2, <2>1, <2>4, <2>5 DEF PartsFollow
  <2>7. batch' # <<>>
    <3>1. Len([i \in 1 .. n |-> submitted + i]) = n
      BY <1>3
    <3>2. QED  BY <1>1, <1>3, <3>1
  <2>8. QED  BY <2>6, <2>7
<1>6. WritesInOrder'
  BY <1>2, <1>5 DEF WritesInOrder
<1>7. FinishesInOrder' /\ OutputIsWhole'
  BY <1>2 DEF FinishesInOrder, OutputIsWhole
<1>8. QED  BY <1>4, <1>6, <1>7 DEF StagedInOrder

\* Once closed, the parts are the whole export.
LEMMA ClosedAreWhole ==
    ASSUME StagedInOrder, pc = "finish", current = NoPart, partPaths # <<>>
    PROVE  WholeExport([i \in 1 .. Len(partPaths) |-> content[partPaths[i]]])
BY DEF StagedInOrder, FinishesInOrder, NothingOrRow

\* The one part becomes the CSV (csv_writer.rs:205-212).
LEMMA CsvKeepsOrder ==
    ASSUME FilesKnown, StagedInOrder, FinishCsv
    PROVE  StagedInOrder'
<1>1. /\ pc = "finish" /\ current = NoPart /\ Len(partPaths) = 1 /\ partPaths' = <<>>
      /\ UNCHANGED <<nextFile, content, current, batch, submitted>>
  BY DEF FinishCsv
<1>2. ContentTyped'
  BY <1>1 DEF StagedInOrder, ContentTyped
<1>3. CASE Fault
  BY <1>2, <1>3, FaultKeepsOrder
<1>4. CASE /\ output' = [kind |-> "csv", path |-> Head(partPaths),
                         parts |-> <<content[Head(partPaths)]>>, report |-> {}]
           /\ pc' = "assembled"
  <2>1. WholeExport([i \in 1 .. Len(partPaths) |-> content[partPaths[i]]])
    <3>1. partPaths # <<>>
      BY <1>1
    <3>2. QED  BY <1>1, <3>1, ClosedAreWhole
  <2>2. output'.parts = [i \in 1 .. Len(partPaths) |-> content[partPaths[i]]]
    <3>1. partPaths \in Seq(Nat) /\ Head(partPaths) = partPaths[1]
      BY <1>1 DEF FilesKnown
    <3>2. [i \in 1 .. 1 |-> content[partPaths[i]]] = <<content[partPaths[1]]>>
      OBVIOUS
    <3>3. QED  BY <1>1, <1>4, <3>1, <3>2
  <2>3. WholeExport(output.parts)'
    BY <1>1, <2>1, <2>2 DEF WholeExport
  <2>4. output'.kind = "csv" /\ Len(output'.parts) = 1
    BY <1>4
  <2>5. OutputIsWhole'
    BY <2>3, <2>4 DEF OutputIsWhole
  <2>6. QED  BY <1>2, <1>4, <2>5 DEF StagedInOrder, WritesInOrder, FinishesInOrder
<1>5. QED  BY <1>3, <1>4 DEF FinishCsv

\* Several parts become the entries of a ZIP (csv_writer.rs:214-262).
LEMMA ZipKeepsOrder ==
    ASSUME FilesKnown, StagedInOrder, FinishZip
    PROVE  StagedInOrder'
<1>1. /\ pc = "finish" /\ current = NoPart /\ Len(partPaths) > 1 /\ partPaths' = <<>>
      /\ nextFile' = nextFile + 1 /\ content' = Append(content, <<>>)
      /\ UNCHANGED <<current, batch, submitted>>
  BY DEF FinishZip
<1>2. partPaths \in Seq(1 .. nextFile - 1) /\ nextFile \in Nat
      /\ content \in Seq(Seq(Nat)) /\ Len(content) = nextFile - 1
  BY DEF FilesKnown, StagedInOrder, ContentTyped
<1>3. ContentTyped'
  <2>1. content' \in Seq(Seq(Nat)) /\ Len(content') = nextFile' - 1
    BY <1>1, <1>2
  <2>2. QED  BY <1>1, <2>1 DEF StagedInOrder, ContentTyped
<1>4. CASE Fault
  BY <1>3, <1>4, FaultKeepsOrder
<1>5. CASE /\ output' = [kind |-> "zip", path |-> nextFile, parts |-> Entries,
                         report |-> {ReportText(summary, reportedOn')}]
           /\ pc' = "assembled"
  <2>1. WholeExport([i \in 1 .. Len(partPaths) |-> content[partPaths[i]]])
    BY <1>1, <1>2, ClosedAreWhole
  <2>2. output'.parts = [i \in 1 .. Len(partPaths) |-> content[partPaths[i]]]
        /\ output'.kind = "zip"
    <3>1. DOMAIN partPaths = 1 .. Len(partPaths)
      BY <1>2
    <3>2. QED  BY <1>5, <3>1 DEF Entries
  <2>3. WholeExport(output.parts)'
    BY <1>1, <2>1, <2>2 DEF WholeExport
  <2>4. Len(output'.parts) = Len(partPaths) /\ Len(output'.parts) # 1
    <3> DEFINE k == Len(partPaths)
    <3>1. k \in Nat /\ k > 1
      BY <1>1, <1>2
    <3>2. output'.parts = [i \in 1 .. k |-> content[partPaths[i]]]
      BY <2>2
    <3> HIDE DEF k
    <3>3. Len(output'.parts) = k
      BY <3>1, <3>2
    <3>4. k # 1
      BY <3>1
    <3>5. QED  BY <3>3, <3>4 DEF k
  <2>5. OutputIsWhole'
    BY <2>2, <2>3, <2>4 DEF OutputIsWhole
  <2>6. QED  BY <1>3, <1>5, <2>5 DEF StagedInOrder, WritesInOrder, FinishesInOrder
<1>6. QED  BY <1>4, <1>5 DEF FinishZip

\* Whatever fails, the rows are staged in order, and what is assembled is the
\* whole export in parts as full as they may be.
THEOREM OrderIsKept == Spec => []StagedInOrder
<1>1. Init => StagedInOrder
  <2> SUFFICES ASSUME Init PROVE StagedInOrder
    OBVIOUS
  <2>1. /\ nextFile = 1 /\ content = <<>> /\ current = NoPart /\ partPaths = <<>>
        /\ batch = <<>> /\ pc = "idle" /\ submitted = 0
    BY DEF Init
  <2>2. Staged = 0
    <3>1. 0 * E = 0 /\ Len(partPaths) = 0 /\ current.rowCount = 0
      BY <2>1, FullParts DEF NoPart
    <3>2. QED  BY <3>1 DEF Staged
  <2>3. [i \in 1 .. submitted - Staged |-> Staged + i] = <<>>
    BY <2>1, <2>2
  <2>4. PartsFollow
    <3>1. current.rowCount \in 0 .. E
      BY <2>1, FullParts DEF NoPart
    <3>2. QED  BY <2>1, <2>2, <2>3, <3>1 DEF PartsFollow
  <2>5. QED
    BY <2>1, <2>4 DEF StagedInOrder, ContentTyped, WritesInOrder, NothingOrRow,
                      FinishesInOrder, OutputIsWhole
<1>2. FilesKnown /\ StagedInOrder /\ [Next]_vars => StagedInOrder'
  <2> SUFFICES ASSUME FilesKnown, StagedInOrder, [Next]_vars PROVE StagedInOrder'
    OBVIOUS
  <2> USE DEF outputVars
  <2>1. CASE WriteRows
    BY <2>1, WriteRowsKeepsOrder
  <2>2. CASE OpenForRow
    BY <2>2, OpenKeepsOrder DEF OpenForRow
  <2>3. CASE CloseFull
    BY <2>3, CloseKeepsOrder DEF CloseFull
  <2>4. CASE WriteRecord
    BY <2>4, RecordKeepsOrder
  <2>5. CASE WriteDone
    <3>1. /\ pc = "write" /\ pc' = "idle" /\ batch = <<>>
          /\ UNCHANGED <<nextFile, content, current, partPaths, batch, submitted, exportFailed>>
      BY <2>5 DEF WriteDone
    <3>2. QED
      BY <3>1 DEF StagedInOrder, ContentTyped, WritesInOrder, PartsFollow, Staged,
                  NothingOrRow, FinishesInOrder, OutputIsWhole
  <2>6. CASE Abort
    BY <2>6 DEF Abort, StagedInOrder, ContentTyped, WritesInOrder, FinishesInOrder,
                OutputIsWhole
  <2>7. CASE Drop
    BY <2>7 DEF Drop, StagedInOrder, ContentTyped, WritesInOrder, FinishesInOrder,
                OutputIsWhole
  <2>8. CASE Finish
    <3>1. /\ pc = "idle" /\ pc' = "finish" /\ ~ exportFailed
          /\ UNCHANGED <<nextFile, content, current, partPaths, batch, submitted, exportFailed>>
      BY <2>8 DEF Finish
    <3>2. PartsFollow /\ batch = <<>> /\ NothingOrRow
      BY <3>1 DEF StagedInOrder, WritesInOrder
    <3>3. PartsFollow' /\ batch' = <<>> /\ NothingOrRow'
      BY <3>1, <3>2 DEF PartsFollow, Staged, NothingOrRow
    <3>4. QED
      BY <3>1, <3>3 DEF StagedInOrder, ContentTyped, WritesInOrder, FinishesInOrder,
                        OutputIsWhole
  <2>9. CASE OpenHeaderOnly
    BY <2>9, OpenKeepsOrder DEF OpenHeaderOnly
  <2>10. CASE CloseFinal
    BY <2>10, CloseKeepsOrder DEF CloseFinal
  <2>11. CASE FinishCsv
    BY <2>11, CsvKeepsOrder
  <2>12. CASE FinishZip
    BY <2>12, ZipKeepsOrder
  <2>13. CASE Respond
    <3>1. /\ pc = "assembled"
          /\ UNCHANGED <<nextFile, content, current, partPaths, batch, submitted, output>>
      BY <2>13 DEF Respond
    <3>2. ContentTyped'
      BY <3>1 DEF StagedInOrder, ContentTyped
    <3>3. CASE Fault
      BY <3>2, <3>3, FaultKeepsOrder
    <3>4. CASE pc' \in {"refused", "responded"}
      <4>1. OutputIsWhole'
        BY <3>1, <3>4 DEF StagedInOrder, OutputIsWhole, WholeExport
      <4>2. QED  BY <3>2, <3>4, <4>1 DEF StagedInOrder, WritesInOrder, FinishesInOrder
    <3>5. QED  BY <2>13, <3>3, <3>4 DEF Respond
  <2>14. CASE UNCHANGED vars
    <3>1. UNCHANGED <<nextFile, content, current, partPaths, batch, submitted, output, pc,
                      exportFailed>>
      BY <2>14 DEF vars, errorVars
    <3>2. QED
      BY <3>1 DEF StagedInOrder, ContentTyped, WritesInOrder, PartsFollow, Staged,
                  NothingOrRow, FinishesInOrder, OutputIsWhole, WholeExport
  <2>15. QED
    BY <2>1, <2>2, <2>3, <2>4, <2>5, <2>6, <2>7, <2>8, <2>9, <2>10, <2>11, <2>12,
       <2>13, <2>14 DEF Next
<1>3. QED  BY <1>1, <1>2, FilesAreKnown, PTL DEF Spec

(***************************************************************************)
(* What the client is sent.                                                *)
(***************************************************************************)

\* The answer is the one for the export, or a refusal for a reason.
AnswerFits ==
    /\ pc \in {"responded", "refused"} => request.mb \in Nat
    /\ pc = "responded" =>
         /\ ~ TooLargeToExpand(output.kind, StagedLength, request.acceptEncoding, request.mb)
         /\ reply = Response(output.kind, StagedLength, output.parts, summary,
                             request.acceptEncoding)
    /\ pc = "refused" =>
         \/ reply = Render("BadGateway", 0, request.accept)
         \/ /\ TooLargeToExpand(output.kind, StagedLength, request.acceptEncoding, request.mb)
            /\ reply = Render("NotAcceptable", 0, request.accept)

\* Nothing is answered but by Respond.
LEMMA OthersDoNotAnswer ==
    ASSUME FilesKnown, Next, ~ Respond
    PROVE  pc' \notin {"responded", "refused"}
<1> USE DEF errorVars
<1>1. ASSUME OpenNewPart \/ CloseCurrentPart, pc \in {"write", "finish"}
      PROVE  pc' \notin {"responded", "refused"}
  <2>1. CASE Fault
    BY <1>1, <2>1, FaultEnds
  <2>2. CASE UNCHANGED errorVars
    BY <1>1, <2>2
  <2>3. QED  BY <1>1, <2>1, <2>2 DEF OpenNewPart, CloseCurrentPart
<1>2. CASE OpenForRow \/ CloseFull \/ OpenHeaderOnly \/ CloseFinal
  BY <1>1, <1>2 DEF OpenForRow, CloseFull, OpenHeaderOnly, CloseFinal
<1>3. CASE WriteRecord \/ FinishCsv \/ FinishZip
  <2>1. CASE Fault
    BY <1>3, <2>1, FaultEnds DEF WriteRecord, FinishCsv, FinishZip
  <2>2. CASE ~ Fault
    BY <1>3, <2>2 DEF WriteRecord, FinishCsv, FinishZip
  <2>3. QED  BY <2>1, <2>2
<1>4. CASE WriteRows \/ WriteDone \/ Abort \/ Drop \/ Finish
  BY <1>4 DEF WriteRows, WriteDone, Abort, Drop, Finish
<1>5. QED  BY <1>2, <1>3, <1>4 DEF Next

\* build_response answers for the file that was staged, as it is.
THEOREM AnswersAreFit == Spec => []AnswerFits
<1>1. Init => AnswerFits
  BY DEF Init, AnswerFits
<1>2. FilesKnown /\ AnswerFits /\ [Next]_vars => AnswerFits'
  <2> SUFFICES ASSUME FilesKnown, AnswerFits, [Next]_vars PROVE AnswerFits'
    OBVIOUS
  <2>1. CASE Respond
    <3>1. /\ pc = "assembled" /\ output' = output /\ summary' = summary
          /\ request' \in [accept : Accepts, acceptEncoding : AcceptEncodings, mb : ThresholdMbs]
      BY <2>1 DEF Respond
    <3>2. request'.mb \in Nat /\ StagedLength' = StagedLength
      BY <3>1, AssemblerAssumption DEF StagedLength
    <3>3. CASE /\ Fault
               /\ reply' = Render("BadGateway", 0, request'.accept)
      <4>1. pc' = "refused"
        BY <3>1, <3>3, FaultEnds
      <4>2. QED  BY <3>2, <3>3, <4>1 DEF AnswerFits
    <3>4. CASE /\ TooLargeToExpand(output.kind, StagedLength, request'.acceptEncoding,
                                   request'.mb)
               /\ pc' = "refused"
               /\ reply' = Render("NotAcceptable", 0, request'.accept)
      BY <3>1, <3>2, <3>4 DEF AnswerFits, TooLargeToExpand
    <3>5. CASE /\ ~ TooLargeToExpand(output.kind, StagedLength, request'.acceptEncoding,
                                     request'.mb)
               /\ pc' = "responded"
               /\ reply' = Response(output.kind, StagedLength, output.parts, summary,
                                    request'.acceptEncoding)
      BY <3>1, <3>2, <3>5 DEF AnswerFits, TooLargeToExpand, Response, Length, FileName
    <3>6. QED  BY <2>1, <3>3, <3>4, <3>5 DEF Respond
  <2>2. CASE Next /\ ~ Respond
    BY <2>2, OthersDoNotAnswer DEF AnswerFits
  <2>3. CASE UNCHANGED vars
    <3>1. UNCHANGED <<pc, request, reply, output, summary>>
      BY <2>3 DEF vars, outputVars, replyVars, errorVars
    <3>2. StagedLength' = StagedLength
      BY <3>1 DEF StagedLength
    <3>3. QED  BY <3>1, <3>2 DEF AnswerFits, TooLargeToExpand
  <2>4. QED  BY <2>1, <2>2, <2>3
<1>3. QED  BY <1>1, <1>2, FilesAreKnown, PTL DEF Spec

\* The numbers up to a, and those after them.
LEMMA CountOn ==
    ASSUME NEW a \in Nat, NEW c \in Nat
    PROVE  [j \in 1 .. a |-> j] \o [j \in 1 .. c |-> a + j] = [j \in 1 .. a + c |-> j]
<1> DEFINE p == [j \in 1 .. a |-> j]  q == [j \in 1 .. c |-> a + j]  r == [j \in 1 .. a + c |-> j]
<1>1. /\ p \in Seq(Nat) /\ Len(p) = a /\ \A j \in 1 .. a : p[j] = j
      /\ q \in Seq(Nat) /\ Len(q) = c /\ \A j \in 1 .. c : q[j] = a + j
      /\ r \in Seq(Nat) /\ Len(r) = a + c /\ \A j \in 1 .. a + c : r[j] = j
  OBVIOUS
<1> HIDE DEF p, q, r
<1>2. p \o q \in Seq(Nat) /\ Len(p \o q) = a + c
  BY <1>1
<1>3. \A j \in 1 .. a + c : (p \o q)[j] = IF j <= a THEN p[j] ELSE q[j - a]
  <2>1. p \in Seq(Nat) /\ Len(p) = a /\ q \in Seq(Nat) /\ Len(q) = c
    BY <1>1
  <2>2. \A j \in 1 .. Len(p) + Len(q) : (p \o q)[j] = IF j <= Len(p) THEN p[j] ELSE q[j - Len(p)]
    BY <2>1, ConcatProperties
  <2>3. QED  BY <2>1, <2>2
<1>4. ASSUME NEW j \in 1 .. a + c PROVE (p \o q)[j] = r[j]
  <2>1. CASE j <= a
    BY <1>1, <1>3, <2>1
  <2>2. CASE ~ (j <= a)
    <3>1. j - a \in 1 .. c /\ a + (j - a) = j
      BY <2>2
    <3>2. q[j - a] = j
      BY <1>1, <3>1
    <3>3. (p \o q)[j] = q[j - a] /\ r[j] = j
      BY <1>1, <1>3, <2>2
    <3>4. QED  BY <3>2, <3>3
  <2>3. QED  BY <2>1, <2>2
<1>5. p \o q = r
  BY <1>1, <1>2, <1>4, SeqEqual
<1>6. QED  BY <1>5 DEF p, q, r

\* Without the headers, the parts of a whole export hold every row, in order.
LEMMA WholeInOrder ==
    ASSUME NEW parts, WholeExport(parts), submitted \in Nat
    PROVE  FlattenSeq([i \in DOMAIN parts |-> Tail(parts[i])]) = [i \in 1 .. submitted |-> i]
<1> DEFINE n == Len(parts)  tails == [i \in DOMAIN parts |-> Tail(parts[i])]
           g == [i \in 1 .. n |-> [j \in 1 .. (IF i < n THEN i * E ELSE submitted) |-> j]]
<1>1. PICK last \in 0 .. E :
        /\ \A i \in 1 .. n : parts[i] = PartOf(i, IF i < n THEN E ELSE last)
        /\ submitted = (n - 1) * E + last
        /\ last = 0 => n = 1
  BY DEF WholeExport
<1>2. n \in Nat \ {0} /\ DOMAIN parts = 1 .. n /\ last \in Nat
  <2>1. parts \in Seq(Seq(Nat)) /\ parts # <<>>
    BY DEF WholeExport
  <2>2. n \in Nat \ {0} /\ DOMAIN parts = 1 .. n
    BY <2>1
  <2>3. QED  BY <2>2, FullParts
<1> HIDE DEF n
<1> DEFINE rows(i) == IF i < n THEN E ELSE last
<1>3. \A i \in 1 .. n : rows(i) \in Nat /\ tails[i] = [j \in 1 .. rows(i) |-> (i - 1) * E + j]
  <2> SUFFICES ASSUME NEW i \in 1 .. n
               PROVE  rows(i) \in Nat /\ tails[i] = [j \in 1 .. rows(i) |-> (i - 1) * E + j]
    OBVIOUS
  <2>1. rows(i) \in Nat
    BY <1>2, FullParts
  <2>2. tails[i] = Tail(PartOf(i, rows(i)))
    BY <1>1, <1>2
  <2> HIDE DEF rows, tails
  <2>3. i \in Nat \ {0}
    BY <1>2
  <2>4. QED  BY <2>1, <2>2, <2>3, PartIs
<1>4. \A i \in Nat \ {0} : (i - 1) * E \in Nat /\ i * E = (i - 1) * E + E
  <2> SUFFICES ASSUME NEW i \in Nat \ {0}
               PROVE  (i - 1) * E \in Nat /\ i * E = (i - 1) * E + E
    OBVIOUS
  <2>1. i - 1 \in Nat /\ (i - 1) + 1 = i
    OBVIOUS
  <2>2. QED  BY <2>1, FullParts
<1>5. tails \in Seq(Seq(Nat)) /\ Len(tails) = n /\ tails # <<>>
  <2>1. ASSUME NEW i \in 1 .. n PROVE tails[i] \in Seq(Nat)
    <3>1. rows(i) \in Nat /\ (i - 1) * E \in Nat
      <4>1. i \in Nat \ {0}
        BY <1>2
      <4> HIDE DEF rows, tails
      <4>2. QED  BY <1>3, <1>4, <4>1
    <3> HIDE DEF rows
    <3>2. [j \in 1 .. rows(i) |-> (i - 1) * E + j] \in Seq(Nat)
      BY <3>1
    <3>3. QED  BY <1>3, <3>2 DEF rows
  <2>2. tails = [i \in 1 .. n |-> tails[i]]
    BY <1>2
  <2> HIDE DEF tails
  <2>3. tails \in Seq(Seq(Nat)) /\ Len(tails) = n
    BY <1>2, <2>1, <2>2
  <2>4. QED  BY <1>2, <2>3
<1>6. \A i \in 1 .. n : (i - 1) * E + rows(i) = IF i < n THEN i * E ELSE submitted
  <2> SUFFICES ASSUME NEW i \in 1 .. n
               PROVE  (i - 1) * E + rows(i) = IF i < n THEN i * E ELSE submitted
    OBVIOUS
  <2>1. CASE i < n
    BY <1>2, <1>4, <2>1
  <2>2. CASE ~ (i < n)
    <3>1. i = n
      BY <1>2, <2>2
    <3>2. QED  BY <1>1, <2>2, <3>1
  <2>3. QED  BY <2>1, <2>2
<1>7. \A i \in 1 .. n : g[i] = [j \in 1 .. (i - 1) * E + rows(i) |-> j]
  <2> SUFFICES ASSUME NEW i \in 1 .. n PROVE g[i] = [j \in 1 .. (i - 1) * E + rows(i) |-> j]
    OBVIOUS
  <2>1. g[i] = [j \in 1 .. (IF i < n THEN i * E ELSE submitted) |-> j]
    OBVIOUS
  <2> HIDE DEF g, rows
  <2>2. QED  BY <1>6, <2>1 DEF rows
<1>8. Concatenates(g, tails, n)
  <2>1. g[1] = tails[1]
    <3>1. 1 \in 1 .. n /\ (1 - 1) * E = 0 /\ rows(1) \in Nat
      BY <1>2, <1>3, FullParts
    <3>2. g[1] = [j \in 1 .. rows(1) |-> j]
      <4>1. g[1] = [j \in 1 .. (1 - 1) * E + rows(1) |-> j]
        BY <1>7, <3>1
      <4> HIDE DEF rows, g
      <4>2. QED  BY <3>1, <4>1
    <3>3. tails[1] = [j \in 1 .. rows(1) |-> j]
      <4>1. tails[1] = [j \in 1 .. rows(1) |-> (1 - 1) * E + j]
        BY <1>3, <3>1
      <4> HIDE DEF rows, tails
      <4>2. \A j \in 1 .. rows(1) : (1 - 1) * E + j = j
        BY <3>1
      <4>3. QED  BY <4>1, <4>2
    <3>4. QED  BY <3>2, <3>3
  <2>2. ASSUME NEW i \in 2 .. n PROVE g[i] = g[i - 1] \o tails[i]
    <3>1. i \in 1 .. n /\ i - 1 \in 1 .. n /\ i - 1 < n
      BY <1>2
    <3> DEFINE a == (i - 1) * E
    <3>2. a \in Nat /\ rows(i) \in Nat
      <4>1. i \in Nat \ {0}
        BY <1>2
      <4> HIDE DEF rows, tails
      <4>2. QED  BY <1>3, <1>4, <3>1, <4>1
    <3>3. g[i - 1] = [j \in 1 .. a |-> j]
      BY <3>1
    <3>4. tails[i] = [j \in 1 .. rows(i) |-> a + j]
      BY <1>3, <3>1
    <3>5. g[i] = [j \in 1 .. a + rows(i) |-> j]
      BY <1>7, <3>1
    <3> HIDE DEF a, g, rows, tails
    <3>6. [j \in 1 .. a |-> j] \o [j \in 1 .. rows(i) |-> a + j] = [j \in 1 .. a + rows(i) |-> j]
      BY <3>2, CountOn
    <3>7. QED  BY <3>3, <3>4, <3>5, <3>6
  <2>3. QED  BY <2>1, <2>2 DEF Concatenates
<1>9. g[n] = [j \in 1 .. submitted |-> j]
  BY <1>2
<1> HIDE DEF g, tails
<1>10. FlattenSeq(tails) = g[n]
  BY <1>5, <1>8, FlattenIs
<1>11. QED  BY <1>9, <1>10 DEF tails

\* A client that is sent status 200 is sent every staged row, once and in order.
THEOREM NothingPartial == Spec => []NeverPartial
<1>1. StagedInOrder /\ AnswerFits => NeverPartial
  <2> SUFFICES ASSUME StagedInOrder, AnswerFits, pc = "responded"
               PROVE  /\ reply.body.parts # <<>>
                      /\ \A i \in DOMAIN reply.body.parts : Head(reply.body.parts[i]) = Header
                      /\ FlattenSeq([i \in DOMAIN reply.body.parts |-> Tail(reply.body.parts[i])]) =
                           [i \in 1 .. submitted |-> i]
    BY DEF NeverPartial
  <2> DEFINE sent == output.parts
  <2>1. reply.body.parts = sent
    <3>1. reply = Response(output.kind, StagedLength, output.parts, summary,
                           request.acceptEncoding)
      BY DEF AnswerFits
    <3>2. reply.body.parts = output.parts
      BY <3>1 DEF Response
    <3>3. QED  BY <3>2
  <2>2. WholeExport(sent) /\ submitted \in Nat
    BY DEF StagedInOrder, OutputIsWhole, ContentTyped
  <2> HIDE DEF sent
  <2>3. sent \in Seq(Seq(Nat)) /\ sent # <<>>
    BY <2>2 DEF WholeExport
  <2>4. ASSUME NEW i \in DOMAIN sent PROVE Head(sent[i]) = Header
    <3>1. PICK last \in 0 .. E :
            \A k \in 1 .. Len(sent) : sent[k] = PartOf(k, IF k < Len(sent) THEN E ELSE last)
      BY <2>2 DEF WholeExport
    <3>2. i \in 1 .. Len(sent) /\ i \in Nat \ {0}
      BY <2>3
    <3> DEFINE rows == IF i < Len(sent) THEN E ELSE last
    <3>3. rows \in Nat /\ sent[i] = PartOf(i, rows)
      BY <3>1, <3>2, FullParts
    <3> HIDE DEF rows
    <3>4. QED  BY <3>2, <3>3, PartIs
  <2>5. FlattenSeq([i \in DOMAIN sent |-> Tail(sent[i])]) = [i \in 1 .. submitted |-> i]
    BY <2>2, WholeInOrder
  <2>6. QED  BY <2>1, <2>3, <2>4, <2>5
<1>2. QED  BY <1>1, OrderIsKept, AnswersAreFit, PTL

\* Every part but the last is full, no part is larger, and a ZIP has no part
\* with only a header.
THEOREM PartsDoFitExcel == Spec => []PartsFitExcel
<1>1. StagedInOrder => PartsFitExcel
  <2> DEFINE sent == output.parts  n == Len(sent)  size(i) == Len(sent[i]) - 1
  <2> SUFFICES ASSUME StagedInOrder, pc \in {"assembled", "responded"}, NEW i \in DOMAIN sent
               PROVE  IF i < n THEN size(i) = EXCEL_MAX_DATA_ROWS
                      ELSE /\ size(i) <= EXCEL_MAX_DATA_ROWS
                           /\ size(i) = 0 => output.kind = "csv"
    BY DEF PartsFitExcel
  <2>1. WholeExport(sent) /\ (n = 1 => output.kind = "csv")
    BY DEF StagedInOrder, OutputIsWhole
  <2>2. PICK last \in 0 .. E :
          /\ \A k \in 1 .. n : sent[k] = PartOf(k, IF k < n THEN E ELSE last)
          /\ last = 0 => n = 1
    BY <2>1 DEF WholeExport
  <2>3. i \in 1 .. n /\ i \in Nat \ {0} /\ E \in Nat /\ last \in Nat /\ last <= E
    <3>1. sent \in Seq(Seq(Nat))
      BY <2>1 DEF WholeExport
    <3>2. i \in 1 .. n /\ n \in Nat
      BY <3>1
    <3>3. QED  BY <3>2, FullParts
  <2>4. sent[i] = PartOf(i, IF i < n THEN E ELSE last)
    BY <2>2, <2>3
  <2>5. \A c \in Nat : Len(PartOf(i, c)) - 1 = c
    <3>1. \A c \in Nat : Len(PartOf(i, c)) = c + 1
      BY <2>3, PartIs
    <3>2. QED  BY <3>1
  <2>6. size(i) = IF i < n THEN E ELSE last
    BY <2>3, <2>4, <2>5
  <2> HIDE DEF size, n, sent
  <2>7. QED  BY <2>1, <2>2, <2>3, <2>6 DEF E
<1>2. QED  BY <1>1, OrderIsKept, PTL

\* The headers of an answer describe the bytes that follow.
THEOREM HeadersDescribe == Spec => []AnnouncedAsSent
<1>1. StagedInOrder /\ AnswerFits => AnnouncedAsSent
  <2> SUFFICES ASSUME StagedInOrder, AnswerFits PROVE AnnouncedAsSent
    OBVIOUS
  <2>1. ASSUME pc = "responded"
        PROVE  /\ reply.contentEncoding = "gzip" <=>
                    output.kind = "csv" /\ reply.body.form = "as staged"
               /\ reply.contentEncoding = "gzip" => AcceptsGzip(request.acceptEncoding)
               /\ reply.contentLength = IF reply.body.form = "expanded" THEN {}
                                        ELSE {StagedLength}
               /\ reply.fileName.extension = "csv" <=> reply.contentType = "text/csv"
    <3>1. reply = Response(output.kind, StagedLength, output.parts, summary,
                           request.acceptEncoding)
      BY <2>1 DEF AnswerFits
    <3>2. /\ reply.contentEncoding = IF output.kind = "csv" /\ AcceptsGzip(request.acceptEncoding)
                                     THEN "gzip" ELSE "identity"
          /\ reply.body.form = IF output.kind = "csv" /\ ~ AcceptsGzip(request.acceptEncoding)
                               THEN "expanded" ELSE "as staged"
          /\ reply.contentLength = Length(output.kind, StagedLength, request.acceptEncoding)
          /\ reply.fileName.extension = output.kind
          /\ reply.contentType = IF output.kind = "csv" THEN "text/csv" ELSE "application/zip"
      BY <3>1 DEF Response, FileName
    <3>3. QED  BY <3>2 DEF Length
  <2>2. ASSUME pc = "refused"
        PROVE  /\ reply.status \in {406, 502} /\ reply.retryAfter = {}
               /\ reply.contentType = "text/html" <=>
                    reply.status # 406 /\ PrefersHtml(request.accept)
    <3>1. PICK err \in {"BadGateway", "NotAcceptable"} : reply = Render(err, 0, request.accept)
      BY <2>2 DEF AnswerFits
    <3>2. /\ reply.status = StatusCode(err) /\ reply.retryAfter = RetryAfter(err, 0)
          /\ reply.contentType = IF err # "NotAcceptable" /\ PrefersHtml(request.accept)
                                 THEN "text/html" ELSE "text/plain"
      BY <3>1 DEF Render
    <3>3. StatusCode("BadGateway") = 502 /\ StatusCode("NotAcceptable") = 406
      BY DEF StatusCode
    <3>4. RetryAfter("BadGateway", 0) = {} /\ RetryAfter("NotAcceptable", 0) = {}
      BY DEF RetryAfter, ApiErrors
    <3>5. QED  BY <3>2, <3>3, <3>4
  <2>3. QED  BY <2>1, <2>2 DEF AnnouncedAsSent
<1>2. QED  BY <1>1, OrderIsKept, AnswersAreFit, PTL

\* A product that does not wrap is the threshold; one that does is above it.
LEMMA ThresholdBelow ==
    ASSUME NEW mb \in Nat
    PROVE  /\ mb * BYTES_PER_MB \in Nat
           /\ Threshold(mb) \in Nat /\ Threshold(mb) <= mb * BYTES_PER_MB
           /\ mb * BYTES_PER_MB < SizeModulus => Threshold(mb) = mb * BYTES_PER_MB
<1> DEFINE x == mb * BYTES_PER_MB
<1>1. x \in Nat /\ SizeModulus \in Nat \ {0}
  <2>1. BYTES_PER_MB \in Nat
    BY ExportResponseAssumption
  <2>2. QED  BY <2>1, ExportResponseAssumption
<1> HIDE DEF x
<1>2. x % SizeModulus \in Nat /\ x % SizeModulus <= x /\ (x < SizeModulus => x % SizeModulus = x)
  BY <1>1
<1>3. QED  BY <1>1, <1>2 DEF Threshold, x

\* A CSV is sent expanded exactly up to the threshold.
THEOREM ExpandedWithinThreshold == Spec => []UncompressedWithinThreshold
<1>1. StagedInOrder /\ AnswerFits => UncompressedWithinThreshold
  <2> SUFFICES ASSUME StagedInOrder, AnswerFits PROVE UncompressedWithinThreshold
    OBVIOUS
  <2>1. ASSUME pc = "responded", reply.body.form = "expanded"
        PROVE  StagedLength <= request.mb * BYTES_PER_MB
    <3>1. /\ request.mb \in Nat
          /\ ~ TooLargeToExpand(output.kind, StagedLength, request.acceptEncoding, request.mb)
          /\ reply = Response(output.kind, StagedLength, output.parts, summary,
                              request.acceptEncoding)
      BY <2>1 DEF AnswerFits
    <3>2. output.kind = "csv" /\ ~ AcceptsGzip(request.acceptEncoding)
      <4>1. reply.body.form = IF output.kind = "csv" /\ ~ AcceptsGzip(request.acceptEncoding)
                              THEN "expanded" ELSE "as staged"
        BY <3>1 DEF Response
      <4>2. QED  BY <2>1, <4>1
    <3>3. StagedLength \in Nat
      <4>1. output.parts \in Seq(Seq(Nat)) /\ output.parts # <<>>
        BY <2>1 DEF StagedInOrder, OutputIsWhole, WholeExport
      <4>2. FlattenSeq(output.parts) \in Seq(Nat)
        BY <4>1, FlattenIs
      <4>3. QED  BY <4>2 DEF StagedLength
    <3>4. ~ (StagedLength > Threshold(request.mb))
      BY <3>1, <3>2 DEF TooLargeToExpand
    <3>5. QED  BY <3>1, <3>3, <3>4, ThresholdBelow
  <2>2. ASSUME pc = "refused", reply.status = 406
        PROVE  /\ output.kind = "csv" /\ ~ AcceptsGzip(request.acceptEncoding)
               /\ request.mb * BYTES_PER_MB < SizeModulus =>
                    StagedLength > request.mb * BYTES_PER_MB
    <3>1. reply # Render("BadGateway", 0, request.accept)
      <4>1. Render("BadGateway", 0, request.accept).status = 502
        BY DEF Render, StatusCode
      <4>2. QED  BY <2>2, <4>1
    <3>2. /\ request.mb \in Nat
          /\ TooLargeToExpand(output.kind, StagedLength, request.acceptEncoding, request.mb)
      BY <2>2, <3>1 DEF AnswerFits
    <3>3. QED  BY <3>2, ThresholdBelow DEF TooLargeToExpand
  <2>3. QED  BY <2>1, <2>2 DEF UncompressedWithinThreshold
<1>2. QED  BY <1>1, OrderIsKept, AnswersAreFit, PTL

(***************************************************************************)
(* The calendar of the report.                                             *)
(***************************************************************************)

\* The leap years up to a year, by the rule of the calendar.
Leaps(y) == y \div 4 - y \div 100 + y \div 400

\* One year more, and one leap year more if it is one.
LEMMA LeapsGrow ==
    ASSUME NEW y \in Nat \ {0}
    PROVE  Leaps(y) = Leaps(y - 1) + (IF LeapYear(y) THEN 1 ELSE 0)
<1>1. y \div 4 = (y - 1) \div 4 + (IF y % 4 = 0 THEN 1 ELSE 0)  BY SMT
<1>2. y \div 100 = (y - 1) \div 100 + (IF y % 100 = 0 THEN 1 ELSE 0)  BY SMT
<1>3. y \div 400 = (y - 1) \div 400 + (IF y % 400 = 0 THEN 1 ELSE 0)  BY SMT
<1>4. y % 400 = 0 => y % 100 = 0  BY SMT
<1>5. y % 100 = 0 => y % 4 = 0  BY SMT
<1>6. /\ (y - 1) \div 4 \in Int /\ (y - 1) \div 100 \in Int /\ (y - 1) \div 400 \in Int
  BY SMT
<1>7. QED  BY <1>1, <1>2, <1>3, <1>4, <1>5, <1>6, SMT DEF Leaps, LeapYear

\* The leap years from 1970 on and before a year, and how many they are.
LeapYearsBefore(y) == {x \in 1970 .. y - 1 : LeapYear(x)}

LeapYearsCounted(y) ==
    /\ IsFiniteSet(LeapYearsBefore(y))
    /\ Cardinality(LeapYearsBefore(y)) = Leaps(y - 1) - 477

\* The leap years counted one by one are those of the rule.
LEMMA LeapYearsAre ==
    \A year \in Nat : 1970 <= year => LeapYearsCounted(year)
<1> DEFINE Wrong == {n \in Nat : 1970 <= n /\ ~ LeapYearsCounted(n)}
<1>1. SUFFICES ASSUME Wrong # {} PROVE FALSE
  BY SMT
<1>2. PICK n \in Wrong : \A m \in Wrong : n <= m
  <2>1. Wrong \subseteq Nat  OBVIOUS
  <2> HIDE DEF Wrong
  <2>2. QED  BY <1>1, <2>1, LeastElement
<1>3. n \in Nat /\ 1970 <= n /\ ~ LeapYearsCounted(n)
  BY <1>2, SMT
<1>4. ASSUME n = 1970 PROVE LeapYearsCounted(n)
  <2>1. LeapYearsBefore(n) = {}  BY <1>4, SMT DEF LeapYearsBefore
  <2>2. Leaps(1969) = 477  BY SMT DEF Leaps
  <2>3. QED  BY <2>1, <2>2, <1>4, FS_EmptySet, SMT DEF LeapYearsCounted
<1>5. ASSUME n > 1970 PROVE LeapYearsCounted(n)
  <2>1. n - 1 \notin Wrong /\ n - 1 \in Nat /\ 1970 <= n - 1 /\ n - 1 # 0
    BY <1>2, <1>3, <1>5, SMT
  <2>2. LeapYearsCounted(n - 1)
    BY <2>1, SMT
  <2>3. LeapYearsBefore(n) =
          LeapYearsBefore(n - 1) \cup (IF LeapYear(n - 1) THEN {n - 1} ELSE {})
    BY <1>3, <1>5, SMT DEF LeapYearsBefore
  <2>4. n - 1 \notin LeapYearsBefore(n - 1)
    BY <1>3, SMT DEF LeapYearsBefore
  <2> DEFINE before == LeapYearsBefore(n - 1)
  <2>5. IsFiniteSet(before) /\ Cardinality(before) = Leaps(n - 2) - 477
    BY <2>2, <1>3, SMT DEF LeapYearsCounted
  <2>6. Cardinality(before) \in Nat  BY <2>5, FS_CardinalityType
  <2>7. IsFiniteSet(LeapYearsBefore(n))
        /\ Cardinality(LeapYearsBefore(n)) =
             Cardinality(before) + (IF LeapYear(n - 1) THEN 1 ELSE 0)
    <3> HIDE DEF before
    <3>1. LeapYearsBefore(n) = before \cup (IF LeapYear(n - 1) THEN {n - 1} ELSE {})
      BY <2>3 DEF before
    <3>2. n - 1 \notin before  BY <2>4 DEF before
    <3>3. CASE LeapYear(n - 1)
      BY <3>1, <3>2, <3>3, <2>5, FS_AddElement
    <3>4. CASE ~ LeapYear(n - 1)
      <4>1. LeapYearsBefore(n) = before  BY <3>4, <3>1
      <4>2. QED  BY <4>1, <3>4, <2>5, <2>6
    <3>5. QED  BY <3>3, <3>4
  <2>8. Leaps(n - 1) = Leaps(n - 2) + (IF LeapYear(n - 1) THEN 1 ELSE 0)
    BY <2>1, LeapsGrow, SMT
  <2>9. Leaps(n - 2) \in Int  BY <2>1, SMT DEF Leaps
  <2>10. QED
    <3> HIDE DEF before
    <3>1. Cardinality(LeapYearsBefore(n)) = Leaps(n - 1) - 477
      BY <2>5, <2>6, <2>7, <2>8, <2>9, SMT
    <3>2. QED  BY <3>1, <2>7, SMT DEF LeapYearsCounted
<1>6. QED  BY <1>3, <1>4, <1>5, SMT

\* The year of the era is the right one: no day lies before its first or after
\* its last, and it has a 366th day only if a leap year begins before it ends.
LEMMA YearOfEra ==
  ASSUME NEW doe \in Nat, doe <= 146096
  PROVE  /\ YearInEra(doe) \in Nat /\ YearInEra(doe) <= 399
         /\ DayInYear(doe) \in Nat /\ DayInYear(doe) <= 365
         /\ DayInYear(doe) = 365 =>
              /\ (YearInEra(doe) + 1) % 4 = 0
              /\ (YearInEra(doe) + 1) % 100 # 0 \/ YearInEra(doe) = 399
<1> DEFINE a == doe \div 1460
           b == doe \div 36524
           c == doe \div 146096
           y == YearInEra(doe)
           q == y \div 4
           h == y \div 100
           d == DayInYear(doe)
<1>1. a \in Nat /\ 1460 * a <= doe /\ doe < 1460 * a + 1460
  BY SMT
<1>2. b \in Nat /\ 36524 * b <= doe /\ doe < 36524 * b + 36524
  BY SMT
<1>3. c = IF doe = 146096 THEN 1 ELSE 0
  BY SMT
<1> HIDE DEF a, b, c
<1>4. y \in Int /\ 365 * y <= doe - a + b - c /\ doe - a + b - c < 365 * y + 365
  <2> DEFINE n == doe - a + b - c
  <2>1. n \in Int  BY <1>1, <1>2, <1>3, SMT
  <2>2. n \div 365 = y  BY SMT DEF a, b, c, YearInEra
  <2> HIDE DEF n, y
  <2>3. y \in Int /\ 365 * y <= n /\ n < 365 * y + 365  BY <2>1, <2>2, SMT
  <2>4. QED  BY <2>3, SMT DEF n
<1> HIDE DEF y
<1>5. q \in Int /\ 4 * q <= y /\ y < 4 * q + 4
  BY <1>4, SMT
<1>6. h \in Int /\ 100 * h <= y /\ y < 100 * h + 100
  BY <1>4, SMT
<1>9. (y + 1) % 4 = 0 <=> y = 4 * q + 3
  BY <1>4, SMT
<1>10. (y + 1) % 100 = 0 <=> y = 100 * h + 99
  BY <1>4, SMT
<1>7. d = doe - (365 * y + q - h)
  BY SMT DEF DayInYear, y
<1> HIDE DEF q, h, d
<1>11. SUFFICES /\ 0 <= y /\ y <= 399 /\ 0 <= d /\ d <= 365
                /\ d = 365 => /\ y = 4 * q + 3
                              /\ y # 100 * h + 99 \/ y = 399
  BY <1>4, <1>5, <1>6, <1>7, <1>9, <1>10, SMT DEF y, d
<1>12. CASE doe = 146096
  <2>1. a = 100 /\ b = 4 /\ c = 1  BY <1>1, <1>2, <1>3, <1>12, SMT
  <2>2. y = 399  BY <2>1, <1>4, <1>12, SMT
  <2>3. q = 99 /\ h = 3  BY <2>2, <1>5, <1>6, SMT
  <2>4. QED  BY <2>2, <2>3, <1>7, <1>12, SMT
<1>13. CASE doe < 146096
  <2>1. b <= 3 /\ c = 0
    BY <1>2, <1>3, <1>13, SMT
  <2>2. h = b
    <3>1. 100 * b <= y /\ y < 100 * b + 100
      <4>1. CASE b = 0  BY <4>1, <1>1, <1>2, <1>4, <2>1, SMT
      <4>2. CASE b = 1  BY <4>2, <1>1, <1>2, <1>4, <2>1, SMT
      <4>3. CASE b = 2  BY <4>3, <1>1, <1>2, <1>4, <2>1, SMT
      <4>4. CASE b = 3  BY <4>4, <1>1, <1>2, <1>4, <2>1, SMT
      <4>5. QED  BY <1>2, <2>1, <4>1, <4>2, <4>3, <4>4, SMT
    <3>2. QED  BY <3>1, <1>6, <1>4, <1>2, SMT
  <2>3. 0 <= y /\ y <= 399 /\ q <= 99 /\ q >= b
    BY <2>1, <2>2, <1>2, <1>4, <1>5, <1>6, SMT
  <2> DEFINE t == doe - a + b - 365 * y
             s == y - 4 * q
  <2>4. t \in Int /\ 0 <= t /\ t <= 364 /\ s \in Int /\ 0 <= s /\ s <= 3
    BY <1>1, <1>2, <1>4, <1>5, <2>1, SMT
  <2>5. d = t + a - q /\ y = 4 * q + s /\ doe = 1460 * q + 365 * s + t + a - b
    BY <2>2, <1>1, <1>2, <1>4, <1>5, <1>6, <1>7, SMT
  <2> HIDE DEF t, s
  <2>6. 1459 * a <= 1460 * q + 365 * s + t - b
        /\ 1459 * a > 1460 * q + 365 * s + t - b - 1460
    BY <2>5, <2>4, <1>1, <1>2, <1>5, SMT
  <2>7. a = q \/ a = q + 1
    <3>1. a <= q + 1  BY <2>6, <2>4, <2>3, <1>1, <1>2, <1>5, SMT
    <3>2. a >= q
      <4>1. CASE q = b  BY <4>1, <2>6, <2>4, <2>3, <2>1, <1>1, <1>2, <1>5, SMT
      <4>2. CASE q > b  BY <4>2, <2>6, <2>4, <2>3, <1>1, <1>2, <1>5, SMT
      <4>3. QED  BY <4>1, <4>2, <2>3, <1>2, <1>5, SMT
    <3>3. QED  BY <3>1, <3>2, <1>1, <1>5, SMT
  <2>8. 0 <= d /\ d <= 365  BY <2>7, <2>5, <2>4, <1>1, <1>5, SMT
  <2>9. ASSUME d = 365  PROVE s = 3 /\ (y # 100 * h + 99 \/ y = 399)
    <3>1. a = q + 1 /\ t = 364  BY <2>9, <2>7, <2>5, <2>4, <1>1, <1>5, SMT
    <3>2. s = 3  BY <3>1, <2>6, <2>4, <2>3, <1>1, <1>2, <1>5, SMT
    <3>3. ASSUME y = 100 * b + 99  PROVE b = 3
      <4>1. q = 25 * b + 24  BY <3>3, <1>5, <1>2, SMT
      <4>2. doe = 36524 * b + 36524  BY <4>1, <3>1, <3>2, <2>5, <1>2, SMT
      <4>3. QED  BY <4>2, <1>2, SMT
    <3>4. QED  BY <3>2, <3>3, <2>2, <1>2, SMT
  <2>10. QED  BY <2>3, <2>5, <2>8, <2>9, SMT
<1>14. QED  BY <1>12, <1>13, SMT

\* The days before a month of a year that begins in January.
DaysBefore == <<0, 31, 59, 90, 120, 151, 181, 212, 243, 273, 304, 334>>

BeforeMonth(y, m) == DaysBefore[m] + (IF m > 2 /\ LeapYear(y) THEN 1 ELSE 0)

\* The months added up one by one are those of the table.
LEMMA MonthsAddUp ==
    ASSUME NEW y,
           NEW f, f = CHOOSE g : g = [m \in 1 .. 12 |->
                        IF m = 1 THEN 0 ELSE g[m - 1] + DaysInMonth(y, m - 1)]
    PROVE  \A m \in 1 .. 12 : f[m] = BeforeMonth(y, m)
<1> DEFINE Adds(g) == g = [m \in 1 .. 12 |->
                        IF m = 1 THEN 0 ELSE g[m - 1] + DaysInMonth(y, m - 1)]
           table == [m \in 1 .. 12 |-> BeforeMonth(y, m)]
<1>1. \A m \in 2 .. 12 : BeforeMonth(y, m) = BeforeMonth(y, m - 1) + DaysInMonth(y, m - 1)
  <2> SUFFICES ASSUME NEW m \in {2, 3, 4, 5, 6, 7, 8, 9, 10, 11, 12}
               PROVE  BeforeMonth(y, m) = BeforeMonth(y, m - 1) + DaysInMonth(y, m - 1)
    BY SMT
  <2>1. QED  BY SMT DEF BeforeMonth, DaysBefore, DaysInMonth
<1>2. BeforeMonth(y, 1) = 0
  BY SMT DEF BeforeMonth, DaysBefore
<1>3. Adds(table)
  BY <1>1, <1>2, SMT
<1>4. Adds(f)
  <2> HIDE DEF Adds
  <2>1. f = CHOOSE g : Adds(g)  BY DEF Adds
  <2>2. QED  BY <2>1, <1>3
<1>5. f[1] = 0 /\ \A m \in 2 .. 12 : f[m] = f[m - 1] + DaysInMonth(y, m - 1)
  BY <1>4, SMT
<1>6. QED
  <2> HIDE DEF Adds, table
  <2>1. f[1] = BeforeMonth(y, 1)  BY <1>5, <1>2
  <2>2. \A m \in 2 .. 12 : f[m - 1] = BeforeMonth(y, m - 1) => f[m] = BeforeMonth(y, m)
    BY <1>5, <1>1
  <2>3. f[2] = BeforeMonth(y, 2) /\ f[3] = BeforeMonth(y, 3)  BY <2>1, <2>2, SMT
  <2>4. f[4] = BeforeMonth(y, 4) /\ f[5] = BeforeMonth(y, 5)  BY <2>3, <2>2, SMT
  <2>5. f[6] = BeforeMonth(y, 6) /\ f[7] = BeforeMonth(y, 7)  BY <2>4, <2>2, SMT
  <2>6. f[8] = BeforeMonth(y, 8) /\ f[9] = BeforeMonth(y, 9)  BY <2>5, <2>2, SMT
  <2>7. f[10] = BeforeMonth(y, 10) /\ f[11] = BeforeMonth(y, 11)  BY <2>6, <2>2, SMT
  <2>8. f[12] = BeforeMonth(y, 12)  BY <2>7, <2>2, SMT
  <2>9. QED  BY <2>1, <2>3, <2>4, <2>5, <2>6, <2>7, <2>8, SMT

\* The number of a day in closed form.
LEMMA DayNumberIs ==
    ASSUME NEW y \in Nat, y >= 1970, NEW m \in 1 .. 12, NEW d \in Nat
    PROVE  DayNumber([year |-> y, month |-> m, day |-> d]) =
             365 * (y - 1970) + Leaps(y - 1) - 477 + BeforeMonth(y, m) + d - 1
<1> DEFINE date == [year |-> y, month |-> m, day |-> d]
           f == CHOOSE g : g = [k \in 1 .. 12 |->
                  IF k = 1 THEN 0 ELSE g[k - 1] + DaysInMonth(y, k - 1)]
<1>1. f[m] = BeforeMonth(y, m)
  <2> HIDE DEF f
  <2>1. f = CHOOSE g : g = [k \in 1 .. 12 |->
                  IF k = 1 THEN 0 ELSE g[k - 1] + DaysInMonth(y, k - 1)]
    BY DEF f
  <2>2. QED  BY <2>1, MonthsAddUp
<1>2. Cardinality({x \in 1970 .. y - 1 : LeapYear(x)}) = Leaps(y - 1) - 477
  BY LeapYearsAre, SMT DEF LeapYearsCounted, LeapYearsBefore
<1>3. date.year = y /\ date.month = m /\ date.day = d
  OBVIOUS
<1>4. DayNumber(date) =
        365 * (y - 1970) + Cardinality({x \in 1970 .. y - 1 : LeapYear(x)})
        + f[m] + d - 1
  BY <1>3 DEF DayNumber
<1>5. QED
  <2> HIDE DEF f, date
  <2>1. QED  BY <1>1, <1>2, <1>4, SMT DEF date

\* civil_from_days counts months from March: the month of a day of the year, and
\* the days before that month.
DaysBeforeFromMarch(mp) == (153 * mp + 2) \div 5

\* Day dom of month m is the day d of the year that begins in March: of year y
\* if it is in March or later, of the next year if it is in January or February.
LiesIn(d, y, m, dom) ==
    /\ m \in 1 .. 12 /\ dom \in Nat \ {0}
    /\ m > 2 => /\ dom <= DaysInMonth(y, m)
                /\ BeforeMonth(y, m) + dom - 1 = d + 59 + (IF LeapYear(y) THEN 1 ELSE 0)
    /\ m <= 2 => /\ d >= 306 /\ BeforeMonth(y, m) + dom - 1 = d - 306
                 /\ dom <= DaysInMonth(y, m) \/ (d = 365 /\ dom = 29 /\ m = 2)

\* The month of a day of the year is the right one: the day lies in the month,
\* and is the 29th of February only on the 366th day of the year.
LEMMA MonthOfYear ==
    ASSUME NEW d \in Nat, d <= 365, NEW y \in Nat,
           NEW mp, mp = MonthFromMarch(d),
           NEW m, m = IF mp < 10 THEN mp + 3 ELSE mp - 9,
           NEW dom, dom = d - DaysBeforeFromMarch(mp) + 1
    PROVE  LiesIn(d, y, m, dom)
<1> USE DEF LiesIn
<1>1. mp \in Nat /\ mp <= 11 /\ 153 * mp <= 5 * d + 2 /\ 5 * d + 2 < 153 * mp + 153
  BY SMT DEF MonthFromMarch
<1>2. mp \in {0, 1, 2, 3, 4, 5, 6, 7, 8, 9, 10, 11}
  BY <1>1, SMT
<1>3. CASE mp = 0   BY <1>1, <1>3, SMT DEF DaysBeforeFromMarch, BeforeMonth, DaysBefore, DaysInMonth
<1>4. CASE mp = 1   BY <1>1, <1>4, SMT DEF DaysBeforeFromMarch, BeforeMonth, DaysBefore, DaysInMonth
<1>5. CASE mp = 2   BY <1>1, <1>5, SMT DEF DaysBeforeFromMarch, BeforeMonth, DaysBefore, DaysInMonth
<1>6. CASE mp = 3   BY <1>1, <1>6, SMT DEF DaysBeforeFromMarch, BeforeMonth, DaysBefore, DaysInMonth
<1>7. CASE mp = 4   BY <1>1, <1>7, SMT DEF DaysBeforeFromMarch, BeforeMonth, DaysBefore, DaysInMonth
<1>8. CASE mp = 5   BY <1>1, <1>8, SMT DEF DaysBeforeFromMarch, BeforeMonth, DaysBefore, DaysInMonth
<1>9. CASE mp = 6   BY <1>1, <1>9, SMT DEF DaysBeforeFromMarch, BeforeMonth, DaysBefore, DaysInMonth
<1>10. CASE mp = 7  BY <1>1, <1>10, SMT DEF DaysBeforeFromMarch, BeforeMonth, DaysBefore, DaysInMonth
<1>11. CASE mp = 8  BY <1>1, <1>11, SMT DEF DaysBeforeFromMarch, BeforeMonth, DaysBefore, DaysInMonth
<1>12. CASE mp = 9  BY <1>1, <1>12, SMT DEF DaysBeforeFromMarch, BeforeMonth, DaysBefore, DaysInMonth
<1>13. CASE mp = 10
  <2>1. m = 1 /\ dom = d - 305 /\ d >= 306 /\ d <= 336
    BY <1>1, <1>13, SMT DEF DaysBeforeFromMarch
  <2>2. BeforeMonth(y, 1) = 0 /\ DaysInMonth(y, 1) = 31
    BY SMT DEF BeforeMonth, DaysBefore, DaysInMonth
  <2>3. m \in 1 .. 12 /\ dom \in Nat \ {0} /\ m <= 2 /\ ~ m > 2 /\ d >= 306
    BY <2>1, SMT
  <2>4. BeforeMonth(y, m) + dom - 1 = d - 306
    BY <2>1, <2>2, SMT
  <2>5. dom <= DaysInMonth(y, m) \/ (d = 365 /\ dom = 29 /\ m = 2)
    <3>1. DaysInMonth(y, m) = 31  BY <2>1, <2>2
    <3>2. dom <= 31  BY <2>1, SMT
    <3>3. QED  BY <3>1, <3>2, Zenon
  <2>6. QED  BY <2>3, <2>4, <2>5
<1>14. CASE mp = 11
  <2>1. m = 2 /\ dom = d - 336 /\ d >= 337
    BY <1>1, <1>14, SMT DEF DaysBeforeFromMarch
  <2>2. BeforeMonth(y, 2) = 31 /\ DaysInMonth(y, 2) \in {28, 29}
    BY SMT DEF BeforeMonth, DaysBefore, DaysInMonth
  <2>3. m \in 1 .. 12 /\ dom \in Nat \ {0} /\ m <= 2 /\ ~ m > 2 /\ d >= 306
    BY <2>1, SMT
  <2>4. BeforeMonth(y, m) + dom - 1 = d - 306
    BY <2>1, <2>2, SMT
  <2>5. dom <= DaysInMonth(y, m) \/ (d = 365 /\ dom = 29 /\ m = 2)
    <3>0. m = 2  BY <2>1, SMT
    <3>1. DaysInMonth(y, m) \in {28, 29}  BY <3>0, <2>2, Zenon
    <3>2. dom <= 28 \/ (d = 365 /\ dom = 29)  BY <2>1, SMT
    <3>3. dom <= 28 => dom <= 29  BY <2>1, SMT
    <3>4. QED  BY <3>1, <3>2, <3>3, <2>1
  <2>6. QED  BY <2>3, <2>4, <2>5
<1>15. QED
  BY <1>2, <1>3, <1>4, <1>5, <1>6, <1>7, <1>8, <1>9, <1>10, <1>11, <1>12, <1>13, <1>14

\* What civil_from_days computes, by its parts.
LEMMA CivilIs ==
    ASSUME NEW z \in Nat,
           NEW era, era = (z + 719468) \div 146097,
           NEW doe, doe = z + 719468 - era * 146097,
           NEW d, d = DayInYear(doe),
           NEW mp, mp = MonthFromMarch(d),
           NEW m, m = IF mp < 10 THEN mp + 3 ELSE mp - 9
    PROVE  CivilFromDays(z) =
             [year  |-> YearInEra(doe) + era * 400 + (IF m <= 2 THEN 1 ELSE 0),
              month |-> m,
              day   |-> d - DaysBeforeFromMarch(mp) + 1]
BY SMT DEF CivilFromDays, DaysBeforeFromMarch

\* The leap years of whole eras and of the years of the last one.
LEMMA LeapsOfEras ==
    ASSUME NEW era \in Nat, NEW y \in Nat, y <= 399
    PROVE  Leaps(y + era * 400) = 97 * era + y \div 4 - y \div 100
<1>1. (y + era * 400) \div 4 = 100 * era + y \div 4  BY SMT
<1>2. (y + era * 400) \div 100 = 4 * era + y \div 100  BY SMT
<1>3. (y + era * 400) \div 400 = era  BY SMT
<1>4. y \div 4 \in Nat /\ y \div 100 \in Nat  BY SMT
<1>5. QED  BY <1>1, <1>2, <1>3, <1>4, SMT DEF Leaps

\* The dates of a report are right for every day from 1970 on: civil_from_days
\* (csv_writer.rs:313-329) gives the date whose days, counted from the epoch
\* year by year and month by month, are as many as it was asked for.
THEOREM CivilIsRight == \A z \in Nat : IsDate(CivilFromDays(z), z)
<1> SUFFICES ASSUME NEW z \in Nat PROVE IsDate(CivilFromDays(z), z)
  OBVIOUS
<1> DEFINE era == (z + 719468) \div 146097
           doe == z + 719468 - era * 146097
           y   == YearInEra(doe)
           d   == DayInYear(doe)
           mp  == MonthFromMarch(d)
           m   == IF mp < 10 THEN mp + 3 ELSE mp - 9
           dom == d - DaysBeforeFromMarch(mp) + 1
           Y   == y + era * 400 + (IF m <= 2 THEN 1 ELSE 0)
           start == y + era * 400
<1>1. era \in Nat /\ doe \in Nat /\ doe <= 146096 /\ z = era * 146097 + doe - 719468
  BY SMT
<1>2. CivilFromDays(z) = [year |-> Y, month |-> m, day |-> dom]
  BY CivilIs, SMT
<1> HIDE DEF era, doe
<1>3. /\ y \in Nat /\ y <= 399 /\ d \in Nat /\ d <= 365
      /\ d = 365 => (y + 1) % 4 = 0 /\ ((y + 1) % 100 # 0 \/ y = 399)
  BY <1>1, YearOfEra, SMT
<1>4. doe = 365 * y + y \div 4 - y \div 100 + d /\ y \div 4 \in Nat /\ y \div 100 \in Nat
  <2>1. y \div 4 \in Nat /\ y \div 100 \in Nat  BY <1>3, SMT
  <2>2. QED  BY <2>1, <1>3, <1>1, SMT DEF DayInYear
<1> HIDE DEF y, d
<1>5. start \in Nat /\ Leaps(start) = 97 * era + y \div 4 - y \div 100
  <2>1. start \in Nat  BY <1>1, <1>3, SMT
  <2>2. QED  BY <2>1, <1>1, <1>3, LeapsOfEras, SMT
<1>6. z = 365 * start + Leaps(start) + d - 719468
  BY <1>1, <1>3, <1>4, <1>5, SMT
<1>7. d = 365 => LeapYear(start + 1)
  <2>1. (start + 1) % 4 = (y + 1) % 4  BY <1>1, <1>3, SMT
  <2>2. (start + 1) % 100 = (y + 1) % 100  BY <1>1, <1>3, SMT
  <2>3. y = 399 => (start + 1) % 400 = 0  BY <1>1, <1>3, SMT
  <2>4. QED  BY <1>3, <2>1, <2>2, <2>3, SMT DEF LeapYear
<1> HIDE DEF start
<1>8. start >= 1969 /\ (start = 1969 => d >= 306)
  <2>1. Leaps(start) <= start \div 4 /\ start \div 4 \in Nat /\ 4 * (start \div 4) <= start
    BY <1>5, SMT DEF Leaps
  <2>2. start <= 1968 => Leaps(start) <= 477
    BY <1>5, SMT DEF Leaps
  <2>3. Leaps(1969) = 477  BY SMT DEF Leaps
  <2>4. ASSUME start <= 1968 PROVE FALSE
    <3>1. Leaps(start) <= 477 /\ Leaps(start) \in Int
      BY <2>4, <2>2, <1>5, SMT DEF Leaps
    <3> DEFINE leaps == Leaps(start)
    <3> HIDE DEF leaps
    <3>2. leaps <= 477 /\ leaps \in Int /\ z = 365 * start + leaps + d - 719468
      BY <3>1, <1>6 DEF leaps
    <3>3. QED  BY <3>2, <2>4, <1>3, <1>5, SMT
  <2>5. QED
    <3>1. start >= 1969  BY <2>4, <1>5, SMT
    <3>2. start = 1969 => z = 365 * 1969 + 477 + d - 719468  BY <2>3, <1>6
    <3>3. QED  BY <3>1, <3>2, <1>3, SMT
<1>9. start = 1969 => m <= 2
  <2>1. \A e \in Nat : (e >= 306 /\ e <= 365) => (MonthFromMarch(e) >= 10 /\ MonthFromMarch(e) <= 11)
    BY SMT DEF MonthFromMarch
  <2>2. d >= 306 => (mp >= 10 /\ mp <= 11)  BY <2>1, <1>3
  <2>3. m = IF mp < 10 THEN mp + 3 ELSE mp - 9  OBVIOUS
  <2> HIDE DEF mp, m
  <2>4. start = 1969 => (mp = 10 \/ mp = 11)
    <3>1. mp \in Int  BY <1>3, SMT DEF mp, MonthFromMarch
    <3>2. QED  BY <3>1, <1>8, <2>2, SMT
  <2>5. QED  BY <2>3, <2>4, SMT
<1>10. Y = start + (IF m <= 2 THEN 1 ELSE 0) /\ Y \in Nat
  <2>1. Y = start + (IF m <= 2 THEN 1 ELSE 0)  BY DEF start
  <2>2. QED  BY <2>1, <1>5, SMT
<1>11. /\ m \in 1 .. 12 /\ dom \in Nat \ {0}
       /\ m > 2 => /\ dom <= DaysInMonth(Y, m)
                   /\ BeforeMonth(Y, m) + dom - 1 = d + 59 + (IF LeapYear(Y) THEN 1 ELSE 0)
       /\ m <= 2 => /\ d >= 306 /\ BeforeMonth(Y, m) + dom - 1 = d - 306
                    /\ dom <= DaysInMonth(Y, m) \/ (d = 365 /\ dom = 29 /\ m = 2)
  <2>1. mp = MonthFromMarch(d) /\ m = (IF mp < 10 THEN mp + 3 ELSE mp - 9)
        /\ dom = d - DaysBeforeFromMarch(mp) + 1
    OBVIOUS
  <2> HIDE DEF Y, mp, m, dom
  <2>2. Y \in Nat /\ d \in Nat /\ d <= 365  BY <1>3, <1>10
  <2>3. LiesIn(d, Y, m, dom)
    BY <2>1, <2>2, MonthOfYear
  <2>4. QED  BY <2>3, SMT DEF LiesIn
<1> HIDE DEF Y, mp, m, dom
<1>12. Y >= 1970
  BY <1>5, <1>8, <1>9, <1>10, SMT
<1>13. dom <= DaysInMonth(Y, m)
  <2>1. CASE m > 2  BY <2>1, <1>11
  <2>2. CASE m <= 2 /\ d = 365 /\ dom = 29 /\ m = 2
    <3>1. LeapYear(Y)  BY <2>2, <1>7, <1>10
    <3>2. DaysInMonth(Y, m) = 29  BY <2>2, <3>1, SMT DEF DaysInMonth
    <3>3. QED  BY <3>2, <2>2, SMT
  <2>3. QED  BY <2>1, <2>2, <1>11, SMT
<1>14. DayNumber([year |-> Y, month |-> m, day |-> dom]) = z
  <2> DEFINE n == DayNumber([year |-> Y, month |-> m, day |-> dom])
  <2>1. n = 365 * (Y - 1970) + Leaps(Y - 1) - 477 + BeforeMonth(Y, m) + dom - 1
    BY <1>10, <1>11, <1>12, DayNumberIs, SMT
  <2>2. BeforeMonth(Y, m) \in Int
    <3>1. DaysBefore[m] \in Int
      <4>1. m \in {1, 2, 3, 4, 5, 6, 7, 8, 9, 10, 11, 12}  BY <1>11, SMT
      <4>2. QED  BY <4>1, SMT DEF DaysBefore
    <3>2. QED  BY <3>1, SMT DEF BeforeMonth
  <2> HIDE DEF n
  <2>3. CASE m > 2
    <3>1. Y = start /\ start \in Nat \ {0}  BY <2>3, <1>5, <1>8, <1>10, <1>11, SMT
    <3>2. Leaps(start) = Leaps(start - 1) + (IF LeapYear(start) THEN 1 ELSE 0)
      BY <3>1, LeapsGrow
    <3>3. BeforeMonth(Y, m) + dom - 1 = d + 59 + (IF LeapYear(start) THEN 1 ELSE 0)
      BY <2>3, <3>1, <1>11
    <3>4. Leaps(start - 1) \in Int /\ Leaps(start) \in Int  BY <3>1, SMT DEF Leaps
    <3>5. n = 365 * (start - 1970) + Leaps(start - 1) - 477 + BeforeMonth(Y, m) + dom - 1
      BY <2>1, <3>1
    <3>6. QED  BY <3>2, <3>3, <3>4, <3>5, <2>2, <3>1, <1>3, <1>6, <1>11, SMT DEF n
  <2>4. CASE m <= 2
    <3>1. Y = start + 1 /\ start \in Nat  BY <2>4, <1>5, <1>10
    <3>2. BeforeMonth(Y, m) + dom - 1 = d - 306  BY <2>4, <1>11
    <3>3. Leaps(start) \in Int  BY <3>1, SMT DEF Leaps
    <3>4. Y - 1 = start  BY <3>1, SMT
    <3>5. n = 365 * (start + 1 - 1970) + Leaps(start) - 477 + BeforeMonth(Y, m) + dom - 1
      BY <2>1, <3>1, <3>4
    <3>6. QED  BY <3>2, <3>3, <3>5, <2>2, <3>1, <1>3, <1>6, <1>11, SMT DEF n
  <2>5. QED  BY <2>3, <2>4, <1>11, SMT
<1>15. QED
  <2> DEFINE date == [year |-> Y, month |-> m, day |-> dom]
  <2>1. date.year = Y /\ date.month = m /\ date.day = dom  OBVIOUS
  <2>2. DaysInMonth(Y, m) \in Int  BY SMT DEF DaysInMonth
  <2>3. dom \in 1 .. DaysInMonth(Y, m)  BY <1>11, <1>13, <2>2, SMT
  <2> HIDE DEF date
  <2>4. CivilFromDays(z) = date /\ DayNumber(date) = z
    BY <1>2, <1>14 DEF date
  <2>5. QED  BY <2>1, <2>3, <2>4, <1>11 DEF IsDate

(***************************************************************************)
(* The report of a ZIP.                                                    *)
(***************************************************************************)

\* The ranges that sort before a range, or are it.
UpTo(ranges, j) ==
    {i \in DOMAIN ranges : \/ ranges[i].lo < ranges[j].lo
                           \/ (ranges[i].lo = ranges[j].lo /\ i <= j)}

\* What the report sorts: ranges whose plates are numbers.
Sortable(ranges) ==
    /\ DOMAIN ranges = 1 .. Len(ranges) /\ Len(ranges) \in Nat
    /\ \A i \in DOMAIN ranges : ranges[i].lo \in Nat /\ ranges[i].vehicles \in Nat

\* A range of a higher rank has no lower plate, and no two ranges share a rank.
LEMMA RanksOrder ==
    ASSUME NEW ranges, Sortable(ranges)
    PROVE  /\ \A j \in DOMAIN ranges : Rank(ranges, j) \in 1 .. Len(ranges)
           /\ \A j, k \in DOMAIN ranges :
                (ranges[j].lo < ranges[k].lo \/ (ranges[j].lo = ranges[k].lo /\ j < k))
                => Rank(ranges, j) < Rank(ranges, k)
           /\ \A j, k \in DOMAIN ranges :
                Rank(ranges, j) = Rank(ranges, k) => j = k
<1> DEFINE D == 1 .. Len(ranges)
<1>1. D = DOMAIN ranges /\ IsFiniteSet(D) /\ Cardinality(D) = Len(ranges) /\ D \subseteq Nat
  <2>1. Len(ranges) \in Nat /\ D = DOMAIN ranges
    BY DEF Sortable
  <2>2. \A b \in Int : IsFiniteSet(1 .. b) /\ Cardinality(1 .. b) = IF 1 > b THEN 0 ELSE b - 1 + 1
    BY FS_Interval
  <2>3. IsFiniteSet(D) /\ Cardinality(D) = IF 1 > Len(ranges) THEN 0 ELSE Len(ranges) - 1 + 1
    BY <2>1, <2>2, SMT
  <2>4. QED  BY <2>1, <2>3, SMT
<1>2. \A j \in D : Rank(ranges, j) = Cardinality(UpTo(ranges, j))
  BY <1>1 DEF Rank, UpTo
<1>3. \A j \in D : j \in UpTo(ranges, j) /\ UpTo(ranges, j) \subseteq D
                   /\ IsFiniteSet(UpTo(ranges, j))
  <2> SUFFICES ASSUME NEW j \in D
               PROVE  j \in UpTo(ranges, j) /\ UpTo(ranges, j) \subseteq D
                      /\ IsFiniteSet(UpTo(ranges, j))
    OBVIOUS
  <2>1. j \in UpTo(ranges, j) /\ UpTo(ranges, j) \subseteq D
    BY <1>1 DEF UpTo
  <2>2. QED  BY <2>1, <1>1, FS_Subset
<1>4. \A j \in D : Rank(ranges, j) \in 1 .. Len(ranges)
  <2> SUFFICES ASSUME NEW j \in D PROVE Rank(ranges, j) \in 1 .. Len(ranges)
    OBVIOUS
  <2>1. Cardinality(UpTo(ranges, j)) \in Nat
    BY <1>3, FS_CardinalityType
  <2>2. Cardinality(UpTo(ranges, j)) # 0
    BY <1>3, FS_EmptySet
  <2>3. Cardinality(UpTo(ranges, j)) <= Len(ranges)
    BY <1>1, <1>3, FS_Subset
  <2>4. QED  BY <1>2, <2>1, <2>2, <2>3 DEF Sortable
<1>5. ASSUME NEW j \in D, NEW k \in D,
             ranges[j].lo < ranges[k].lo \/ (ranges[j].lo = ranges[k].lo /\ j < k)
      PROVE  Rank(ranges, j) < Rank(ranges, k)
  <2>1. k \notin UpTo(ranges, j) /\ UpTo(ranges, j) \subseteq UpTo(ranges, k)
    BY <1>1, <1>5 DEF UpTo, Sortable
  <2>2. Cardinality(UpTo(ranges, j)) <= Cardinality(UpTo(ranges, k))
        /\ Cardinality(UpTo(ranges, j)) # Cardinality(UpTo(ranges, k))
    BY <1>3, <2>1, FS_Subset
  <2>3. QED  BY <1>2, <1>4, <2>2
<1>6. \A j, k \in D : j # k =>
        (\/ ranges[j].lo < ranges[k].lo
         \/ (ranges[j].lo = ranges[k].lo /\ j < k)
         \/ ranges[k].lo < ranges[j].lo
         \/ (ranges[k].lo = ranges[j].lo /\ k < j))
  BY <1>1 DEF Sortable
<1>7. \A j, k \in D : Rank(ranges, j) = Rank(ranges, k) => j = k
  BY <1>4, <1>5, <1>6
<1>8. QED  BY <1>1, <1>4, <1>5, <1>7

\* The place before sorting of what is at a place after it.
PlaceOf(ranges) ==
    [n \in DOMAIN ranges |-> CHOOSE j \in DOMAIN ranges : Rank(ranges, j) = n]

\* The report lists the ranges that failed, each once, in the order of their plates.
THEOREM SortingPermutes ==
    ASSUME NEW ranges, Sortable(ranges)
    PROVE  /\ PlaceOf(ranges) \in Bijection(DOMAIN ranges, DOMAIN ranges)
           /\ \A n \in DOMAIN ranges : Rank(ranges, PlaceOf(ranges)[n]) = n
           /\ SortedByLo(ranges) = [n \in DOMAIN ranges |-> ranges[PlaceOf(ranges)[n]]]
<1> DEFINE D == DOMAIN ranges
           f == [j \in D |-> Rank(ranges, j)]
<1>1. D = 1 .. Len(ranges) /\ IsFiniteSet(D)
  BY FS_Interval DEF Sortable
<1>2. f \in Injection(D, D)
  BY <1>1, RanksOrder DEF Injection, IsInjective
<1>3. f \in Surjection(D, D)
  BY <1>1, <1>2, FS_Injection
<1>4. \A n \in D : \E j \in D : Rank(ranges, j) = n
  BY <1>3 DEF Surjection
<1>5. \A n \in D : PlaceOf(ranges)[n] \in D /\ Rank(ranges, PlaceOf(ranges)[n]) = n
  BY <1>4 DEF PlaceOf
<1>6. PlaceOf(ranges) \in [D -> D]
  BY <1>5 DEF PlaceOf
<1>7. PlaceOf(ranges) \in Injection(D, D)
  BY <1>5, <1>6 DEF Injection, IsInjective
<1>8. PlaceOf(ranges) \in Surjection(D, D)
  BY <1>1, <1>7, FS_Injection
<1>9. SortedByLo(ranges) = [n \in D |-> ranges[PlaceOf(ranges)[n]]]
  BY DEF SortedByLo, PlaceOf
<1>10. QED  BY <1>5, <1>7, <1>8, <1>9 DEF Bijection

\* Sorting keeps the number of vehicles.
LEMMA SortingKeepsVehicles ==
    ASSUME NEW ranges, Sortable(ranges), NEW sorted,
           DOMAIN sorted = DOMAIN ranges,
           \A n \in DOMAIN ranges : sorted[n].vehicles = ranges[PlaceOf(ranges)[n]].vehicles
    PROVE  Cardinality(VehiclesOf(sorted)) = Cardinality(VehiclesOf(ranges))
<1> DEFINE D == DOMAIN ranges
           p == PlaceOf(ranges)
           V == VehiclesOf(ranges)
           W == VehiclesOf(sorted)
           of == [i \in D |-> {i} \X (1 .. ranges[i].vehicles)]
           sets == {of[i] : i \in D}
           g == [w \in W |-> <<p[w[1]], w[2]>>]
<1>1. p \in Bijection(D, D)
  BY SortingPermutes
<1>2. p \in [D -> D] /\ (\A i, j \in D : p[i] = p[j] => i = j) /\ (\A i \in D : \E j \in D : p[j] = i)
  BY <1>1 DEF Bijection, Injection, Surjection, IsInjective
<1>3. IsFiniteSet(D)
  <2>1. Len(ranges) \in Int /\ D = 1 .. Len(ranges)
    BY DEF Sortable
  <2>2. QED  BY <2>1, FS_Interval
<1>4. IsFiniteSet(sets)
  <2>1. of \in Surjection(D, sets)
    BY DEF Surjection
  <2>2. QED  BY <1>3, <2>1, FS_Surjection
<1>5. \A T \in sets : IsFiniteSet(T)
  <2> SUFFICES ASSUME NEW i \in D PROVE IsFiniteSet({i} \X (1 .. ranges[i].vehicles))
    OBVIOUS
  <2>1. IsFiniteSet(1 .. ranges[i].vehicles)
    <3>1. ranges[i].vehicles \in Int
      BY DEF Sortable
    <3>2. QED  BY <3>1, FS_Interval
  <2>2. IsFiniteSet({i})
    BY FS_Singleton
  <2>3. QED  BY <2>1, <2>2, FS_Product
<1>6. V = UNION sets
  BY DEF VehiclesOf
<1>7. IsFiniteSet(V)
  BY <1>4, <1>5, <1>6, FS_UNION
<1>8. \A x : x \in V <=> \E i \in D : \E v \in 1 .. ranges[i].vehicles : x = <<i, v>>
  BY DEF VehiclesOf
<1>9. \A x : x \in W <=> \E i \in D : \E v \in 1 .. ranges[p[i]].vehicles : x = <<i, v>>
  BY DEF VehiclesOf
<1> HIDE DEF V, W, p, D
<1>10. g \in [W -> V]
  BY <1>2, <1>8, <1>9
<1>11. \A x, y \in W : g[x] = g[y] => x = y
  BY <1>2, <1>9
<1>12. \A x \in V : \E y \in W : g[y] = x
  <2> SUFFICES ASSUME NEW x \in V PROVE \E y \in W : g[y] = x
    OBVIOUS
  <2>0. PICK i \in D : \E v \in 1 .. ranges[i].vehicles : x = <<i, v>>
    BY <1>8
  <2>1. PICK v \in 1 .. ranges[i].vehicles : x = <<i, v>>
    BY <2>0
  <2>2. PICK j \in D : p[j] = i
    BY <1>2
  <2>3. <<j, v>> \in W
    BY <1>9, <2>1, <2>2
  <2>4. g[<<j, v>>] = x
    BY <2>1, <2>2, <2>3
  <2>5. QED  BY <2>3, <2>4
<1>13. g \in Bijection(W, V)
  BY <1>10, <1>11, <1>12 DEF Bijection, Injection, Surjection, IsInjective
<1>14. g \in Injection(W, V) /\ g \in Surjection(W, V)
  BY <1>13 DEF Bijection
<1>15. QED  BY <1>7, <1>14, FS_Injection DEF V, W

\* Once the export ends, its summary is one the pipeline may return with, and a
\* ZIP carries the report written from it (csv_writer.rs:109-120, 214-262).
ReportFits ==
    /\ pc \in {"finish", "assembled", "responded"} => summary \in Summaries
    /\ pc \in {"assembled", "responded"} =>
         \/ (output.kind = "csv" /\ output.report = {})
         \/ /\ output.kind = "zip" /\ reportedOn \in ReportDays
            /\ output.report = {ReportText(summary, reportedOn)}

\* Opening and closing parts does not touch the summary or the output.
LEMMA FilesKeepReport ==
    ASSUME FilesKnown, ReportFits, OpenNewPart \/ CloseCurrentPart,
           UNCHANGED <<summary, output, reportedOn>>, pc \in {"write", "finish"}
    PROVE  ReportFits'
<1>1. CASE Fault
  BY <1>1, FaultEnds DEF ReportFits
<1>2. CASE UNCHANGED errorVars
  BY <1>2 DEF ReportFits, errorVars
<1>3. QED  BY <1>1, <1>2 DEF OpenNewPart, CloseCurrentPart

\* The report is the one of the summary with which the export ends.
THEOREM ReportsAreFit == Spec => []ReportFits
<1>1. Init => ReportFits
  BY DEF Init, ReportFits
<1>2. FilesKnown /\ ReportFits /\ [Next]_vars => ReportFits'
  <2> SUFFICES ASSUME FilesKnown, ReportFits, [Next]_vars PROVE ReportFits'
    OBVIOUS
  <2> USE DEF outputVars, replyVars, errorVars
  <2>1. CASE OpenForRow \/ CloseFull \/ OpenHeaderOnly \/ CloseFinal
    BY <2>1, FilesKeepReport DEF OpenForRow, CloseFull, OpenHeaderOnly, CloseFinal
  <2>2. CASE WriteRows \/ WriteDone \/ Abort \/ Drop
    BY <2>2 DEF WriteRows, WriteDone, Abort, Drop, ReportFits
  <2>3. CASE WriteRecord
    <3>1. CASE Fault
      BY <2>3, <3>1, FaultEnds DEF WriteRecord, ReportFits
    <3>2. CASE ~ Fault
      BY <2>3, <3>2 DEF WriteRecord, ReportFits
    <3>3. QED  BY <3>1, <3>2
  <2>4. CASE Finish
    BY <2>4 DEF Finish, ReportFits
  <2>5. CASE FinishCsv
    <3>1. CASE Fault
      BY <2>5, <3>1, FaultEnds DEF FinishCsv, ReportFits
    <3>2. CASE ~ Fault
      <4>1. summary \in Summaries /\ summary' = summary /\ pc' = "assembled"
            /\ output'.kind = "csv" /\ output'.report = {}
        BY <2>5, <3>2 DEF FinishCsv, ReportFits
      <4>2. QED  BY <4>1 DEF ReportFits
    <3>3. QED  BY <3>1, <3>2
  <2>6. CASE FinishZip
    <3>1. CASE Fault
      BY <2>6, <3>1, FaultEnds DEF FinishZip, ReportFits
    <3>2. CASE ~ Fault
      <4>1. /\ summary \in Summaries /\ summary' = summary /\ pc' = "assembled"
            /\ output'.kind = "zip" /\ reportedOn' \in ReportDays
            /\ output'.report = {ReportText(summary, reportedOn')}
        BY <2>6, <3>2 DEF FinishZip, ReportFits
      <4>2. ReportText(summary, reportedOn)' = ReportText(summary, reportedOn')
        BY <4>1 DEF ReportText
      <4>3. QED  BY <4>1, <4>2 DEF ReportFits
    <3>3. QED  BY <3>1, <3>2
  <2>7. CASE Respond
    <3>1. pc = "assembled" /\ UNCHANGED <<summary, output, reportedOn>>
      BY <2>7 DEF Respond
    <3>2. pc' \in {"refused", "responded"}
      <4>1. CASE Fault
        BY <3>1, <4>1, FaultEnds
      <4>2. CASE ~ Fault
        BY <2>7, <4>2 DEF Respond
      <4>3. QED  BY <4>1, <4>2
    <3>3. QED  BY <3>1, <3>2 DEF ReportFits, ReportText
  <2>8. CASE UNCHANGED vars
    BY <2>8 DEF vars, ReportFits, ReportText
  <2>9. QED
    BY <2>1, <2>2, <2>3, <2>4, <2>5, <2>6, <2>7, <2>8 DEF Next
<1>3. QED  BY <1>1, <1>2, FilesAreKnown, PTL DEF Spec

\* What the report of an export says, whenever it is written.
LEMMA ReportTells ==
    ASSUME NEW s \in Summaries, NEW day \in ReportDays,
           NEW text, text = ReportText(s, day)
    PROVE  /\ text.successful + text.failed = text.attempted
           /\ text.failed = Len(text.ranges)
           /\ text.affected = Cardinality(VehiclesOf(text.ranges))
           /\ \A i \in 1 .. Len(text.ranges) - 1 :
                text.ranges[i].lo < text.ranges[i + 1].lo
           /\ IsDate(text.generated, day)
           /\ \A i \in DOMAIN text.ranges : \E r \in ToSet(s.failedRanges) :
                /\ r.lo = text.ranges[i].lo /\ r.hi = text.ranges[i].hi
                /\ IsDate(text.ranges[i].failedOn, r.failedOn)
<1> DEFINE failed == s.failedRanges
           D == DOMAIN failed
           p == PlaceOf(failed)
           shown == text.ranges
<1>1. /\ failed \in Seq([lo : Nat, hi : Nat, vehicles : Nat, failedOn : Nat])
      /\ \A i, j \in D : failed[i].lo = failed[j].lo => i = j
      /\ s.failures = Len(failed)
      /\ s.attempted \in Nat /\ s.attempted >= s.failures
      /\ s.affected = Cardinality(VehiclesOf(failed))
  BY SummariesAssumption
<1>2. /\ Sortable(failed) /\ D = 1 .. Len(failed) /\ Len(failed) \in Nat
      /\ \A i \in D : failed[i] \in [lo : Nat, hi : Nat, vehicles : Nat, failedOn : Nat]
  <2> DEFINE F == [lo : Nat, hi : Nat, vehicles : Nat, failedOn : Nat]
             q == s.failedRanges
  <2>1. q \in Seq(F)
    BY <1>1
  <2>2. \A f \in F : f.lo \in Nat /\ f.vehicles \in Nat
    OBVIOUS
  <2> HIDE DEF F, q
  <2>3. DOMAIN q = 1 .. Len(q) /\ Len(q) \in Nat /\ \A i \in DOMAIN q : q[i] \in F
    BY <2>1
  <2>4. Sortable(q)
    BY <2>2, <2>3 DEF Sortable
  <2>5. QED  BY <2>3, <2>4 DEF q, F
<1>3. /\ p \in [D -> D] /\ \A n \in D : Rank(failed, p[n]) = n
      /\ SortedByLo(failed) = [n \in D |-> failed[p[n]]]
  BY <1>2, SortingPermutes DEF Bijection, Injection
<1>4. shown = [i \in D |-> [failed[p[i]] EXCEPT !.failedOn = CivilFromDays(failed[p[i]].failedOn)]]
  BY <1>3 DEF ReportText
<1>5. \A i \in D : /\ shown[i].lo = failed[p[i]].lo /\ shown[i].hi = failed[p[i]].hi
                   /\ shown[i].vehicles = failed[p[i]].vehicles
                   /\ shown[i].failedOn = CivilFromDays(failed[p[i]].failedOn)
  <2>1. \A i \in D : failed[p[i]] \in [lo : Nat, hi : Nat, vehicles : Nat, failedOn : Nat]
    BY <1>2, <1>3
  <2>2. QED  BY <1>4, <2>1
<1>6. DOMAIN shown = D /\ Len(shown) = Len(failed)
  BY <1>2, <1>4
<1>7. /\ text.attempted = s.attempted /\ text.failed = s.failures /\ text.affected = s.affected
      /\ text.generated = CivilFromDays(day)
      /\ text.successful = IF s.attempted < s.failures THEN 0 ELSE s.attempted - s.failures
  BY DEF ReportText
<1> HIDE DEF failed, p, shown
<1>8. text.successful + text.failed = text.attempted /\ text.failed = Len(shown)
  BY <1>1, <1>2, <1>6, <1>7
<1>9. text.affected = Cardinality(VehiclesOf(shown))
  <2>1. \A n \in DOMAIN failed : shown[n].vehicles = failed[PlaceOf(failed)[n]].vehicles
    BY <1>5 DEF p
  <2>2. Sortable(failed) /\ DOMAIN shown = DOMAIN failed
    BY <1>2, <1>6
  <2> HIDE DEF D
  <2>3. Cardinality(VehiclesOf(shown)) = Cardinality(VehiclesOf(failed))
    BY <2>1, <2>2, SortingKeepsVehicles
  <2>4. QED  BY <1>1, <1>7, <2>3
<1>10. ASSUME NEW i \in 1 .. Len(shown) - 1 PROVE shown[i].lo < shown[i + 1].lo
  <2> HIDE DEF D
  <2>0. i \in 1 .. Len(failed) - 1 /\ Len(failed) \in Nat /\ D = 1 .. Len(failed)
    BY <1>2, <1>6
  <2>1. i \in D /\ i + 1 \in D /\ i < i + 1 /\ p[i] \in D /\ p[i + 1] \in D
    <3>1. i \in D /\ i + 1 \in D /\ i < i + 1
      BY <2>0, SMT
    <3>2. QED  BY <3>1, <1>3
  <2>2. Rank(failed, p[i]) = i /\ Rank(failed, p[i + 1]) = i + 1
    BY <1>3, <2>1
  <2>3. ~ (failed[p[i + 1]].lo < failed[p[i]].lo)
    <3>1. \A j, k \in D : failed[j].lo < failed[k].lo => Rank(failed, j) < Rank(failed, k)
      <4>1. Sortable(failed) /\ D = DOMAIN failed
        BY <1>2 DEF D
      <4>2. QED  BY <4>1, RanksOrder
    <3>2. failed[p[i + 1]].lo < failed[p[i]].lo => i + 1 < i
      BY <3>1, <2>1, <2>2
    <3>3. i \in Nat
      BY <2>0
    <3>4. QED  BY <3>2, <3>3
  <2>4. failed[p[i + 1]].lo # failed[p[i]].lo
    <3>1. p[i] # p[i + 1]
      BY <2>1, <2>2
    <3>2. QED  BY <1>1, <2>1, <3>1
  <2>5. failed[p[i]].lo \in Nat /\ failed[p[i + 1]].lo \in Nat
    BY <1>2, <2>1 DEF Sortable
  <2>6. QED  BY <1>5, <2>1, <2>3, <2>4, <2>5
<1>11. IsDate(text.generated, day)
  BY <1>7, CivilIsRight, AssemblerAssumption
<1>12. ASSUME NEW i \in D
       PROVE  \E r \in ToSet(failed) :
                /\ r.lo = shown[i].lo /\ r.hi = shown[i].hi
                /\ IsDate(shown[i].failedOn, r.failedOn)
  <2>1. p[i] \in D
    BY <1>3
  <2>2. failed[p[i]] \in ToSet(failed) /\ failed[p[i]].failedOn \in Nat
    <3>1. failed[p[i]] \in [lo : Nat, hi : Nat, vehicles : Nat, failedOn : Nat]
      BY <1>2, <2>1
    <3>2. QED  BY <2>1, <3>1 DEF ToSet
  <2>3. IsDate(shown[i].failedOn, failed[p[i]].failedOn)
    BY <1>5, <2>2, CivilIsRight
  <2>4. QED  BY <1>5, <2>2, <2>3
<1>13. QED
  BY <1>6, <1>8, <1>9, <1>10, <1>11, <1>12 DEF shown, failed

\* An export that lost fuel data says so in its file name, its headers and its
\* report, with the counts and the ranges of its summary, and no other does.
THEOREM DegradedSaysSo == Spec => []DegradedIsMarked
<1>1. AnswerFits /\ ReportFits => DegradedIsMarked
  <2> SUFFICES ASSUME AnswerFits, ReportFits, pc = "responded" PROVE DegradedIsMarked
    BY DEF DegradedIsMarked
  <2>1. reply = Response(output.kind, StagedLength, output.parts, summary,
                         request.acceptEncoding)
    BY DEF AnswerFits
  <2>2. /\ reply.fileName.partial <=> HasFailures(summary)
        /\ reply.warnings = IF HasFailures(summary)
                            THEN {[failures |-> summary.failures,
                                   affected |-> summary.affected]} ELSE {}
    BY <2>1 DEF Response, FileName
  <2>3. /\ summary \in Summaries
        /\ \/ (output.kind = "csv" /\ output.report = {})
           \/ /\ output.kind = "zip" /\ reportedOn \in ReportDays
              /\ output.report = {ReportText(summary, reportedOn)}
    BY DEF ReportFits
  <2>4. output.kind = "zip" <=> output.report # {}
    BY <2>3
  <2>5. ASSUME NEW text \in output.report
        PROVE  text = ReportText(summary, reportedOn) /\ reportedOn \in ReportDays
    BY <2>3, <2>5
  <2>6. QED  BY <2>2, <2>3, <2>4, <2>5, ReportTells DEF DegradedIsMarked
<1>2. QED  BY <1>1, AnswersAreFit, ReportsAreFit, PTL

=============================================================================
