------------------------------ MODULE Pipeline ------------------------------
(***************************************************************************)
(* rdw-api/src/pipeline.rs, fetch_and_widen_concurrent: worker tasks take  *)
(* kenteken ranges from a queue, page through the vehicles of each range,  *)
(* fetch their fuel rows and stage the joined rows; a main task joins the  *)
(* workers, cancels them when the export has failed, and reconciles the    *)
(* staged rows with the count it asked for first.  The workers share a     *)
(* GlobalAbort.                                                            *)
(*                                                                         *)
(* RDW's dataset changes while the export reads it.                        *)
(***************************************************************************)
EXTENDS KentekenRanges, FailureConfig, FiniteSets, Sequences, FiniteSetsExt

CONSTANTS
    Workers,                             \* the spawned range workers
    MaxAttempts,                         \* bound, above every reachable count
    Plates,                              \* the kentekens that may exist
    PageSize,                            \* ConcurrentConfig::page_size
    ToleranceFloor, ToleranceDivisor,    \* 50 and 2000 in the code
    MaxChanges,                          \* bound on changes of the dataset
    MaxFaults                            \* bound on hard errors and panics

ASSUME PipelineAssumption ==
    /\ Workers # {} /\ IsFiniteSet(Workers)
    /\ Plates \subseteq 0 .. Prefixes * Width - 1
    /\ PageSize \in Nat \ {0}
    /\ ToleranceFloor \in Nat /\ ToleranceDivisor \in Nat \ {0}
    /\ MaxChanges \in Nat /\ MaxFaults \in Nat

VARIABLES
    dataset,      \* the vehicles RDW has now
    changes,      \* how often it changed
    lasting,      \* history: the vehicles it had ever since the count
    expected,     \* the count asked for before any worker is spawned
    queue,        \* ranges not yet claimed
    pc,           \* where each worker is
    range,        \* the range it has claimed
    cursor,       \* the last plate it has staged in that range, -1 for none
    page,         \* the vehicles of the page in hand
    fuelFailed,   \* whether their fuel fetch failed
    attempted, failures, aborted, call,    \* the GlobalAbort
    summary,      \* FuelFailureSummary
    rows,         \* how often each vehicle was staged, by fuel status
    emitted,      \* emitted_count
    hardError,    \* the slot for a worker's error
    errorFlag,    \* hard_error_flag
    faults,       \* history: the hard errors and panics that happened
    cancelled,    \* abort_all was called
    joined,       \* workers the main task has joined
    main,         \* where the main task is
    result        \* what fetch_and_widen_concurrent returns

rdwVars == <<dataset, changes, lasting>>
abortVars == <<attempted, failures, aborted, call>>
workerVars == <<pc, range, cursor, page, fuelFailed>>
mainVars == <<expected, cancelled, joined, main, result>>
errorVars == <<hardError, errorFlag, faults>>
outputVars == <<summary, rows, emitted>>

vars == <<rdwVars, abortVars, workerVars, mainVars, errorVars, outputVars, queue>>

Abort == INSTANCE GlobalAbort

Statuses == {"fetched", "fuel_unavailable"}
Terminal == {"done", "panicked", "cancelled"}

\* The await points of a worker, where a cancelled task can be dropped.
Awaiting == {"pop", "fetch", "fuel", "stage"}

Tolerance(count) ==
    Max({ToleranceFloor, count \div ToleranceDivisor})

\* What RDW answers to fetch_vehicle_range_page: the first PageSize vehicles,
\* in plate order, of the range and after the cursor.
NextPage(i, after) ==
    LET left == {p \in dataset : InRange(i, p) /\ p > after}
    IN  {p \in left : Cardinality({q \in left : q < p}) < PageSize}

Init ==
    /\ dataset \in SUBSET Plates
    /\ lasting = dataset
    /\ changes = 0
    /\ expected = 0
    /\ queue = [i \in 1 .. RangeCount |-> i]
    /\ pc = [w \in Workers |-> "unborn"]
    /\ range = [w \in Workers |-> 0]
    /\ cursor = [w \in Workers |-> -1]
    /\ page = [w \in Workers |-> {}]
    /\ fuelFailed = [w \in Workers |-> FALSE]
    /\ Abort!Init
    /\ summary = [attempted |-> 0, failures |-> 0, affected |-> 0]
    /\ rows = [p \in Plates |-> [s \in Statuses |-> 0]]
    /\ emitted = 0
    /\ hardError = "none"
    /\ errorFlag = FALSE
    /\ faults = {}
    /\ cancelled = FALSE
    /\ joined = {}
    /\ main = "count"
    /\ result = "none"

----------------------------------------------------------------------------
\* RDW: a vehicle is registered or deregistered while the export runs, after the
\* count was answered.  Earlier changes are what Init leaves open.
Change ==
    /\ changes < MaxChanges
    /\ main \notin {"count", "returned"}
    /\ changes' = changes + 1
    /\ \E p \in Plates :
         dataset' = IF p \in dataset THEN dataset \ {p} ELSE dataset \cup {p}
    /\ lasting' = lasting \cap dataset'
    /\ UNCHANGED <<abortVars, workerVars, mainVars, errorVars, outputVars, queue>>

----------------------------------------------------------------------------
\* The workers.

Goto(w, step) == pc' = [pc EXCEPT ![w] = step]

\* Mutant: the worker looks again instead of ending.
ClaimMutant(w) ==
    /\ pc[w] = "claim"
    /\ Goto(w, IF aborted \/ errorFlag THEN "claim" ELSE "pop")
    /\ UNCHANGED <<rdwVars, abortVars, mainVars, errorVars, outputVars, queue,
                   range, cursor, page, fuelFailed>>

\* The head of the worker loop (lines 310-312).
Claim(w) ==
    /\ pc[w] = "claim"
    /\ Goto(w, IF aborted \/ errorFlag THEN "done" ELSE "pop")
    /\ UNCHANGED <<rdwVars, abortVars, mainVars, errorVars, outputVars, queue,
                   range, cursor, page, fuelFailed>>

Pop(w) ==
    /\ pc[w] = "pop"
    /\ \/ /\ queue = <<>>
          /\ Goto(w, "done")
          /\ UNCHANGED <<queue, range, cursor>>
       \/ /\ queue # <<>>
          /\ range' = [range EXCEPT ![w] = Head(queue)]
          /\ queue' = Tail(queue)
          /\ cursor' = [cursor EXCEPT ![w] = -1]
          /\ Goto(w, "page")
    /\ UNCHANGED <<rdwVars, abortVars, mainVars, errorVars, outputVars, page,
                   fuelFailed>>

\* The head of the page loop in fetch_one_range.
CheckAbort(w) ==
    /\ pc[w] = "page"
    /\ Goto(w, IF aborted THEN "claim" ELSE "fetch")
    /\ UNCHANGED <<rdwVars, abortVars, mainVars, errorVars, outputVars, queue,
                   range, cursor, page, fuelFailed>>

\* A hard error of kind e: fetch_one_range returns it to the worker loop,
\* which stores it in the slot, over any error that is already there.
Fail(w, e) ==
    /\ Cardinality(faults) < MaxFaults
    /\ faults' = faults \cup {e}
    /\ hardError' = e
    /\ Goto(w, "flag")

FetchPage(w) ==
    /\ pc[w] = "fetch"
    /\ \/ /\ page' = [page EXCEPT ![w] = NextPage(range[w], cursor[w])]
          /\ Goto(w, IF page'[w] = {} THEN "claim" ELSE "fuel")
          /\ UNCHANGED errorVars
       \/ /\ Fail(w, "Upstream")
          /\ UNCHANGED <<page, errorFlag>>
    /\ UNCHANGED <<rdwVars, abortVars, mainVars, outputVars, queue, range,
                   cursor, fuelFailed>>

\* The fuel fetch and its entry in the summary (nobody reads the summary
\* before every worker is joined).
FetchFuel(w) ==
    /\ pc[w] = "fuel"
    /\ \E failed \in BOOLEAN :
         /\ fuelFailed' = [fuelFailed EXCEPT ![w] = failed]
         /\ summary' = [attempted |-> summary.attempted + 1,
                        failures  |-> summary.failures + (IF failed THEN 1 ELSE 0),
                        affected  |-> summary.affected +
                                      (IF failed THEN Cardinality(page[w]) ELSE 0)]
    /\ Goto(w, "record")
    /\ UNCHANGED <<rdwVars, abortVars, mainVars, errorVars, queue, range, cursor,
                   page, rows, emitted>>

\* record_and_check, in the four steps of GlobalAbort; when it says that the
\* export is aborting, the page is dropped.
Record(w) ==
    /\ pc[w] = "record"
    /\ \/ (Abort!Count(w, fuelFailed[w]) \/ Abort!Tally(w) \/ Abort!Judge(w))
          /\ UNCHANGED pc
       \/ Abort!Answer(w) /\ Goto(w, IF aborted THEN "claim" ELSE "stage")
    /\ UNCHANGED <<rdwVars, mainVars, errorVars, outputVars, queue, range, cursor,
                   page, fuelFailed>>

\* merge_join, then write_rows under the assembler lock; what fails in either
\* (DataIntegrity, Assembly) goes the same way.
Stage(w) ==
    LET status == IF fuelFailed[w] THEN "fuel_unavailable" ELSE "fetched"
    IN  /\ pc[w] = "stage"
        /\ \/ /\ rows' = [p \in Plates |->
                            IF p \in page[w] THEN [rows[p] EXCEPT ![status] = @ + 1]
                            ELSE rows[p]]
              /\ Goto(w, "emit")
              /\ UNCHANGED errorVars
           \/ /\ Fail(w, "Staging")
              /\ UNCHANGED <<rows, errorFlag>>
        /\ UNCHANGED <<rdwVars, abortVars, mainVars, queue, range, cursor, page,
                       fuelFailed, summary, emitted>>

\* Mutant: one is counted for the page instead of one for each of its rows.
EmitMutant(w) ==
    /\ pc[w] = "emit"
    /\ emitted' = emitted + 1
    /\ cursor' = [cursor EXCEPT ![w] = Max(page[w])]
    /\ Goto(w, IF Cardinality(page[w]) < PageSize THEN "claim" ELSE "page")
    /\ UNCHANGED <<rdwVars, abortVars, mainVars, errorVars, queue, range, page,
                   fuelFailed, summary, rows>>

\* Count the rows, move the cursor; a short page is the last of its range.
Emit(w) ==
    /\ pc[w] = "emit"
    /\ emitted' = emitted + Cardinality(page[w])
    /\ cursor' = [cursor EXCEPT ![w] = Max(page[w])]
    /\ Goto(w, IF Cardinality(page[w]) < PageSize THEN "claim" ELSE "page")
    /\ UNCHANGED <<rdwVars, abortVars, mainVars, errorVars, queue, range, page,
                   fuelFailed, summary, rows>>

\* hard_error_flag.store(true), after the slot; then the worker ends.
RaiseFlag(w) ==
    /\ pc[w] = "flag"
    /\ errorFlag' = TRUE
    /\ Goto(w, "done")
    /\ UNCHANGED <<rdwVars, abortVars, mainVars, outputVars, queue, range, cursor,
                   page, fuelFailed, hardError, faults>>

\* A panic in merge_join, widen or write_rows unwinds the task.
Panic(w) ==
    /\ pc[w] = "stage"
    /\ Cardinality(faults) < MaxFaults
    /\ faults' = faults \cup {"WorkerPanic"}
    /\ Goto(w, "panicked")
    /\ UNCHANGED <<rdwVars, abortVars, mainVars, outputVars, queue, range, cursor,
                   page, fuelFailed, hardError, errorFlag>>

\* abort_all takes effect when the task is suspended at an await.
Cancel(w) ==
    /\ cancelled
    /\ pc[w] \in Awaiting
    /\ Goto(w, "cancelled")
    /\ UNCHANGED <<rdwVars, abortVars, mainVars, errorVars, outputVars, queue,
                   range, cursor, page, fuelFailed>>

Work(w) ==
    \/ Claim(w) \/ Pop(w) \/ CheckAbort(w) \/ FetchPage(w) \/ FetchFuel(w)
    \/ Record(w) \/ Stage(w) \/ Emit(w) \/ RaiseFlag(w)

----------------------------------------------------------------------------
\* The main task.

Return(r) == result' = r /\ main' = "returned"

\* fetch_vehicle_count, then one spawn per worker.
CountAndSpawn ==
    /\ main = "count"
    /\ \/ /\ expected' = Cardinality(dataset)
          /\ pc' = [w \in Workers |-> "claim"]
          /\ main' = "join"
          /\ UNCHANGED result
       \/ /\ Return("Upstream")
          /\ UNCHANGED <<expected, pc>>
    /\ UNCHANGED <<rdwVars, abortVars, errorVars, outputVars, queue, range, cursor,
                   page, fuelFailed, cancelled, joined>>

\* Mutant: the loop ends as soon as the export has failed.
JoinLoopMutant ==
    /\ main = "join"
    /\ IF joined = Workers \/ errorFlag
       THEN main' = "conclude" /\ UNCHANGED cancelled
       ELSE main' = "wait" /\ cancelled' = (cancelled \/ aborted \/ errorFlag)
    /\ UNCHANGED <<rdwVars, abortVars, workerVars, errorVars, outputVars, queue,
                   expected, joined, result>>

\* The head of the join loop: abort_all once the export has failed.
JoinLoop ==
    /\ main = "join"
    /\ IF joined = Workers
       THEN main' = "conclude" /\ UNCHANGED cancelled
       ELSE main' = "wait" /\ cancelled' = (cancelled \/ aborted \/ errorFlag)
    /\ UNCHANGED <<rdwVars, abortVars, workerVars, errorVars, outputVars, queue,
                   expected, joined, result>>

\* Mutant: a join error is discarded, as the code once did (lines 346-351).
JoinNextMutant(w) ==
    /\ main = "wait"
    /\ pc[w] \in Terminal
    /\ w \notin joined
    /\ joined' = joined \cup {w}
    /\ main' = "join"
    /\ UNCHANGED <<rdwVars, abortVars, workerVars, outputVars, queue, expected,
                   cancelled, result, errorVars>>

\* join_next: a panic becomes the error if no other error is there yet.
JoinNext(w) ==
    /\ main = "wait"
    /\ pc[w] \in Terminal
    /\ w \notin joined
    /\ joined' = joined \cup {w}
    /\ IF pc[w] = "panicked"
       THEN /\ hardError' = IF hardError = "none" THEN "WorkerPanic" ELSE hardError
            /\ errorFlag' = TRUE
       ELSE UNCHANGED <<hardError, errorFlag>>
    /\ main' = "join"
    /\ UNCHANGED <<rdwVars, abortVars, workerVars, outputVars, queue, expected,
                   cancelled, result, faults>>

\* Mutant: the abort flag is not looked at again after the joins.
ConcludeMutant ==
    LET diff == IF expected >= emitted THEN expected - emitted ELSE emitted - expected
    IN  /\ main = "conclude"
        /\ Return(IF hardError # "none" THEN hardError
                  ELSE IF diff > Tolerance(expected) THEN "Mismatch"
                  ELSE "Ok")
        /\ UNCHANGED <<rdwVars, abortVars, workerVars, errorVars, outputVars, queue,
                       expected, cancelled, joined>>

\* Lines 364-405: a hard error, then the threshold, then the reconciliation.
Conclude ==
    LET diff == IF expected >= emitted THEN expected - emitted ELSE emitted - expected
    IN  /\ main = "conclude"
        /\ Return(IF hardError # "none" THEN hardError
                  ELSE IF aborted THEN "Threshold"
                  ELSE IF diff > Tolerance(expected) THEN "Mismatch"
                  ELSE "Ok")
        /\ UNCHANGED <<rdwVars, abortVars, workerVars, errorVars, outputVars, queue,
                       expected, cancelled, joined>>

MainStep == CountAndSpawn \/ JoinLoop \/ (\E w \in Workers : JoinNext(w)) \/ Conclude

Next ==
    \/ Change
    \/ \E w \in Workers : Work(w) \/ Panic(w) \/ Cancel(w)
    \/ MainStep

Spec == Init /\ [][Next]_vars

\* While some task can run the runtime polls one, and every RDW call ends: it
\* has a timeout and a bounded number of attempts.  No task is favoured.
FairSpec == Spec /\ WF_vars(MainStep \/ \E w \in Workers : Work(w))

----------------------------------------------------------------------------
RowsOf(p) == rows[p]["fetched"] + rows[p]["fuel_unavailable"]

\* No vehicle is ever staged twice: the ranges do not overlap, a range is
\* claimed by one worker, and the keyset cursor only moves forward, even while
\* RDW registers and deregisters vehicles.
NoDuplicateRows == \A p \in Plates : RowsOf(p) <= 1

\* Never partial: an export that succeeds has staged every vehicle that RDW
\* had from the count to the end, whatever the workers' interleaving, and
\* whichever of them were cancelled.
CompleteOnSuccess ==
    result = "Ok" => \A p \in lasting : RowsOf(p) = 1

\* What the client is told (-PARTIAL, X-Export-Warnings) is what it gets: the
\* summary counts exactly the rows marked fuel_unavailable, and the failures
\* are below the abort threshold.
SummaryTruthful ==
    result = "Ok" =>
      /\ summary.affected =
           Cardinality({p \in Plates : rows[p]["fuel_unavailable"] > 0})
      /\ summary.failures = failures /\ summary.attempted = attempted
      /\ ~ ShouldAbort(summary.failures, summary.attempted)

\* A hard error or a panic of any worker is what the export returns; neither
\* the cancellation it causes nor the threshold or the reconciliation hides it.
ErrorsSurface ==
    result # "none" /\ faults # {} => result \in faults

\* The reconciliation raises no false alarm: it fails only if RDW changed more
\* often than the tolerance allows.
MismatchMeansChange ==
    result = "Mismatch" => changes > Tolerance(expected)

\* When the export returns, no worker holds the assembler any more: the
\* handler's Arc::try_unwrap cannot meet its unreachable! (handlers.rs:166-172).
SoleOwnerAtReturn ==
    main \in {"conclude", "returned"} =>
      \A w \in Workers : pc[w] \in Terminal \cup {"unborn"}

\* Although no call sees both totals at one instant, and whichever workers end
\* or are cancelled, an excess is never missed once every call has returned.
NoMissedAbort == Abort!NoMissedAbort

\* failure.rs:54-57: with no more than FLOOR failures no export is aborted.
FloorTolerated == Abort!FloorTolerated

\* An export always returns.
Terminates == <>(result # "none")

============================================================================
