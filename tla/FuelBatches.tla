---------------------------- MODULE FuelBatches ----------------------------
(***************************************************************************)
(* rdw-client, fetch_fuel_for_kentekens: the plates of one vehicle page    *)
(* are cut into batches, the batches are fetched concurrently, and their   *)
(* fuel rows are put together in the order of the batches, whichever       *)
(* answer comes first.                                                     *)
(*                                                                         *)
(* StreamExt::buffered(n) keeps at most n batches that are issued and not  *)
(* yet yielded, and yields them in the order of issue; try_collect stops   *)
(* at the first error that is yielded and drops what is still in flight.   *)
(***************************************************************************)
EXTENDS RdwRows

CONSTANTS
    VolgnummerLists,   \* the volgnummers a plate's fuel rows may have at RDW
    Strays,            \* rows RDW may answer without having been asked
    BatchSize,         \* fuel_kenteken_batch, 800 in the code
    Concurrency,       \* fuel_concurrency, 16 in the code
    FuelPageLimit,     \* fuel_page_limit, 50,000 in the code
    MaxStrays          \* bound on the batches answered with a stray row

ASSUME FuelBatchesAssumption ==
    /\ VolgnummerLists \subseteq Seq(Nat \cup {NoVolgnummer})
    /\ Strays \subseteq FuelRow
    /\ BatchSize \in Nat \ {0}
    /\ Concurrency \in Nat \ {0}
    /\ FuelPageLimit \in Nat \ {0}
    /\ MaxStrays \in Nat

VARIABLES
    kentekens,  \* the plates asked for
    fuelsOf,    \* RDW: the volgnummers of the fuel rows each of them has
    issued,     \* how many batches were issued
    answers,    \* what the batches issued so far were answered
    pages,      \* the pages yielded, in order
    result,     \* what fetch_fuel_for_kentekens returns
    rejected,   \* history: the batches whose request failed at RDW
    strayed     \* history: the batches answered with a row not asked for

fetchVars == <<fuelsOf, kentekens, issued, answers, pages, result, rejected, strayed>>

BatchCount == (Len(kentekens) + BatchSize - 1) \div BatchSize

\* kentekens.chunks(fuel_kenteken_batch): the names of the where clause.
Batch(b) == {kentekens[i] : i \in {j \in DOMAIN kentekens :
                                     (j - 1) \div BatchSize = b - 1}}

FuelRowsOf(p) == [n \in DOMAIN fuelsOf[p] |-> Row(p, fuelsOf[p][n])]

\* A set of plates in ascending order.
InOrder(S) ==
    CHOOSE s \in [1 .. Cardinality(S) -> S] :
        \A i, j \in DOMAIN s : i < j => s[i] < s[j]

\* All fuel rows of a set of plates, ordered by plate and volgnummer.
SortedRows(S) ==
    LET order == InOrder(S)
    IN  FlattenSeq([i \in DOMAIN order |-> FuelRowsOf(order[i])])

\* At most $limit rows.
Limited(rows) == SubSeq(rows, 1, Min({Len(rows), FuelPageLimit}))

\* RDW's answers to one batch: the rows asked for, in order, or (stale or
\* malformed data) one more row among them.
Proper(b) == {Limited(SortedRows(Batch(b)))}
Deviant(b) == {Limited(InsertAt(SortedRows(Batch(b)), i, stray)) :
                 i \in 1 .. Len(SortedRows(Batch(b))) + 1, stray \in Strays}

Answer(status, page) == [is |-> status, rows |-> page]
InFlight == Answer("in flight", <<>>)

FetchInit ==
    /\ fuelsOf \in [Range(kentekens) -> VolgnummerLists]
    /\ issued = 0
    /\ answers = <<>>
    /\ pages = <<>>
    /\ result = "none"
    /\ rejected = {}
    /\ strayed = {}

----------------------------------------------------------------------------
\* Mutant: the cap counts every batch, so the window never slides.
IssueMutant ==
    /\ result = "none"
    /\ issued < BatchCount
    /\ issued < Concurrency
    /\ issued' = issued + 1
    /\ answers' = Append(answers, InFlight)
    /\ UNCHANGED <<fuelsOf, kentekens, pages, result, rejected, strayed>>

\* The stream issues the next batch while it holds fewer than Concurrency.
Issue ==
    /\ result = "none"
    /\ issued < BatchCount
    /\ issued - Len(pages) < Concurrency
    /\ issued' = issued + 1
    /\ answers' = Append(answers, InFlight)
    /\ UNCHANGED <<fuelsOf, kentekens, pages, result, rejected, strayed>>

\* Mutant: the back stop is left out, since batches are small enough.
AcceptMutant(rows) == TRUE

\* A page that holds exactly $limit rows may be cut off there: it is an error.
Accept(rows) == Len(rows) # FuelPageLimit

\* What the closure of the stream makes of an answer.
Arrived(rows) == Answer(IF Accept(rows) THEN "page" ELSE "failed", rows)

\* A batch is answered, in any order: with rows, or with an error after the
\* retries of FetchClient.
Reply(b) ==
    /\ result = "none"
    /\ b \in 1 .. issued
    /\ answers[b] = InFlight
    /\ \/ /\ \E rows \in Proper(b) : answers' = [answers EXCEPT ![b] = Arrived(rows)]
          /\ UNCHANGED <<rejected, strayed>>
       \/ /\ Cardinality(strayed) < MaxStrays
          /\ \E rows \in Deviant(b) : answers' = [answers EXCEPT ![b] = Arrived(rows)]
          /\ strayed' = strayed \cup {b}
          /\ UNCHANGED rejected
       \/ /\ answers' = [answers EXCEPT ![b] = Answer("failed", <<>>)]
          /\ rejected' = rejected \cup {b}
          /\ UNCHANGED strayed
    /\ UNCHANGED <<fuelsOf, kentekens, issued, pages, result>>

\* Mutant: yields whatever is answered first, as buffer_unordered would.
YieldMutant ==
    /\ result = "none"
    /\ \E b \in 1 .. issued :
         /\ answers[b].is \in {"page", "failed"}
         /\ IF answers[b].is = "failed"
            THEN result' = "Err" /\ UNCHANGED <<pages, answers>>
            ELSE /\ pages' = Append(pages, answers[b].rows)
                 /\ answers' = [answers EXCEPT ![b].is = "yielded"]
                 /\ UNCHANGED result
    /\ UNCHANGED <<fuelsOf, kentekens, issued, rejected, strayed>>

\* buffered yields the oldest batch once it is answered; an error ends it all.
Yield ==
    LET b == Len(pages) + 1
    IN  /\ result = "none"
        /\ b <= issued
        /\ answers[b] # InFlight
        /\ IF answers[b].is = "failed"
           THEN result' = "Err" /\ UNCHANGED pages
           ELSE pages' = Append(pages, answers[b].rows) /\ UNCHANGED result
        /\ UNCHANGED <<fuelsOf, kentekens, issued, answers, rejected, strayed>>

\* Every page is there: Ok(pages.into_iter().flatten().collect()).
Collect ==
    /\ result = "none"
    /\ Len(pages) = BatchCount
    /\ result' = "Ok"
    /\ UNCHANGED <<fuelsOf, kentekens, issued, answers, pages, rejected, strayed>>

FetchStep == Issue \/ (\E b \in 1 .. BatchCount : Reply(b)) \/ Yield \/ Collect

============================================================================
