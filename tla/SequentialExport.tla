-------------------------- MODULE SequentialExport --------------------------
(***************************************************************************)
(* rdw-api/src/pipeline.rs, fetch_and_widen: the path of an export with a  *)
(* row limit.  One task pages through all vehicles of the brands with a    *)
(* keyset cursor, asking for no more than it can still use, and judges the *)
(* failures of the fuel fetches itself.                                    *)
(*                                                                         *)
(* RDW's dataset changes while the export reads it.                        *)
(***************************************************************************)
EXTENDS FailureConfig, Sequences, FiniteSets, FiniteSetsExt, SequencesExt

CONSTANTS
    Plates,                        \* the kentekens that may exist
    Limits,                        \* the values of ?limit= considered
    VEHICLE_PAGE_LIMIT,            \* 50_000 in the code
    MaxChanges                     \* bound on changes of the dataset

ASSUME SequentialExportAssumption ==
    /\ Plates \subseteq Nat /\ IsFiniteSet(Plates)
    /\ Limits \subseteq Nat
    /\ VEHICLE_PAGE_LIMIT \in Nat \ {0}
    /\ MaxChanges \in Nat

VARIABLES
    dataset,      \* the vehicles RDW has now
    changes,      \* how often it changed
    lasting,      \* history: the vehicles it had ever since the start
    limit,        \* the limit parameter
    pc,           \* the next step of the loop
    cursor,       \* the last plate of the page before, -1 for none
    asked,        \* page_size
    page,         \* the page in hand: the plates of its vehicles, in order
    fuelFailed,   \* whether its fuel fetch failed
    summary,      \* FuelFailureSummary
    rows,         \* the staged rows, in order; Len(rows) is `produced`
    result        \* what fetch_and_widen returns

rdwVars == <<dataset, changes, lasting>>
vars == <<rdwVars, limit, pc, cursor, asked, page, fuelFailed, summary, rows, result>>

\* The first n vehicles after the cursor.
FirstAfter(after, n) ==
    LET left == {p \in dataset : p > after}
    IN  {p \in left : Cardinality({q \in left : q < p}) < n}

Ascending(s) == \A i, j \in DOMAIN s : i < j => s[i] < s[j]

\* The page RDW answers: these vehicles, in the order of their plates.
Pages(after, n) ==
    LET first == FirstAfter(after, n)
    IN  {s \in [1 .. Cardinality(first) -> first] : ToSet(s) = first /\ Ascending(s)}

Remaining == limit - Len(rows)

Init ==
    /\ dataset \in SUBSET Plates
    /\ lasting = dataset
    /\ changes = 0
    /\ limit \in Limits
    /\ pc = "page"
    /\ cursor = -1
    /\ asked = 0
    /\ page = <<>>
    /\ fuelFailed = FALSE
    /\ summary = [attempted |-> 0, failures |-> 0, affected |-> 0]
    /\ rows = <<>>
    /\ result = "none"

Return(r) == pc' = "done" /\ result' = r

----------------------------------------------------------------------------
\* RDW: a vehicle is registered or deregistered while the export runs.
Change ==
    /\ changes < MaxChanges
    /\ pc # "done"
    /\ changes' = changes + 1
    /\ \E p \in Plates :
         dataset' = IF p \in dataset THEN dataset \ {p} ELSE dataset \cup {p}
    /\ lasting' = lasting \cap dataset'
    /\ UNCHANGED <<limit, pc, cursor, asked, page, fuelFailed, summary, rows, result>>

\* Mutant: a full page is asked for however little is still needed.
PageSizeMutant == VEHICLE_PAGE_LIMIT

PageSize == Min({Remaining, VEHICLE_PAGE_LIMIT})

\* Mutant: an empty page is asked for again.
FetchPageMutant ==
    /\ pc = "page"
    /\ \/ /\ Remaining = 0
          /\ Return("Ok")
          /\ UNCHANGED <<asked, page>>
       \/ /\ Remaining > 0
          /\ asked' = PageSize
          /\ page' \in Pages(cursor, PageSize)
          /\ pc' = IF page' = <<>> THEN "page" ELSE "fuel"
          /\ UNCHANGED result
    /\ UNCHANGED <<rdwVars, limit, cursor, fuelFailed, summary, rows>>

\* The head of the loop: ?limit=0 and a limit that is used up need no page; an
\* empty page ends the export.
FetchPage ==
    /\ pc = "page"
    /\ \/ /\ Remaining = 0
          /\ Return("Ok")
          /\ UNCHANGED <<asked, page>>
       \/ /\ Remaining > 0
          /\ asked' = PageSize
          /\ page' \in Pages(cursor, PageSize)
          /\ IF page' = <<>> THEN Return("Ok") ELSE pc' = "fuel" /\ UNCHANGED result
       \/ /\ Remaining > 0
          /\ Return("Upstream")
          /\ UNCHANGED <<asked, page>>
    /\ UNCHANGED <<rdwVars, limit, cursor, fuelFailed, summary, rows>>

\* The fuel fetch and its entry in the summary.
FetchFuel ==
    /\ pc = "fuel"
    /\ \E failed \in BOOLEAN :
         /\ fuelFailed' = failed
         /\ summary' = [attempted |-> summary.attempted + 1,
                        failures  |-> summary.failures + (IF failed THEN 1 ELSE 0),
                        affected  |-> summary.affected +
                                      (IF failed THEN Len(page) ELSE 0)]
    /\ pc' = "join"
    /\ UNCHANGED <<rdwVars, limit, cursor, asked, page, rows, result>>

\* merge_join, which may reject the fuel rows, then the threshold.
JoinAndJudge ==
    /\ pc = "join"
    /\ \/ Return("DataIntegrity")
       \/ IF ShouldAbort(summary.failures, summary.attempted) THEN Return("Threshold")
          ELSE pc' = "stage" /\ UNCHANGED result
    /\ UNCHANGED <<rdwVars, limit, cursor, asked, page, fuelFailed, summary, rows>>

\* The rows of a page, in its order, with their export status.
RowsOfPage ==
    [i \in DOMAIN page |->
       [plate |-> page[i],
        status |-> IF fuelFailed THEN "fuel_unavailable" ELSE "fetched"]]

\* After the rows of a page: the limit is reached, the page was a short one,
\* or the loop goes on.
AfterPage(n) ==
    IF Len(page) < n \/ Len(rows') >= limit THEN Return("Ok")
    ELSE pc' = "page" /\ UNCHANGED result

\* Mutant: the cursor does not move.
StageMutant ==
    /\ pc = "stage"
    /\ rows' = rows \o SubSeq(RowsOfPage, 1, Min({Remaining, Len(page)}))
    /\ UNCHANGED cursor
    /\ AfterPage(asked)
    /\ UNCHANGED <<rdwVars, limit, asked, page, fuelFailed, summary>>

\* Widen and write up to the limit, then move the cursor (which nothing reads
\* any more once the limit is reached).
Stage ==
    /\ pc = "stage"
    /\ \/ /\ rows' = rows \o SubSeq(RowsOfPage, 1, Min({Remaining, Len(page)}))
          /\ cursor' = Last(page)
          /\ AfterPage(asked)
       \/ /\ Return("Assembly")
          /\ UNCHANGED <<rows, cursor>>
    /\ UNCHANGED <<rdwVars, limit, asked, page, fuelFailed, summary>>

Step == FetchPage \/ FetchFuel \/ JoinAndJudge \/ Stage

Next == Change \/ Step

Spec == Init /\ [][Next]_vars

\* The task is polled until it ends, and every RDW call ends (FetchClient).
FairSpec == Spec /\ WF_vars(Step)

----------------------------------------------------------------------------
PlateAt(i) == rows[i].plate

\* A limited export that succeeds holds the first vehicles there are: its rows
\* ascend, and no vehicle that RDW had throughout is missing before the last
\* row, or at all if the limit was not reached.
FirstVehicles ==
    /\ Len(rows) <= limit
    /\ \A i \in 1 .. Len(rows) - 1 : PlateAt(i) < PlateAt(i + 1)
    /\ result = "Ok" =>
         \A p \in lasting :
            \/ \E i \in DOMAIN rows : PlateAt(i) = p
            \/ Len(rows) = limit /\ \A i \in DOMAIN rows : PlateAt(i) < p

\* The summary the client is shown counts exactly the rows it marks, though
\* it is taken before the rows are cut off at the limit, and it is below the
\* abort threshold, also when the last page was the one that exceeded it.
SummaryTruthful ==
    result = "Ok" =>
        /\ summary.affected =
             Cardinality({i \in DOMAIN rows : rows[i].status = "fuel_unavailable"})
        /\ ~ ShouldAbort(summary.failures, summary.attempted)

\* failure.rs:46-52: the allowance is the larger of the floor and the share of
\* the attempts, and using it up exactly is no reason to abort.  Whatever pages
\* succeed or fail, the export ends for its failures only when they exceed it,
\* and no further page is staged or asked for while they do.
ThresholdIsExact ==
    LET allowance == Max({FLOOR * RATIO_DEN, RATIO_NUM * summary.attempted})
        exceeded == summary.failures * RATIO_DEN > allowance
    IN  /\ result = "Threshold" => exceeded
        /\ pc # "join" /\ result \notin {"Threshold", "DataIntegrity"} => ~ exceeded

\* The export always returns, although RDW keeps changing.
Terminates == <>(result # "none")

============================================================================
