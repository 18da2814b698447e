------------------------------ MODULE PageJoin ------------------------------
(***************************************************************************)
(* One vehicle page on its way to its rows (rdw-api/src/pipeline.rs, the   *)
(* loop body of fetch_one_range and fetch_and_widen): the plates of the    *)
(* page are asked for in concurrent batches (FuelBatches), and what came   *)
(* back, or nothing if a batch failed, is merge-joined with the page       *)
(* (MergeJoin).                                                            *)
(***************************************************************************)
EXTENDS FuelBatches, MergeJoin

CONSTANT VehiclePages   \* the vehicle pages considered: sequences of kentekens

ASSUME PageJoinAssumption == VehiclePages \subseteq Seq(Plates \cup {NoPlate})

vars == <<fetchVars, joinVars>>

\* Lines 446-450, filter_map: a vehicle without a kenteken is not asked for.
Kentekens(page) ==
    FlattenSeq([i \in DOMAIN page |-> IF page[i] = NoPlate THEN <<>> ELSE <<page[i]>>])

Init ==
    /\ vehicles \in VehiclePages
    /\ kentekens = Kentekens(vehicles)
    /\ FetchInit
    /\ JoinInit

----------------------------------------------------------------------------
FetchFuel == FetchStep /\ UNCHANGED joinVars

\* Lines 454-476: all rows of the page, or none and the mark that says so.
HandOver ==
    /\ pc = "wait"
    /\ result # "none"
    /\ fuel' = IF result = "Ok" THEN FlattenSeq(pages) ELSE <<>>
    /\ fuelFetchFailed' = (result = "Err")
    /\ pc' = "validate"
    /\ UNCHANGED <<fetchVars, vehicles, vi, fi, fuels, widened, error>>

Join == JoinStep /\ UNCHANGED fetchVars

Step == FetchFuel \/ HandOver \/ Join

Next == Step

Spec == Init /\ [][Next]_vars

\* The task is polled until it ends, and every fetch ends (FetchClient).
FairSpec == Spec /\ WF_vars(Step)

----------------------------------------------------------------------------
\* What RDW answered to all batches, in the order they were asked.
Answered == FlattenSeq([b \in DOMAIN answers |-> answers[b].rows])

\* What the page is joined with.
Received == IF result = "Err" THEN <<>> ELSE Answered

Positions(rows, p) == {k \in DOMAIN rows : rows[k].kenteken = p}

\* own is what rows hold of a plate: they stand together, and own is all of them.
AreRowsOf(own, p, rows) ==
    \E lo \in 0 .. Len(rows) :
        /\ Positions(rows, p) = lo + 1 .. lo + Len(own)
        /\ \A n \in DOMAIN own : own[n] = rows[lo + n]

\* The order of fuel rows.
Precedes(r, s) ==
    \/ r.kenteken < s.kenteken
    \/ r.kenteken = s.kenteken /\ r.volgnummer < s.volgnummer

\* Some batch has at least as many rows as a page holds.
SomeBatchCut ==
    \E b \in 1 .. BatchCount : Len(SortedRows(Batch(b))) >= FuelPageLimit

\* Whatever the order of the answers, one pass of two cursors gives every
\* vehicle of the page, in order, all fuel rows RDW answered for it and no
\* other: batches do not overtake each other, and orphans, vehicles without
\* rows and rows behind the last vehicle do not shift the cursor.  If RDW
\* answered what it was asked, these are all rows it has of the vehicle.  A
\* vehicle whose batch, or any other batch of the page, failed is marked.
JoinIsExact ==
    pc = "done" /\ error = "none" =>
        /\ Len(widened) = Len(vehicles)
        /\ \A i \in DOMAIN vehicles :
             LET own == widened[i].fuels
             IN  /\ widened[i].vehicle = vehicles[i]
                 /\ AreRowsOf(own, vehicles[i], Received)
                 /\ widened[i].exportStatus = IF result = "Err" THEN "FuelUnavailable"
                                              ELSE IF own = <<>> THEN "NoFuelData" ELSE "Ok"
                 /\ result = "Ok" /\ strayed = {} => own = FuelRowsOf(vehicles[i])

\* The join fails on input that is out of order, incomplete or holds a vehicle
\* with a gap in its volgnummers or too many fuels, and on nothing else: rows
\* of other plates may have any volgnummers, and a failed fetch never fails
\* the page.
FailsExactlyOnBadInput ==
    pc = "done" =>
        LET rows == Received
        IN  error = "none" <=>
              /\ \A i \in DOMAIN vehicles : vehicles[i] # NoPlate
              /\ \A i, j \in DOMAIN vehicles : i < j => vehicles[i] < vehicles[j]
              /\ \A i \in DOMAIN rows :
                   rows[i].kenteken # NoPlate /\ rows[i].volgnummer # NoVolgnummer
              /\ \A i, j \in DOMAIN rows : i < j => Precedes(rows[i], rows[j])
              /\ \A i \in DOMAIN vehicles :
                   LET own == Positions(rows, vehicles[i])
                   IN  /\ Cardinality(own) <= MAX_FUEL_ENTRIES
                       /\ \A k \in own :
                            rows[k].volgnummer = Cardinality({m \in own : m <= k})

\* No false alarm, and no alarm missed: a page is marked as one whose fuel is
\* unavailable exactly if RDW refused one of its batches, or a batch has as
\* many rows as a page holds, so that some may have been cut off.
UnavailableForAReason ==
    strayed = {} => (result = "Err" => rejected # {} \/ SomeBatchCut)
              /\ (result = "Ok" => rejected = {} /\ ~ SomeBatchCut)

\* The page always ends, with its rows or with an error.
PageEnds == <>(pc = "done")

============================================================================
