----------------------------- MODULE MergeJoin -----------------------------
(***************************************************************************)
(* rdw-core/src/merge.rs, merge_join: one pass with two cursors over the   *)
(* vehicles of a page and their fuel rows.  It is called with what RDW     *)
(* answered, in whatever order and with whatever holes that has, and must  *)
(* either give every vehicle exactly its fuel rows or fail.                *)
(***************************************************************************)
EXTENDS RdwRows

CONSTANT
    MAX_FUEL_ENTRIES   \* 3 in the code

ASSUME MergeJoinAssumption == MAX_FUEL_ENTRIES \in Nat

VARIABLES
    vehicles, fuel, fuelFetchFailed,   \* the arguments
    vi,         \* the vehicles that have been given their row
    fi,         \* the fuel rows behind the cursor
    fuels,      \* fuels_for_v
    pc,         \* "wait" for the arguments, "validate", "skip", "take" or "done"
    widened,    \* the rows pushed so far
    error       \* "none", or the MergeJoinError returned

joinVars == <<vehicles, fuel, fuelFetchFailed, vi, fi, fuels, pc, widened, error>>
args == <<vehicles, fuel, fuelFetchFailed>>

JoinInit ==
    /\ fuel = <<>>
    /\ fuelFetchFailed = FALSE
    /\ vi = 0
    /\ fi = 0
    /\ fuels = <<>>
    /\ pc = "wait"
    /\ widened = <<>>
    /\ error = "none"

----------------------------------------------------------------------------
\* validate_vehicle_order: strictly ascending kentekens, none missing.
ValidVehicleOrder(vs) ==
    /\ \A i \in DOMAIN vs : vs[i] # NoPlate
    /\ \A i \in 1 .. Len(vs) - 1 : vs[i] < vs[i + 1]

\* validate_fuel_order: strictly ascending in (kenteken, volgnummer).
ValidFuelOrder(fs) ==
    /\ \A i \in DOMAIN fs : fs[i].kenteken # NoPlate /\ fs[i].volgnummer # NoVolgnummer
    /\ \A i \in 1 .. Len(fs) - 1 :
         \/ fs[i].kenteken < fs[i + 1].kenteken
         \/ /\ fs[i].kenteken = fs[i + 1].kenteken
            /\ fs[i].volgnummer < fs[i + 1].volgnummer

Return(e) == pc' = "done" /\ error' = e

\* Lines 87-88, before anything is joined.
Validate ==
    /\ pc = "validate"
    /\ IF ~ ValidVehicleOrder(vehicles) THEN Return("VehicleOrder")
       ELSE IF ~ ValidFuelOrder(fuel) THEN Return("FuelOrder")
       ELSE pc' = (IF vehicles = <<>> THEN "done" ELSE "skip") /\ UNCHANGED error
    /\ UNCHANGED <<args, vi, fi, fuels, widened>>

Vehicle == vehicles[vi + 1]
Fuel == fuel[fi + 1]

\* Fuel rows of plates before the vehicle belong to no vehicle of the page.
SkipOrphan ==
    /\ pc = "skip"
    /\ fi < Len(fuel)
    /\ Fuel.kenteken < Vehicle
    /\ fi' = fi + 1
    /\ UNCHANGED <<args, vi, fuels, pc, widened, error>>

SkipEnds ==
    /\ pc = "skip"
    /\ fi < Len(fuel) => Fuel.kenteken >= Vehicle
    /\ pc' = "take"
    /\ UNCHANGED <<args, vi, fi, fuels, widened, error>>

\* The next fuel row of the vehicle: it must be number Len(fuels) + 1.
TakeFuel ==
    /\ pc = "take"
    /\ fi < Len(fuel)
    /\ Fuel.kenteken = Vehicle
    /\ \/ /\ Fuel.volgnummer # Len(fuels) + 1
          /\ Return("FuelInversion")
          /\ UNCHANGED <<fi, fuels>>
       \/ /\ Fuel.volgnummer = Len(fuels) + 1
          /\ fuels' = Append(fuels, Fuel)
          /\ fi' = fi + 1
          /\ IF Len(fuels') > MAX_FUEL_ENTRIES THEN Return("TooManyFuelEntries")
             ELSE UNCHANGED <<pc, error>>
    /\ UNCHANGED <<args, vi, widened>>

\* Mutant: a vehicle without rows has no fuel, even if the fetch failed.
StatusMutant(rows) == IF rows = <<>> THEN "NoFuelData" ELSE "Ok"

\* ExportStatus
Status(rows) ==
    IF fuelFetchFailed THEN "FuelUnavailable"
    ELSE IF rows = <<>> THEN "NoFuelData" ELSE "Ok"

\* No more rows of this vehicle: push it, and go on with the next.
Push ==
    /\ pc = "take"
    /\ fi < Len(fuel) => Fuel.kenteken # Vehicle
    /\ widened' = Append(widened, [vehicle |-> Vehicle, fuels |-> fuels,
                                   exportStatus |-> Status(fuels)])
    /\ vi' = vi + 1
    /\ fuels' = <<>>
    /\ pc' = IF vi' = Len(vehicles) THEN "done" ELSE "skip"
    /\ UNCHANGED <<args, fi, error>>

JoinStep == Validate \/ SkipOrphan \/ SkipEnds \/ TakeFuel \/ Push

============================================================================
