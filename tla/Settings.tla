------------------------------ MODULE Settings ------------------------------
(***************************************************************************)
(* What rdw-api/src/main.rs makes of its environment variables, with the   *)
(* defaults and the clamps of the places that take them over.              *)
(***************************************************************************)
EXTENDS Integers, FiniteSetsExt

CONSTANT Unparsable   \* a variable that is unset or holds no usize

ASSUME SettingsAssumption == Unparsable \notin Nat

VEHICLE_PAGE_LIMIT == 50000

\* The variables that are read as a number.
Variables == {"FUEL_CONCURRENCY", "FUEL_KENTEKEN_BATCH", "FUEL_RANGE_COUNT",
              "FUEL_RANGE_WORKERS", "FUEL_RANGE_PAGE_SIZE", "FUEL_FAILURE_FLOOR",
              "UNCOMPRESSED_SIZE_THRESHOLD_MB"}

\* env_usize, and the like of it in failure.rs and state.rs.
EnvUsize(value, default) == IF value \in Nat THEN value ELSE default

AtLeastOne(n) == Max({n, 1})

\* Mutant: a zero is let through, as it once was (main.rs:62-66).
ClampMutant(n, lo, hi) == Min({n, hi})

\* Ord::clamp, or max and min.
Clamp(n, lo, hi) == Max({lo, Min({n, hi})})

\* main, with with_fuel_concurrency, with_fuel_kenteken_batch and AppState::new.
\* The number of workers and the size of a fuel batch have no upper bound here.
Config(env) ==
    [rangeCount        |-> AtLeastOne(EnvUsize(env["FUEL_RANGE_COUNT"], 64)),
     workerCount       |-> EnvUsize(env["FUEL_RANGE_WORKERS"], 16),
     pageSize          |-> Clamp(EnvUsize(env["FUEL_RANGE_PAGE_SIZE"], 3000),
                                 1, VEHICLE_PAGE_LIMIT),
     fuelConcurrency   |-> AtLeastOne(EnvUsize(env["FUEL_CONCURRENCY"], 16)),
     fuelKentekenBatch |-> AtLeastOne(EnvUsize(env["FUEL_KENTEKEN_BATCH"], 800)),
     failureFloor      |-> EnvUsize(env["FUEL_FAILURE_FLOOR"], 3),
     thresholdMb       |-> EnvUsize(env["UNCOMPRESSED_SIZE_THRESHOLD_MB"], 50)]

\* The number of tasks fetch_and_widen_concurrent spawns.
WorkersSpawned(config) == Clamp(config.workerCount, 1, AtLeastOne(config.rangeCount))

============================================================================
