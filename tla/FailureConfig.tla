--------------------------- MODULE FailureConfig ---------------------------
(***************************************************************************)
(* rdw-core/src/failure.rs, FailureConfig: when an export has too many     *)
(* failed fuel fetches to be delivered.  Both ways of exporting use it,    *)
(* SequentialExport on its own counts, Pipeline through GlobalAbort.       *)
(***************************************************************************)
EXTENDS Integers

CONSTANTS
    FLOOR,                  \* FailureConfig::floor
    RATIO_NUM, RATIO_DEN    \* FailureConfig::ratio is RATIO_NUM / RATIO_DEN

ASSUME FailureConfigAssumption ==
    /\ FLOOR \in Nat
    /\ RATIO_NUM \in Nat
    /\ RATIO_DEN \in Nat \ {0}

\* Mutant: the ratio alone decides.
ShouldAbortMutant(f, a) == f * RATIO_DEN > RATIO_NUM * a

\* Mutant: exactly the ratio is too much.
ShouldAbortRatioMutant(f, a) == f > FLOOR /\ f * RATIO_DEN >= RATIO_NUM * a

\* FailureConfig::should_abort: failures > max(floor, ratio * attempted).
ShouldAbort(f, a) == f > FLOOR /\ f * RATIO_DEN > RATIO_NUM * a

============================================================================
