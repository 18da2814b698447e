------------------------------ MODULE RdwRows ------------------------------
(***************************************************************************)
(* The rows of RDW's two datasets as the client hands them on: of a        *)
(* vehicle only its kenteken, of a fuel row its kenteken and its           *)
(* brandstof_volgnummer, are ever looked at by the fetch and the join.     *)
(***************************************************************************)
EXTENDS Integers, Sequences, FiniteSetsExt, SequencesExt

CONSTANTS
    Plates,     \* kentekens, in their string order
    NoPlate     \* a row without a kenteken cell

ASSUME RdwRowsAssumption == Plates \subseteq Nat /\ NoPlate \notin Nat

NoVolgnummer == -1   \* a cell that is missing or not a number

FuelRow == [kenteken : Plates \cup {NoPlate}, volgnummer : Nat \cup {NoVolgnummer}]

Row(p, n) == [kenteken |-> p, volgnummer |-> n]

============================================================================
