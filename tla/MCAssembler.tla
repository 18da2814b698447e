---------------------------- MODULE MCAssembler ----------------------------
(***************************************************************************)
(* Assembler for TLC: exports without, with one and with several failed    *)
(* ranges, in an order other than that of the plates, and reports written  *)
(* at the ends of months, leap years and centuries.                        *)
(***************************************************************************)
EXTENDS Assembler

Failed(lo, hi, n, day) == [lo |-> lo, hi |-> hi, vehicles |-> n, failedOn |-> day]

MCSummaries ==
    {[attempted |-> 3, failures |-> 0, affected |-> 0, failedRanges |-> <<>>],
     [attempted |-> 1, failures |-> 1, affected |-> 2,
      failedRanges |-> <<Failed(1, 2, 2, 20637)>>],
     [attempted |-> 4, failures |-> 3, affected |-> 5,
      failedRanges |-> <<Failed(5, 9, 2, 789), Failed(1, 1, 1, 790), Failed(2, 4, 2, 0)>>]}

\* 1 January 1970, 29 February and 1 March 2000, 31 December 2000 and the day
\* after, 28 February and 1 March 2100, and a day of 2026.
MCReportDays == {0, 11016, 11017, 11322, 11323, 47540, 47541, 20637}

============================================================================
