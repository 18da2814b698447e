--------------------------- MODULE KentekenRanges ---------------------------
(***************************************************************************)
(* rdw-core/src/ranges.rs and the $where clause of a range page in         *)
(* rdw-client: how the kenteken space is cut into ranges, and which plates *)
(* a range holds.                                                          *)
(*                                                                         *)
(* A plate is a number in the order Socrata compares strings: its first    *)
(* two characters give plate \div Width, and the two-character boundary    *)
(* string of index c is the number c * Width, the least plate that begins  *)
(* with these characters.                                                  *)
(***************************************************************************)
EXTENDS Integers

CONSTANTS
    Prefixes,    \* two-character prefixes, 36 * 36 = 1296 in the code
    Width,       \* plates per prefix
    RangeCount   \* ConcurrentConfig::range_count

ASSUME KentekenRangesAssumption ==
    /\ Prefixes \in Nat \ {0}
    /\ Width \in Nat \ {0}
    /\ RangeCount \in Nat \ {0}

\* fixed_two_char_bands cuts at these, for i in 1 .. RangeCount - 1.
Boundary(i) == ((i * Prefixes) \div RangeCount) * Width

\* Mutant: the lower bound is inclusive (kenteken >= lo).
InRangeMutant(i, plate) ==
    /\ i > 1 => plate >= Boundary(i - 1)
    /\ i < RangeCount => plate <= Boundary(i)

\* Mutant: the upper bound is exclusive (kenteken < hi).
InRangeGapMutant(i, plate) ==
    /\ i > 1 => plate > Boundary(i - 1)
    /\ i < RangeCount => plate < Boundary(i)

\* kenteken > lo AND kenteken <= hi; the first range has no lo, the last no hi.
InRange(i, plate) ==
    /\ i > 1 => plate > Boundary(i - 1)
    /\ i < RangeCount => plate <= Boundary(i)

============================================================================
