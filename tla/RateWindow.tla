---------------------------- MODULE RateWindow ----------------------------
(***************************************************************************)
(* The arithmetic of rdw-core/src/rate_limit.rs: calendar windows, and     *)
(* what the three operations of RateLimiter do to the WindowState of ONE   *)
(* key.  It has no state of its own; RateLimiter, QuotaLedger and          *)
(* FuelHandler extend it.                                                  *)
(***************************************************************************)
EXTENDS Integers

CONSTANTS
    DAY_LIMIT,        \* requests per UTC day and key, 3 in the code
    WEEK_LIMIT,       \* requests per UTC week and key, 5 in the code
    SECONDS_PER_DAY   \* 86_400 in the code; one clock tick is one second

ASSUME RateWindowAssumption ==
    /\ DAY_LIMIT \in Nat \ {0}
    /\ WEEK_LIMIT \in Nat \ {0}
    /\ SECONDS_PER_DAY \in Nat \ {0}

STALE_AFTER_SECS_Mutant == 5 * SECONDS_PER_DAY  \* mutant: shorter than a week
STALE_AFTER_SECS == 8 * SECONDS_PER_DAY

DayKey(now) == now \div SECONDS_PER_DAY

\* Day 0 (1970-01-01) is a Thursday, three days into its Monday-based week.
WeekKey(now) == (DayKey(now) + 3) \div 7

WindowState ==
    [day_key : Nat, day_count : Nat, week_key : Nat, week_count : Nat,
     last_seen : Nat]

DefaultWindow ==
    [day_key |-> 0, day_count |-> 0, week_key |-> 0, week_count |-> 0,
     last_seen |-> 0]

\* Mutant: the weekly count is never reset.
RolledMutant(w, now) ==
    [day_key    |-> DayKey(now),
     day_count  |-> IF w.day_key = DayKey(now) THEN w.day_count ELSE 0,
     week_key   |-> WeekKey(now),
     week_count |-> w.week_count,
     last_seen  |-> w.last_seen]

\* The two resets at the head of check_and_record: a key that is merely
\* DIFFERENT resets the count, whichever of the two is the later one.
Rolled(w, now) ==
    [day_key    |-> DayKey(now),
     day_count  |-> IF w.day_key = DayKey(now) THEN w.day_count ELSE 0,
     week_key   |-> WeekKey(now),
     week_count |-> IF w.week_key = WeekKey(now) THEN w.week_count ELSE 0,
     last_seen  |-> w.last_seen]

\* Mutant: the weekly limit is off by one.
VerdictMutant(dayCount, weekCount) ==
    IF dayCount >= DAY_LIMIT THEN "DayExceeded"
    ELSE IF weekCount > WEEK_LIMIT THEN "WeekExceeded"
    ELSE "Allowed"

\* The verdict on counts that are already rolled: the day is asked first.
Verdict(dayCount, weekCount) ==
    IF dayCount >= DAY_LIMIT THEN "DayExceeded"
    ELSE IF weekCount >= WEEK_LIMIT THEN "WeekExceeded"
    ELSE "Allowed"

\* What check_and_record leaves in the map: the resets stay even when the
\* request is refused, last_seen moves only when it is allowed.
Recorded(w, now) ==
    LET rolled == Rolled(w, now)
    IN  IF Verdict(rolled.day_count, rolled.week_count) = "Allowed"
        THEN [rolled EXCEPT !.day_count = @ + 1, !.week_count = @ + 1,
                            !.last_seen = now]
        ELSE rolled

SaturatingDec(n) == IF n = 0 THEN 0 ELSE n - 1

\* Mutant: release does not ask which window the charge was made in.
ReleasedMutant(w, now) ==
    [w EXCEPT !.day_count = SaturatingDec(@), !.week_count = SaturatingDec(@)]

\* Mutant: neither asks for the window nor stops at 0.
ReleasedPlainMutant(w, now) ==
    [w EXCEPT !.day_count = @ - 1, !.week_count = @ - 1]

\* What release leaves: each count only if its window is still the one of now.
Released(w, now) ==
    [w EXCEPT
        !.day_count  = IF w.day_key = DayKey(now)
                       THEN SaturatingDec(@) ELSE @,
        !.week_count = IF w.week_key = WeekKey(now)
                       THEN SaturatingDec(@) ELSE @]

IsStale(w, now) == now - w.last_seen > STALE_AFTER_SECS

Outcomes == {"Allowed", "DayExceeded", "WeekExceeded"}

============================================================================
