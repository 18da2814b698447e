---------------------------- MODULE QuotaLedger ----------------------------
(***************************************************************************)
(* What the rate limiter promises, without counters, resets or eviction: a *)
(* ledger of the reservations that are charged and not given back.  A      *)
(* request is admitted exactly when the ledger has room in the calendar    *)
(* day and in the calendar week of its time stamp.  RateLimiter implements *)
(* this (RateLimiter!Ledger, LedgerImplemented in RateLimiter_proofs).         *)
(***************************************************************************)
EXTENDS RateWindow, FiniteSets

CONSTANTS Keys, Reqs, MaxLag, MaxClock

VARIABLES
    clock,         \* the wall clock, seconds
    outstanding,   \* reservations charged and not released
    answer         \* what the last check was told

vars == <<clock, outstanding, answer>>

Reservation == [req : Reqs, key : Keys, at : Nat]

DayShare(S, k, d) == {o \in S : o.key = k /\ DayKey(o.at) = d}
WeekShare(S, k, w) == {o \in S : o.key = k /\ WeekKey(o.at) = w}

Stamps == {t \in 0 .. clock : clock - t <= MaxLag}

Init ==
    /\ clock \in 0 .. MaxClock   \* the server starts at any time
    /\ outstanding = {}
    /\ answer = "none"

Tick ==
    /\ clock < MaxClock
    /\ clock' = clock + 1
    /\ UNCHANGED <<outstanding, answer>>

Check(r, k, t) ==
    LET day  == Cardinality(DayShare(outstanding, k, DayKey(t)))
        week == Cardinality(WeekShare(outstanding, k, WeekKey(t)))
    IN  /\ ~ \E o \in outstanding : o.req = r /\ o.key = k
        /\ answer' = Verdict(day, week)
        /\ outstanding' = IF Verdict(day, week) = "Allowed"
                          THEN outstanding \cup {[req |-> r, key |-> k, at |-> t]}
                          ELSE outstanding
        /\ UNCHANGED clock

GiveBack(o) ==
    /\ outstanding' = outstanding \ {o}
    /\ UNCHANGED <<clock, answer>>

Next ==
    \/ Tick
    \/ \E r \in Reqs, k \in Keys, t \in Stamps : Check(r, k, t)
    \/ \E o \in outstanding : GiveBack(o)

Spec == Init /\ [][Next]_vars

============================================================================
