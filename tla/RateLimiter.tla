---------------------------- MODULE RateLimiter ----------------------------
(***************************************************************************)
(* rdw-core/src/rate_limit.rs, RateLimiter: the map from rate keys to      *)
(* window counters and its three operations, called by any number of       *)
(* request threads.  Each operation holds the entry's DashMap shard lock   *)
(* from beginning to end, so it is one action.                             *)
(*                                                                         *)
(* The operations take the caller's time stamp, read from the clock before *)
(* the call.  MaxLag bounds how old that stamp may be when the call runs:  *)
(* 0 says that no clock tick falls between reading the clock and the call. *)
(*                                                                         *)
(* outstanding is a history variable: the reservations that callers were   *)
(* granted and did not give back.  The code keeps only the counters.       *)
(***************************************************************************)
EXTENDS RateWindow, FiniteSets

CONSTANTS
    Keys,      \* rate keys: one API key and one brand
    Reqs,      \* the requests that call the limiter
    NoEntry,   \* "the map has no entry for this key"
    MaxLag,    \* how old, in seconds, a caller's time stamp may be
    MaxClock   \* bound on the clock

ASSUME RateLimiterAssumption ==
    /\ NoEntry \notin WindowState
    /\ MaxLag \in Nat
    /\ MaxClock \in Nat

VARIABLES clock, entries, outstanding, answer

vars == <<clock, entries, outstanding, answer>>

Reservation == [req : Reqs, key : Keys, at : Nat]

DayShare(S, k, d) == {o \in S : o.key = k /\ DayKey(o.at) = d}
WeekShare(S, k, w) == {o \in S : o.key = k /\ WeekKey(o.at) = w}

Stamps == {t \in 0 .. clock : clock - t <= MaxLag}

\* DashMap::entry(..).or_default()
EntryOf(k) == IF entries[k] = NoEntry THEN DefaultWindow ELSE entries[k]

Init ==
    /\ clock \in 0 .. MaxClock   \* the server starts at any time
    /\ entries = [k \in Keys |-> NoEntry]
    /\ outstanding = {}
    /\ answer = "none"

Tick ==
    /\ clock < MaxClock
    /\ clock' = clock + 1
    /\ UNCHANGED <<entries, outstanding, answer>>

\* A request asks for one key at most once until it gives it back.
CheckAndRecord(r, k, now) ==
    LET rolled  == Rolled(EntryOf(k), now)
        verdict == Verdict(rolled.day_count, rolled.week_count)
    IN  /\ ~ \E o \in outstanding : o.req = r /\ o.key = k
        /\ entries' = [entries EXCEPT ![k] = Recorded(EntryOf(k), now)]
        /\ answer' = verdict
        /\ outstanding' = IF verdict = "Allowed"
                          THEN outstanding \cup {[req |-> r, key |-> k, at |-> now]}
                          ELSE outstanding
        /\ UNCHANGED clock

\* The caller passes the stamp it recorded with, however late it calls.
Release(o) ==
    /\ entries' = IF entries[o.key] = NoEntry THEN entries
                  ELSE [entries EXCEPT ![o.key] = Released(@, o.at)]
    /\ outstanding' = outstanding \ {o}
    /\ UNCHANGED <<clock, answer>>

EvictStale(now) ==
    /\ entries' = [k \in Keys |->
                     IF entries[k] = NoEntry \/ IsStale(EntryOf(k), now)
                     THEN NoEntry ELSE entries[k]]
    /\ UNCHANGED <<clock, outstanding, answer>>

Next ==
    \/ Tick
    \/ \E r \in Reqs, k \in Keys, t \in Stamps : CheckAndRecord(r, k, t)
    \/ \E o \in outstanding : Release(o)
    \/ \E t \in Stamps : EvictStale(t)

Spec == Init /\ [][Next]_vars

----------------------------------------------------------------------------
TypeOK ==
    /\ clock \in 0 .. MaxClock
    /\ entries \in [Keys -> WindowState \cup {NoEntry}]
    /\ outstanding \subseteq Reservation
    /\ IsFiniteSet(outstanding)
    /\ answer \in Outcomes \cup {"none"}

\* No caller is ever charged for a request that is not outstanding: whatever
\* the age of the stamps, however releases, resets and evictions interleave,
\* the counters of a key never exceed the reservations that are really held in
\* the windows they count.  So a refusal always has enough holders behind it.
NeverOvercharged ==
    \A k \in Keys : entries[k] # NoEntry =>
        /\ entries[k].day_count <=
             Cardinality(DayShare(outstanding, k, entries[k].day_key))
        /\ entries[k].week_count <=
             Cardinality(WeekShare(outstanding, k, entries[k].week_key))

\* No quota is lost either: the counters are exactly the reservations held in
\* their windows.  Depends on stamps that are never older than a tick, on
\* release giving back only in the window it was charged in, and on eviction
\* removing only windows that are over.
LedgerExact ==
    \A k \in Keys : entries[k] # NoEntry =>
        /\ entries[k].day_count =
             Cardinality(DayShare(outstanding, k, entries[k].day_key))
        /\ entries[k].week_count =
             Cardinality(WeekShare(outstanding, k, entries[k].week_key))

\* The product promise (rate_limit.rs:1-6): in no calendar day and in no
\* calendar week does a key hold more reservations than its limits.
WithinLimits ==
    \A k \in Keys : \A t \in 0 .. clock :
        /\ Cardinality(DayShare(outstanding, k, DayKey(t))) <= DAY_LIMIT
        /\ Cardinality(WeekShare(outstanding, k, WeekKey(t))) <= WEEK_LIMIT

\* Evicting an entry never gives quota back: a key without an entry holds no
\* reservation in the week of the clock.
EvictionForgetsNothing ==
    \A k \in Keys : entries[k] = NoEntry =>
        WeekShare(outstanding, k, WeekKey(clock)) = {}

\* What the exactness of the counters rests on: reservations are never newer
\* than the clock, and the windows and last_seen of an entry never lie before
\* a reservation of its key nor after the clock.
ClockOrder ==
    /\ \A o \in outstanding : o.at <= clock
    /\ \A k \in Keys : entries[k] # NoEntry =>
         /\ entries[k].day_key <= DayKey(clock)
         /\ entries[k].week_key <= WeekKey(clock)
    /\ \A o \in outstanding : entries[o.key] # NoEntry =>
         /\ DayKey(o.at) <= entries[o.key].day_key
         /\ WeekKey(o.at) <= entries[o.key].week_key
         /\ o.at <= entries[o.key].last_seen

\* The counters, resets and evictions together are the ledger of QuotaLedger:
\* every answer they give is the answer the ledger gives.
Ledger == INSTANCE QuotaLedger
ImplementsLedger == Ledger!Spec

============================================================================
