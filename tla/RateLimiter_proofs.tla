------------------------- MODULE RateLimiter_proofs -------------------------
(***************************************************************************)
(* Proofs about RateLimiter for every set of keys and requests, every      *)
(* positive limit and every length of a day.  Section 1 holds for any age  *)
(* of the callers' time stamps; section 2 assumes MaxLag = 0.              *)
(***************************************************************************)
EXTENDS RateLimiter, TLAPS, FiniteSetTheorems

(***************************************************************************)
(* Window arithmetic.                                                      *)
(***************************************************************************)

\* Window keys of a time stamp are natural numbers and never decrease with
\* time (day_key and week_key, rate_limit.rs:37-46).
LEMMA KeysMonotone ==
    ASSUME NEW s \in Nat, NEW t \in Nat, s <= t
    PROVE  /\ DayKey(s) \in Nat /\ WeekKey(s) \in Nat
           /\ DayKey(s) <= DayKey(t) /\ WeekKey(s) <= WeekKey(t)
<1>1. DayKey(s) \in Nat /\ DayKey(t) \in Nat /\ DayKey(s) <= DayKey(t)
  BY RateWindowAssumption DEF DayKey
<1>2. WeekKey(s) \in Nat /\ WeekKey(s) <= WeekKey(t)
  BY <1>1 DEF WeekKey
<1>3. QED  BY <1>1, <1>2

\* An entry is stale only when the week of its last request is over: the
\* eight days of STALE_AFTER_SECS outlast any calendar week.
LEMMA StaleWeekIsOver ==
    ASSUME NEW s \in Nat, NEW t \in Nat, t - s > STALE_AFTER_SECS
    PROVE  WeekKey(s) < WeekKey(t)
<1>1. DayKey(s) \in Nat /\ DayKey(t) \in Nat
  BY RateWindowAssumption DEF DayKey
<1>2. DayKey(t) >= DayKey(s) + 7
  BY <1>1, RateWindowAssumption DEF DayKey, STALE_AFTER_SECS
<1>3. QED  BY <1>1, <1>2 DEF WeekKey

\* An operation of the map leaves a WindowState.
LEMMA WindowsTyped ==
    ASSUME NEW w \in WindowState, NEW now \in Nat
    PROVE  Rolled(w, now) \in WindowState /\ Recorded(w, now) \in WindowState
           /\ Released(w, now) \in WindowState
<1>1. DayKey(now) \in Nat /\ WeekKey(now) \in Nat  BY KeysMonotone
<1>2. Rolled(w, now) \in WindowState  BY <1>1 DEF Rolled, WindowState
<1>3. Recorded(w, now) \in WindowState
  <2> DEFINE r == Rolled(w, now)
  <2>1. r \in WindowState  BY <1>2
  <2>2. r.day_count + 1 \in Nat /\ r.week_count + 1 \in Nat
    BY <2>1 DEF WindowState
  <2> HIDE DEF r
  <2>3. [r EXCEPT !.day_count = @ + 1, !.week_count = @ + 1,
                  !.last_seen = now] \in WindowState
    BY <2>1, <2>2 DEF WindowState
  <2>4. QED  BY <2>1, <2>3 DEF Recorded, r
<1>4. Released(w, now) \in WindowState
  <2> DEFINE d == IF w.day_key = DayKey(now)
                  THEN SaturatingDec(w.day_count) ELSE w.day_count
             e == IF w.week_key = WeekKey(now)
                  THEN SaturatingDec(w.week_count) ELSE w.week_count
  <2>1. d \in Nat /\ e \in Nat  BY DEF WindowState, SaturatingDec
  <2>2. Released(w, now) = [w EXCEPT !.day_count = d, !.week_count = e]
    BY DEF Released
  <2> HIDE DEF d, e
  <2>3. QED  BY <2>1, <2>2 DEF WindowState
<1>5. QED  BY <1>2, <1>3, <1>4

(***************************************************************************)
(* Shares of the ledger: what adding or removing one reservation does to   *)
(* the number of reservations of a key in a window.                        *)
(***************************************************************************)

\* Shares of a finite ledger are finite.
LEMMA SharesFinite ==
    ASSUME NEW S, IsFiniteSet(S), NEW k, NEW d
    PROVE  /\ IsFiniteSet(DayShare(S, k, d)) /\ IsFiniteSet(WeekShare(S, k, d))
           /\ Cardinality(DayShare(S, k, d)) \in Nat
           /\ Cardinality(WeekShare(S, k, d)) \in Nat
<1>1. DayShare(S, k, d) \subseteq S /\ WeekShare(S, k, d) \subseteq S
  BY DEF DayShare, WeekShare
<1>2. IsFiniteSet(DayShare(S, k, d)) /\ IsFiniteSet(WeekShare(S, k, d))
  BY <1>1, FS_Subset
<1>3. QED  BY <1>2, FS_CardinalityType

\* A new reservation counts once in the day and in the week of its stamp and
\* nowhere else.
LEMMA SharesAfterCharge ==
    ASSUME NEW S, IsFiniteSet(S), NEW n, n \notin S, NEW k, NEW d
    PROVE  /\ Cardinality(DayShare(S \cup {n}, k, d)) =
                Cardinality(DayShare(S, k, d)) +
                (IF n.key = k /\ DayKey(n.at) = d THEN 1 ELSE 0)
           /\ Cardinality(WeekShare(S \cup {n}, k, d)) =
                Cardinality(WeekShare(S, k, d)) +
                (IF n.key = k /\ WeekKey(n.at) = d THEN 1 ELSE 0)
<1>0. /\ IsFiniteSet(DayShare(S, k, d)) /\ IsFiniteSet(WeekShare(S, k, d))
      /\ Cardinality(DayShare(S, k, d)) \in Nat
      /\ Cardinality(WeekShare(S, k, d)) \in Nat
  BY SharesFinite
<1>1. n \notin DayShare(S, k, d) /\ n \notin WeekShare(S, k, d)
  BY DEF DayShare, WeekShare
<1>2. Cardinality(DayShare(S, k, d) \cup {n}) = Cardinality(DayShare(S, k, d)) + 1
  BY <1>0, <1>1, FS_AddElement
<1>3. Cardinality(WeekShare(S, k, d) \cup {n}) = Cardinality(WeekShare(S, k, d)) + 1
  BY <1>0, <1>1, FS_AddElement
<1>4. DayShare(S \cup {n}, k, d) =
        IF n.key = k /\ DayKey(n.at) = d
        THEN DayShare(S, k, d) \cup {n} ELSE DayShare(S, k, d)
  BY DEF DayShare
<1>5. WeekShare(S \cup {n}, k, d) =
        IF n.key = k /\ WeekKey(n.at) = d
        THEN WeekShare(S, k, d) \cup {n} ELSE WeekShare(S, k, d)
  BY DEF WeekShare
<1>6. QED  BY <1>0, <1>2, <1>3, <1>4, <1>5

\* Giving a reservation back uncounts it in its day and its week only.
LEMMA SharesAfterGiveBack ==
    ASSUME NEW S, IsFiniteSet(S), NEW o \in S, NEW k, NEW d
    PROVE  /\ Cardinality(DayShare(S \ {o}, k, d)) =
                Cardinality(DayShare(S, k, d)) -
                (IF o.key = k /\ DayKey(o.at) = d THEN 1 ELSE 0)
           /\ Cardinality(WeekShare(S \ {o}, k, d)) =
                Cardinality(WeekShare(S, k, d)) -
                (IF o.key = k /\ WeekKey(o.at) = d THEN 1 ELSE 0)
<1>1. S = (S \ {o}) \cup {o} /\ o \notin S \ {o} /\ IsFiniteSet(S \ {o})
  BY FS_RemoveElement
<1>2. /\ Cardinality(DayShare(S \ {o}, k, d)) \in Nat
      /\ Cardinality(WeekShare(S \ {o}, k, d)) \in Nat
  BY <1>1, SharesFinite
<1> DEFINE T == S \ {o}
<1>3. /\ Cardinality(DayShare(T \cup {o}, k, d)) =
           Cardinality(DayShare(T, k, d)) +
           (IF o.key = k /\ DayKey(o.at) = d THEN 1 ELSE 0)
      /\ Cardinality(WeekShare(T \cup {o}, k, d)) =
           Cardinality(WeekShare(T, k, d)) +
           (IF o.key = k /\ WeekKey(o.at) = d THEN 1 ELSE 0)
  BY <1>1, SharesAfterCharge
<1>4. T \cup {o} = S  BY <1>1
<1>5. QED  BY <1>2, <1>3, <1>4

(***************************************************************************)
(* Section 1: any age of the callers' stamps.                              *)
(***************************************************************************)

\* A charge writes a window back, and a reservation of its own into the ledger.
LEMMA ChargeTyped ==
    ASSUME TypeOK, NEW r \in Reqs, NEW k \in Keys, NEW t \in Nat, CheckAndRecord(r, k, t)
    PROVE  TypeOK'
<1> USE DEF TypeOK
<1>1. entries' \in [Keys -> WindowState \cup {NoEntry}]
  <2>1. EntryOf(k) \in WindowState
    BY DEF EntryOf, DefaultWindow, WindowState
  <2>2. Recorded(EntryOf(k), t) \in WindowState
    BY <2>1, WindowsTyped
  <2>3. QED  BY <2>2 DEF CheckAndRecord
<1>2. outstanding' \subseteq Reservation /\ IsFiniteSet(outstanding')
  <2> DEFINE n == [req |-> r, key |-> k, at |-> t]
  <2>1. n \in Reservation /\ IsFiniteSet(outstanding \cup {n})
    BY FS_AddElement DEF Reservation
  <2>2. QED  BY <2>1 DEF CheckAndRecord
<1>3. answer' \in Outcomes /\ clock' = clock
  BY DEF CheckAndRecord, Verdict, Outcomes
<1>4. QED  BY <1>1, <1>2, <1>3

\* A release writes a window back and takes one reservation out of the ledger.
LEMMA GiveBackTyped ==
    ASSUME TypeOK, NEW o \in outstanding, Release(o)
    PROVE  TypeOK'
<1>1. o.at \in Nat /\ o.key \in Keys
  BY DEF TypeOK, Reservation
<1>2. entries' \in [Keys -> WindowState \cup {NoEntry}]
  BY <1>1, WindowsTyped DEF TypeOK, Release
<1>3. QED  BY <1>2, FS_RemoveElement DEF TypeOK, Release

\* The variables keep their types: counters never go below zero, the map
\* holds WindowStates, and the ledger stays finite.
THEOREM TypeCorrect == Spec => []TypeOK
<1>1. Init => TypeOK
  BY RateLimiterAssumption, FS_EmptySet DEF Init, TypeOK
<1>2. ASSUME TypeOK, Tick \/ (\E t \in Stamps : EvictStale(t)) \/ UNCHANGED vars
      PROVE  TypeOK'
  BY <1>2, RateLimiterAssumption DEF TypeOK, Tick, EvictStale, vars
<1>3. Stamps \subseteq Nat
  BY DEF Stamps
<1>4. TypeOK /\ [Next]_vars => TypeOK'
  BY <1>2, <1>3, ChargeTyped, GiveBackTyped DEF Next
<1>5. QED  BY <1>1, <1>4, PTL DEF Spec

\* What check_and_record leaves in the fields of an entry.
LEMMA RecordedFields ==
    ASSUME NEW w \in WindowState, NEW now \in Nat
    PROVE  LET rolled == Rolled(w, now)
               charge == IF Verdict(rolled.day_count, rolled.week_count) = "Allowed"
                         THEN 1 ELSE 0
               r == Recorded(w, now)
           IN  /\ r.day_key = DayKey(now) /\ r.week_key = WeekKey(now)
               /\ r.day_count = rolled.day_count + charge
               /\ r.week_count = rolled.week_count + charge
               /\ r.last_seen = IF charge = 1 THEN now ELSE w.last_seen
<1>1. Rolled(w, now) \in WindowState  BY WindowsTyped
<1>2. /\ Rolled(w, now).day_key = DayKey(now)
      /\ Rolled(w, now).week_key = WeekKey(now)
      /\ Rolled(w, now).last_seen = w.last_seen
  BY DEF Rolled
<1> DEFINE r == Rolled(w, now)
<1>3. r \in WindowState /\ r.day_key = DayKey(now) /\ r.week_key = WeekKey(now)
      /\ r.last_seen = w.last_seen
  BY <1>1, <1>2
<1>4. Recorded(w, now) =
        IF Verdict(r.day_count, r.week_count) = "Allowed"
        THEN [r EXCEPT !.day_count = @ + 1, !.week_count = @ + 1,
                       !.last_seen = now]
        ELSE r
  BY DEF Recorded
<1> HIDE DEF r
<1>5. /\ Recorded(w, now).day_key = DayKey(now)
      /\ Recorded(w, now).week_key = WeekKey(now)
      /\ Recorded(w, now).day_count = r.day_count +
           (IF Verdict(r.day_count, r.week_count) = "Allowed" THEN 1 ELSE 0)
      /\ Recorded(w, now).week_count = r.week_count +
           (IF Verdict(r.day_count, r.week_count) = "Allowed" THEN 1 ELSE 0)
      /\ Recorded(w, now).last_seen =
           (IF Verdict(r.day_count, r.week_count) = "Allowed"
            THEN now ELSE w.last_seen)
  BY <1>3, <1>4 DEF WindowState
<1>6. QED  BY <1>5 DEF r

\* What release leaves in the fields of an entry.
LEMMA ReleasedFields ==
    ASSUME NEW w \in WindowState, NEW now \in Nat
    PROVE  LET r == Released(w, now)
           IN  /\ r.day_key = w.day_key /\ r.week_key = w.week_key
               /\ r.last_seen = w.last_seen
               /\ r.day_count = IF w.day_key = DayKey(now)
                                THEN SaturatingDec(w.day_count) ELSE w.day_count
               /\ r.week_count = IF w.week_key = WeekKey(now)
                                 THEN SaturatingDec(w.week_count) ELSE w.week_count
BY DEF Released, WindowState

\* A key that is not evicted keeps its entry.
LEMMA EvictKeepsOrForgets ==
    ASSUME NEW t, EvictStale(t), NEW k \in Keys
    PROVE  entries'[k] = entries[k] \/ entries'[k] = NoEntry
BY DEF EvictStale

\* A step of check_and_record charges the ledger what it adds to the counters
\* of its own key, and nothing else.
LEMMA ChargeStep ==
    ASSUME TypeOK, NEW r \in Reqs, NEW k \in Keys, NEW t \in Nat,
           CheckAndRecord(r, k, t), NEW j \in Keys, NEW d
    PROVE  LET w == EntryOf(k)
               rolled == Rolled(w, t)
               charge == IF Verdict(rolled.day_count, rolled.week_count) = "Allowed"
                         THEN 1 ELSE 0
           IN  /\ w \in WindowState /\ entries'[k] = Recorded(w, t)
               /\ j # k => entries'[j] = entries[j]
               /\ Cardinality(DayShare(outstanding', j, d)) =
                    Cardinality(DayShare(outstanding, j, d)) +
                    (IF j = k /\ DayKey(t) = d THEN charge ELSE 0)
               /\ Cardinality(WeekShare(outstanding', j, d)) =
                    Cardinality(WeekShare(outstanding, j, d)) +
                    (IF j = k /\ WeekKey(t) = d THEN charge ELSE 0)
<1> DEFINE n == [req |-> r, key |-> k, at |-> t]
           rolled == Rolled(EntryOf(k), t)
           allowed == Verdict(rolled.day_count, rolled.week_count) = "Allowed"
<1>1. EntryOf(k) \in WindowState
  BY DEF TypeOK, EntryOf, DefaultWindow, WindowState
<1>2. entries' = [entries EXCEPT ![k] = Recorded(EntryOf(k), t)]
  BY DEF CheckAndRecord
<1>3. entries'[k] = Recorded(EntryOf(k), t) /\ (j # k => entries'[j] = entries[j])
  BY <1>2 DEF TypeOK
<1>4. n \notin outstanding  BY DEF CheckAndRecord
<1>5. outstanding' = IF allowed THEN outstanding \cup {n} ELSE outstanding
  BY DEF CheckAndRecord
<1>6. IsFiniteSet(outstanding) /\ n.key = k /\ n.at = t  BY DEF TypeOK
<1>7. /\ Cardinality(DayShare(outstanding, j, d)) \in Nat
      /\ Cardinality(WeekShare(outstanding, j, d)) \in Nat
  BY <1>6, SharesFinite
<1>8. /\ Cardinality(DayShare(outstanding \cup {n}, j, d)) =
           Cardinality(DayShare(outstanding, j, d)) +
           (IF n.key = j /\ DayKey(n.at) = d THEN 1 ELSE 0)
      /\ Cardinality(WeekShare(outstanding \cup {n}, j, d)) =
           Cardinality(WeekShare(outstanding, j, d)) +
           (IF n.key = j /\ WeekKey(n.at) = d THEN 1 ELSE 0)
  BY <1>4, <1>6, SharesAfterCharge
<1> HIDE DEF n
<1>9. CASE allowed  BY <1>1, <1>3, <1>5, <1>6, <1>7, <1>8, <1>9
<1>10. CASE ~allowed  BY <1>1, <1>3, <1>5, <1>7, <1>10
<1>11. QED  BY <1>9, <1>10

\* A step of release takes the reservation out of its own day and week.
LEMMA ReleaseStep ==
    ASSUME TypeOK, NEW o \in outstanding, Release(o), NEW j \in Keys, NEW d
    PROVE  /\ o.key \in Keys /\ o.at \in Nat
           /\ entries[j] = NoEntry => entries'[j] = NoEntry
           /\ entries[j] # NoEntry =>
                entries'[j] = IF j = o.key THEN Released(entries[j], o.at)
                              ELSE entries[j]
           /\ Cardinality(DayShare(outstanding', j, d)) =
                Cardinality(DayShare(outstanding, j, d)) -
                (IF j = o.key /\ DayKey(o.at) = d THEN 1 ELSE 0)
           /\ Cardinality(WeekShare(outstanding', j, d)) =
                Cardinality(WeekShare(outstanding, j, d)) -
                (IF j = o.key /\ WeekKey(o.at) = d THEN 1 ELSE 0)
           /\ Cardinality(DayShare(outstanding', j, d)) \in Nat
           /\ Cardinality(WeekShare(outstanding', j, d)) \in Nat
<1>1. o.key \in Keys /\ o.at \in Nat  BY DEF TypeOK, Reservation
<1>2. /\ entries[j] = NoEntry => entries'[j] = NoEntry
      /\ entries[j] # NoEntry =>
           entries'[j] = IF j = o.key THEN Released(entries[j], o.at)
                         ELSE entries[j]
  BY <1>1 DEF TypeOK, Release
<1>3. outstanding' = outstanding \ {o} /\ IsFiniteSet(outstanding)
  BY DEF Release, TypeOK
<1>4. IsFiniteSet(outstanding')  BY <1>3, FS_RemoveElement
<1>5. QED  BY <1>1, <1>2, <1>3, <1>4, SharesAfterGiveBack, SharesFinite

\* The counters that check_and_record starts from are at most the
\* reservations held in the windows of its stamp.
LEMMA RolledBelowShare ==
    ASSUME TypeOK, NeverOvercharged, NEW k \in Keys, NEW t \in Nat
    PROVE  /\ Rolled(EntryOf(k), t).day_count <=
                Cardinality(DayShare(outstanding, k, DayKey(t)))
           /\ Rolled(EntryOf(k), t).week_count <=
                Cardinality(WeekShare(outstanding, k, WeekKey(t)))
<1>1. /\ Cardinality(DayShare(outstanding, k, DayKey(t))) \in Nat
      /\ Cardinality(WeekShare(outstanding, k, WeekKey(t))) \in Nat
  BY SharesFinite DEF TypeOK
<1>2. CASE entries[k] = NoEntry
  BY <1>1, <1>2 DEF EntryOf, Rolled, DefaultWindow
<1>3. CASE entries[k] # NoEntry
  BY <1>1, <1>3 DEF EntryOf, Rolled, NeverOvercharged
<1>4. QED  BY <1>2, <1>3

\* The counters of a key are covered by the reservations held in their windows.
Covered(j) ==
    entries[j] # NoEntry =>
      /\ entries[j].day_count <=
           Cardinality(DayShare(outstanding, j, entries[j].day_key))
      /\ entries[j].week_count <=
           Cardinality(WeekShare(outstanding, j, entries[j].week_key))

\* check_and_record counts nothing that it does not grant.
LEMMA ChargeCovered ==
    ASSUME TypeOK, NeverOvercharged, NEW r \in Reqs, NEW k \in Keys, NEW t \in Nat,
           CheckAndRecord(r, k, t), NEW j \in Keys
    PROVE  Covered(j)'
<1>0. IsFiniteSet(outstanding)  BY DEF TypeOK
<1>1. CASE j = k
  <2> DEFINE w == EntryOf(k)  rolled == Rolled(w, t)
             charge == IF Verdict(rolled.day_count, rolled.week_count) = "Allowed"
                       THEN 1 ELSE 0
  <2>1. /\ w \in WindowState /\ entries'[j] = Recorded(w, t)
        /\ Cardinality(DayShare(outstanding', j, DayKey(t))) =
             Cardinality(DayShare(outstanding, j, DayKey(t))) + charge
        /\ Cardinality(WeekShare(outstanding', j, WeekKey(t))) =
             Cardinality(WeekShare(outstanding, j, WeekKey(t))) + charge
    BY <1>1, ChargeStep
  <2>2. /\ entries'[j].day_key = DayKey(t) /\ entries'[j].week_key = WeekKey(t)
        /\ entries'[j].day_count = rolled.day_count + charge
        /\ entries'[j].week_count = rolled.week_count + charge
    BY <2>1, RecordedFields
  <2>3. /\ rolled.day_count <= Cardinality(DayShare(outstanding, j, DayKey(t)))
        /\ rolled.week_count <= Cardinality(WeekShare(outstanding, j, WeekKey(t)))
    BY <1>1, RolledBelowShare
  <2>4. /\ rolled.day_count \in Nat /\ rolled.week_count \in Nat
        /\ Cardinality(DayShare(outstanding, j, DayKey(t))) \in Nat
        /\ Cardinality(WeekShare(outstanding, j, WeekKey(t))) \in Nat
    BY <1>0, <2>1, WindowsTyped, SharesFinite DEF WindowState
  <2> HIDE DEF w, rolled
  <2>5. QED  BY <2>1, <2>2, <2>3, <2>4 DEF Covered
<1>2. CASE j # k
  <2>1. entries'[j] = entries[j]
    BY <1>2, ChargeStep
  <2>2. /\ Cardinality(DayShare(outstanding, j, entries[j].day_key)) \in Nat
        /\ Cardinality(WeekShare(outstanding, j, entries[j].week_key)) \in Nat
    BY <1>0, SharesFinite
  <2>3. /\ Cardinality(DayShare(outstanding', j, entries[j].day_key)) =
             Cardinality(DayShare(outstanding, j, entries[j].day_key)) + 0
        /\ Cardinality(WeekShare(outstanding', j, entries[j].week_key)) =
             Cardinality(WeekShare(outstanding, j, entries[j].week_key)) + 0
    BY <1>2, ChargeStep
  <2>4. QED  BY <2>1, <2>2, <2>3 DEF Covered, NeverOvercharged
<1>3. QED  BY <1>1, <1>2

\* release takes from a counter what it takes from its window, if it counts it.
LEMMA GiveBackCovered ==
    ASSUME TypeOK, NeverOvercharged, NEW o \in outstanding, Release(o), NEW j \in Keys
    PROVE  Covered(j)'
<1> SUFFICES ASSUME entries'[j] # NoEntry
             PROVE  /\ entries'[j].day_count <=
                         Cardinality(DayShare(outstanding', j, entries'[j].day_key))
                    /\ entries'[j].week_count <=
                         Cardinality(WeekShare(outstanding', j, entries'[j].week_key))
  BY DEF Covered
<1> DEFINE w == entries[j]
<1>1. w # NoEntry /\ o.at \in Nat
  BY ReleaseStep
<1>2. w \in WindowState /\ w.day_count \in Nat /\ w.week_count \in Nat
  BY <1>1 DEF TypeOK, WindowState
<1>3. entries'[j] = IF j = o.key THEN Released(w, o.at) ELSE w
  BY <1>1, ReleaseStep
<1>4. /\ entries'[j].day_key = w.day_key /\ entries'[j].week_key = w.week_key
      /\ entries'[j].day_count =
           IF j = o.key /\ w.day_key = DayKey(o.at)
           THEN SaturatingDec(w.day_count) ELSE w.day_count
      /\ entries'[j].week_count =
           IF j = o.key /\ w.week_key = WeekKey(o.at)
           THEN SaturatingDec(w.week_count) ELSE w.week_count
  BY <1>1, <1>2, <1>3, ReleasedFields
<1>5. /\ w.day_count <= Cardinality(DayShare(outstanding, j, w.day_key))
      /\ w.week_count <= Cardinality(WeekShare(outstanding, j, w.week_key))
      /\ Cardinality(DayShare(outstanding, j, w.day_key)) \in Nat
      /\ Cardinality(WeekShare(outstanding, j, w.week_key)) \in Nat
  BY <1>1, SharesFinite DEF TypeOK, NeverOvercharged
<1>6. /\ Cardinality(DayShare(outstanding', j, w.day_key)) =
           Cardinality(DayShare(outstanding, j, w.day_key)) -
           (IF j = o.key /\ DayKey(o.at) = w.day_key THEN 1 ELSE 0)
      /\ Cardinality(DayShare(outstanding', j, w.day_key)) \in Nat
      /\ Cardinality(WeekShare(outstanding', j, w.week_key)) =
           Cardinality(WeekShare(outstanding, j, w.week_key)) -
           (IF j = o.key /\ WeekKey(o.at) = w.week_key THEN 1 ELSE 0)
      /\ Cardinality(WeekShare(outstanding', j, w.week_key)) \in Nat
  BY ReleaseStep
<1> HIDE DEF w
<1>7. QED  BY <1>2, <1>4, <1>5, <1>6 DEF SaturatingDec

\* An entry that eviction leaves, or that time passes over, stays covered.
LEMMA RestCovered ==
    ASSUME NeverOvercharged, NEW j \in Keys,
           Tick \/ (\E t \in Stamps : EvictStale(t)) \/ UNCHANGED vars
    PROVE  Covered(j)'
<1>1. ASSUME NEW t \in Stamps, EvictStale(t) PROVE Covered(j)'
  BY <1>1, EvictKeepsOrForgets DEF EvictStale, NeverOvercharged, Covered
<1>2. QED  BY <1>1 DEF Tick, vars, NeverOvercharged, Covered

\* No caller is charged for a reservation it does not hold, whatever the age
\* of the stamps and the order of charges, releases, resets and evictions
\* (check_and_record, release and evict_stale, rate_limit.rs:61-109).
THEOREM NoOvercharge == Spec => []NeverOvercharged
<1>1. Init => NeverOvercharged
  BY DEF Init, NeverOvercharged
<1>2. TypeOK /\ NeverOvercharged /\ [Next]_vars => NeverOvercharged'
  <2>1. Stamps \subseteq Nat
    BY DEF Stamps
  <2>2. ASSUME TypeOK, NeverOvercharged, [Next]_vars, NEW j \in Keys PROVE Covered(j)'
    BY <2>1, <2>2, ChargeCovered, GiveBackCovered, RestCovered DEF Next
  <2>3. QED  BY <2>2 DEF NeverOvercharged, Covered
<1>3. QED  BY <1>1, <1>2, TypeCorrect, PTL DEF Spec

(***************************************************************************)
(* Section 2: no tick falls between reading the clock and the call.        *)
(***************************************************************************)

IInv ==
    /\ TypeOK
    /\ LedgerExact
    /\ WithinLimits
    /\ EvictionForgetsNothing
    /\ ClockOrder

\* A reservation of today is a reservation of this week.
LEMMA DayWithinWeek ==
    ASSUME NEW s, NEW t, DayKey(s) = DayKey(t)
    PROVE  WeekKey(s) = WeekKey(t)
BY DEF WeekKey

\* The counters check_and_record starts from are exactly the reservations held
\* in the windows of the clock: a window that is reset has no holder.
LEMMA RolledIsShare ==
    ASSUME IInv, NEW k \in Keys
    PROVE  /\ Rolled(EntryOf(k), clock).day_count =
                Cardinality(DayShare(outstanding, k, DayKey(clock)))
           /\ Rolled(EntryOf(k), clock).week_count =
                Cardinality(WeekShare(outstanding, k, WeekKey(clock)))
<1> DEFINE D == DayShare(outstanding, k, DayKey(clock))
           W == WeekShare(outstanding, k, WeekKey(clock))
<1>0. Cardinality({}) = 0  BY FS_EmptySet
<1>1. CASE entries[k] = NoEntry
  <2>1. W = {}  BY <1>1 DEF IInv, EvictionForgetsNothing
  <2>2. D \subseteq W  BY DayWithinWeek DEF DayShare, WeekShare
  <2>3. QED  BY <1>0, <1>1, <2>1, <2>2 DEF EntryOf, Rolled, DefaultWindow
<1>2. CASE entries[k] # NoEntry
  <2> DEFINE w == entries[k]
  <2>1. /\ w.day_key \in Nat /\ w.week_key \in Nat /\ clock \in Nat
        /\ outstanding \subseteq Reservation
    BY <1>2, RateLimiterAssumption DEF IInv, TypeOK, WindowState
  <2>2. /\ w.day_key <= DayKey(clock) /\ w.week_key <= WeekKey(clock)
        /\ DayKey(clock) \in Nat /\ WeekKey(clock) \in Nat
    BY <1>2, <2>1, KeysMonotone DEF IInv, ClockOrder
  <2>3. w.day_key # DayKey(clock) => D = {}
    <3> SUFFICES ASSUME w.day_key # DayKey(clock), NEW o \in D PROVE FALSE
      OBVIOUS
    <3>1. o \in outstanding /\ o.key = k /\ DayKey(o.at) = DayKey(clock)
      BY DEF DayShare
    <3>2. DayKey(o.at) <= w.day_key
      BY <1>2, <3>1 DEF IInv, ClockOrder
    <3>3. QED  BY <2>1, <2>2, <3>1, <3>2
  <2>4. w.week_key # WeekKey(clock) => W = {}
    <3> SUFFICES ASSUME w.week_key # WeekKey(clock), NEW o \in W PROVE FALSE
      OBVIOUS
    <3>1. o \in outstanding /\ o.key = k /\ WeekKey(o.at) = WeekKey(clock)
      BY DEF WeekShare
    <3>2. WeekKey(o.at) <= w.week_key
      BY <1>2, <3>1 DEF IInv, ClockOrder
    <3>3. QED  BY <2>1, <2>2, <3>1, <3>2
  <2>5. /\ w.day_count = Cardinality(DayShare(outstanding, k, w.day_key))
        /\ w.week_count = Cardinality(WeekShare(outstanding, k, w.week_key))
    BY <1>2 DEF IInv, LedgerExact
  <2>6. EntryOf(k) = w  BY <1>2 DEF EntryOf
  <2>7. QED  BY <1>0, <2>3, <2>4, <2>5, <2>6 DEF Rolled
<1>3. QED  BY <1>1, <1>2

\* A step of check_and_record preserves the invariant.
LEMMA ChargePreserves ==
    ASSUME IInv, TypeOK', NEW r \in Reqs, NEW k \in Keys,
           CheckAndRecord(r, k, clock)
    PROVE  IInv'
<1> DEFINE w == EntryOf(k)
           rolled == Rolled(w, clock)
           charge == IF Verdict(rolled.day_count, rolled.week_count) = "Allowed"
                     THEN 1 ELSE 0
           n == [req |-> r, key |-> k, at |-> clock]
<1>0. TypeOK /\ clock \in Nat /\ clock' = clock /\ IsFiniteSet(outstanding)
  BY RateLimiterAssumption DEF IInv, TypeOK, CheckAndRecord
<1>1. w \in WindowState /\ entries'[k] = Recorded(w, clock)
  BY <1>0, ChargeStep
<1>2. \A j \in Keys : j # k => entries'[j] = entries[j]
  BY <1>0, ChargeStep
<1>3. \A j \in Keys, d \in Nat :
        /\ Cardinality(DayShare(outstanding', j, d)) =
             Cardinality(DayShare(outstanding, j, d)) +
             (IF j = k /\ DayKey(clock) = d THEN charge ELSE 0)
        /\ Cardinality(WeekShare(outstanding', j, d)) =
             Cardinality(WeekShare(outstanding, j, d)) +
             (IF j = k /\ WeekKey(clock) = d THEN charge ELSE 0)
        /\ Cardinality(DayShare(outstanding, j, d)) \in Nat
        /\ Cardinality(WeekShare(outstanding, j, d)) \in Nat
  BY <1>0, ChargeStep, SharesFinite
<1>4. /\ entries'[k].day_key = DayKey(clock) /\ entries'[k].week_key = WeekKey(clock)
      /\ entries'[k].day_count = rolled.day_count + charge
      /\ entries'[k].week_count = rolled.week_count + charge
      /\ entries'[k].last_seen = IF charge = 1 THEN clock ELSE w.last_seen
  BY <1>0, <1>1, RecordedFields
<1>5. DayKey(clock) \in Nat /\ WeekKey(clock) \in Nat
  BY <1>0, KeysMonotone
<1>6. /\ rolled.day_count = Cardinality(DayShare(outstanding, k, DayKey(clock)))
      /\ rolled.week_count = Cardinality(WeekShare(outstanding, k, WeekKey(clock)))
  BY RolledIsShare
<1>7. entries'[k] # NoEntry
  BY <1>0, <1>1, WindowsTyped, RateLimiterAssumption
<1>8. outstanding' = IF charge = 1 THEN outstanding \cup {n} ELSE outstanding
  BY DEF CheckAndRecord
<1>9. charge = 0 => entries[k] # NoEntry
  BY RateWindowAssumption DEF EntryOf, Rolled, DefaultWindow, Verdict
<1>10. LedgerExact'
  <2> SUFFICES ASSUME NEW j \in Keys, entries'[j] # NoEntry
               PROVE /\ entries'[j].day_count =
                          Cardinality(DayShare(outstanding', j, entries'[j].day_key))
                     /\ entries'[j].week_count =
                          Cardinality(WeekShare(outstanding', j, entries'[j].week_key))
    BY DEF LedgerExact
  <2>1. CASE j = k  BY <1>3, <1>4, <1>5, <1>6, <2>1
  <2>2. CASE j # k
    <3>1. entries'[j] = entries[j] /\ entries[j] \in WindowState
      BY <1>0, <1>2, <2>2 DEF TypeOK
    <3>2. entries[j].day_key \in Nat /\ entries[j].week_key \in Nat
      BY <3>1 DEF WindowState
    <3>3. /\ entries[j].day_count =
               Cardinality(DayShare(outstanding, j, entries[j].day_key))
          /\ entries[j].week_count =
               Cardinality(WeekShare(outstanding, j, entries[j].week_key))
      BY <3>1 DEF IInv, LedgerExact
    <3>4. QED  BY <1>3, <2>2, <3>1, <3>2, <3>3
  <2>3. QED  BY <2>1, <2>2
<1>11. WithinLimits'
  <2> SUFFICES ASSUME NEW j \in Keys, NEW t \in 0 .. clock
               PROVE /\ Cardinality(DayShare(outstanding', j, DayKey(t))) <= DAY_LIMIT
                     /\ Cardinality(WeekShare(outstanding', j, WeekKey(t))) <= WEEK_LIMIT
    BY <1>0 DEF WithinLimits
  <2>1. DayKey(t) \in Nat /\ WeekKey(t) \in Nat /\ t \in Nat
    BY <1>0, KeysMonotone
  <2>2. /\ Cardinality(DayShare(outstanding, j, DayKey(t))) <= DAY_LIMIT
        /\ Cardinality(WeekShare(outstanding, j, WeekKey(t))) <= WEEK_LIMIT
    BY DEF IInv, WithinLimits
  <2>3. /\ Cardinality(DayShare(outstanding, k, DayKey(clock))) + charge <= DAY_LIMIT
        /\ Cardinality(WeekShare(outstanding, k, WeekKey(clock))) + charge <= WEEK_LIMIT
    <3>1. CASE charge = 1
      <4>1. ~ (rolled.day_count >= DAY_LIMIT) /\ ~ (rolled.week_count >= WEEK_LIMIT)
        BY <3>1 DEF Verdict
      <4>2. QED  BY <1>3, <1>5, <1>6, <3>1, <4>1, RateWindowAssumption
    <3>2. CASE charge = 0
      <4>1. clock \in 0 .. clock  BY <1>0
      <4>2. QED  BY <1>3, <1>5, <3>2, <4>1 DEF IInv, WithinLimits
    <3>3. QED  BY <3>1, <3>2
  <2> HIDE DEF charge
  <2>4. QED  BY <1>3, <2>1, <2>2, <2>3
<1>12. EvictionForgetsNothing'
  <2> SUFFICES ASSUME NEW j \in Keys, entries'[j] = NoEntry
               PROVE  WeekShare(outstanding', j, WeekKey(clock)) = {}
    BY <1>0 DEF EvictionForgetsNothing
  <2>1. j # k  BY <1>7
  <2>2. WeekShare(outstanding, j, WeekKey(clock)) = {}
    BY <1>2, <2>1 DEF IInv, EvictionForgetsNothing
  <2>3. QED  BY <1>8, <2>1, <2>2 DEF WeekShare
<1>13. ClockOrder'
  <2>1. \A o \in outstanding' : o.at <= clock
    BY <1>0, <1>8 DEF IInv, ClockOrder
  <2>2. \A j \in Keys : entries'[j] # NoEntry =>
          entries'[j].day_key <= DayKey(clock) /\ entries'[j].week_key <= WeekKey(clock)
    BY <1>2, <1>4, <1>5 DEF IInv, ClockOrder
  <2>3. ASSUME NEW o \in outstanding', entries'[o.key] # NoEntry
        PROVE  /\ DayKey(o.at) <= entries'[o.key].day_key
               /\ WeekKey(o.at) <= entries'[o.key].week_key
               /\ o.at <= entries'[o.key].last_seen
    <3>1. o.at \in Nat /\ o.key \in Keys
      BY DEF TypeOK, Reservation
    <3>2. DayKey(o.at) <= DayKey(clock) /\ WeekKey(o.at) <= WeekKey(clock)
      BY <1>0, <2>1, <3>1, KeysMonotone
    <3>3. CASE o.key # k
      BY <1>2, <1>8, <2>3, <3>1, <3>3 DEF IInv, ClockOrder
    <3>4. CASE o.key = k /\ charge = 1
      BY <1>4, <2>1, <3>2, <3>4
    <3>5. CASE o.key = k /\ charge = 0
      <4>1. w = entries[k] /\ o \in outstanding
        BY <1>8, <1>9, <3>5 DEF EntryOf
      <4>2. o.at <= w.last_seen
        BY <1>9, <3>5, <4>1 DEF IInv, ClockOrder
      <4>3. QED  BY <1>4, <3>2, <3>5, <4>2
    <3>6. QED  BY <3>3, <3>4, <3>5
  <2>4. QED  BY <1>0, <2>1, <2>2, <2>3 DEF ClockOrder
<1>14. QED  BY <1>10, <1>11, <1>12, <1>13 DEF IInv

\* A step of release preserves the invariant: it gives back in the window it
\* was charged in, so counter and ledger fall together.
LEMMA GiveBackPreserves ==
    ASSUME IInv, TypeOK', NEW o \in outstanding, Release(o)
    PROVE  IInv'
<1>0. /\ TypeOK /\ clock \in Nat /\ clock' = clock /\ IsFiniteSet(outstanding)
      /\ outstanding' = outstanding \ {o} /\ o.key \in Keys /\ o.at \in Nat
  BY RateLimiterAssumption DEF IInv, TypeOK, Release, Reservation
<1>1. \A j \in Keys :
        /\ entries[j] = NoEntry => entries'[j] = NoEntry
        /\ entries[j] # NoEntry =>
             entries'[j] = IF j = o.key THEN Released(entries[j], o.at)
                           ELSE entries[j]
  BY <1>0, ReleaseStep
<1>2. \A j \in Keys, d \in Nat :
        /\ Cardinality(DayShare(outstanding', j, d)) =
             Cardinality(DayShare(outstanding, j, d)) -
             (IF j = o.key /\ DayKey(o.at) = d THEN 1 ELSE 0)
        /\ Cardinality(WeekShare(outstanding', j, d)) =
             Cardinality(WeekShare(outstanding, j, d)) -
             (IF j = o.key /\ WeekKey(o.at) = d THEN 1 ELSE 0)
        /\ Cardinality(DayShare(outstanding', j, d)) \in Nat
        /\ Cardinality(WeekShare(outstanding', j, d)) \in Nat
        /\ Cardinality(DayShare(outstanding, j, d)) \in Nat
        /\ Cardinality(WeekShare(outstanding, j, d)) \in Nat
  <2> TAKE j \in Keys, d \in Nat
  <2>1. /\ Cardinality(DayShare(outstanding, j, d)) \in Nat
        /\ Cardinality(WeekShare(outstanding, j, d)) \in Nat
    BY <1>0, SharesFinite
  <2>2. /\ Cardinality(DayShare(outstanding', j, d)) =
             Cardinality(DayShare(outstanding, j, d)) -
             (IF j = o.key /\ DayKey(o.at) = d THEN 1 ELSE 0)
        /\ Cardinality(DayShare(outstanding', j, d)) \in Nat
    BY <1>0, ReleaseStep
  <2>3. /\ Cardinality(WeekShare(outstanding', j, d)) =
             Cardinality(WeekShare(outstanding, j, d)) -
             (IF j = o.key /\ WeekKey(o.at) = d THEN 1 ELSE 0)
        /\ Cardinality(WeekShare(outstanding', j, d)) \in Nat
    BY <1>0, <2>1, ReleaseStep, SMTT(60)
  <2>4. QED  BY <2>1, <2>2, <2>3
<1>3. ASSUME NEW j \in Keys, entries'[j] # NoEntry
      PROVE  /\ entries[j] # NoEntry /\ entries[j] \in WindowState
             /\ entries'[j].day_key = entries[j].day_key
             /\ entries'[j].week_key = entries[j].week_key
             /\ entries'[j].last_seen = entries[j].last_seen
             /\ entries'[j].day_count =
                  IF j = o.key /\ entries[j].day_key = DayKey(o.at)
                  THEN SaturatingDec(entries[j].day_count) ELSE entries[j].day_count
             /\ entries'[j].week_count =
                  IF j = o.key /\ entries[j].week_key = WeekKey(o.at)
                  THEN SaturatingDec(entries[j].week_count) ELSE entries[j].week_count
  <2>1. entries[j] # NoEntry  BY <1>1, <1>3
  <2>2. entries[j] \in WindowState  BY <1>0, <2>1 DEF TypeOK
  <2>3. entries'[j] = IF j = o.key THEN Released(entries[j], o.at) ELSE entries[j]
    BY <1>1, <2>1
  <2>4. QED  BY <1>0, <2>1, <2>2, <2>3, ReleasedFields
<1>4. LedgerExact'
  <2> SUFFICES ASSUME NEW j \in Keys, entries'[j] # NoEntry
               PROVE /\ entries'[j].day_count =
                          Cardinality(DayShare(outstanding', j, entries'[j].day_key))
                     /\ entries'[j].week_count =
                          Cardinality(WeekShare(outstanding', j, entries'[j].week_key))
    BY DEF LedgerExact
  <2> DEFINE w == entries[j]
  <2>1. /\ w.day_key \in Nat /\ w.week_key \in Nat
        /\ w.day_count \in Nat /\ w.week_count \in Nat
    BY <1>3 DEF WindowState
  <2>2. /\ w.day_count = Cardinality(DayShare(outstanding, j, w.day_key))
        /\ w.week_count = Cardinality(WeekShare(outstanding, j, w.week_key))
    BY <1>3 DEF IInv, LedgerExact
  <2>3. /\ Cardinality(DayShare(outstanding', j, w.day_key)) =
             w.day_count - (IF j = o.key /\ DayKey(o.at) = w.day_key THEN 1 ELSE 0)
        /\ Cardinality(DayShare(outstanding', j, w.day_key)) \in Nat
        /\ Cardinality(WeekShare(outstanding', j, w.week_key)) =
             w.week_count - (IF j = o.key /\ WeekKey(o.at) = w.week_key THEN 1 ELSE 0)
        /\ Cardinality(WeekShare(outstanding', j, w.week_key)) \in Nat
    BY <1>2, <2>1, <2>2
  <2>4. QED  BY <1>3, <2>1, <2>3 DEF SaturatingDec
<1>5. WithinLimits'
  <2> SUFFICES ASSUME NEW j \in Keys, NEW t \in 0 .. clock
               PROVE /\ Cardinality(DayShare(outstanding', j, DayKey(t))) <= DAY_LIMIT
                     /\ Cardinality(WeekShare(outstanding', j, WeekKey(t))) <= WEEK_LIMIT
    BY <1>0 DEF WithinLimits
  <2>1. DayKey(t) \in Nat /\ WeekKey(t) \in Nat
    BY <1>0, KeysMonotone
  <2>2. /\ Cardinality(DayShare(outstanding, j, DayKey(t))) <= DAY_LIMIT
        /\ Cardinality(WeekShare(outstanding, j, WeekKey(t))) <= WEEK_LIMIT
    BY DEF IInv, WithinLimits
  <2> DEFINE d == DayKey(t)  e == WeekKey(t)
  <2> HIDE DEF d, e
  <2>3. /\ Cardinality(DayShare(outstanding', j, d)) <=
             Cardinality(DayShare(outstanding, j, d))
        /\ Cardinality(DayShare(outstanding', j, d)) \in Nat
        /\ Cardinality(DayShare(outstanding, j, d)) \in Nat
    <3> DEFINE new == Cardinality(DayShare(outstanding', j, d))
               old == Cardinality(DayShare(outstanding, j, d))
    <3>1. new = old - (IF j = o.key /\ DayKey(o.at) = d THEN 1 ELSE 0) /\ new \in Nat
      BY <1>2, <2>1 DEF d
    <3>2. old \in Nat
      BY <1>0, SharesFinite DEF TypeOK
    <3> HIDE DEF new, old
    <3>3. new <= old /\ new \in Nat /\ old \in Nat
      BY <3>1, <3>2
    <3>4. QED  BY <3>3 DEF new, old
  <2>4. /\ Cardinality(WeekShare(outstanding', j, e)) <=
             Cardinality(WeekShare(outstanding, j, e))
        /\ Cardinality(WeekShare(outstanding', j, e)) \in Nat
        /\ Cardinality(WeekShare(outstanding, j, e)) \in Nat
    <3> DEFINE new == Cardinality(WeekShare(outstanding', j, e))
               old == Cardinality(WeekShare(outstanding, j, e))
    <3>1. new = old - (IF j = o.key /\ WeekKey(o.at) = e THEN 1 ELSE 0) /\ new \in Nat
      BY <1>2, <2>1 DEF e
    <3>2. old \in Nat
      BY <1>0, SharesFinite DEF TypeOK
    <3> HIDE DEF new, old
    <3>3. new <= old /\ new \in Nat /\ old \in Nat
      BY <3>1, <3>2
    <3>4. QED  BY <3>3 DEF new, old
  <2>5. QED  BY <2>2, <2>3, <2>4, RateWindowAssumption DEF d, e
<1>6. EvictionForgetsNothing'
  <2> SUFFICES ASSUME NEW j \in Keys, entries'[j] = NoEntry
               PROVE  WeekShare(outstanding', j, WeekKey(clock)) = {}
    BY <1>0 DEF EvictionForgetsNothing
  <2>1. entries[j] = NoEntry
    BY <1>0, <1>1, WindowsTyped, RateLimiterAssumption DEF TypeOK
  <2>2. QED  BY <1>0, <2>1 DEF IInv, EvictionForgetsNothing, WeekShare
<1>7. ClockOrder'
  <2>1. \A p \in outstanding' : p \in outstanding /\ p.key \in Keys
    BY <1>0 DEF TypeOK, Reservation
  <2>2. QED  BY <1>0, <1>3, <2>1 DEF IInv, ClockOrder
<1>8. QED  BY <1>4, <1>5, <1>6, <1>7 DEF IInv

\* A step of evict_stale preserves the invariant: what it forgets is over.
LEMMA EvictPreserves ==
    ASSUME IInv, TypeOK', EvictStale(clock)
    PROVE  IInv'
<1>0. /\ TypeOK /\ clock \in Nat /\ clock' = clock /\ outstanding' = outstanding
  BY RateLimiterAssumption DEF IInv, TypeOK, EvictStale
<1>1. \A j \in Keys : entries'[j] = entries[j] \/ entries'[j] = NoEntry
  BY EvictKeepsOrForgets
<1>2. LedgerExact' /\ WithinLimits' /\ ClockOrder'
  <2>1. LedgerExact'  BY <1>0, <1>1 DEF IInv, LedgerExact
  <2>2. WithinLimits'  BY <1>0 DEF IInv, WithinLimits
  <2>3. \A o \in outstanding : o.key \in Keys
    BY <1>0 DEF TypeOK, Reservation
  <2>4. ClockOrder'  BY <1>0, <1>1, <2>3 DEF IInv, ClockOrder
  <2>5. QED  BY <2>1, <2>2, <2>4
<1>3. EvictionForgetsNothing'
  <2> SUFFICES ASSUME NEW j \in Keys, entries'[j] = NoEntry,
                      NEW o \in WeekShare(outstanding, j, WeekKey(clock))
               PROVE  FALSE
    BY <1>0 DEF EvictionForgetsNothing
  <2>1. o \in outstanding /\ o.key = j /\ WeekKey(o.at) = WeekKey(clock)
    BY DEF WeekShare
  <2>2. entries[j] # NoEntry
    BY <2>1 DEF IInv, EvictionForgetsNothing
  <2>3. IsStale(entries[j], clock)
    BY <2>2 DEF EvictStale, EntryOf
  <2>4. /\ entries[j].last_seen \in Nat /\ o.at \in Nat
        /\ o.at <= entries[j].last_seen
    BY <1>0, <2>1, <2>2 DEF IInv, ClockOrder, TypeOK, Reservation, WindowState
  <2>5. WeekKey(entries[j].last_seen) < WeekKey(clock)
    BY <1>0, <2>3, <2>4, StaleWeekIsOver DEF IsStale
  <2>6. WeekKey(o.at) <= WeekKey(entries[j].last_seen)
    BY <2>4, KeysMonotone
  <2>7. /\ WeekKey(o.at) \in Nat /\ WeekKey(clock) \in Nat
        /\ WeekKey(entries[j].last_seen) \in Nat
    BY <1>0, <2>4, KeysMonotone
  <2>8. QED  BY <2>1, <2>5, <2>6, <2>7
<1>4. QED  BY <1>2, <1>3 DEF IInv

\* A tick of the clock preserves the invariant: a new day or week is empty.
LEMMA TickPreserves ==
    ASSUME IInv, TypeOK', Tick
    PROVE  IInv'
<1>0. /\ TypeOK /\ clock \in Nat /\ clock' = clock + 1
      /\ outstanding' = outstanding /\ entries' = entries
      /\ outstanding \subseteq Reservation /\ IsFiniteSet(outstanding)
  BY RateLimiterAssumption DEF IInv, TypeOK, Tick
<1>1. /\ DayKey(clock) \in Nat /\ WeekKey(clock) \in Nat
      /\ DayKey(clock + 1) \in Nat /\ WeekKey(clock + 1) \in Nat
      /\ DayKey(clock) <= DayKey(clock + 1) /\ WeekKey(clock) <= WeekKey(clock + 1)
  BY <1>0, KeysMonotone
<1>2. \A o \in outstanding :
        /\ o.at \in Nat /\ o.at <= clock /\ o.key \in Keys
        /\ DayKey(o.at) \in Nat /\ DayKey(o.at) <= DayKey(clock)
        /\ WeekKey(o.at) \in Nat /\ WeekKey(o.at) <= WeekKey(clock)
  BY <1>0, KeysMonotone DEF IInv, ClockOrder, Reservation
<1>3. LedgerExact'  BY <1>0 DEF IInv, LedgerExact
<1>4. \A j : /\ DayKey(clock + 1) # DayKey(clock) =>
                  DayShare(outstanding, j, DayKey(clock + 1)) = {}
             /\ WeekKey(clock + 1) # WeekKey(clock) =>
                  WeekShare(outstanding, j, WeekKey(clock + 1)) = {}
  BY <1>1, <1>2 DEF DayShare, WeekShare
<1>5. WithinLimits'
  <2> SUFFICES ASSUME NEW j \in Keys, NEW t \in 0 .. clock + 1
               PROVE /\ Cardinality(DayShare(outstanding, j, DayKey(t))) <= DAY_LIMIT
                     /\ Cardinality(WeekShare(outstanding, j, WeekKey(t))) <= WEEK_LIMIT
    BY <1>0 DEF WithinLimits
  <2>1. \A s \in 0 .. clock :
          /\ Cardinality(DayShare(outstanding, j, DayKey(s))) <= DAY_LIMIT
          /\ Cardinality(WeekShare(outstanding, j, WeekKey(s))) <= WEEK_LIMIT
    BY DEF IInv, WithinLimits
  <2>2. CASE t \in 0 .. clock  BY <2>1, <2>2
  <2>3. CASE t = clock + 1
    <3>1. clock \in 0 .. clock  BY <1>0
    <3>2. Cardinality({}) = 0  BY FS_EmptySet
    <3>3. Cardinality(DayShare(outstanding, j, DayKey(t))) <= DAY_LIMIT
      BY <1>4, <2>1, <2>3, <3>1, <3>2, RateWindowAssumption
    <3>4. Cardinality(WeekShare(outstanding, j, WeekKey(t))) <= WEEK_LIMIT
      BY <1>4, <2>1, <2>3, <3>1, <3>2, RateWindowAssumption
    <3>5. QED  BY <3>3, <3>4
  <2>4. QED  BY <1>0, <2>2, <2>3
<1>6. EvictionForgetsNothing'
  BY <1>0, <1>4 DEF IInv, EvictionForgetsNothing
<1>7. ClockOrder'
  <2>1. \A o \in outstanding : o.at <= clock + 1  BY <1>0, <1>2
  <2>2. ASSUME NEW j \in Keys, entries[j] # NoEntry
        PROVE  /\ entries[j].day_key <= DayKey(clock + 1)
               /\ entries[j].week_key <= WeekKey(clock + 1)
    <3>1. entries[j].day_key \in Nat /\ entries[j].week_key \in Nat
      BY <1>0, <2>2 DEF TypeOK, WindowState
    <3>2. entries[j].day_key <= DayKey(clock) /\ entries[j].week_key <= WeekKey(clock)
      BY <2>2 DEF IInv, ClockOrder
    <3>3. QED  BY <1>1, <3>1, <3>2
  <2>3. QED  BY <1>0, <2>1, <2>2 DEF IInv, ClockOrder
<1>8. QED  BY <1>3, <1>5, <1>6, <1>7 DEF IInv

\* With stamps taken in the second of the call, every reachable state
\* satisfies the inductive invariant.
LEMMA Invariance ==
    ASSUME MaxLag = 0
    PROVE  Spec => []IInv
<1>1. Init => IInv
  <2> SUFFICES ASSUME Init PROVE IInv
    OBVIOUS
  <2>1. TypeOK  BY RateLimiterAssumption, FS_EmptySet DEF Init, TypeOK
  <2>2. \A k, d : DayShare(outstanding, k, d) = {} /\ WeekShare(outstanding, k, d) = {}
    BY DEF Init, DayShare, WeekShare
  <2>3. WithinLimits
    BY <2>2, FS_EmptySet, RateWindowAssumption DEF WithinLimits
  <2>4. LedgerExact /\ EvictionForgetsNothing /\ ClockOrder
    BY <2>2 DEF Init, LedgerExact, EvictionForgetsNothing, ClockOrder
  <2>5. QED  BY <2>1, <2>3, <2>4 DEF IInv
<1>2. clock \in Nat => \A t \in Stamps : t = clock
  BY DEF Stamps
<1>3. UNCHANGED vars /\ IInv => IInv'
  BY DEF vars, IInv, TypeOK, LedgerExact, WithinLimits, EvictionForgetsNothing, ClockOrder
<1>4. IInv /\ TypeOK' /\ [Next]_vars => IInv'
  BY <1>2, <1>3, TickPreserves, ChargePreserves, GiveBackPreserves, EvictPreserves,
     RateLimiterAssumption DEF Next, IInv, TypeOK
<1>5. QED  BY <1>1, <1>4, TypeCorrect, PTL DEF Spec

\* The product promise of rate_limit.rs:1-6 for every limit and day length: no
\* key ever holds more than DAY_LIMIT reservations of one calendar day or
\* WEEK_LIMIT of one calendar week, if no tick separates stamp and call.
THEOREM LimitsKept ==
    ASSUME MaxLag = 0
    PROVE  Spec => []WithinLimits
<1>1. IInv => WithinLimits  BY DEF IInv
<1>2. QED  BY <1>1, Invariance, PTL

\* check_and_record, release and evict_stale neither lose nor invent quota:
\* the counters are exactly the reservations held in their windows.
THEOREM CountersExact ==
    ASSUME MaxLag = 0
    PROVE  Spec => []LedgerExact
<1>1. IInv => LedgerExact  BY DEF IInv
<1>2. QED  BY <1>1, Invariance, PTL

\* evict_stale (rate_limit.rs:106-109) never removes an entry whose week is
\* still running and still holds a reservation.
THEOREM EvictionSafe ==
    ASSUME MaxLag = 0
    PROVE  Spec => []EvictionForgetsNothing
<1>1. IInv => EvictionForgetsNothing  BY DEF IInv
<1>2. QED  BY <1>1, Invariance, PTL

\* A charge with a prompt stamp is a check of the ledger: the counters it judges
\* are the shares the ledger judges.
LEMMA ChargeIsCheck ==
    ASSUME MaxLag = 0, IInv, NEW r \in Reqs, NEW k \in Keys, CheckAndRecord(r, k, clock)
    PROVE  Ledger!Check(r, k, clock)
<1>1. /\ Ledger!DayShare(outstanding, k, Ledger!DayKey(clock)) =
           DayShare(outstanding, k, DayKey(clock))
      /\ Ledger!WeekShare(outstanding, k, Ledger!WeekKey(clock)) =
           WeekShare(outstanding, k, WeekKey(clock))
  BY DEF DayShare, WeekShare, Ledger!DayShare, Ledger!WeekShare,
         DayKey, WeekKey, Ledger!DayKey, Ledger!WeekKey
<1>2. /\ Rolled(EntryOf(k), clock).day_count =
           Cardinality(Ledger!DayShare(outstanding, k, Ledger!DayKey(clock)))
      /\ Rolled(EntryOf(k), clock).week_count =
           Cardinality(Ledger!WeekShare(outstanding, k, Ledger!WeekKey(clock)))
  BY <1>1, RolledIsShare
<1>3. \A d, w : Verdict(d, w) = Ledger!Verdict(d, w)
  BY DEF Verdict, Ledger!Verdict
<1>4. \A S : Cardinality(S) = Ledger!Cardinality(S)
  BY DEF Cardinality, Ledger!Cardinality
<1>5. QED  BY <1>2, <1>3, <1>4 DEF CheckAndRecord, Ledger!Check

\* The limiter of rate_limit.rs implements the ledger: each operation maps to
\* the ledger's own step with the same answer, or to a stutter (eviction).
THEOREM LedgerImplemented ==
    ASSUME MaxLag = 0
    PROVE  Spec => ImplementsLedger
<1>1. Init => Ledger!Init
  BY DEF Init, Ledger!Init
<1>2. IInv /\ [Next]_vars => [Ledger!Next]_(Ledger!vars)
  <2> SUFFICES ASSUME IInv, [Next]_vars PROVE [Ledger!Next]_(Ledger!vars)
    OBVIOUS
  <2>1. clock \in Ledger!Stamps /\ \A t \in Stamps : t = clock
    <3>1. clock \in Nat  BY RateLimiterAssumption DEF IInv, TypeOK
    <3>2. QED  BY <3>1 DEF Stamps, Ledger!Stamps
  <2>2. Tick => Ledger!Tick
    BY DEF Tick, Ledger!Tick
  <2>3. \A r \in Reqs, k \in Keys, t \in Stamps :
               CheckAndRecord(r, k, t) => Ledger!Check(r, k, t) /\ t \in Ledger!Stamps
    BY <2>1, ChargeIsCheck
  <2>4. \A o \in outstanding : Release(o) => Ledger!GiveBack(o)
    BY DEF Release, Ledger!GiveBack
  <2>5. (\E t \in Stamps : EvictStale(t)) \/ UNCHANGED vars => UNCHANGED Ledger!vars
    BY DEF EvictStale, vars, Ledger!vars
  <2>6. QED  BY <2>2, <2>3, <2>4, <2>5 DEF Next, Ledger!Next
<1>3. QED
  BY <1>1, <1>2, Invariance, PTL DEF Spec, ImplementsLedger, Ledger!Spec

============================================================================
