-------------------------- MODULE FuelHandler_proofs --------------------------
(***************************************************************************)
(* Proofs about FuelHandler for any number of requests, brands and         *)
(* seconds: the one permit is conserved on every path through the handler, *)
(* a refused request is told the very second it may come back, the handler *)
(* uses the limiter as RateLimiter describes, with prompt checks the       *)
(* counters balance and the limits are kept, and every step of a request   *)
(* brings it nearer to its answer.                                         *)
(***************************************************************************)
EXTENDS FuelHandler, TLAPS, FiniteSetTheorems, SequenceTheorems

(***************************************************************************)
(* The permit.                                                             *)
(***************************************************************************)

Outside == {"idle", "evict", "check", "giveback", "acquire", "done"}
Inside == {"export", "finish", "respond", "refund", "return"}

\* The requests that hold the permit.
Holders == {r \in Reqs : pc[r] \in Inside}

\* One request holds the permit, or the semaphore has it.
OnePermit ==
    /\ pc \in [Reqs -> Outside \cup Inside]
    /\ \/ permits = 1 /\ Holders = {}
       \/ permits = 0 /\ \E r \in Reqs : Holders = {r}

\* A request that stays outside or stays inside.
LEMMA StayKeepsPermit ==
    ASSUME OnePermit, NEW r \in Reqs, NEW s, Go(r, s), UNCHANGED permits,
           \/ pc[r] \in Outside /\ s \in Outside
           \/ pc[r] \in Inside /\ s \in Inside
    PROVE  OnePermit'
<1>1. pc' \in [Reqs -> Outside \cup Inside]
  BY DEF OnePermit, Go
<1>2. Holders' = Holders
  BY DEF OnePermit, Go, Holders, Outside, Inside
<1>3. QED  BY <1>1, <1>2 DEF OnePermit

\* try_acquire takes the permit only when nobody has it (handlers.rs:118-124).
LEMMA AcquireKeepsPermit ==
    ASSUME OnePermit, NEW r \in Reqs, Acquire(r)
    PROVE  OnePermit'
<1> USE DEF Inside, Outside
<1>1. CASE permits > 0 /\ permits' = permits - 1 /\ Go(r, "export")
  <2>1. permits = 1 /\ Holders = {}
    BY <1>1 DEF OnePermit
  <2>2. Holders' = {r} /\ pc' \in [Reqs -> Outside \cup Inside]
    BY <1>1, <2>1 DEF OnePermit, Go, Holders
  <2>3. QED  BY <1>1, <2>1, <2>2 DEF OnePermit
<1>2. CASE permits = 0 /\ End(r, "Busy") /\ UNCHANGED permits
  BY <1>2, StayKeepsPermit DEF End, Acquire
<1>3. QED  BY <1>1, <1>2 DEF Acquire

\* The permit is dropped with the handler, when it returns or is dropped itself.
LEMMA DropKeepsPermit ==
    ASSUME OnePermit, NEW r \in Reqs, pc[r] \in Inside, Go(r, "done"),
           permits' = permits + 1
    PROVE  OnePermit'
<1> USE DEF Inside, Outside
<1>1. Holders = {r} /\ permits = 0
  BY DEF OnePermit, Holders
<1>2. Holders' = {} /\ pc' \in [Reqs -> Outside \cup Inside]
  BY <1>1 DEF OnePermit, Go, Holders
<1>3. QED  BY <1>1, <1>2 DEF OnePermit

\* The steps of a request neither lose nor double the permit.
THEOREM PermitHolds == Spec => []OnePermit
<1>1. Init => OnePermit
  BY DEF Init, OnePermit, Holders, Outside, Inside
<1>2. OnePermit /\ [Next]_vars => OnePermit'
  <2> SUFFICES ASSUME OnePermit, [Next]_vars PROVE OnePermit'
    OBVIOUS
  <2>0. ASSUME UNCHANGED <<pc, permits>> PROVE OnePermit'
    BY <2>0 DEF OnePermit, Holders
  <2>1. CASE Tick
    BY <2>0, <2>1 DEF Tick
  <2>2. ASSUME NEW r \in Reqs, Reject(r) \/ Arrive(r) \/ Handle(r) \/ Disconnect(r)
        PROVE  OnePermit'
    <3> USE DEF Inside, Outside
    <3>1. CASE Reject(r)
      BY <3>1, StayKeepsPermit DEF Reject, End
    <3>2. CASE Arrive(r)
      BY <3>2, StayKeepsPermit DEF Arrive
    <3>3. CASE Evict(r)
      BY <3>3, StayKeepsPermit DEF Evict
    <3>4. CASE Check(r)
      <4>1. /\ pc[r] = "check" /\ UNCHANGED permits
            /\ Go(r, "acquire") \/ Go(r, "check") \/ Go(r, "giveback")
        BY <3>4 DEF Check
      <4>2. QED  BY <4>1, StayKeepsPermit
    <3>5. CASE GiveBack(r)
      <4>1. /\ pc[r] = "giveback" /\ UNCHANGED permits
            /\ UNCHANGED pc \/ Go(r, "done")
        BY <3>5 DEF GiveBack, ReleaseNext, End
      <4>2. QED  BY <2>0, <4>1, StayKeepsPermit
    <3>6. CASE Acquire(r)
      BY <3>6, AcquireKeepsPermit
    <3>7. CASE Export(r)
      <4>1. pc[r] = "export" /\ UNCHANGED permits /\ (Go(r, "finish") \/ Go(r, "refund"))
        BY <3>7 DEF Export, Fail
      <4>2. QED  BY <4>1, StayKeepsPermit
    <3>8. CASE Finish(r)
      <4>1. pc[r] = "finish" /\ UNCHANGED permits /\ (Go(r, "respond") \/ Go(r, "refund"))
        BY <3>8 DEF Finish, Fail
      <4>2. QED  BY <4>1, StayKeepsPermit
    <3>9. CASE Respond(r)
      <4>1. pc[r] = "respond" /\ UNCHANGED permits /\ (Go(r, "return") \/ Go(r, "refund"))
        BY <3>9 DEF Respond, Fail
      <4>2. QED  BY <4>1, StayKeepsPermit
    <3>10. CASE Refund(r)
      <4>1. pc[r] = "refund" /\ UNCHANGED permits /\ (UNCHANGED pc \/ Go(r, "return"))
        BY <3>10 DEF Refund, ReleaseNext
      <4>2. QED  BY <2>0, <4>1, StayKeepsPermit
    <3>11. CASE Return(r)
      BY <3>11, DropKeepsPermit DEF Return
    <3>12. CASE Disconnect(r)
      BY <3>12, DropKeepsPermit DEF Disconnect, End
    <3>13. QED
      BY <2>2, <3>1, <3>2, <3>3, <3>4, <3>5, <3>6, <3>7, <3>8, <3>9, <3>10, <3>11, <3>12
      DEF Handle
  <2>3. CASE UNCHANGED vars
    BY <2>0, <2>3 DEF vars
  <2>4. QED  BY <2>1, <2>2, <2>3 DEF Next
<1>3. QED  BY <1>1, <1>2, PTL DEF Spec

\* At most one export runs, and the permit survives every path out of it.
THEOREM PermitIsConserved == Spec => []PermitConserved
<1>1. OnePermit => PermitConserved
  <2>1. Cardinality({}) = 0 /\ \A r : Cardinality({r}) = 1
    BY FS_EmptySet, FS_Singleton
  <2>2. QED  BY <2>1 DEF OnePermit, PermitConserved, Holders, Inside
<1>2. QED  BY <1>1, PermitHolds, PTL

(***************************************************************************)
(* Retry-After.                                                            *)
(***************************************************************************)

\* Division finds the quotient of a number given with its remainder.
LEMMA QuotientIs ==
    ASSUME NEW b \in Nat \ {0}, NEW q \in Nat, NEW rest \in 0 .. b - 1
    PROVE  (q * b + rest) \div b = q
<1> DEFINE x == q * b + rest  p == x \div b  qb == q * b  pb == p * b
<1>1. qb \in Nat
  OBVIOUS
<1>2. x \in Nat /\ x = qb + rest
  BY <1>1
<1> HIDE DEF x, qb
<1>3. p \in Nat /\ pb \in Nat /\ pb <= x /\ x < pb + b
  BY <1>2
<1>4. ASSUME p < q PROVE FALSE
  <2> HIDE DEF p
  <2>1. (p + 1) * b = pb + b
    BY <1>3
  <2>2. (p + 1) * b <= qb
    BY <1>3, <1>4 DEF qb
  <2> HIDE DEF pb
  <2>3. QED  BY <1>1, <1>2, <1>3, <2>1, <2>2
<1>5. ASSUME q < p PROVE FALSE
  <2> HIDE DEF p
  <2>1. (q + 1) * b = qb + b
    BY DEF qb
  <2>2. (q + 1) * b <= pb
    BY <1>3, <1>5
  <2> HIDE DEF pb
  <2>3. QED  BY <1>1, <1>2, <1>3, <2>1, <2>2
<1>6. p = q
  <2> HIDE DEF p, pb
  <2>1. QED  BY <1>3, <1>4, <1>5
<1>7. QED  BY <1>6 DEF x, qb

\* A day begins with its first second, right after the last of the day before.
LEMMA DayBegins ==
    ASSUME NEW d \in Nat
    PROVE  DayKey((d + 1) * SECONDS_PER_DAY) = d + 1
           /\ DayKey((d + 1) * SECONDS_PER_DAY - 1) = d
<1> DEFINE s == SECONDS_PER_DAY
<1>1. s \in Nat \ {0}
  BY RateWindowAssumption
<1>2. ((d + 1) * s + 0) \div s = d + 1
  BY <1>1, QuotientIs
<1>3. (d * s + (s - 1)) \div s = d
  BY <1>1, QuotientIs
<1>4. (d + 1) * s + 0 = (d + 1) * s /\ d * s + (s - 1) = (d + 1) * s - 1
  BY <1>1
<1>5. QED  BY <1>2, <1>3, <1>4 DEF DayKey

\* seconds_until_next_day and seconds_until_next_week (rate_limit.rs:174-200)
\* end in the first second of the next window.
LEMMA NextWindowBegins ==
    ASSUME NEW t \in Nat
    PROVE  /\ SecondsUntilNextDay(t) \in Int /\ SecondsUntilNextWeek(t) \in Int
           /\ DayKey(t + SecondsUntilNextDay(t)) = DayKey(t) + 1
           /\ DayKey(t + SecondsUntilNextDay(t) - 1) = DayKey(t)
           /\ WeekKey(t + SecondsUntilNextWeek(t)) = WeekKey(t) + 1
           /\ WeekKey(t + SecondsUntilNextWeek(t) - 1) = WeekKey(t)
<1> DEFINE s == SECONDS_PER_DAY  d == DayKey(t)  w == WeekKey(t)  m == 7 * w + 3
<1>1. s \in Nat \ {0} /\ d \in Nat
  BY RateWindowAssumption DEF DayKey
<1>2. w = (d + 3) \div 7
  BY DEF WeekKey
<1> HIDE DEF d, w
<1>3. w \in Nat /\ m \in Nat
  BY <1>1, <1>2
<1>4. SecondsUntilNextDay(t) \in Int /\ t + SecondsUntilNextDay(t) = (d + 1) * s
  <2>1. (d + 1) * s \in Nat
    BY <1>1
  <2>2. SecondsUntilNextDay(t) = (d + 1) * s - t
    BY DEF SecondsUntilNextDay, d
  <2>3. QED  BY <2>1, <2>2
<1>5. SecondsUntilNextWeek(t) \in Int /\ t + SecondsUntilNextWeek(t) = (m + 1) * s
  <2>1. SecondsUntilNextWeek(t) = (w * 7 - 3 + 7) * s - t
    BY <1>2 DEF SecondsUntilNextWeek, d
  <2>2. w * 7 - 3 + 7 = m + 1 /\ (m + 1) * s \in Nat
    BY <1>1, <1>3
  <2>3. QED  BY <2>1, <2>2
<1>6. DayKey((d + 1) * s) = d + 1 /\ DayKey((d + 1) * s - 1) = d
  BY <1>1, DayBegins
<1>7. DayKey((m + 1) * s) = m + 1 /\ DayKey((m + 1) * s - 1) = m
  BY <1>3, DayBegins
<1>8. WeekKey((m + 1) * s) = (m + 4) \div 7 /\ WeekKey((m + 1) * s - 1) = (m + 3) \div 7
  BY <1>3, <1>7 DEF WeekKey
<1>9. (m + 4) \div 7 = w + 1 /\ (m + 3) \div 7 = w
  BY <1>3
<1>10. DayKey(t + SecondsUntilNextDay(t)) = d + 1
       /\ DayKey(t + SecondsUntilNextDay(t) - 1) = d
  BY <1>4, <1>6
<1>11. WeekKey(t + SecondsUntilNextWeek(t)) = w + 1
       /\ WeekKey(t + SecondsUntilNextWeek(t) - 1) = w
  BY <1>5, <1>8, <1>9
<1>12. QED  BY <1>4, <1>5, <1>10, <1>11 DEF d, w

\* What RetryAfterTight asks of one request.
Tight(at, verdict) ==
    LET then == at + verdict.retryAfter
    IN  /\ verdict.by = "DayExceeded" =>
             DayKey(then) = DayKey(at) + 1 /\ DayKey(then - 1) = DayKey(at)
        /\ verdict.by = "WeekExceeded" =>
             WeekKey(then) = WeekKey(at) + 1 /\ WeekKey(then - 1) = WeekKey(at)

\* The two functions give a tight wait (handlers.rs:103-107).
LEMMA TightWhenComputed ==
    ASSUME NEW at \in Nat, NEW verdict,
           verdict.by = "DayExceeded" => verdict.retryAfter = SecondsUntilNextDay(at),
           verdict.by = "WeekExceeded" => verdict.retryAfter = SecondsUntilNextWeek(at)
    PROVE  Tight(at, verdict)
<1>1. CASE verdict.by = "DayExceeded"
  BY <1>1, NextWindowBegins DEF Tight
<1>2. CASE verdict.by = "WeekExceeded"
  BY <1>2, NextWindowBegins DEF Tight
<1>3. QED  BY <1>1, <1>2 DEF Tight

\* A request that has been refused keeps the clock reading it was refused with.
Refused ==
    /\ clock \in Nat
    /\ pc \in [Reqs -> Outside \cup Inside]
    /\ now \in [Reqs -> Nat]
    /\ DOMAIN blocked = Reqs
    /\ \A r \in Reqs : pc[r] = "idle" => blocked[r] = NotBlocked
    /\ RetryAfterTight

\* Retry-After ends in the first second of the window after the refusing one,
\* whatever the time of the refusal.
THEOREM RetryAfterIsTight == Spec => []RetryAfterTight
<1>1. Init => Refused
  BY FuelHandlerAssumption
  DEF Init, Refused, Outside, Inside, RetryAfterTight, NotBlocked
<1>2. OnePermit /\ OnePermit' /\ Refused /\ [Next]_vars => Refused'
  <2> SUFFICES ASSUME OnePermit, OnePermit', Refused, [Next]_vars PROVE Refused'
    OBVIOUS
  <2>0. ASSUME UNCHANGED <<clock, now, blocked>>,
               \A r \in Reqs : pc'[r] = "idle" => pc[r] = "idle"
        PROVE  Refused'
    BY <2>0 DEF Refused, OnePermit, RetryAfterTight
  <2>1. CASE Tick
    BY <2>1 DEF Tick, Refused, RetryAfterTight
  <2>2. ASSUME NEW r \in Reqs, Reject(r) \/ Arrive(r) \/ Handle(r) \/ Disconnect(r)
        PROVE  Refused'
    <3>1. \A q \in Reqs : pc'[q] = "idle" => pc[q] = "idle"
      BY <2>2 DEF Handle, Reject, Arrive, Evict, Check, GiveBack, ReleaseNext, Acquire,
         Export, Fail, Finish, Respond, Refund, Return, Disconnect, End, Go, OnePermit
    <3>2. CASE Arrive(r)
      <4>1. /\ pc[r] = "idle" /\ now' = [now EXCEPT ![r] = clock]
            /\ UNCHANGED <<clock, blocked>>
        BY <3>2 DEF Arrive
      <4>2. blocked[r].by = "Allowed"
        BY <4>1 DEF Refused, NotBlocked
      <4>3. now' \in [Reqs -> Nat] /\ \A q \in Reqs \ {r} : now'[q] = now[q]
        BY <4>1 DEF Refused
      <4>4. RetryAfterTight'
        BY <4>1, <4>2, <4>3 DEF Refused, RetryAfterTight
      <4>5. QED  BY <3>1, <4>1, <4>3, <4>4 DEF Refused, OnePermit
    <3>3. CASE Check(r)
      <4> DEFINE rolled  == Rolled(EntryOf(Head(todo[r])), now[r])
                 verdict == Verdict(rolled.day_count, rolled.week_count)
                 wait    == IF verdict = "WeekExceeded" THEN SecondsUntilNextWeek(now[r])
                            ELSE SecondsUntilNextDay(now[r])
      <4>1. /\ pc[r] = "check" /\ UNCHANGED <<clock, now>>
            /\ \/ UNCHANGED blocked
               \/ blocked' = [blocked EXCEPT ![r] = [by |-> verdict, retryAfter |-> wait]]
        BY <3>3 DEF Check
      <4>2. CASE UNCHANGED blocked
        BY <2>0, <3>1, <4>1, <4>2
      <4> HIDE DEF verdict
      <4>3. CASE blocked' = [blocked EXCEPT ![r] = [by |-> verdict, retryAfter |-> wait]]
        <5>1. blocked'[r] = [by |-> verdict, retryAfter |-> wait]
              /\ \A q \in Reqs \ {r} : blocked'[q] = blocked[q]
          BY <4>3 DEF Refused
        <5>2. now[r] \in Nat
          BY DEF Refused
        <5>3. /\ blocked'[r].by = "DayExceeded" =>
                   blocked'[r].retryAfter = SecondsUntilNextDay(now[r])
              /\ blocked'[r].by = "WeekExceeded" =>
                   blocked'[r].retryAfter = SecondsUntilNextWeek(now[r])
          BY <5>1
        <5>4. RetryAfterTight'
          <6>1. \A q \in Reqs : Tight(now[q], blocked[q])
            BY DEF Refused, RetryAfterTight, Tight
          <6>2. Tight(now[r], blocked'[r])
            BY <5>2, <5>3, TightWhenComputed
          <6>3. \A q \in Reqs : Tight(now'[q], blocked'[q])
            BY <4>1, <5>1, <6>1, <6>2
          <6>4. QED  BY <6>3 DEF RetryAfterTight, Tight
        <5>5. pc'[r] # "idle" /\ DOMAIN blocked' = Reqs
          BY <3>1, <4>1, <4>3 DEF Refused
        <5>6. QED  BY <3>1, <4>1, <5>1, <5>4, <5>5 DEF Refused, OnePermit
      <4>4. QED  BY <4>1, <4>2, <4>3
    <3>4. CASE ~ Arrive(r) /\ ~ Check(r)
      <4>1. UNCHANGED <<clock, now, blocked>>
        BY <2>2, <3>4 DEF Handle, Reject, Evict, GiveBack, ReleaseNext, Acquire, Export,
           Finish, Respond, Refund, Return, Disconnect
      <4>2. QED  BY <2>0, <3>1, <4>1
    <3>5. QED  BY <3>2, <3>3, <3>4
  <2>3. CASE UNCHANGED vars
    BY <2>0, <2>3 DEF vars
  <2>4. QED  BY <2>1, <2>2, <2>3 DEF Next
<1>3. Refused => RetryAfterTight
  BY DEF Refused
<1>4. QED  BY <1>1, <1>2, <1>3, PermitHolds, PTL DEF Spec

(***************************************************************************)
(* The brands of a request: named, and each of them once.                  *)
(***************************************************************************)

\* The n-th place of a finite set of places is one of them, and places of
\* different rank differ (parse_brands pushes in the order of the parts).
LEMMA NthOfPlaces ==
    ASSUME NEW S, IsFiniteSet(S), S \subseteq Nat
    PROVE  /\ \A n \in 1 .. Cardinality(S) : Nth(S, n) \in S
           /\ \A n, m \in 1 .. Cardinality(S) : Nth(S, n) = Nth(S, m) => n = m
<1> DEFINE rank(i) == Cardinality({j \in S : j <= i})
           c == Cardinality(S)
<1>1. c \in Nat
  BY FS_CardinalityType
<1>2. \A i \in S : rank(i) \in 1 .. c
  <2> SUFFICES ASSUME NEW i \in S PROVE rank(i) \in 1 .. c
    OBVIOUS
  <2>1. {j \in S : j <= i} \in SUBSET S /\ i \in {j \in S : j <= i}
    OBVIOUS
  <2>2. IsFiniteSet({j \in S : j <= i}) /\ rank(i) <= c
    BY <2>1, FS_Subset
  <2>3. rank(i) \in Nat /\ rank(i) # 0
    BY <2>1, <2>2, FS_CardinalityType, FS_EmptySet
  <2>4. QED  BY <1>1, <2>2, <2>3
<1>3. \A i, k \in S : i < k => rank(i) # rank(k)
  <2> SUFFICES ASSUME NEW i \in S, NEW k \in S, i < k PROVE rank(i) # rank(k)
    OBVIOUS
  <2> DEFINE T == {j \in S : j <= k}  U == {j \in S : j <= i}
  <2>0. i \in Nat /\ k \in Nat /\ \A j \in S : j \in Nat
    OBVIOUS
  <2>1. T \in SUBSET S /\ U \in SUBSET T /\ k \in T /\ k \notin U
    <3>1. \A j \in U : j \in S /\ j <= k
      BY <2>0
    <3>2. k \in T /\ k \notin U /\ T \subseteq S
      BY <2>0
    <3>3. U \subseteq T
      BY <3>1
    <3>4. QED  BY <3>2, <3>3
  <2>2. IsFiniteSet(T)
    BY <2>1, FS_Subset
  <2> HIDE DEF T, U
  <2>3. Cardinality(T) = Cardinality(U) => T = U
    BY <2>1, <2>2, FS_Subset
  <2>4. QED  BY <2>1, <2>3 DEF T, U
<1> HIDE DEF rank, c
<1>4. \A i, k \in S : i # k => rank(i) # rank(k)
  BY <1>3
<1>5. ASSUME NEW n \in 1 .. c, \A i \in S : rank(i) # n PROVE FALSE
  <2> DEFINE f == [i \in S |-> rank(i)]  R == (1 .. c) \ {n}
  <2>1. f \in [S -> R]
    BY <1>2, <1>5
  <2>2. IsFiniteSet(1 .. c) /\ Cardinality(1 .. c) = c
    BY <1>1, FS_Interval
  <2>3. IsFiniteSet(R) /\ Cardinality(R) = c - 1
    BY <2>2, <1>5, FS_RemoveElement
  <2>4. Cardinality(R) < Cardinality(S)
    BY <1>1, <2>3 DEF c
  <2> HIDE DEF R, f
  <2>5. \E x, y \in S : x # y /\ f[x] = f[y]
    BY <2>1, <2>3, <2>4, FS_PigeonHole
  <2>6. QED  BY <2>5, <1>4 DEF f
<1>6. \A n \in 1 .. c : \E i \in S : rank(i) = n
  BY <1>5
<1>7. \A n \in 1 .. c : Nth(S, n) \in S /\ rank(Nth(S, n)) = n
  BY <1>6 DEF Nth, rank
<1>8. QED  BY <1>7 DEF c

\* A list that names every brand at most once.
Distinct(list) == \A i, j \in DOMAIN list : list[i] = list[j] => i = j

\* What the first mentions of a list of parts name: brands, each once.
LEMMA FirstMentionsDistinct ==
    ASSUME NEW S, NEW m \in Nat, NEW parts \in [1 .. m -> S]
    PROVE  LET first == FirstMentions(parts)
               list  == [n \in 1 .. Cardinality(first) |-> parts[Nth(first, n)]]
           IN  /\ Cardinality(first) \in Nat
               /\ first # {} => Cardinality(first) # 0
               /\ \A n \in 1 .. Cardinality(first) : Nth(first, n) \in first
               /\ Distinct(list)
<1> DEFINE first == FirstMentions(parts)
           list  == [n \in 1 .. Cardinality(first) |-> parts[Nth(first, n)]]
<1>1. first \subseteq 1 .. m /\ first \subseteq Nat
  BY DEF FirstMentions
<1>2. IsFiniteSet(first)
  BY <1>1, FS_Interval, FS_Subset
<1>3. Cardinality(first) \in Nat /\ (first # {} => Cardinality(first) # 0)
  BY <1>2, FS_CardinalityType, FS_EmptySet
<1>4. \A i, k \in first : parts[i] = parts[k] => i = k
  <2> SUFFICES ASSUME NEW i \in first, NEW k \in first, parts[i] = parts[k], i < k
               PROVE FALSE
    BY <1>1
  <2>1. i \in 1 .. k - 1
    BY <1>1
  <2>2. QED  BY <2>1 DEF FirstMentions
<1> HIDE DEF first
<1>5. /\ \A n \in 1 .. Cardinality(first) : Nth(first, n) \in first
      /\ \A n, k \in 1 .. Cardinality(first) : Nth(first, n) = Nth(first, k) => n = k
  BY <1>1, <1>2, NthOfPlaces
<1>6. Distinct(list)
  BY <1>4, <1>5 DEF Distinct
<1>7. QED  BY <1>3, <1>5, <1>6 DEF first

\* ALLOWED_BRANDS holds every brand once (extractors.rs:7).
LEMMA AllowedBrands ==
    /\ ALLOWED_BRANDS \in Seq(Keys) /\ ALLOWED_BRANDS # <<>>
    /\ Distinct(ALLOWED_BRANDS) /\ ToSet(ALLOWED_BRANDS) \subseteq Keys
<1> DEFINE c == Cardinality(Keys)
<1>1. IsFiniteSet(Keys) /\ Keys # {}
  BY FuelHandlerAssumption
<1>2. c \in Nat /\ c # 0
  BY <1>1, FS_CardinalityType, FS_EmptySet
<1>3. \E f \in [1 .. c -> Keys] : IsInjective(f)
  <2>1. ExistsBijection(1 .. c, Keys)
    BY <1>1, FS_CardinalityType
  <2>2. QED  BY <2>1 DEF ExistsBijection, Bijection, Injection, IsInjective
<1>4. ALLOWED_BRANDS \in [1 .. c -> Keys] /\ IsInjective(ALLOWED_BRANDS)
  BY <1>3 DEF ALLOWED_BRANDS, SetToSeq
<1> HIDE DEF c
<1>5. ALLOWED_BRANDS \in Seq(Keys) /\ Len(ALLOWED_BRANDS) = c
  BY <1>2, <1>4
<1>6. QED  BY <1>2, <1>4, <1>5 DEF Distinct, IsInjective, ToSet

\* A request that passes the validation names brands that are sold, at least
\* one, and none of them twice: no brand is charged twice for one export.
LEMMA BrandsOfRequest ==
    ASSUME NEW list \in BrandLists
    PROVE  list \in Seq(Keys) /\ list # <<>> /\ Distinct(list)
<1>1. PICK q \in Requests :
        Refusal(q) = "none" /\ list = ParseBrands(q.brands, ALLOWED_BRANDS)
  BY DEF BrandLists
<1>2. list # <<Invalid>>
  BY <1>1 DEF Refusal, RefusalOf
<1>3. CASE q.brands \in {{}, {<<Blank>>}}
  BY <1>1, <1>3, AllowedBrands DEF ParseBrands
<1>4. CASE q.brands \notin {{}, {<<Blank>>}}
  <2>1. PICK b \in BoundedSeq(Keys \cup {Blank, Invalid}, 3) : q.brands = {b}
    BY <1>4 DEF Requests
  <2>2. PICK m \in 0 .. 3 : b \in [1 .. m -> Keys \cup {Blank, Invalid}]
    BY <2>1 DEF BoundedSeq, SeqOf
  <2> DEFINE parts == CHOOSE p \in q.brands : TRUE
             first == FirstMentions(parts)
  <2>3. parts \in [1 .. m -> Keys \cup {Blank, Invalid}]
    BY <2>1, <2>2
  <2>4. ~ (first = {} \/ \E i \in first : parts[i] \notin ToSet(ALLOWED_BRANDS))
    BY <1>1, <1>2, <1>4 DEF ParseBrands
  <2>5. list = [n \in 1 .. Cardinality(first) |-> parts[Nth(first, n)]]
    BY <1>1, <1>4, <2>4 DEF ParseBrands
  <2>6. m \in Nat
    OBVIOUS
  <2> HIDE DEF parts
  <2>7. /\ Cardinality(first) \in Nat
        /\ first # {} => Cardinality(first) # 0
        /\ \A n \in 1 .. Cardinality(first) : Nth(first, n) \in first
        /\ Distinct(list)
    BY <2>3, <2>5, <2>6, FirstMentionsDistinct
  <2> HIDE DEF first
  <2>8. \A n \in 1 .. Cardinality(first) : parts[Nth(first, n)] \in Keys
    BY <2>4, <2>7, AllowedBrands
  <2>9. list \in [1 .. Cardinality(first) -> Keys]
    BY <2>5, <2>8
  <2>10. list \in Seq(Keys) /\ Len(list) = Cardinality(first)
    BY <2>7, <2>9
  <2>11. QED  BY <2>4, <2>7, <2>10
<1>5. QED  BY <1>3, <1>4

(***************************************************************************)
(* The loops over the brands: a list is visited from its head.             *)
(***************************************************************************)

\* The elements of a list, with one more at its end.
LEMMA ElementsOfAppend ==
    ASSUME NEW s \in Seq(Keys), NEW k \in Keys
    PROVE  ToSet(Append(s, k)) = ToSet(s) \cup {k}
<1>1. /\ DOMAIN Append(s, k) = 1 .. Len(s) + 1 /\ DOMAIN s = 1 .. Len(s)
      /\ \A i \in 1 .. Len(s) : Append(s, k)[i] = s[i]
      /\ Append(s, k)[Len(s) + 1] = k /\ Len(s) \in Nat
  OBVIOUS
<1>2. 1 .. Len(s) + 1 = (1 .. Len(s)) \cup {Len(s) + 1}
  BY <1>1
<1>3. QED  BY <1>1, <1>2 DEF ToSet

\* The check loop (handlers.rs:97-99): what is recorded, then what is still to
\* be checked, is the list of the request.
LEMMA CheckedThenTodo ==
    ASSUME NEW s \in Seq(Keys), NEW t \in Seq(Keys), t # <<>>
    PROVE  /\ Head(t) \in Keys /\ Tail(t) \in Seq(Keys)
           /\ Append(s, Head(t)) \in Seq(Keys)
           /\ Append(s, Head(t)) \o Tail(t) = s \o t
<1>1. Head(t) \in Keys /\ Tail(t) \in Seq(Keys) /\ Append(s, Head(t)) \in Seq(Keys)
  OBVIOUS
<1> DEFINE u == Append(s, Head(t))
<1>2. Len(u \o Tail(t)) = Len(s \o t)
  BY <1>1
<1>3. ASSUME NEW i \in 1 .. Len(s \o t) PROVE (u \o Tail(t))[i] = (s \o t)[i]
  <2>1. CASE i <= Len(s)
    BY <1>1, <2>1
  <2>2. CASE i = Len(s) + 1
    BY <1>1, <2>2
  <2>3. CASE i > Len(s) + 1
    <3>1. (u \o Tail(t))[i] = Tail(t)[i - Len(s) - 1]
      BY <1>1, <2>3
    <3>2. Tail(t)[i - Len(s) - 1] = t[i - Len(s)]
      BY <2>3
    <3>3. QED  BY <2>3, <3>1, <3>2
  <2>4. QED  BY <1>3, <2>1, <2>2, <2>3
<1>4. u \o Tail(t) \in Seq(Keys) /\ s \o t \in Seq(Keys)
  BY <1>1
<1> HIDE DEF u
<1>5. u \o Tail(t) = s \o t
  BY <1>2, <1>3, <1>4, SeqEqual
<1>6. QED  BY <1>1, <1>5 DEF u

\* What was recorded names brands once if the list of the request does.
LEMMA PrefixDistinct ==
    ASSUME NEW s \in Seq(Keys), NEW t \in Seq(Keys), Distinct(s \o t)
    PROVE  /\ Distinct(s) /\ (t # <<>> => Head(t) \notin ToSet(s))
<1>1. \A i \in 1 .. Len(s) : i \in DOMAIN (s \o t) /\ (s \o t)[i] = s[i]
  OBVIOUS
<1>2. Distinct(s)
  BY <1>1 DEF Distinct
<1>3. ASSUME t # <<>>, NEW i \in DOMAIN s, s[i] = Head(t) PROVE FALSE
  <2>1. /\ Len(s) + 1 \in DOMAIN (s \o t) /\ (s \o t)[Len(s) + 1] = Head(t)
        /\ i \in 1 .. Len(s) /\ Len(s) \in Nat
    BY <1>3
  <2>2. i = Len(s) + 1
    BY <1>1, <1>3, <2>1 DEF Distinct
  <2>3. QED  BY <2>1, <2>2
<1>4. QED  BY <1>2, <1>3 DEF ToSet

\* The release loops: what is still to be given back loses its head, and only
\* that.
LEMMA GivenBackThenTodo ==
    ASSUME NEW t \in Seq(Keys), t # <<>>, Distinct(t)
    PROVE  /\ Tail(t) \in Seq(Keys) /\ Distinct(Tail(t))
           /\ Head(t) \in ToSet(t)
           /\ ToSet(Tail(t)) = ToSet(t) \ {Head(t)}
<1>1. /\ Tail(t) \in Seq(Keys) /\ Len(t) \in Nat \ {0} /\ Head(t) = t[1]
      /\ DOMAIN Tail(t) = 1 .. Len(t) - 1 /\ DOMAIN t = 1 .. Len(t)
      /\ \A i \in 1 .. Len(t) - 1 : Tail(t)[i] = t[i + 1]
  OBVIOUS
<1>2. \A i \in 1 .. Len(t) - 1 : i + 1 \in 1 .. Len(t)
  BY <1>1
<1>3. Distinct(Tail(t))
  BY <1>1, <1>2 DEF Distinct
<1>4. Head(t) \in ToSet(t)
  BY <1>1 DEF ToSet
<1>5. ToSet(Tail(t)) \subseteq ToSet(t) \ {Head(t)}
  BY <1>1, <1>2 DEF ToSet, Distinct
<1>6. ASSUME NEW x \in ToSet(t) \ {Head(t)} PROVE x \in ToSet(Tail(t))
  <2>1. PICK i \in 1 .. Len(t) : x = t[i]
    BY <1>1 DEF ToSet
  <2>2. i # 1
    BY <1>1, <1>6, <2>1
  <2>3. PICK j \in 1 .. Len(t) - 1 : i = j + 1
    <3>1. i - 1 \in 1 .. Len(t) - 1 /\ i = (i - 1) + 1
      BY <1>1, <2>2
    <3>2. QED  BY <3>1
  <2>4. QED  BY <1>1, <2>1, <2>3 DEF ToSet
<1>7. QED  BY <1>1, <1>3, <1>4, <1>5, <1>6

(***************************************************************************)
(* What a request holds at every step of the handler.                      *)
(***************************************************************************)

\* The brands a request holds, and those the running loop still visits.
HeldBy(r) ==
    /\ pc[r] \notin {"refund", "return", "done"} => status[r] = "none"
    /\ pc[r] = "idle" => held[r] = {} /\ recorded[r] = <<>>
    /\ pc[r] = "evict" => held[r] = {} /\ recorded[r] = <<>> /\ todo[r] = brands[r]
    /\ pc[r] = "check" => /\ recorded[r] \o todo[r] = brands[r] /\ todo[r] # <<>>
                          /\ held[r] = ToSet(recorded[r])
    /\ pc[r] \in {"giveback", "refund"} =>
         held[r] = ToSet(todo[r]) /\ Distinct(todo[r])
    /\ pc[r] \in {"acquire", "export", "finish", "respond"} =>
         held[r] = ToSet(brands[r])
    /\ pc[r] = "refund" => status[r] \notin {"Ok", "Busy", "Dropped"}
    /\ pc[r] \in {"return", "done"} =>
         held[r] = IF status[r] \in {"Ok", "Busy", "Dropped"}
                   THEN ToSet(brands[r]) ELSE {}

HandlerTyped ==
    /\ clock \in 0 .. MaxClock
    /\ pc \in [Reqs -> Outside \cup Inside]
    /\ now \in [Reqs -> Nat]
    /\ brands \in [Reqs -> Seq(Keys)]
    /\ todo \in [Reqs -> Seq(Keys)]
    /\ recorded \in [Reqs -> Seq(Keys)]
    /\ held \in [Reqs -> SUBSET Keys]
    /\ DOMAIN status = Reqs

\* One request's charge, clock reading and list of brands.
RequestFollows(r) ==
    /\ now[r] <= clock
    /\ PromptChecks /\ pc[r] \in {"evict", "check"} => now[r] = clock
    /\ Distinct(brands[r])
    /\ pc[r] \notin {"idle", "done"} => brands[r] # <<>>
    /\ HeldBy(r)

\* A request is charged for what it was granted and has not given back.
ChargesFollow == HandlerTyped /\ \A r \in Reqs : RequestFollows(r)

\* A request that is not validated is answered 401 or 400.
LEMMA RefusalCodes == Refusals \subseteq {"Unauthorized", "BadRequest"}
BY DEF Refusals, Refusal, RefusalOf

\* A step of one request touches nothing of another.
LEMMA OthersAlone ==
    ASSUME HandlerTyped, NEW r \in Reqs, NEW q \in Reqs \ {r},
           Reject(r) \/ Arrive(r) \/ Handle(r) \/ Disconnect(r)
    PROVE  /\ clock' = clock /\ pc'[q] = pc[q] /\ now'[q] = now[q]
           /\ brands'[q] = brands[q] /\ todo'[q] = todo[q]
           /\ recorded'[q] = recorded[q] /\ held'[q] = held[q]
           /\ status'[q] = status[q]
<1> USE DEF HandlerTyped, Go, End, Fail
<1>1. CASE Reject(r)  BY <1>1 DEF Reject
<1>2. CASE Arrive(r)  BY <1>2 DEF Arrive
<1>3. CASE Evict(r)  BY <1>3 DEF Evict
<1>4. CASE Check(r)  BY <1>4 DEF Check
<1>5. CASE GiveBack(r)  BY <1>5 DEF GiveBack, ReleaseNext
<1>6. CASE Acquire(r)  BY <1>6 DEF Acquire
<1>7. CASE Export(r)  BY <1>7 DEF Export
<1>8. CASE Finish(r)  BY <1>8 DEF Finish
<1>9. CASE Respond(r)  BY <1>9 DEF Respond
<1>10. CASE Refund(r)  BY <1>10 DEF Refund, ReleaseNext
<1>11. CASE Return(r)  BY <1>11 DEF Return
<1>12. CASE Disconnect(r)  BY <1>12 DEF Disconnect
<1>13. QED
  BY <1>1, <1>2, <1>3, <1>4, <1>5, <1>6, <1>7, <1>8, <1>9, <1>10, <1>11, <1>12
  DEF Handle

\* The charge of a request follows the request through the handler.
LEMMA StepFollows ==
    ASSUME ChargesFollow, NEW r \in Reqs,
           Reject(r) \/ Arrive(r) \/ Handle(r) \/ Disconnect(r)
    PROVE  HandlerTyped' /\ RequestFollows(r)'
<1>0. HandlerTyped /\ RequestFollows(r) /\ HeldBy(r) /\ clock \in Nat
  BY FuelHandlerAssumption DEF ChargesFollow, RequestFollows, HandlerTyped
<1>a. ToSet(<<>>) = {} /\ Distinct(<<>>)
  BY DEF ToSet, Distinct
<1> USE DEF HandlerTyped, RequestFollows, HeldBy, Outside, Inside
<1>1. CASE Reject(r)
  BY <1>0, <1>1, RefusalCodes DEF Reject, End, Go
<1>2. CASE Arrive(r)
  <2>1. PICK list \in BrandLists : /\ brands' = [brands EXCEPT ![r] = list]
                                   /\ todo' = [todo EXCEPT ![r] = list]
    BY <1>2 DEF Arrive
  <2>2. list \in Seq(Keys) /\ list # <<>> /\ Distinct(list)
    BY BrandsOfRequest
  <2>3. /\ pc[r] = "idle" /\ now' = [now EXCEPT ![r] = clock]
        /\ pc' = [pc EXCEPT ![r] = "evict"]
        /\ UNCHANGED <<clock, recorded, status, held>>
    BY <1>2 DEF Arrive, Go
  <2>4. QED  BY <1>0, <2>1, <2>2, <2>3
<1>3. CASE Evict(r)
  <2>1. /\ pc[r] = "evict" /\ pc' = [pc EXCEPT ![r] = "check"]
        /\ UNCHANGED <<clock, brands, now, todo, recorded, status, held>>
    BY <1>3 DEF Evict, Go
  <2>2. <<>> \o todo[r] = todo[r]
    BY <1>0
  <2>3. QED  BY <1>0, <1>a, <2>1, <2>2
<1>4. CASE Check(r)
  <2> DEFINE k == Head(todo[r])
  <2>1. /\ pc[r] = "check" /\ UNCHANGED <<clock, brands, now, status>>
        /\ recorded[r] \in Seq(Keys) /\ todo[r] \in Seq(Keys) /\ todo[r] # <<>>
        /\ recorded[r] \o todo[r] = brands[r] /\ held[r] = ToSet(recorded[r])
    BY <1>0, <1>4 DEF Check
  <2>2. /\ k \in Keys /\ Tail(todo[r]) \in Seq(Keys)
        /\ Append(recorded[r], k) \in Seq(Keys)
        /\ Append(recorded[r], k) \o Tail(todo[r]) = brands[r]
    BY <2>1, CheckedThenTodo
  <2>3. ToSet(Append(recorded[r], k)) = ToSet(recorded[r]) \cup {k}
    BY <2>1, <2>2, ElementsOfAppend
  <2>4. CASE /\ recorded' = [recorded EXCEPT ![r] = Append(@, k)]
             /\ held' = [held EXCEPT ![r] = @ \cup {k}]
             /\ todo' = [todo EXCEPT ![r] = Tail(@)]
             /\ Go(r, IF Tail(todo[r]) = <<>> THEN "acquire" ELSE "check")
    <3>1. /\ recorded'[r] = Append(recorded[r], k) /\ todo'[r] = Tail(todo[r])
          /\ held'[r] = ToSet(recorded'[r])
          /\ HandlerTyped'
          /\ pc'[r] = IF Tail(todo[r]) = <<>> THEN "acquire" ELSE "check"
      BY <1>0, <2>1, <2>2, <2>3, <2>4 DEF Go
    <3>2. CASE Tail(todo[r]) = <<>>
      <4>1. Append(recorded[r], k) = brands[r]
        BY <2>2, <3>2, ConcatEmptySeq
      <4>2. QED  BY <1>0, <2>1, <3>1, <3>2, <4>1
    <3>3. CASE Tail(todo[r]) # <<>>
      BY <1>0, <2>1, <2>2, <3>1, <3>3
    <3>4. QED  BY <3>2, <3>3
  <2>5. CASE /\ todo' = [todo EXCEPT ![r] = recorded[r]]
             /\ Go(r, "giveback") /\ UNCHANGED <<recorded, held>>
    <3>1. Distinct(recorded[r])
      BY <1>0, <2>1, PrefixDistinct
    <3>2. QED  BY <1>0, <2>1, <2>5, <3>1 DEF Go
  <2>6. QED  BY <1>4, <2>4, <2>5 DEF Check
<1>5. ASSUME pc[r] \in {"giveback", "refund"}, todo[r] # <<>>, ReleaseNext(r),
             UNCHANGED <<pc, status>>
      PROVE  HandlerTyped' /\ RequestFollows(r)'
  <2>1. /\ Tail(todo[r]) \in Seq(Keys) /\ Distinct(Tail(todo[r]))
        /\ ToSet(Tail(todo[r])) = ToSet(todo[r]) \ {Head(todo[r])}
    BY <1>0, <1>5, GivenBackThenTodo
  <2>2. /\ todo' = [todo EXCEPT ![r] = Tail(@)]
        /\ held' = [held EXCEPT ![r] = @ \ {Head(todo[r])}]
        /\ UNCHANGED <<clock, brands, now, recorded>>
    BY <1>5 DEF ReleaseNext
  <2>3. QED  BY <1>0, <1>5, <2>1, <2>2
<1>6. CASE GiveBack(r)
  <2>1. CASE todo[r] = <<>> /\ End(r, "RateLimited")
    BY <1>0, <1>a, <1>6, <2>1 DEF GiveBack, End, Go, ReleaseNext
  <2>2. QED  BY <1>5, <1>6, <2>1 DEF GiveBack
<1>7. CASE Acquire(r)
  BY <1>0, <1>7 DEF Acquire, End, Go
<1>8. ASSUME pc[r] \in {"export", "finish", "respond"},
             NEW code \in {"BadGateway", "GatewayTimeout", "NotAcceptable"}, Fail(r, code),
             UNCHANGED <<clock, brands, now, recorded, held>>
      PROVE  HandlerTyped' /\ RequestFollows(r)'
  BY <1>0, <1>8 DEF Fail, Go
<1>9. CASE Export(r)
  <2>1. CASE Go(r, "finish") /\ UNCHANGED <<status, todo>>
    BY <1>0, <1>9, <2>1 DEF Export, Go
  <2>2. QED  BY <1>8, <1>9, <2>1 DEF Export
<1>10. CASE Finish(r)
  <2>1. CASE Go(r, "respond") /\ UNCHANGED <<status, todo>>
    BY <1>0, <1>10, <2>1 DEF Finish, Go
  <2>2. QED  BY <1>8, <1>10, <2>1 DEF Finish
<1>11. CASE Respond(r)
  <2>1. CASE /\ status' = [status EXCEPT ![r] = "Ok"]
             /\ Go(r, "return") /\ UNCHANGED todo
    BY <1>0, <1>11, <2>1 DEF Respond, Go
  <2>2. QED  BY <1>8, <1>11, <2>1 DEF Respond
<1>12. CASE Refund(r)
  <2>1. CASE todo[r] = <<>> /\ Go(r, "return")
             /\ UNCHANGED <<clock, brands, now, todo, recorded, status, held>>
    BY <1>0, <1>a, <1>12, <2>1 DEF Refund, Go
  <2>2. QED  BY <1>5, <1>12, <2>1 DEF Refund
<1>13. CASE Return(r)
  BY <1>0, <1>13 DEF Return, Go
<1>14. CASE Disconnect(r)
  BY <1>0, <1>14 DEF Disconnect, End, Go
<1>15. QED
  BY <1>1, <1>2, <1>3, <1>4, <1>6, <1>7, <1>9, <1>10, <1>11, <1>12, <1>13, <1>14
  DEF Handle

\* Every request holds exactly the brands it was charged for and has not given
\* back, at every step of the handler.
THEOREM ChargesFollowRequests == Spec => []ChargesFollow
<1>1. Init => ChargesFollow
  <2>1. <<>> \in Seq(Keys) /\ Distinct(<<>>) /\ FirstClock .. MaxClock \subseteq 0 .. MaxClock
    BY FuelHandlerAssumption DEF Distinct
  <2>2. QED
    BY <2>1, FuelHandlerAssumption DEF Init, ChargesFollow, HandlerTyped, RequestFollows, HeldBy, Outside, Inside
<1>2. ChargesFollow /\ [Next]_vars => ChargesFollow'
  <2> SUFFICES ASSUME ChargesFollow, [Next]_vars PROVE ChargesFollow'
    OBVIOUS
  <2>1. CASE Tick
    <3>1. /\ clock' = clock + 1 /\ clock < MaxClock /\ clock \in Nat /\ MaxClock \in Nat
          /\ PromptChecks => \A r \in Reqs : pc[r] \notin {"evict", "check"}
          /\ UNCHANGED <<pc, brands, now, todo, recorded, status, held>>
      BY <2>1, FuelHandlerAssumption DEF Tick, ChargesFollow, HandlerTyped
    <3>2. HandlerTyped'
      BY <3>1 DEF ChargesFollow, HandlerTyped
    <3>3. \A r \in Reqs : RequestFollows(r)'
      BY <3>1 DEF ChargesFollow, HandlerTyped, RequestFollows, HeldBy
    <3>4. QED  BY <3>2, <3>3 DEF ChargesFollow
  <2>2. ASSUME NEW r \in Reqs, Reject(r) \/ Arrive(r) \/ Handle(r) \/ Disconnect(r)
        PROVE  ChargesFollow'
    <3>1. HandlerTyped' /\ RequestFollows(r)'
      BY <2>2, StepFollows
    <3>2. ASSUME NEW q \in Reqs \ {r} PROVE RequestFollows(q)'
      <4>1. RequestFollows(q) /\ HandlerTyped
        BY DEF ChargesFollow
      <4>2. /\ clock' = clock /\ pc'[q] = pc[q] /\ now'[q] = now[q]
            /\ brands'[q] = brands[q] /\ todo'[q] = todo[q]
            /\ recorded'[q] = recorded[q] /\ held'[q] = held[q]
            /\ status'[q] = status[q]
        BY <2>2, <4>1, OthersAlone
      <4>3. QED  BY <4>1, <4>2 DEF RequestFollows, HeldBy
    <3>3. QED  BY <3>1, <3>2 DEF ChargesFollow
  <2>3. CASE UNCHANGED vars
    BY <2>3 DEF vars, ChargesFollow, HandlerTyped, RequestFollows, HeldBy
  <2>4. QED  BY <2>1, <2>2, <2>3 DEF Next
<1>3. QED  BY <1>1, <1>2, PTL DEF Spec

(***************************************************************************)
(* The limiter, as the handler uses it.                                    *)
(***************************************************************************)

Lag == IF PromptChecks THEN 0 ELSE MaxClock

Reserved(r, k) == [req |-> r, key |-> k, at |-> now[r]]

\* The reservations are those of the keys that requests hold.
LEMMA OutstandingAre ==
    \A o : o \in Outstanding <=> \E r \in Reqs : \E k \in held[r] : o = Reserved(r, k)
BY DEF Outstanding, Reserved

\* A step that charges nobody, gives nothing back and moves no clock reading of
\* a request that holds a brand is no step of the ledger.
LEMMA LedgerKept ==
    ASSUME held' = held, \A r \in Reqs : held[r] = {} \/ now'[r] = now[r]
    PROVE  Outstanding' = Outstanding
<1>1. \A o : o \in Outstanding <=> \E r \in Reqs : \E k \in held[r] : o = Reserved(r, k)
  BY OutstandingAre
<1>2. \A o : o \in Outstanding' <=> \E r \in Reqs : \E k \in held'[r] : o = Reserved(r, k)'
  BY DEF Outstanding, Reserved
<1>3. \A r \in Reqs : \A k \in held[r] : Reserved(r, k)' = Reserved(r, k)
  BY DEF Reserved
<1>4. QED  BY <1>1, <1>2, <1>3

\* One key charged is one reservation more.
LEMMA LedgerCharged ==
    ASSUME HandlerTyped, NEW r \in Reqs, NEW k,
           held' = [held EXCEPT ![r] = @ \cup {k}], UNCHANGED now
    PROVE  Outstanding' = Outstanding \cup {Reserved(r, k)}
<1>1. \A o : o \in Outstanding <=> \E q \in Reqs : \E j \in held[q] : o = Reserved(q, j)
  BY OutstandingAre
<1>2. \A o : o \in Outstanding' <=> \E q \in Reqs : \E j \in held'[q] : o = Reserved(q, j)
  BY DEF Outstanding, Reserved
<1>3. held'[r] = held[r] \cup {k} /\ \A q \in Reqs \ {r} : held'[q] = held[q]
  BY DEF HandlerTyped
<1>4. \A q \in Reqs : \A j \in held'[q] : j \in held[q] \/ (q = r /\ j = k)
  BY <1>3
<1>5. \A q \in Reqs : held[q] \subseteq held'[q]
  BY <1>3
<1> HIDE DEF Outstanding, Reserved
<1>6. \A o : o \in Outstanding' => o \in Outstanding \cup {Reserved(r, k)}
  BY <1>1, <1>2, <1>4
<1>7. \A o : o \in Outstanding \cup {Reserved(r, k)} => o \in Outstanding'
  BY <1>1, <1>2, <1>3, <1>5
<1>8. QED  BY <1>6, <1>7

\* One key given back is one reservation less.
LEMMA LedgerGivenBack ==
    ASSUME HandlerTyped, NEW r \in Reqs, NEW k,
           held' = [held EXCEPT ![r] = @ \ {k}], UNCHANGED now
    PROVE  Outstanding' = Outstanding \ {Reserved(r, k)}
<1>1. \A o : o \in Outstanding <=> \E q \in Reqs : \E j \in held[q] : o = Reserved(q, j)
  BY OutstandingAre
<1>2. \A o : o \in Outstanding' <=> \E q \in Reqs : \E j \in held'[q] : o = Reserved(q, j)
  BY DEF Outstanding, Reserved
<1>3. held'[r] = held[r] \ {k} /\ \A q \in Reqs \ {r} : held'[q] = held[q]
  BY DEF HandlerTyped
<1>4. \A q, j : Reserved(q, j) = Reserved(r, k) <=> q = r /\ j = k
  <2> SUFFICES ASSUME NEW q, NEW j, Reserved(q, j) = Reserved(r, k)
               PROVE  q = r /\ j = k
    BY DEF Reserved
  <2>1. Reserved(q, j).req = q /\ Reserved(q, j).key = j
        /\ Reserved(r, k).req = r /\ Reserved(r, k).key = k
    BY DEF Reserved
  <2>2. QED  BY <2>1
<1>5. \A q \in Reqs : \A j : j \in held'[q] <=> j \in held[q] /\ ~ (q = r /\ j = k)
  BY <1>3
<1> HIDE DEF Outstanding, Reserved
<1>6. \A o : o \in Outstanding' <=> o \in Outstanding /\ o # Reserved(r, k)
  BY <1>1, <1>2, <1>4, <1>5
<1>7. QED  BY <1>6

\* The two modules compute windows alike.
LEMMA SameWindows ==
    /\ \A t : Limiter!DayKey(t) = DayKey(t) /\ Limiter!WeekKey(t) = WeekKey(t)
    /\ \A w, t : /\ Limiter!Rolled(w, t) = Rolled(w, t)
                 /\ Limiter!Recorded(w, t) = Recorded(w, t)
                 /\ Limiter!Released(w, t) = Released(w, t)
                 /\ Limiter!IsStale(w, t) = IsStale(w, t)
    /\ \A d, w : Limiter!Verdict(d, w) = Verdict(d, w)
    /\ \A k : Limiter!EntryOf(k) = EntryOf(k)
<1>1. \A t : Limiter!DayKey(t) = DayKey(t) /\ Limiter!WeekKey(t) = WeekKey(t)
  BY DEF Limiter!DayKey, Limiter!WeekKey, DayKey, WeekKey
<1>2. \A d, w : Limiter!Verdict(d, w) = Verdict(d, w)
  BY DEF Limiter!Verdict, Verdict
<1>3. \A w, t : Limiter!Rolled(w, t) = Rolled(w, t)
  BY <1>1 DEF Limiter!Rolled, Rolled
<1>4. \A w, t : Limiter!Recorded(w, t) = Recorded(w, t)
  BY <1>2, <1>3 DEF Limiter!Recorded, Recorded
<1>5. \A w, t : Limiter!Released(w, t) = Released(w, t)
  BY <1>1 DEF Limiter!Released, Released, Limiter!SaturatingDec, SaturatingDec
<1>6. \A w, t : Limiter!IsStale(w, t) = IsStale(w, t)
  BY DEF Limiter!IsStale, IsStale, Limiter!STALE_AFTER_SECS, STALE_AFTER_SECS
<1>7. \A k : Limiter!EntryOf(k) = EntryOf(k)
  BY DEF Limiter!EntryOf, EntryOf, Limiter!DefaultWindow, DefaultWindow
<1>8. QED  BY <1>1, <1>2, <1>3, <1>4, <1>5, <1>6, <1>7

\* A request reads a stamp that is no older than Lag when it uses it.
LEMMA StampIsRecent ==
    ASSUME ChargesFollow, NEW r \in Reqs, pc[r] \in {"evict", "check"}
    PROVE  now[r] \in Limiter!Stamps
<1>1. /\ now[r] \in Nat /\ clock \in Nat /\ MaxClock \in Nat /\ clock <= MaxClock
      /\ now[r] <= clock /\ (PromptChecks => now[r] = clock)
  BY FuelHandlerAssumption DEF ChargesFollow, HandlerTyped, RequestFollows
<1>2. QED  BY <1>1 DEF Limiter!Stamps

\* Each step of a request is one call of the limiter, or none.
LEMMA RequestCallsLimiter ==
    ASSUME ChargesFollow, NEW r \in Reqs,
           Reject(r) \/ Arrive(r) \/ Handle(r) \/ Disconnect(r)
    PROVE  Limiter!Next \/ UNCHANGED Limiter!vars
<1>0. HandlerTyped /\ RequestFollows(r) /\ HeldBy(r)
  BY DEF ChargesFollow, RequestFollows
<1>1. ASSUME UNCHANGED <<clock, entries, answer, held, now>>
      PROVE  UNCHANGED Limiter!vars
  <2>1. Outstanding' = Outstanding
    BY <1>1, LedgerKept
  <2>2. QED  BY <1>1, <2>1 DEF Limiter!vars
<1>2. CASE Arrive(r)
  <2>1. /\ pc[r] = "idle" /\ now' = [now EXCEPT ![r] = clock]
        /\ UNCHANGED <<clock, entries, answer, held>>
    BY <1>2 DEF Arrive
  <2>2. Outstanding' = Outstanding
    BY <1>0, <2>1, LedgerKept DEF HandlerTyped, HeldBy
  <2>3. QED  BY <2>1, <2>2 DEF Limiter!vars
<1>3. CASE Evict(r)
  <2>1. /\ pc[r] = "evict" /\ UNCHANGED <<clock, answer, held, now>>
        /\ entries' = [k \in Keys |->
                         IF entries[k] = NoEntry \/ IsStale(EntryOf(k), now[r])
                         THEN NoEntry ELSE entries[k]]
    BY <1>3 DEF Evict
  <2>2. Outstanding' = Outstanding
    BY <2>1, LedgerKept
  <2>3. Limiter!EvictStale(now[r])
    BY <2>1, <2>2, SameWindows DEF Limiter!EvictStale
  <2>4. QED  BY <2>1, <2>3, StampIsRecent DEF Limiter!Next
<1>4. CASE Check(r)
  <2> DEFINE k       == Head(todo[r])
             rolled  == Rolled(EntryOf(k), now[r])
             verdict == Verdict(rolled.day_count, rolled.week_count)
  <2>1. /\ pc[r] = "check" /\ UNCHANGED <<clock, now>>
        /\ entries' = [entries EXCEPT ![k] = Recorded(EntryOf(k), now[r])]
        /\ answer' = verdict
        /\ \/ verdict = "Allowed" /\ held' = [held EXCEPT ![r] = @ \cup {k}]
           \/ verdict # "Allowed" /\ held' = held
    BY <1>4 DEF Check
  <2>2. /\ recorded[r] \in Seq(Keys) /\ todo[r] \in Seq(Keys) /\ todo[r] # <<>>
        /\ Distinct(recorded[r] \o todo[r]) /\ held[r] = ToSet(recorded[r])
    BY <1>0, <2>1 DEF HandlerTyped, RequestFollows, HeldBy
  <2>3. k \in Keys /\ k \notin held[r]
    BY <2>2, PrefixDistinct
  <2> HIDE DEF k
  <2>4. ~ \E o \in Outstanding : o.req = r /\ o.key = k
    <3> SUFFICES ASSUME NEW o \in Outstanding, o.req = r, o.key = k PROVE FALSE
      OBVIOUS
    <3>1. PICK q \in Reqs : \E j \in held[q] : o = Reserved(q, j)
      BY OutstandingAre
    <3>2. PICK j \in held[q] : o = Reserved(q, j)
      BY <3>1
    <3>3. o.req = q /\ o.key = j
      BY <3>2 DEF Reserved
    <3>4. QED  BY <2>3, <3>3
  <2>5. Outstanding' = IF verdict = "Allowed" THEN Outstanding \cup {Reserved(r, k)}
                       ELSE Outstanding
    <3>1. CASE held' = held
      BY <2>1, <3>1, LedgerKept, <1>0, LedgerCharged
    <3>2. CASE verdict = "Allowed" /\ held' = [held EXCEPT ![r] = @ \cup {k}]
      BY <2>1, <3>2, <1>0, LedgerCharged
    <3>3. QED  BY <2>1, <3>1, <3>2
  <2>6. Limiter!CheckAndRecord(r, k, now[r])
    <3> HIDE DEF Outstanding
    <3>1. /\ Limiter!Rolled(Limiter!EntryOf(k), now[r]) = rolled
          /\ Limiter!Verdict(rolled.day_count, rolled.week_count) = verdict
          /\ Limiter!Recorded(Limiter!EntryOf(k), now[r]) = Recorded(EntryOf(k), now[r])
      BY SameWindows
    <3> HIDE DEF rolled, verdict
    <3>2. QED
      BY <2>1, <2>4, <2>5, <3>1 DEF Limiter!CheckAndRecord, Reserved
  <2>7. QED  BY <2>1, <2>3, <2>6, StampIsRecent DEF Limiter!Next
<1>5. ASSUME pc[r] \in {"giveback", "refund"}, todo[r] # <<>>, ReleaseNext(r)
      PROVE  Limiter!Next
  <2> DEFINE k == Head(todo[r])
  <2>1. k \in held[r]
    BY <1>0, <1>5, GivenBackThenTodo DEF HandlerTyped, HeldBy
  <2>2. /\ entries' = IF entries[k] = NoEntry THEN entries
                      ELSE [entries EXCEPT ![k] = Released(@, now[r])]
        /\ held' = [held EXCEPT ![r] = @ \ {k}]
        /\ UNCHANGED <<clock, answer, now>>
    BY <1>5 DEF ReleaseNext
  <2> HIDE DEF k
  <2>3. Reserved(r, k) \in Outstanding
    BY <2>1, OutstandingAre
  <2>4. Outstanding' = Outstanding \ {Reserved(r, k)}
    BY <1>0, <2>2, LedgerGivenBack
  <2>5. Reserved(r, k).key = k /\ Reserved(r, k).at = now[r]
    BY DEF Reserved
  <2> HIDE DEF Outstanding, Reserved
  <2>6. Limiter!Release(Reserved(r, k))
    BY <2>2, <2>4, <2>5, SameWindows DEF Limiter!Release
  <2>7. QED  BY <2>3, <2>6 DEF Limiter!Next
<1>6. CASE GiveBack(r)
  BY <1>1, <1>5, <1>6 DEF GiveBack
<1>7. CASE Refund(r)
  BY <1>1, <1>5, <1>7 DEF Refund
<1>8. CASE ~ (Arrive(r) \/ Evict(r) \/ Check(r) \/ GiveBack(r) \/ Refund(r))
  <2>1. UNCHANGED <<clock, entries, answer, held, now>>
    BY <1>8 DEF Handle, Reject, Acquire, Export, Finish, Respond, Return, Disconnect
  <2>2. QED  BY <1>1, <2>1
<1>9. QED  BY <1>2, <1>3, <1>4, <1>6, <1>7, <1>8

\* The handler uses the limiter as RateLimiter describes: a request asks for a
\* key once, and releases a reservation at most once, with its stamp.
THEOREM HandlerUsesLimiter == Spec => ImplementsLimiter
<1>1. Init => Limiter!Init
  <2> SUFFICES ASSUME Init PROVE Limiter!Init
    OBVIOUS
  <2>1. \A r \in Reqs : held[r] = {}
    BY DEF Init
  <2>2. Outstanding = {}
    BY <2>1, OutstandingAre
  <2>3. clock \in 0 .. MaxClock
    BY FuelHandlerAssumption DEF Init
  <2>4. QED  BY <2>2, <2>3 DEF Init, Limiter!Init
<1>2. ChargesFollow /\ [Next]_vars => [Limiter!Next]_(Limiter!vars)
  <2> SUFFICES ASSUME ChargesFollow, [Next]_vars
               PROVE  Limiter!Next \/ UNCHANGED Limiter!vars
    OBVIOUS
  <2>1. CASE Tick
    <3>1. /\ clock < MaxClock /\ clock' = clock + 1
          /\ UNCHANGED <<entries, answer, held, now>>
      BY <2>1 DEF Tick
    <3>2. Outstanding' = Outstanding
      BY <3>1, LedgerKept
    <3>3. QED  BY <3>1, <3>2 DEF Limiter!Next, Limiter!Tick
  <2>2. ASSUME NEW r \in Reqs, Reject(r) \/ Arrive(r) \/ Handle(r) \/ Disconnect(r)
        PROVE  Limiter!Next \/ UNCHANGED Limiter!vars
    BY <2>2, RequestCallsLimiter
  <2>3. CASE UNCHANGED vars
    <3>1. UNCHANGED <<clock, entries, answer, held, now>>
      BY <2>3 DEF vars
    <3>2. Outstanding' = Outstanding
      BY <3>1, LedgerKept
    <3>3. QED  BY <3>1, <3>2 DEF Limiter!vars
  <2>4. QED  BY <2>1, <2>2, <2>3 DEF Next
<1>3. QED  BY <1>1, <1>2, ChargesFollowRequests, PTL DEF Spec, ImplementsLimiter, Limiter!Spec

(***************************************************************************)
(* The quota, once no second passes between a request's clock reading and  *)
(* its last call of check_and_record.                                      *)
(***************************************************************************)

\* The theorems of RateLimiter, about the calls of the handler.
Proved == INSTANCE RateLimiter_proofs WITH
    outstanding <- Outstanding,
    MaxLag <- IF PromptChecks THEN 0 ELSE MaxClock

\* What RateLimiter assumes of its constants holds of those of the handler.
LEMMA LimiterAssumptions ==
    Proved!RateWindowAssumption /\ Proved!RateLimiterAssumption
BY RateWindowAssumption, FuelHandlerAssumption
DEF Proved!RateWindowAssumption, Proved!RateLimiterAssumption, Proved!WindowState,
    WindowState

\* A behaviour of the limiter, read through either instance.
LEMMA SameLimiter == Limiter!Spec => Proved!Spec
<1>1. Limiter!Init => Proved!Init
  BY DEF Limiter!Init, Proved!Init
<1>2. [Limiter!Next]_(Limiter!vars) => [Proved!Next]_(Proved!vars)
  <2> SUFFICES ASSUME [Limiter!Next]_(Limiter!vars)
               PROVE  Proved!Next \/ UNCHANGED Proved!vars
    OBVIOUS
  <2>0. /\ \A w, t : /\ Proved!Rolled(w, t) = Rolled(w, t)
                     /\ Proved!Recorded(w, t) = Recorded(w, t)
                     /\ Proved!Released(w, t) = Released(w, t)
                     /\ Proved!IsStale(w, t) = IsStale(w, t)
        /\ \A d, w : Proved!Verdict(d, w) = Verdict(d, w)
        /\ \A k : Proved!EntryOf(k) = EntryOf(k)
        /\ Proved!Stamps = Limiter!Stamps
    <3>1. \A t : Proved!DayKey(t) = DayKey(t) /\ Proved!WeekKey(t) = WeekKey(t)
      BY DEF Proved!DayKey, Proved!WeekKey, DayKey, WeekKey
    <3>2. \A d, w : Proved!Verdict(d, w) = Verdict(d, w)
      BY DEF Proved!Verdict, Verdict
    <3>3. \A w, t : Proved!Rolled(w, t) = Rolled(w, t)
      BY <3>1 DEF Proved!Rolled, Rolled
    <3>4. \A w, t : Proved!Recorded(w, t) = Recorded(w, t)
      BY <3>2, <3>3 DEF Proved!Recorded, Recorded
    <3>5. \A w, t : Proved!Released(w, t) = Released(w, t)
      BY <3>1 DEF Proved!Released, Released, Proved!SaturatingDec, SaturatingDec
    <3>6. \A w, t : Proved!IsStale(w, t) = IsStale(w, t)
      BY DEF Proved!IsStale, IsStale, Proved!STALE_AFTER_SECS, STALE_AFTER_SECS
    <3>7. \A k : Proved!EntryOf(k) = EntryOf(k)
      BY DEF Proved!EntryOf, EntryOf, Proved!DefaultWindow, DefaultWindow
    <3>8. Proved!Stamps = Limiter!Stamps
      BY DEF Proved!Stamps, Limiter!Stamps
    <3>9. QED  BY <3>2, <3>3, <3>4, <3>5, <3>6, <3>7, <3>8
  <2> HIDE DEF Outstanding
  <2>1. CASE Limiter!Tick
    BY <2>1 DEF Limiter!Tick, Proved!Tick, Proved!Next
  <2>2. ASSUME NEW r \in Reqs, NEW k \in Keys, NEW t \in Limiter!Stamps,
               Limiter!CheckAndRecord(r, k, t)
        PROVE  Proved!Next
    <3>1. Proved!CheckAndRecord(r, k, t)
      BY <2>0, <2>2, SameWindows DEF Limiter!CheckAndRecord, Proved!CheckAndRecord
    <3>2. QED  BY <2>0, <3>1 DEF Proved!Next
  <2>3. ASSUME NEW o \in Outstanding, Limiter!Release(o) PROVE Proved!Next
    <3>1. Proved!Release(o)
      BY <2>0, <2>3, SameWindows DEF Limiter!Release, Proved!Release
    <3>2. QED  BY <3>1 DEF Proved!Next
  <2>4. ASSUME NEW t \in Limiter!Stamps, Limiter!EvictStale(t) PROVE Proved!Next
    <3>1. Proved!EvictStale(t)
      BY <2>0, <2>4, SameWindows DEF Limiter!EvictStale, Proved!EvictStale
    <3>2. QED  BY <2>0, <3>1 DEF Proved!Next
  <2>5. CASE UNCHANGED Limiter!vars
    BY <2>5 DEF Limiter!vars, Proved!vars
  <2>6. QED  BY <2>1, <2>2, <2>3, <2>4, <2>5 DEF Limiter!Next
<1>3. QED  BY <1>1, <1>2, PTL DEF Limiter!Spec, Proved!Spec

\* Finite sets are the same sets, and counted alike, in either module.
LEMMA SameCounting ==
    \A S : /\ Proved!IsFiniteSet(S) <=> IsFiniteSet(S)
           /\ Proved!Cardinality(S) = Cardinality(S)
<1>1. ASSUME NEW S PROVE Proved!IsFiniteSet(S) <=> IsFiniteSet(S)
  BY DEF Proved!IsFiniteSet, IsFiniteSet
<1>2. ASSUME NEW S PROVE Proved!Cardinality(S) = Cardinality(S)
  BY DEF Proved!Cardinality, Cardinality
<1>3. QED  BY <1>1, <1>2

\* As many requests as reservations: a request reserves a key once.
LEMMA OneReservationEach ==
    ASSUME NEW k, NEW H, NEW S, IsFiniteSet(S), S = {Reserved(r, k) : r \in H}
    PROVE  IsFiniteSet(H) /\ Cardinality(H) = Cardinality(S)
<1> DEFINE f == [o \in S |-> o.req]
<1>1. \A r : Reserved(r, k).req = r
  BY DEF Reserved
<1> HIDE DEF Reserved
<1>2. f \in [S -> H]
  BY <1>1
<1>3. \A o, p \in S : f[o] = f[p] => o = p
  BY <1>1
<1>4. \A r \in H : \E o \in S : f[o] = r
  BY <1>1
<1> HIDE DEF f
<1>5. f \in Bijection(S, H)
  BY <1>2, <1>3, <1>4 DEF Bijection, Injection, Surjection, IsInjective
<1>6. ExistsBijection(S, H)
  BY <1>5 DEF ExistsBijection
<1>7. QED  BY <1>6, FS_Bijection

\* The reservations of a key in a day, and in a week.
LEMMA SharesAre ==
    ASSUME NEW k, NEW d
    PROVE  /\ Proved!DayShare(Outstanding, k, d) =
                {Reserved(r, k) : r \in {q \in Reqs : k \in held[q] /\ DayKey(now[q]) = d}}
           /\ Proved!WeekShare(Outstanding, k, d) =
                {Reserved(r, k) : r \in {q \in Reqs : k \in held[q] /\ WeekKey(now[q]) = d}}
<1>1. \A t : Proved!DayKey(t) = DayKey(t) /\ Proved!WeekKey(t) = WeekKey(t)
  BY DEF Proved!DayKey, Proved!WeekKey, DayKey, WeekKey
<1>2. \A o : o \in Outstanding <=> \E r \in Reqs : \E j \in held[r] : o = Reserved(r, j)
  BY OutstandingAre
<1>3. \A r, j : Reserved(r, j).key = j /\ Reserved(r, j).at = now[r]
  BY DEF Reserved
<1> HIDE DEF Outstanding, Reserved
<1>4. QED  BY <1>1, <1>2, <1>3 DEF Proved!DayShare, Proved!WeekShare

\* What the limiter guarantees to the handler.
LEMMA LimiterGuarantees ==
    ASSUME PromptChecks
    PROVE  Spec => [](Proved!TypeOK /\ Proved!LedgerExact /\ Proved!WithinLimits)
<1>1. Spec => Proved!Spec
  BY HandlerUsesLimiter, SameLimiter DEF ImplementsLimiter
<1>2. Proved!Spec => []Proved!TypeOK
  BY LimiterAssumptions, Proved!TypeCorrect
<1>3. Proved!Spec => []Proved!LedgerExact
  BY LimiterAssumptions, Proved!CountersExact
<1>4. Proved!Spec => []Proved!WithinLimits
  BY LimiterAssumptions, Proved!LimitsKept
<1>5. QED  BY <1>1, <1>2, <1>3, <1>4, PTL

\* A refused, failed or unacceptable request gives back all it was charged for,
\* and nothing else: with nobody in flight the counters of a brand are the
\* requests answered 200, 429 Busy or dropped.
THEOREM QuotaIsBalanced ==
    ASSUME PromptChecks
    PROVE  Spec => []QuotaBalanced
<1>1. ASSUME ChargesFollow, Proved!TypeOK, Proved!LedgerExact PROVE QuotaBalanced
  <2> SUFFICES ASSUME \A r \in Reqs : pc[r] \in {"idle", "done"},
                      NEW k \in Keys, entries[k] # NoEntry
               PROVE  /\ entries[k].day_count = Cardinality(
                           {r \in Charged(k) : DayKey(now[r]) = entries[k].day_key})
                      /\ entries[k].week_count = Cardinality(
                           {r \in Charged(k) : WeekKey(now[r]) = entries[k].week_key})
    BY DEF QuotaBalanced
  <2> DEFINE d == entries[k].day_key  w == entries[k].week_key
             D == {q \in Reqs : k \in held[q] /\ DayKey(now[q]) = d}
             W == {q \in Reqs : k \in held[q] /\ WeekKey(now[q]) = w}
             DS == Proved!DayShare(Outstanding, k, d)
             WS == Proved!WeekShare(Outstanding, k, w)
  <2>1. \A r \in Reqs : k \in held[r] <=> r \in Charged(k)
    BY <1>1 DEF Charged, ChargesFollow, RequestFollows, HeldBy
  <2>2. /\ {r \in Charged(k) : DayKey(now[r]) = d} = D
        /\ {r \in Charged(k) : WeekKey(now[r]) = w} = W
    BY <2>1 DEF Charged
  <2>3. DS = {Reserved(r, k) : r \in D} /\ WS = {Reserved(r, k) : r \in W}
    <3> HIDE DEF d, w
    <3>1. DS = {Reserved(r, k) : r \in D}
      BY SharesAre
    <3>2. WS = {Reserved(r, k) : r \in W}
      BY SharesAre
    <3>3. QED  BY <3>1, <3>2
  <2>4. IsFiniteSet(DS) /\ IsFiniteSet(WS)
    <3>1. IsFiniteSet(Outstanding)
      BY <1>1, SameCounting DEF Proved!TypeOK
    <3>2. DS \in SUBSET Outstanding /\ WS \in SUBSET Outstanding
      BY DEF Proved!DayShare, Proved!WeekShare
    <3> HIDE DEF DS, WS, Outstanding
    <3>3. QED  BY <3>1, <3>2, FS_Subset
  <2>5. entries[k].day_count = Cardinality(DS) /\ entries[k].week_count = Cardinality(WS)
    BY <1>1, SameCounting DEF Proved!LedgerExact
  <2> HIDE DEF D, W, DS, WS
  <2>6. Cardinality(D) = Cardinality(DS) /\ Cardinality(W) = Cardinality(WS)
    BY <2>3, <2>4, OneReservationEach
  <2>7. QED  BY <2>2, <2>5, <2>6
<1>2. QED  BY <1>1, ChargesFollowRequests, LimiterGuarantees, PTL

\* What a client can use of a brand stays within its limits in every day and
\* every week (rate_limit.rs:1-6), as long as no second passes between reading
\* the clock and the last check: run FuelHandlerMidnight, where the limits are
\* exceeded, has no other cause.
THEOREM PromptLimitsKept ==
    ASSUME PromptChecks
    PROVE  Spec => []UsableWithinLimits
<1>1. ASSUME ChargesFollow, Proved!TypeOK, Proved!WithinLimits PROVE UsableWithinLimits
  <2> SUFFICES ASSUME NEW k \in Keys, NEW t \in 0 .. clock
               PROVE  LET used == {r \in Reqs : status[r] = "Ok" /\ k \in ToSet(brands[r])}
                      IN  /\ Cardinality({r \in used : DayKey(now[r]) = DayKey(t)})
                               <= DAY_LIMIT
                          /\ Cardinality({r \in used : WeekKey(now[r]) = WeekKey(t)})
                               <= WEEK_LIMIT
    BY DEF UsableWithinLimits
  <2> DEFINE used == {r \in Reqs : status[r] = "Ok" /\ k \in ToSet(brands[r])}
             d == DayKey(t)  w == WeekKey(t)
             D == {q \in Reqs : k \in held[q] /\ DayKey(now[q]) = d}
             W == {q \in Reqs : k \in held[q] /\ WeekKey(now[q]) = w}
             DS == Proved!DayShare(Outstanding, k, d)
             WS == Proved!WeekShare(Outstanding, k, w)
  <2>1. \A r \in used : r \in Reqs /\ k \in held[r]
    BY <1>1 DEF ChargesFollow, HandlerTyped, RequestFollows, HeldBy, Outside, Inside
  <2>2. /\ {r \in used : DayKey(now[r]) = d} \in SUBSET D
        /\ {r \in used : WeekKey(now[r]) = w} \in SUBSET W
    BY <2>1
  <2>3. DS = {Reserved(r, k) : r \in D} /\ WS = {Reserved(r, k) : r \in W}
    <3> HIDE DEF d, w
    <3>1. DS = {Reserved(r, k) : r \in D}
      BY SharesAre
    <3>2. WS = {Reserved(r, k) : r \in W}
      BY SharesAre
    <3>3. QED  BY <3>1, <3>2
  <2>4. IsFiniteSet(DS) /\ IsFiniteSet(WS)
    <3>1. IsFiniteSet(Outstanding)
      BY <1>1, SameCounting DEF Proved!TypeOK
    <3>2. DS \in SUBSET Outstanding /\ WS \in SUBSET Outstanding
      BY DEF Proved!DayShare, Proved!WeekShare
    <3> HIDE DEF DS, WS, Outstanding
    <3>3. QED  BY <3>1, <3>2, FS_Subset
  <2>5. Cardinality(DS) <= DAY_LIMIT /\ Cardinality(WS) <= WEEK_LIMIT
    <3>1. Proved!DayKey(t) = d /\ Proved!WeekKey(t) = w
      BY DEF Proved!DayKey, Proved!WeekKey, DayKey, WeekKey
    <3>2. QED  BY <1>1, <3>1, SameCounting DEF Proved!WithinLimits
  <2> HIDE DEF D, W, DS, WS, used
  <2>6. /\ IsFiniteSet(D) /\ Cardinality(D) = Cardinality(DS)
        /\ IsFiniteSet(W) /\ Cardinality(W) = Cardinality(WS)
    BY <2>3, <2>4, OneReservationEach
  <2> DEFINE A == {r \in used : DayKey(now[r]) = d}
             B == {r \in used : WeekKey(now[r]) = w}
  <2>7. A \in SUBSET D /\ B \in SUBSET W
    BY <2>2
  <2> HIDE DEF A, B
  <2>8. /\ IsFiniteSet(A) /\ Cardinality(A) <= Cardinality(D)
        /\ IsFiniteSet(B) /\ Cardinality(B) <= Cardinality(W)
    BY <2>6, <2>7, FS_Subset
  <2>9. /\ Cardinality(A) \in Int /\ Cardinality(D) \in Int /\ DAY_LIMIT \in Int
        /\ Cardinality(B) \in Int /\ Cardinality(W) \in Int /\ WEEK_LIMIT \in Int
    BY <2>6, <2>8, FS_CardinalityType, RateWindowAssumption
  <2>10. Cardinality(A) <= DAY_LIMIT /\ Cardinality(B) <= WEEK_LIMIT
    BY <2>5, <2>6, <2>8, <2>9
  <2>11. QED  BY <2>10 DEF A, B, used
<1>2. QED  BY <1>1, ChargesFollowRequests, LimiterGuarantees, PTL

\* README.md:97 holds of a request that a brand refused: it keeps no charge,
\* whatever the other requests do meanwhile.
THEOREM RateLimitedIsFree ==
    Spec => [](\A r \in Reqs : pc[r] = "done" /\ status[r] = "RateLimited" => held[r] = {})
<1>1. ChargesFollow =>
        \A r \in Reqs : pc[r] = "done" /\ status[r] = "RateLimited" => held[r] = {}
  BY DEF ChargesFollow, RequestFollows, HeldBy
<1>2. QED  BY <1>1, ChargesFollowRequests, PTL

(***************************************************************************)
(* A request comes to an end.                                              *)
(***************************************************************************)

\* The steps of the handler that are left at a point, without its loops.
Turn(point) ==
    CASE point = "evict"                   -> 9
      [] point = "check"                   -> 8
      [] point = "acquire"                 -> 6
      [] point = "export"                  -> 5
      [] point = "finish"                  -> 4
      [] point = "respond"                 -> 3
      [] point = "refund"                  -> 2
      [] point \in {"return", "giveback"}  -> 1
      [] OTHER                             -> 0

\* The rounds left of the running loop, or of the one that comes next.
Rounds(r) ==
    IF pc[r] \in {"check", "giveback", "refund"} THEN Len(todo[r])
    ELSE IF pc[r] = "evict" THEN Len(brands[r]) ELSE 0

\* The rounds of a loop that may have to give the brands back.
Refunds(r) ==
    IF pc[r] \in {"evict", "check", "acquire", "export", "finish", "respond"}
    THEN Len(brands[r]) ELSE 0

\* How many steps a request has left at most.
StepsLeft(r) == Turn(pc[r]) + Rounds(r) + Refunds(r)

\* The points of the handler, counted down.
LEMMA TurnIs ==
    /\ Turn("evict") = 9 /\ Turn("check") = 8 /\ Turn("acquire") = 6
    /\ Turn("export") = 5 /\ Turn("finish") = 4 /\ Turn("respond") = 3
    /\ Turn("refund") = 2 /\ Turn("return") = 1 /\ Turn("giveback") = 1
    /\ Turn("idle") = 0 /\ Turn("done") = 0
BY DEF Turn

\* Every point of the handler is counted.
LEMMA TurnFits == ASSUME NEW point \in Outside \cup Inside PROVE Turn(point) \in Nat
BY TurnIs DEF Outside, Inside

\* The steps that are left are a natural number.
LEMMA StepsLeftIs ==
    ASSUME HandlerTyped, NEW r \in Reqs
    PROVE  StepsLeft(r) \in Nat
<1>1. Len(todo[r]) \in Nat /\ Len(brands[r]) \in Nat
  BY DEF HandlerTyped
<1>2. Rounds(r) \in Nat /\ Refunds(r) \in Nat
  BY <1>1 DEF Rounds, Refunds
<1>3. pc[r] \in Outside \cup Inside
  BY DEF HandlerTyped
<1>4. QED  BY <1>2, <1>3, TurnFits DEF StepsLeft

\* The steps that are left from each point on.
At(r) ==
    /\ pc[r] = "evict" => StepsLeft(r) = 9 + Len(brands[r]) + Len(brands[r])
    /\ pc[r] = "check" => StepsLeft(r) = 8 + Len(todo[r]) + Len(brands[r])
    /\ pc[r] = "acquire" => StepsLeft(r) = 6 + Len(brands[r])
    /\ pc[r] = "export" => StepsLeft(r) = 5 + Len(brands[r])
    /\ pc[r] = "finish" => StepsLeft(r) = 4 + Len(brands[r])
    /\ pc[r] = "respond" => StepsLeft(r) = 3 + Len(brands[r])
    /\ pc[r] = "refund" => StepsLeft(r) = 2 + Len(todo[r])
    /\ pc[r] = "giveback" => StepsLeft(r) = 1 + Len(todo[r])
    /\ pc[r] = "return" => StepsLeft(r) = 1
    /\ pc[r] = "done" => StepsLeft(r) = 0

EveryAt == \A r \in Reqs : At(r)

\* That is what they are.
LEMMA StepsLeftAt == HandlerTyped => EveryAt
<1> SUFFICES ASSUME HandlerTyped, NEW r \in Reqs PROVE At(r)
  BY DEF EveryAt
<1> DEFINE n == Len(brands[r])  k == Len(todo[r])
<1>1. k \in Nat /\ n \in Nat
  BY DEF HandlerTyped
<1>2. /\ pc[r] \in {"check", "giveback", "refund"} => Rounds(r) = k
      /\ pc[r] = "evict" => Rounds(r) = n
      /\ pc[r] \notin {"check", "giveback", "refund", "evict"} => Rounds(r) = 0
  BY DEF Rounds
<1>3. /\ pc[r] \in {"evict", "check", "acquire", "export", "finish", "respond"} => Refunds(r) = n
      /\ pc[r] \notin {"evict", "check", "acquire", "export", "finish", "respond"} => Refunds(r) = 0
  BY DEF Refunds
<1> HIDE DEF n, k
<1>4. /\ pc[r] = "evict" => StepsLeft(r) = 9 + n + n
      /\ pc[r] = "check" => StepsLeft(r) = 8 + k + n
      /\ pc[r] = "acquire" => StepsLeft(r) = 6 + n
      /\ pc[r] = "export" => StepsLeft(r) = 5 + n
      /\ pc[r] = "finish" => StepsLeft(r) = 4 + n
      /\ pc[r] = "respond" => StepsLeft(r) = 3 + n
  BY <1>1, <1>2, <1>3, TurnIs DEF StepsLeft
<1>5. /\ pc[r] = "refund" => StepsLeft(r) = 2 + k
      /\ pc[r] = "giveback" => StepsLeft(r) = 1 + k
      /\ pc[r] = "return" => StepsLeft(r) = 1
      /\ pc[r] = "done" => StepsLeft(r) = 0
  BY <1>1, <1>2, <1>3, TurnIs DEF StepsLeft
<1>6. QED  BY <1>4, <1>5 DEF At, n, k

\* A step of the handler, or of one of its loops, leaves a request fewer steps
\* (handlers.rs:89-176).
LEMMA HandleFalls ==
    ASSUME ChargesFollow, NEW r \in Reqs, Handle(r)
    PROVE  StepsLeft(r)' < StepsLeft(r)
<1> DEFINE n == Len(brands[r])  k == Len(todo[r])  new == StepsLeft(r)'
<1>1. /\ HandlerTyped /\ HeldBy(r) /\ brands[r] \in Seq(Keys) /\ todo[r] \in Seq(Keys)
      /\ recorded[r] \in Seq(Keys) /\ n \in Nat /\ k \in Nat
  BY DEF ChargesFollow, RequestFollows, HandlerTyped
<1>0. At(r)
  BY <1>1, StepsLeftAt DEF EveryAt
<1>2. UNCHANGED brands
  BY DEF Handle, Evict, Check, GiveBack, Acquire, Export, Finish, Respond, Refund, Return,
     ReleaseNext
<1>3. /\ pc'[r] = "check" => new = 8 + Len(todo'[r]) + n
      /\ pc'[r] = "acquire" => new = 6 + n
      /\ pc'[r] = "export" => new = 5 + n
      /\ pc'[r] = "finish" => new = 4 + n
      /\ pc'[r] = "respond" => new = 3 + n
      /\ pc'[r] = "refund" => new = 2 + Len(todo'[r])
      /\ pc'[r] = "giveback" => new = 1 + Len(todo'[r])
      /\ pc'[r] = "return" => new = 1
      /\ pc'[r] = "done" => new = 0
  <2>1. HandlerTyped' => EveryAt'
    BY StepsLeftAt, PTL
  <2>2. HandlerTyped'
    BY StepFollows
  <2>3. At(r)'
    BY <2>1, <2>2 DEF EveryAt
  <2>4. QED  BY <1>1, <1>2, <2>3 DEF At
<1>4. (Tail(todo[r]) \in Seq(Keys) /\ Len(Tail(todo[r])) = k - 1) \/ todo[r] = <<>>
  BY <1>1
<1>5. todo[r] # <<>> => k > 0
  BY <1>1, EmptySeq
<1> HIDE DEF new
<1> USE DEF Go, End, Fail
<1>6. CASE Evict(r)
  <2>1. pc[r] = "evict" /\ pc'[r] = "check" /\ todo'[r] = brands[r]
    BY <1>1, <1>6 DEF Evict, HandlerTyped, HeldBy
  <2>2. StepsLeft(r) = 9 + n + n /\ new = 8 + n + n
    BY <1>3, <1>0, <2>1 DEF At
  <2> HIDE DEF n, k
  <2>3. QED  BY <1>1, <2>2 DEF new
<1>7. CASE Check(r)
  <2>1. Len(recorded[r]) \in Nat /\ (pc[r] = "check" => Len(recorded[r]) + k = n /\ k > 0)
    <3>1. pc[r] = "check" => recorded[r] \o todo[r] = brands[r] /\ todo[r] # <<>>
      BY <1>1 DEF HeldBy
    <3>2. \A s, t \in Seq(Keys) : Len(s) \in Nat /\ Len(s \o t) = Len(s) + Len(t)
      OBVIOUS
    <3>3. QED  BY <1>1, <1>5, <3>1, <3>2
  <2>2. /\ pc[r] = "check"
        /\ \/ /\ todo'[r] = Tail(todo[r])
              /\ pc'[r] \in {"acquire", "check"}
           \/ todo'[r] = recorded[r] /\ pc'[r] = "giveback"
    BY <1>1, <1>7 DEF Check, HandlerTyped
  <2>3. StepsLeft(r) = 8 + k + n
    BY <1>0, <2>2 DEF At
  <2>4. CASE todo'[r] = Tail(todo[r]) /\ pc'[r] \in {"acquire", "check"}
    <3>1. Len(todo'[r]) = k - 1
      BY <1>4, <1>5, <2>1, <2>2, <2>4, EmptySeq
    <3>2. new = 8 + (k - 1) + n \/ new = 6 + n
      BY <1>3, <2>4, <3>1
    <3> HIDE DEF n, k
    <3>3. new < 8 + k + n
      BY <1>1, <3>2
    <3>4. QED  BY <2>3, <3>3 DEF new
  <2>5. CASE todo'[r] = recorded[r] /\ pc'[r] = "giveback"
    <3>1. new = 1 + Len(recorded[r])
      BY <1>3, <2>5
    <3> HIDE DEF n, k
    <3>2. new < 8 + k + n
      BY <1>1, <2>1, <2>2, <3>1
    <3>3. QED  BY <2>3, <3>2 DEF new
  <2>6. QED  BY <2>2, <2>4, <2>5
<1>8. CASE GiveBack(r)
  <2>1. /\ pc[r] = "giveback"
        /\ \/ todo[r] # <<>> /\ todo'[r] = Tail(todo[r]) /\ pc'[r] = "giveback"
           \/ pc'[r] = "done"
    BY <1>1, <1>8 DEF GiveBack, ReleaseNext, HandlerTyped
  <2>2. StepsLeft(r) = 1 + k /\ (new = 0 \/ (k > 0 /\ new = 1 + (k - 1)))
    BY <1>3, <1>4, <1>5, <1>0, <2>1 DEF At
  <2> HIDE DEF n, k
  <2>3. QED  BY <1>1, <2>2 DEF new
<1>9. CASE Acquire(r)
  <2>1. pc[r] = "acquire" /\ pc'[r] \in {"export", "done"}
    BY <1>1, <1>9 DEF Acquire, HandlerTyped
  <2>2. StepsLeft(r) = 6 + n /\ (new = 0 \/ new = 5 + n)
    BY <1>1, <1>3, <1>0, <2>1 DEF At
  <2> HIDE DEF n, k
  <2>3. QED  BY <1>1, <2>2 DEF new
<1>10. CASE Export(r)
  <2>1. /\ pc[r] = "export"
        /\ pc'[r] = "finish" \/ (pc'[r] = "refund" /\ todo'[r] = brands[r])
    BY <1>1, <1>10 DEF Export, HandlerTyped
  <2>2. StepsLeft(r) = 5 + n /\ (new = 4 + n \/ new = 2 + n)
    BY <1>1, <1>3, <1>0, <2>1 DEF At
  <2> HIDE DEF n, k
  <2>3. QED  BY <1>1, <2>2 DEF new
<1>11. CASE Finish(r)
  <2>1. /\ pc[r] = "finish"
        /\ pc'[r] = "respond" \/ (pc'[r] = "refund" /\ todo'[r] = brands[r])
    BY <1>1, <1>11 DEF Finish, HandlerTyped
  <2>2. StepsLeft(r) = 4 + n /\ (new = 3 + n \/ new = 2 + n)
    BY <1>1, <1>3, <1>0, <2>1 DEF At
  <2> HIDE DEF n, k
  <2>3. QED  BY <1>1, <2>2 DEF new
<1>12. CASE Respond(r)
  <2>1. /\ pc[r] = "respond"
        /\ pc'[r] = "return" \/ (pc'[r] = "refund" /\ todo'[r] = brands[r])
    BY <1>1, <1>12 DEF Respond, HandlerTyped
  <2>2. StepsLeft(r) = 3 + n /\ (new = 1 \/ new = 2 + n)
    BY <1>1, <1>3, <1>0, <2>1 DEF At
  <2> HIDE DEF n, k
  <2>3. QED  BY <1>1, <2>2 DEF new
<1>13. CASE Refund(r)
  <2>1. /\ pc[r] = "refund"
        /\ \/ todo[r] # <<>> /\ todo'[r] = Tail(todo[r]) /\ pc'[r] = "refund"
           \/ pc'[r] = "return"
    BY <1>1, <1>13 DEF Refund, ReleaseNext, HandlerTyped
  <2>2. StepsLeft(r) = 2 + k /\ (new = 1 \/ (k > 0 /\ new = 2 + (k - 1)))
    BY <1>1, <1>3, <1>4, <1>5, <1>0, <2>1 DEF At
  <2> HIDE DEF n, k
  <2>3. QED  BY <1>1, <2>2 DEF new
<1>14. CASE Return(r)
  <2>1. pc[r] = "return" /\ pc'[r] = "done"
    BY <1>1, <1>14 DEF Return, HandlerTyped
  <2>2. StepsLeft(r) = 1 /\ new = 0
    BY <1>3, <1>0, <2>1 DEF At
  <2>3. QED  BY <2>2 DEF new
<1>15. QED
  BY <1>6, <1>7, <1>8, <1>9, <1>10, <1>11, <1>12, <1>13, <1>14 DEF Handle

\* What the rest of the world does leaves a request its steps.
LEMMA OthersKeepSteps ==
    ASSUME HandlerTyped, NEW r \in Reqs, NEW q \in Reqs \ {r},
           Reject(r) \/ Arrive(r) \/ Handle(r) \/ Disconnect(r)
    PROVE  StepsLeft(q)' = StepsLeft(q)
BY OthersAlone DEF StepsLeft, Rounds, Refunds

\* A step of a request leaves it fewer and the other requests as many as before,
\* as a second that passes does; a client that goes away ends its request.
AnswerNears ==
    /\ \A r \in Reqs : StepsLeft(r) \in Nat /\ StepsLeft(r)' \in Nat
    /\ \A r \in Reqs : Handle(r) \/ Disconnect(r) => StepsLeft(r)' < StepsLeft(r)
    /\ \A r \in Reqs, q \in Reqs :
         r # q /\ (Reject(r) \/ Arrive(r) \/ Handle(r) \/ Disconnect(r))
           => StepsLeft(q)' = StepsLeft(q)
    /\ Tick => \A r \in Reqs : StepsLeft(r)' = StepsLeft(r)

\* No request goes on for ever, for any number of requests and brands, whatever
\* the other requests do and wherever it is refused or fails (handlers.rs:68-176).
THEOREM EveryStepNearsTheAnswer == Spec => [][AnswerNears]_vars
<1>1. ASSUME ChargesFollow, ChargesFollow' PROVE AnswerNears
  <2>1. ASSUME NEW r \in Reqs PROVE StepsLeft(r) \in Nat /\ StepsLeft(r)' \in Nat
    <3>1. HandlerTyped => \A q \in Reqs : StepsLeft(q) \in Nat
      BY StepsLeftIs
    <3>2. HandlerTyped' => \A q \in Reqs : StepsLeft(q)' \in Nat
      <4>1. ASSUME NEW q \in Reqs, HandlerTyped' PROVE StepsLeft(q)' \in Nat
        <5>1. Len(todo'[q]) \in Nat /\ Len(brands'[q]) \in Nat
          BY <4>1 DEF HandlerTyped
        <5>2. Rounds(q)' \in Nat /\ Refunds(q)' \in Nat
          BY <5>1 DEF Rounds, Refunds
        <5>3. pc'[q] \in Outside \cup Inside
          BY <4>1 DEF HandlerTyped, Outside, Inside
        <5>4. Turn(pc'[q]) \in Nat
          BY <5>3, TurnFits
        <5>5. QED  BY <5>2, <5>4 DEF StepsLeft
      <4>2. QED  BY <4>1
    <3>3. QED  BY <1>1, <3>1, <3>2 DEF ChargesFollow
  <2>2. ASSUME NEW r \in Reqs, Handle(r) PROVE StepsLeft(r)' < StepsLeft(r)
    BY <1>1, <2>2, HandleFalls
  <2>3. ASSUME NEW r \in Reqs, Disconnect(r) PROVE StepsLeft(r)' < StepsLeft(r)
    <3>1. /\ pc[r] = "export" /\ pc'[r] = "done"
          /\ HandlerTyped /\ Len(brands[r]) \in Nat
      BY <1>1, <2>3 DEF Disconnect, End, Go, ChargesFollow, HandlerTyped
    <3>2. StepsLeft(r) = 5 + Len(brands[r])
      BY <3>1, StepsLeftAt DEF EveryAt, At
    <3>3. StepsLeft(r)' = 0
      BY <3>1, TurnIs DEF StepsLeft, Rounds, Refunds
    <3>4. QED  BY <3>1, <3>2, <3>3
  <2>4. ASSUME NEW r \in Reqs, NEW q \in Reqs, r # q,
               Reject(r) \/ Arrive(r) \/ Handle(r) \/ Disconnect(r)
        PROVE  StepsLeft(q)' = StepsLeft(q)
    <3>1. HandlerTyped /\ q \in Reqs \ {r}
      BY <1>1, <2>4 DEF ChargesFollow
    <3>2. QED  BY <2>4, <3>1, OthersKeepSteps
  <2>5. ASSUME Tick PROVE \A r \in Reqs : StepsLeft(r)' = StepsLeft(r)
    BY <2>5 DEF Tick, StepsLeft, Rounds, Refunds
  <2>6. QED  BY <2>1, <2>2, <2>3, <2>4, <2>5 DEF AnswerNears
<1>2. QED  BY <1>1, ChargesFollowRequests, PTL

=============================================================================
