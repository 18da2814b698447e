---------------------------- MODULE FuelHandler ----------------------------
(***************************************************************************)
(* rdw-api/src/handlers.rs, run: the life of every GET /fuel request, the  *)
(* quota it draws from one RateLimiter entry per brand, and the semaphore  *)
(* that admits one export at a time.  Requests run on a multi-threaded     *)
(* runtime, so the steps of different requests interleave; each call into  *)
(* the limiter is one step (it holds the entry's lock).                    *)
(*                                                                         *)
(* The export itself (Pipeline) is one step with an arbitrary outcome.     *)
(***************************************************************************)
EXTENDS RateWindow, Extractors, FiniteSets, FiniteSetsExt

CONSTANTS
    Reqs,           \* the requests
    Keys,           \* rate keys, one per brand: all requests share an API key
    NoEntry,        \* "the map has no entry for this key"
    FirstClock,     \* bounds on the clock: the server starts no earlier than
    MaxClock,       \* FirstClock, and the clock stops at MaxClock
    PromptChecks    \* no second passes between a request's clock reading and
                    \* its last check_and_record (handlers.rs:89-98)

ASSUME FuelHandlerAssumption ==
    /\ FirstClock \in Nat /\ MaxClock \in Nat /\ FirstClock <= MaxClock
    /\ PromptChecks \in BOOLEAN
    /\ IsFiniteSet(Keys) /\ Keys # {}
    /\ NoEntry \notin WindowState

VARIABLES
    clock,      \* wall clock, seconds
    entries,    \* RateLimiter::entries
    permits,    \* export_lock: free permits of Semaphore::new(1)
    pc,         \* where each request is
    brands,     \* rate_keys, in the order the client named the brands
    now,        \* the clock reading of handlers.rs:89
    todo,       \* the keys the running loop over rate_keys has still to visit
    recorded,   \* the keys check_and_record allowed
    status,     \* what the request is answered
    blocked,    \* the verdict that refused it, with its Retry-After
    answer,     \* the last verdict of the limiter
    held        \* history: the keys it was charged for and did not give back

vars == <<clock, entries, permits, pc, brands, now, todo, recorded, status,
          blocked, answer, held>>

Running == {"evict", "check", "giveback", "acquire", "export", "finish",
            "respond", "refund", "return"}

\* The requests a client can make: any API key in the header and in the query,
\* any list of brands, blanks and unknown names, any limit.
ALLOWED_BRANDS == SetToSeq(Keys)
ValidKey == "valid"
KeyTexts == {{}, {Blank}, {ValidKey}, {Invalid}}
Requests ==
    [header : KeyTexts, api_key : KeyTexts,
     brands : {{}} \cup {{b} : b \in BoundedSeq(Keys \cup {Blank, Invalid}, 3) \ {<<>>}},
     limit : {{}, {Blank}, {Invalid}, {"a number"}}]

Refusal(q) == RefusalOf(q, {ValidKey}, ALLOWED_BRANDS)
Refusals == {Refusal(q) : q \in Requests} \ {"none"}
BrandLists == {ParseBrands(q.brands, ALLOWED_BRANDS) :
                 q \in {r \in Requests : Refusal(r) = "none"}}

EntryOf(k) == IF entries[k] = NoEntry THEN DefaultWindow ELSE entries[k]

\* seconds_until_next_day
SecondsUntilNextDay(t) == (DayKey(t) + 1) * SECONDS_PER_DAY - t

\* Mutant: forgets that weeks start on Monday, three days before day 0.
SecondsUntilNextWeekMutant(t) ==
    ((DayKey(t) \div 7) * 7 + 7) * SECONDS_PER_DAY - t

\* seconds_until_next_week
SecondsUntilNextWeek(t) ==
    (((DayKey(t) + 3) \div 7) * 7 - 3 + 7) * SECONDS_PER_DAY - t

NotBlocked == [by |-> "Allowed", retryAfter |-> 0]

Init ==
    /\ clock \in FirstClock .. MaxClock
    /\ entries = [k \in Keys |-> NoEntry]
    /\ permits = 1
    /\ pc = [r \in Reqs |-> "idle"]
    /\ brands = [r \in Reqs |-> <<>>]
    /\ now = [r \in Reqs |-> 0]
    /\ todo = [r \in Reqs |-> <<>>]
    /\ recorded = [r \in Reqs |-> <<>>]
    /\ status = [r \in Reqs |-> "none"]
    /\ blocked = [r \in Reqs |-> NotBlocked]
    /\ answer = "none"
    /\ held = [r \in Reqs |-> {}]

Go(r, step) == pc' = [pc EXCEPT ![r] = step]

End(r, code) == Go(r, "done") /\ status' = [status EXCEPT ![r] = code]

Tick ==
    /\ clock < MaxClock
    /\ PromptChecks => \A r \in Reqs : pc[r] \notin {"evict", "check"}
    /\ clock' = clock + 1
    /\ UNCHANGED <<entries, permits, pc, brands, now, todo, recorded, status,
                   blocked, answer, held>>

\* Steps 1 and 2: no valid API key (401), or a bad brand list or limit (400).
Reject(r) ==
    /\ pc[r] = "idle"
    /\ \E code \in Refusals : End(r, code)
    /\ UNCHANGED <<clock, entries, permits, brands, now, todo, recorded,
                   blocked, answer, held>>

\* Steps 1 and 2 pass; step 3 begins by reading the clock.
Arrive(r) ==
    /\ pc[r] = "idle"
    /\ \E list \in BrandLists :
         /\ brands' = [brands EXCEPT ![r] = list]
         /\ todo' = [todo EXCEPT ![r] = list]
    /\ now' = [now EXCEPT ![r] = clock]
    /\ Go(r, "evict")
    /\ UNCHANGED <<clock, entries, permits, recorded, status, blocked, answer, held>>

Evict(r) ==
    /\ pc[r] = "evict"
    /\ entries' = [k \in Keys |->
                     IF entries[k] = NoEntry \/ IsStale(EntryOf(k), now[r])
                     THEN NoEntry ELSE entries[k]]
    /\ Go(r, "check")
    /\ UNCHANGED <<clock, permits, brands, now, todo, recorded, status,
                   blocked, answer, held>>

\* Mutant: a refused brand is asked again instead of ending the request.
CheckMutant(r) ==
    LET k       == Head(todo[r])
        rolled  == Rolled(EntryOf(k), now[r])
        verdict == Verdict(rolled.day_count, rolled.week_count)
        allowed == verdict = "Allowed"
    IN  /\ pc[r] = "check"
        /\ entries' = [entries EXCEPT ![k] = Recorded(EntryOf(k), now[r])]
        /\ answer' = verdict
        /\ recorded' = [recorded EXCEPT ![r] = IF allowed THEN Append(@, k) ELSE @]
        /\ held' = [held EXCEPT ![r] = IF allowed THEN @ \cup {k} ELSE @]
        /\ todo' = [todo EXCEPT ![r] = IF allowed THEN Tail(@) ELSE @]
        /\ Go(r, IF todo'[r] = <<>> THEN "acquire" ELSE "check")
        /\ UNCHANGED <<clock, permits, brands, now, status, blocked>>

\* One round of the loop over rate_keys (handlers.rs:97-115).
Check(r) ==
    LET k       == Head(todo[r])
        rolled  == Rolled(EntryOf(k), now[r])
        verdict == Verdict(rolled.day_count, rolled.week_count)
        wait    == IF verdict = "WeekExceeded" THEN SecondsUntilNextWeek(now[r])
                   ELSE SecondsUntilNextDay(now[r])
    IN  /\ pc[r] = "check"
        /\ entries' = [entries EXCEPT ![k] = Recorded(EntryOf(k), now[r])]
        /\ answer' = verdict
        /\ \/ /\ verdict = "Allowed"
              /\ recorded' = [recorded EXCEPT ![r] = Append(@, k)]
              /\ held' = [held EXCEPT ![r] = @ \cup {k}]
              /\ todo' = [todo EXCEPT ![r] = Tail(@)]
              /\ Go(r, IF Tail(todo[r]) = <<>> THEN "acquire" ELSE "check")
              /\ UNCHANGED blocked
           \/ /\ verdict # "Allowed"
              /\ todo' = [todo EXCEPT ![r] = recorded[r]]
              /\ blocked' = [blocked EXCEPT ![r] = [by |-> verdict,
                                                    retryAfter |-> wait]]
              /\ Go(r, "giveback")
              /\ UNCHANGED <<recorded, held>>
        /\ UNCHANGED <<clock, permits, brands, now, status>>

\* RateLimiter::release of the next key, with the stamp it was recorded with.
ReleaseNext(r) ==
    LET k == Head(todo[r])
    IN  /\ entries' = IF entries[k] = NoEntry THEN entries
                      ELSE [entries EXCEPT ![k] = Released(@, now[r])]
        /\ held' = [held EXCEPT ![r] = @ \ {k}]
        /\ todo' = [todo EXCEPT ![r] = Tail(@)]
        /\ UNCHANGED <<clock, permits, brands, now, recorded, blocked, answer>>

\* The loop that gives back what the brands before the refused one consumed.
GiveBack(r) ==
    /\ pc[r] = "giveback"
    /\ \/ /\ todo[r] # <<>>
          /\ ReleaseNext(r)
          /\ UNCHANGED <<pc, status>>
       \/ /\ todo[r] = <<>>
          /\ End(r, "RateLimited")
          /\ UNCHANGED <<clock, entries, permits, brands, now, todo, recorded,
                         blocked, answer, held>>

\* Step 4, try_acquire: never waits, and an export in progress means 429.
Acquire(r) ==
    /\ pc[r] = "acquire"
    /\ \/ /\ permits > 0
          /\ permits' = permits - 1
          /\ Go(r, "export")
          /\ UNCHANGED status
       \/ /\ permits = 0
          /\ End(r, "Busy")
          /\ UNCHANGED permits
    /\ UNCHANGED <<clock, entries, brands, now, todo, recorded, blocked, answer, held>>

\* release_all, then the error goes back to the client.
Fail(r, code) ==
    /\ status' = [status EXCEPT ![r] = code]
    /\ todo' = [todo EXCEPT ![r] = brands[r]]
    /\ Go(r, "refund")

\* Step 5: the pipeline succeeds, or fails with one of the errors that
\* pipeline_error_to_api_error maps to 502 and 504.
Export(r) ==
    /\ pc[r] = "export"
    /\ \/ Go(r, "finish") /\ UNCHANGED <<status, todo>>
       \/ \E code \in {"BadGateway", "GatewayTimeout"} : Fail(r, code)
    /\ UNCHANGED <<clock, entries, permits, brands, now, recorded, blocked, answer, held>>

\* The client goes away while the handler awaits the pipeline: the future is
\* dropped and the permit with it; no release_all runs.
Disconnect(r) ==
    /\ pc[r] = "export"
    /\ permits' = permits + 1
    /\ End(r, "Dropped")
    /\ UNCHANGED <<clock, entries, brands, now, todo, recorded, blocked, answer, held>>

\* Step 6, finish_with_report.
Finish(r) ==
    /\ pc[r] = "finish"
    /\ \/ Go(r, "respond") /\ UNCHANGED <<status, todo>>
       \/ Fail(r, "BadGateway")
    /\ UNCHANGED <<clock, entries, permits, brands, now, recorded, blocked, answer, held>>

\* Mutant: only an unreadable file gives the quota back, a 406 does not.
RespondMutant(r) ==
    /\ pc[r] = "respond"
    /\ \/ \E code \in {"Ok", "NotAcceptable"} :
             /\ status' = [status EXCEPT ![r] = code]
             /\ Go(r, "return")
             /\ UNCHANGED todo
       \/ Fail(r, "BadGateway")
    /\ UNCHANGED <<clock, entries, permits, brands, now, recorded, blocked, answer, held>>

\* build_response: 200, 502 when the staged file cannot be read, or 406 when
\* it is too large to expand for a client without gzip.
Respond(r) ==
    /\ pc[r] = "respond"
    /\ \/ /\ status' = [status EXCEPT ![r] = "Ok"]
          /\ Go(r, "return")
          /\ UNCHANGED todo
       \/ \E code \in {"BadGateway", "NotAcceptable"} : Fail(r, code)
    /\ UNCHANGED <<clock, entries, permits, brands, now, recorded, blocked, answer, held>>

\* Mutant: releases with the clock of the release, not of the charge.
RefundMutant(r) ==
    /\ pc[r] = "refund"
    /\ \/ /\ todo[r] # <<>>
          /\ entries' = IF entries[Head(todo[r])] = NoEntry THEN entries
                        ELSE [entries EXCEPT ![Head(todo[r])] = Released(@, clock)]
          /\ held' = [held EXCEPT ![r] = @ \ {Head(todo[r])}]
          /\ todo' = [todo EXCEPT ![r] = Tail(@)]
          /\ UNCHANGED pc
       \/ /\ todo[r] = <<>>
          /\ Go(r, "return")
          /\ UNCHANGED <<entries, todo, held>>
    /\ UNCHANGED <<clock, permits, brands, now, recorded, status, blocked, answer>>

\* release_all: one release per key, then the handler returns.
Refund(r) ==
    /\ pc[r] = "refund"
    /\ \/ /\ todo[r] # <<>>
          /\ ReleaseNext(r)
          /\ UNCHANGED <<pc, status>>
       \/ /\ todo[r] = <<>>
          /\ Go(r, "return")
          /\ UNCHANGED <<clock, entries, permits, brands, now, todo, recorded,
                         status, blocked, answer, held>>

\* Mutant: the permit is forgotten when the export failed.
ReturnMutant(r) ==
    /\ pc[r] = "return"
    /\ permits' = IF status[r] = "Ok" THEN permits + 1 ELSE permits
    /\ Go(r, "done")
    /\ UNCHANGED <<clock, entries, brands, now, todo, recorded, status,
                   blocked, answer, held>>

\* _permit is dropped last, when run returns.
Return(r) ==
    /\ pc[r] = "return"
    /\ permits' = permits + 1
    /\ Go(r, "done")
    /\ UNCHANGED <<clock, entries, brands, now, todo, recorded, status,
                   blocked, answer, held>>

Handle(r) ==
    \/ Evict(r) \/ Check(r) \/ GiveBack(r) \/ Acquire(r) \/ Export(r)
    \/ Finish(r) \/ Respond(r) \/ Refund(r) \/ Return(r)

Next ==
    \/ Tick
    \/ \E r \in Reqs : Reject(r) \/ Arrive(r) \/ Handle(r) \/ Disconnect(r)

Spec == Init /\ [][Next]_vars

\* The runtime polls every request that can run; every await of an export ends,
\* because each RDW call has a timeout and a bounded number of attempts.
FairSpec == Spec /\ \A r \in Reqs : WF_vars(Handle(r))

----------------------------------------------------------------------------
\* The requests that still draw on k after they were answered.
Charged(k) ==
    {r \in Reqs : status[r] \in {"Ok", "Busy", "Dropped"} /\ k \in ToSet(brands[r])}

\* When no request is in flight, the counters of every brand are exactly the
\* requests that were answered 200, 429 Busy or not at all in the windows they
\* count: a refused, failed (502, 504) or unacceptable (406) request has given
\* back all its brands, and a day or week that ended meanwhile is not touched.
QuotaBalanced ==
    (\A r \in Reqs : pc[r] \in {"idle", "done"}) =>
      \A k \in Keys : entries[k] # NoEntry =>
        /\ entries[k].day_count = Cardinality(
             {r \in Charged(k) : DayKey(now[r]) = entries[k].day_key})
        /\ entries[k].week_count = Cardinality(
             {r \in Charged(k) : WeekKey(now[r]) = entries[k].week_key})

\* The permit is neither lost nor doubled, on any path out of an export: at
\* most one request is inside, and the semaphore is free when none is.
PermitConserved ==
    permits + Cardinality({r \in Reqs : pc[r] \in
        {"export", "finish", "respond", "refund", "return"}}) = 1

\* docs/RATE_LIMIT.md:8: at most DAY_LIMIT (and WEEK_LIMIT) exports of a brand
\* are usable between one UTC midnight and the next.
UsableWithinLimits ==
    \A k \in Keys, t \in 0 .. clock :
      LET used == {r \in Reqs : status[r] = "Ok" /\ k \in ToSet(brands[r])}
      IN  /\ Cardinality({r \in used : DayKey(now[r]) = DayKey(t)}) <= DAY_LIMIT
          /\ Cardinality({r \in used : WeekKey(now[r]) = WeekKey(t)}) <= WEEK_LIMIT

\* Retry-After is tight: it ends in the first second of the window after the
\* one that refused the request.
RetryAfterTight ==
    \A r \in Reqs :
      LET then == now[r] + blocked[r].retryAfter
      IN  /\ blocked[r].by = "DayExceeded" =>
               DayKey(then) = DayKey(now[r]) + 1 /\ DayKey(then - 1) = DayKey(now[r])
          /\ blocked[r].by = "WeekExceeded" =>
               WeekKey(then) = WeekKey(now[r]) + 1 /\ WeekKey(then - 1) = WeekKey(now[r])

\* README.md:97: "a refused request never costs quota".
RefusedIsFree ==
    \A r \in Reqs : pc[r] = "done" /\ status[r] \in {"RateLimited", "Busy"} =>
        held[r] = {}

\* Every request that reaches the limiter is answered.
EveryRequestAnswered ==
    \A r \in Reqs : pc[r] \in Running ~> pc[r] = "done"

\* The reservations that requests hold, as RateLimiter sees them.
Outstanding ==
    UNION {{[req |-> r, key |-> k, at |-> now[r]] : k \in held[r]} : r \in Reqs}

\* The handler uses the limiter as RateLimiter describes: each reservation is
\* released at most once, with the stamp it was charged with.
Limiter == INSTANCE RateLimiter WITH
    outstanding <- Outstanding,
    MaxLag <- IF PromptChecks THEN 0 ELSE MaxClock

ImplementsLimiter == Limiter!Spec

============================================================================
