------------------------- MODULE FetchClient_proofs -------------------------
(***************************************************************************)
(* Proofs about FetchClient for every number of attempts, every wait and   *)
(* every byte budget: retries are warranted, effort is bounded, a body     *)
(* without its last newline is asked for again, and every step uses up     *)
(* some of what a fetch may do.                                            *)
(***************************************************************************)
EXTENDS FetchClient, TLAPS

\* The jitter of with_retry at its largest, on the longest wait.
MaxWait == MaxBackoff + MaxBackoff \div 4 + 1

\* The kinds of errors a fetch can end with, and the states of a fetch.
FetchTypeOK ==
    /\ kind \in Kinds
    /\ pc \in {"request", "read", "sleep", "done"}
    /\ attempt \in 1 .. MaxAttempts
    /\ buffered \in 0 .. MaxResponse
    /\ errors \in Seq(Errors)
    /\ slept \in Nat

\* One error for every attempt that is over, and one wait for every retry
\* that is under way.
CountsAgree ==
    /\ pc \in {"request", "read"} => Len(errors) = attempt - 1
    /\ pc = "sleep" => Len(errors) = attempt /\ attempt < MaxAttempts
    /\ Len(errors) <= attempt
    /\ slept <= (attempt - 1) * MaxWait

\* What with_retry has seen: only errors worth another attempt while it goes
\* on, the last of them when it gives up on one that is not, and one for every
\* attempt when it gives up for want of attempts.
ErrorsExplain ==
    /\ pc # "done" => result = "none" /\ \A i \in DOMAIN errors : Retryable(errors[i])
    /\ result \in Errors =>
         errors # <<>> /\ result = errors[Len(errors)] /\ ~ Retryable(result)
    /\ result = "RetriesExhausted" =>
         Len(errors) = MaxAttempts /\ \A i \in DOMAIN errors : Retryable(errors[i])
    /\ result = "Ok" => pc = "done"

\* A body is in hand only after it was read; one whose last byte is no newline
\* led to a retry or to the end of all attempts, and a part of an answer was
\* accepted for a page only.
BodyExplained ==
    /\ pc \in {"request", "read"} => body = NoBody
    /\ CutBodiesAreCaught

IInv == FetchTypeOK /\ CountsAgree /\ ErrorsExplain /\ BodyExplained

\* The minimum of two naturals is one of them and below both.
LEMMA MinOfTwo ==
    ASSUME NEW a \in Nat, NEW b \in Nat
    PROVE  Min({a, b}) \in Nat /\ Min({a, b}) <= a /\ Min({a, b}) <= b
<1>1. \E x \in {a, b} : \A y \in {a, b} : x <= y
  <2>1. CASE a <= b  BY <2>1
  <2>2. CASE b <= a  BY <2>2
  <2>3. QED  BY <2>1, <2>2
<1>2. Min({a, b}) \in {a, b} /\ \A y \in {a, b} : Min({a, b}) <= y
  BY <1>1 DEF Min
<1>3. QED  BY <1>2

\* A wait is never longer than max_backoff and its jitter, for any attempt:
\* a doubling that overflows saturates (Duration::saturating_mul).
LEMMA WaitBounded ==
    ASSUME NEW n \in Nat, NEW j \in Jitter(Backoff(n))
    PROVE  Backoff(n) \in Nat /\ j \in Nat /\ Backoff(n) + j \in 0 .. MaxWait
<1> DEFINE d == SaturatingMul(InitialBackoff, 2 ^ (n - 1))
<1>1. MaxBackoff \in Nat /\ MaxDuration \in Nat
  BY FetchClientAssumption
<1>2. d \in Nat
  BY <1>1 DEF SaturatingMul
<1>3. Backoff(n) \in Nat /\ Backoff(n) <= MaxBackoff
  <2>1. Backoff(n) = Min({d, MaxBackoff})
    BY DEF Backoff
  <2> HIDE DEF d
  <2>2. QED  BY <2>1, <1>1, <1>2, MinOfTwo
<1>4. j \in 0 .. Backoff(n) \div 4 + 1
  BY DEF Jitter
<1>5. Backoff(n) \div 4 <= MaxBackoff \div 4
  BY <1>1, <1>3
<1>6. QED  BY <1>1, <1>3, <1>4, <1>5 DEF MaxWait

\* What is accepted ends in a newline, whatever is fetched by get_csv_rows, and
\* is whole if it is no page; a body that does not end in one is a Transport
\* error, which may pass.
LEMMA CutIsCaught ==
    ASSUME NEW b \in Bodies, kind \in Kinds
    PROVE  /\ kind # "columns" /\ b.end = "midLine" => Parse(b) = "Transport"
           /\ kind # "page" /\ Parse(b) = "Ok" => b.end = "whole"
<1>1. CASE kind = "page"     BY <1>1 DEF Parse, ParseCsvRows
<1>2. CASE kind = "count"    BY <1>2 DEF Parse, ParseCsvRows, Fits
<1>3. CASE kind = "columns"  BY <1>3 DEF Parse, Fits
<1>4. QED  BY <1>1, <1>2, <1>3 DEF Kinds

\* What a failed attempt does to the counts, to the errors and to the body.
LEMMA HandleKeeps ==
    ASSUME IInv, pc \in {"request", "read"}, NEW e \in Errors, Handle(e),
           UNCHANGED <<kind, attempt, slept>>, buffered' \in 0 .. MaxResponse,
           kind # "columns" /\ body'.end = "midLine" => Retryable(e)
    PROVE  IInv'
<1>1. errors' \in Seq(Errors) /\ Len(errors') = attempt
  BY DEF IInv, FetchTypeOK, CountsAgree, Handle
<1>2. FetchTypeOK'
  BY <1>1 DEF IInv, FetchTypeOK, Handle
<1>3. CountsAgree'
  BY <1>1 DEF IInv, FetchTypeOK, CountsAgree, Handle
<1>4. errors'[Len(errors')] = e
  BY DEF IInv, FetchTypeOK, Handle
<1>5. ASSUME NEW i \in DOMAIN errors'
      PROVE  Retryable(errors'[i]) \/ i = Len(errors')
  BY <1>5 DEF IInv, FetchTypeOK, ErrorsExplain, Handle
<1>6. ErrorsExplain'
  <2>1. CASE Retryable(e) /\ attempt < MaxAttempts
    <3>1. pc' = "sleep" /\ result' = "none"
      BY <2>1 DEF Handle, IInv, ErrorsExplain
    <3>2. \A i \in DOMAIN errors' : Retryable(errors'[i])
      BY <1>4, <1>5, <2>1
    <3>3. QED  BY <3>1, <3>2 DEF ErrorsExplain, Errors
  <2>2. CASE ~ Retryable(e)
    <3>1. pc' = "done" /\ result' = e
      BY <2>2 DEF Handle
    <3>2. errors' # <<>>  BY <1>1 DEF IInv, FetchTypeOK
    <3>3. QED  BY <3>1, <3>2, <2>2, <1>4 DEF ErrorsExplain, Errors
  <2>3. CASE Retryable(e) /\ ~ (attempt < MaxAttempts)
    <3>1. pc' = "done" /\ result' = "RetriesExhausted"
      BY <2>3 DEF Handle
    <3>2. Len(errors') = MaxAttempts
      BY <1>1, <2>3, FetchClientAssumption DEF IInv, FetchTypeOK
    <3>3. \A i \in DOMAIN errors' : Retryable(errors'[i])
      BY <1>4, <1>5, <2>3
    <3>4. QED  BY <3>1, <3>2, <3>3 DEF ErrorsExplain, Errors
  <2>4. QED  BY <2>1, <2>2, <2>3
<1>7. BodyExplained'
  <2>1. CASE Retryable(e) /\ attempt < MaxAttempts
    <3>1. pc' = "sleep" /\ result' = "none"
      BY <2>1 DEF Handle, IInv, ErrorsExplain
    <3>2. QED  BY <3>1 DEF BodyExplained, CutBodiesAreCaught
  <2>2. CASE ~ Retryable(e)
    <3>1. pc' = "done" /\ result' = e /\ e # "Ok"
      BY <2>2 DEF Handle, Errors
    <3>2. QED  BY <2>2, <3>1 DEF BodyExplained, CutBodiesAreCaught
  <2>3. CASE Retryable(e) /\ ~ (attempt < MaxAttempts)
    <3>1. pc' = "done" /\ result' = "RetriesExhausted"
      BY <2>3 DEF Handle
    <3>2. Len(errors') = MaxAttempts
      BY <1>1, <2>3, FetchClientAssumption DEF IInv, FetchTypeOK
    <3>3. QED  BY <3>1, <3>2 DEF BodyExplained, CutBodiesAreCaught
  <2>4. QED  BY <2>1, <2>2, <2>3
<1>8. QED  BY <1>2, <1>3, <1>6, <1>7 DEF IInv

\* The longest wait is a natural number.
LEMMA MaxWaitNat == MaxWait \in Nat
BY FetchClientAssumption DEF MaxWait

\* A fetch starts with its first attempt and nothing behind it (with_retry).
LEMMA InitHolds == Init => IInv
<1> SUFFICES ASSUME Init PROVE IInv
  OBVIOUS
<1>1. MaxAttempts \in Nat \ {0} /\ MaxResponse \in Nat
  BY FetchClientAssumption
<1>2. MaxWait \in Nat
  BY MaxWaitNat
<1>3. FetchTypeOK
  BY <1>1 DEF Init, FetchTypeOK
<1>4. CountsAgree
  BY <1>2 DEF Init, CountsAgree
<1>5. ErrorsExplain
  BY DEF Init, ErrorsExplain, Errors
<1>6. BodyExplained
  BY DEF Init, BodyExplained, CutBodiesAreCaught, NoBody
<1>7. QED  BY <1>3, <1>4, <1>5, <1>6 DEF IInv

\* Every step of with_retry and of reading a body keeps the invariant.
LEMMA StepKeeps == IInv /\ [Next]_vars => IInv'
<1> SUFFICES ASSUME IInv, [Next]_vars PROVE IInv'
  OBVIOUS
<1> USE FetchClientAssumption
<1>1. CASE RequestFails
  <2>1. PICK e \in Errors : Handle(e)
    BY <1>1 DEF RequestFails
  <2>2. pc = "request" /\ UNCHANGED <<kind, attempt, slept>> /\ buffered' \in 0 .. MaxResponse
    BY <1>1 DEF RequestFails, IInv, FetchTypeOK
  <2>3. body'.end # "midLine"
    BY <1>1 DEF RequestFails, IInv, BodyExplained, NoBody
  <2>4. QED  BY <2>1, <2>2, <2>3, HandleKeeps
<1>2. CASE Answered
  <2>1. FetchTypeOK'
    BY <1>2 DEF Answered, IInv, FetchTypeOK
  <2>2. CountsAgree' /\ ErrorsExplain'
    BY <1>2 DEF Answered, IInv, CountsAgree, ErrorsExplain
  <2>3. BodyExplained'
    BY <1>2 DEF Answered, IInv, BodyExplained, CutBodiesAreCaught, NoBody, ErrorsExplain
  <2>4. QED  BY <2>1, <2>2, <2>3 DEF IInv
<1>3. CASE ReadChunk
  <2>1. PICK n \in ChunkSizes :
          IF buffered + n > MaxResponse THEN Handle("Decode") /\ UNCHANGED buffered
          ELSE buffered' = buffered + n /\ UNCHANGED <<pc, errors, result>>
    BY <1>3 DEF ReadChunk
  <2>2. pc = "read" /\ UNCHANGED <<kind, attempt, slept, body>>
    BY <1>3 DEF ReadChunk
  <2>3. CASE buffered + n > MaxResponse
    <3>1. Handle("Decode") /\ buffered' \in 0 .. MaxResponse
      BY <2>1, <2>3 DEF IInv, FetchTypeOK
    <3>2. body'.end # "midLine"
      BY <2>2 DEF IInv, BodyExplained, NoBody
    <3>3. QED  BY <3>1, <3>2, <2>2, HandleKeeps DEF Errors
  <2>4. CASE ~ (buffered + n > MaxResponse)
    <3>1. buffered' \in 0 .. MaxResponse /\ UNCHANGED <<pc, errors, result>>
      BY <2>1, <2>4 DEF IInv, FetchTypeOK
    <3>2. FetchTypeOK'
      BY <3>1, <2>2 DEF IInv, FetchTypeOK
    <3>3. CountsAgree' /\ ErrorsExplain'
      BY <3>1, <2>2 DEF IInv, CountsAgree, ErrorsExplain
    <3>4. BodyExplained'
      BY <3>1, <2>2 DEF IInv, BodyExplained, CutBodiesAreCaught, NoBody, ErrorsExplain
    <3>5. QED  BY <3>2, <3>3, <3>4 DEF IInv
  <2>5. QED  BY <2>3, <2>4
<1>4. CASE ReadFails
  <2>1. pc = "read" /\ Handle("Transport") /\ UNCHANGED <<kind, attempt, slept>>
        /\ buffered' \in 0 .. MaxResponse
    BY <1>4 DEF ReadFails, IInv, FetchTypeOK
  <2>2. body'.end # "midLine"
    BY <1>4 DEF ReadFails, IInv, BodyExplained, NoBody
  <2>3. QED  BY <2>1, <2>2, HandleKeeps DEF Errors
<1>5. CASE BodyArrives
  <2>1. PICK b \in Bodies :
          /\ body' = b
          /\ \/ Parse(b) = "Ok" /\ pc' = "done" /\ result' = "Ok" /\ UNCHANGED errors
             \/ Parse(b) # "Ok" /\ Handle(Parse(b))
    BY <1>5 DEF BodyArrives
  <2>2. pc = "read" /\ UNCHANGED <<kind, attempt, buffered, slept>>
    BY <1>5 DEF BodyArrives
  <2>3. CASE Parse(b) = "Ok" /\ pc' = "done" /\ result' = "Ok" /\ UNCHANGED errors
    <3>1. BodyExplained'
      BY <2>1, <2>2, <2>3, CutIsCaught DEF IInv, FetchTypeOK, BodyExplained, CutBodiesAreCaught
    <3>2. FetchTypeOK'
      BY <2>2, <2>3 DEF IInv, FetchTypeOK
    <3>3. CountsAgree'
      BY <2>2, <2>3 DEF IInv, CountsAgree
    <3>4. ErrorsExplain'
      BY <2>3 DEF ErrorsExplain, Errors
    <3>5. QED  BY <3>1, <3>2, <3>3, <3>4 DEF IInv
  <2>4. CASE Parse(b) # "Ok" /\ Handle(Parse(b))
    <3>1. Parse(b) \in Errors
      BY <2>4 DEF Parse, ParseCsvRows, Fits, Errors, IInv, FetchTypeOK, Kinds
    <3>2. buffered' \in 0 .. MaxResponse
      BY <2>2 DEF IInv, FetchTypeOK
    <3>3. kind # "columns" /\ body'.end = "midLine" => Retryable(Parse(b))
      BY <2>1, CutIsCaught DEF IInv, FetchTypeOK, Retryable
    <3>4. QED  BY <3>1, <3>2, <3>3, <2>2, <2>4, HandleKeeps
  <2>5. QED  BY <2>1, <2>3, <2>4
<1>6. CASE Sleep
  <2>1. PICK j \in Jitter(Backoff(attempt)) : slept' = slept + Backoff(attempt) + j
    BY <1>6 DEF Sleep
  <2>2. /\ pc = "sleep" /\ pc' = "request" /\ attempt' = attempt + 1
        /\ body' = NoBody
        /\ UNCHANGED <<kind, buffered, errors, result>>
    BY <1>6 DEF Sleep
  <2>3. attempt \in Nat
    BY DEF IInv, FetchTypeOK
  <2>4. Backoff(attempt) \in Nat /\ j \in Nat /\ Backoff(attempt) + j \in 0 .. MaxWait
    BY <2>3, WaitBounded
  <2>5. slept' \in Nat /\ slept' <= slept + MaxWait
    <3>1. slept \in Nat  BY DEF IInv, FetchTypeOK
    <3>2. QED  BY <3>1, <2>1, <2>4, MaxWaitNat
  <2>6. FetchTypeOK'
    BY <2>2, <2>5 DEF IInv, FetchTypeOK, CountsAgree
  <2>7. slept' <= (attempt' - 1) * MaxWait
    <3>1. MaxWait \in Nat  BY DEF MaxWait
    <3>2. attempt \in Nat /\ slept \in Nat /\ slept <= (attempt - 1) * MaxWait
      BY DEF IInv, FetchTypeOK, CountsAgree
    <3>3. (attempt' - 1) * MaxWait = (attempt - 1) * MaxWait + MaxWait
      BY <2>2, <3>1, <3>2
    <3>4. (attempt - 1) * MaxWait \in Int
      BY <3>1, <3>2
    <3>5. QED  BY <3>1, <3>2, <3>3, <3>4, <2>5
  <2>8. CountsAgree'
    <3>1. Len(errors') = attempt' - 1
      BY <2>2 DEF IInv, FetchTypeOK, CountsAgree
    <3>2. attempt' \in Nat
      BY <2>2 DEF IInv, FetchTypeOK
    <3>3. QED  BY <2>2, <2>7, <3>1, <3>2 DEF CountsAgree
  <2>9. ErrorsExplain'
    BY <2>2 DEF IInv, ErrorsExplain
  <2>10. BodyExplained'
    BY <2>2 DEF BodyExplained, CutBodiesAreCaught, NoBody, IInv, ErrorsExplain
  <2>11. QED  BY <2>6, <2>8, <2>9, <2>10 DEF IInv
<1>7. CASE UNCHANGED vars
  BY <1>7 DEF vars, IInv, FetchTypeOK, CountsAgree, ErrorsExplain, BodyExplained,
              CutBodiesAreCaught
<1>8. QED  BY <1>1, <1>2, <1>3, <1>4, <1>5, <1>6, <1>7 DEF Next, Step

\* The inductive invariant: types, one error for every attempt that is over,
\* and what the result says of the errors (with_retry, lib.rs:661-687).
THEOREM Invariant == Spec => []IInv
<1>1. QED  BY InitHolds, StepKeeps, PTL DEF Spec

\* Whenever the last byte of a page or a count is no newline, it is asked for
\* again or all attempts are used up, for every number of attempts; a count or
\* a list of columns is only accepted whole (csv_parse.rs:41-53, lib.rs:348-364,
\* 503-524).
THEOREM CutBodiesCaught == Spec => []CutBodiesAreCaught
<1>1. IInv => CutBodiesAreCaught
  BY DEF IInv, BodyExplained
<1>2. QED  BY <1>1, Invariant, PTL

\* Only errors that may pass are retried, any other is returned as it is, and
\* exhausted retries stand for as many failures that may pass as there are
\* attempts, for every number of attempts (lib.rs:95-115, 667-686).
THEOREM RetriesWarranted == Spec => []RetriesAreWarranted
<1>1. IInv => RetriesAreWarranted
  BY DEF IInv, FetchTypeOK, ErrorsExplain, RetriesAreWarranted, Last
<1>2. QED  BY <1>1, Invariant, PTL

\* A fetch that failed is answered with 502, whatever RDW did on which attempt,
\* one whose attempts all timed out included: the last time-out is returned as
\* exhausted retries, so that pipeline_error_to_api_error never sees
\* PipelineError::Timeout, and the 504 of README.md:42 cannot arise
\* (lib.rs:678-683, pipeline.rs:76-90, handlers.rs:241-258).
FailuresAre502 == pc = "done" /\ result # "Ok" => ApiStatus(result) = 502

\* This holds for every number of attempts: no fetch returns a bare time-out.
THEOREM FailuresAnswered502 == Spec => []FailuresAre502
<1>1. IInv => FailuresAre502
  <2> SUFFICES ASSUME IInv, result # "Ok" PROVE ApiStatus(result) = 502
    BY DEF FailuresAre502
  <2>1. result # "Timeout"
    BY DEF IInv, ErrorsExplain, Errors, Retryable
  <2>2. QED  BY <2>1 DEF ApiStatus, PipelineErrorOf, ApiErrorOf, StatusCode
<1>2. QED  BY <1>1, Invariant, PTL

\* Requests, waits and buffered bytes are bounded, for every configuration of
\* the retries and every byte budget (lib.rs:604-627, 667-677).
THEOREM EffortIsBounded == Spec => []EffortBounded
<1>1. IInv => EffortBounded
  <2> SUFFICES ASSUME IInv PROVE EffortBounded
    OBVIOUS
  <2>1. Len(errors) <= MaxAttempts /\ buffered <= MaxResponse
    BY FetchClientAssumption DEF IInv, FetchTypeOK, CountsAgree
  <2>2. MaxWait \in Nat
    BY MaxWaitNat
  <2>3. (attempt - 1) * MaxWait <= (MaxAttempts - 1) * MaxWait
    <3>1. attempt \in Int /\ MaxAttempts \in Int /\ attempt - 1 <= MaxAttempts - 1
      BY FetchClientAssumption DEF IInv, FetchTypeOK
    <3>2. QED  BY <2>2, <3>1
  <2>4. slept <= (MaxAttempts - 1) * MaxWait
    <3>1. slept \in Int /\ slept <= (attempt - 1) * MaxWait
      BY DEF IInv, FetchTypeOK, CountsAgree
    <3>2. (attempt - 1) * MaxWait \in Int /\ (MaxAttempts - 1) * MaxWait \in Int
      BY <2>2, FetchClientAssumption DEF IInv, FetchTypeOK
    <3>3. QED  BY <2>3, <3>1, <3>2
  <2>5. QED  BY <2>1, <2>4 DEF EffortBounded, MaxWait
<1>2. QED  BY <1>1, Invariant, PTL

\* What is left of an attempt that is at the given point, and of a fetch.
LeftAt(point, read) ==
    CASE point = "request" -> MaxResponse + 3
      [] point = "read"    -> MaxResponse - read + 2
      [] point = "sleep"   -> 1
      [] point = "done"    -> 0

RemainingAt(n, point, read) == (MaxAttempts - n) * (MaxResponse + 4) + LeftAt(point, read)

Remaining == RemainingAt(attempt, pc, buffered)

\* What is left of an attempt is a number, and what is left of the attempts
\* behind it falls by one attempt with each.
LEMMA RemainingIs ==
    ASSUME NEW n \in 1 .. MaxAttempts, NEW point \in {"request", "read", "sleep", "done"},
           NEW read \in 0 .. MaxResponse
    PROVE  /\ LeftAt(point, read) \in Nat
           /\ point # "done" => LeftAt(point, read) > 0
           /\ point \in {"sleep", "done"} => LeftAt(point, read) <= 1
           /\ RemainingAt(n, point, read) \in Nat
<1>1. MaxAttempts \in Nat /\ MaxResponse \in Nat
  BY FetchClientAssumption
<1>2. /\ LeftAt(point, read) \in Nat
      /\ point # "done" => LeftAt(point, read) > 0
      /\ point \in {"sleep", "done"} => LeftAt(point, read) <= 1
  BY <1>1 DEF LeftAt
<1> DEFINE a == MaxAttempts - n  K == MaxResponse + 4
<1>3. a \in Nat /\ K \in Nat
  BY <1>1
<1> HIDE DEF a, K
<1>4. a * K \in Nat
  BY <1>3
<1>5. QED  BY <1>2, <1>4 DEF RemainingAt, a, K

\* The same attempt with less left, or a further attempt after a wait.
LEMMA RemainingFalls ==
    ASSUME NEW n \in 1 .. MaxAttempts, NEW point \in {"request", "read", "sleep", "done"},
           NEW read \in 0 .. MaxResponse,
           NEW m \in 1 .. MaxAttempts, NEW next \in {"request", "read", "sleep", "done"},
           NEW more \in 0 .. MaxResponse,
           \/ m = n /\ LeftAt(next, more) < LeftAt(point, read)
           \/ m = n + 1 /\ point = "sleep" /\ next = "request"
    PROVE  RemainingAt(m, next, more) < RemainingAt(n, point, read)
<1> DEFINE a == MaxAttempts - n  K == MaxResponse + 4  x == LeftAt(point, read)  y == LeftAt(next, more)
<1>1. MaxAttempts \in Nat /\ MaxResponse \in Nat /\ a \in Nat /\ K \in Nat
  BY FetchClientAssumption
<1>2. x \in Nat /\ y \in Nat
  BY RemainingIs
<1>3. RemainingAt(n, point, read) = a * K + x
  BY DEF RemainingAt
<1>4. CASE m = n /\ y < x
  <2>1. RemainingAt(m, next, more) = a * K + y
    BY <1>4 DEF RemainingAt
  <2> HIDE DEF a, K, x, y
  <2>2. a * K \in Nat
    BY <1>1
  <2>3. QED  BY <1>2, <1>3, <1>4, <2>1, <2>2
<1>5. CASE m = n + 1 /\ point = "sleep" /\ next = "request"
  <2>1. a > 0 /\ MaxAttempts - m = a - 1
    BY <1>1, <1>5
  <2>2. x = 1 /\ y = MaxResponse + 3
    BY <1>5 DEF LeftAt
  <2>3. y = K - 1
    BY <1>1, <2>2
  <2>4. RemainingAt(m, next, more) = (a - 1) * K + y
    BY <2>1 DEF RemainingAt
  <2> HIDE DEF a, K, x, y
  <2>5. (a - 1) * K = a * K - K /\ a * K \in Nat
    BY <1>1, <2>1
  <2>6. x = 1
    BY <2>2
  <2>7. QED  BY <1>1, <1>3, <2>3, <2>4, <2>5, <2>6
<1>6. QED  BY <1>4, <1>5

\* A fetch cannot go on for ever: every step, whatever RDW answers, a chunk of
\* a body included, uses up some of a budget that is finite from the start, for
\* every number of attempts and every byte budget (lib.rs:604-627, 661-687).
THEOREM EveryStepSpends ==
    Spec => [][/\ Remaining \in Nat /\ Remaining' \in Nat
               /\ Remaining' < Remaining]_vars
<1> DEFINE Points == {"request", "read", "sleep", "done"}
<1>1. ASSUME IInv, IInv', Step PROVE Remaining \in Nat /\ Remaining' \in Nat /\ Remaining' < Remaining
  <2>1. MaxResponse \in Nat /\ attempt \in 1 .. MaxAttempts /\ pc \in Points /\ buffered \in 0 .. MaxResponse
    BY <1>1, FetchClientAssumption DEF IInv, FetchTypeOK
  <2>2. attempt' \in 1 .. MaxAttempts /\ pc' \in Points /\ buffered' \in 0 .. MaxResponse
    BY <1>1 DEF IInv, FetchTypeOK
  <2>3. Remaining = RemainingAt(attempt, pc, buffered) /\ Remaining' = RemainingAt(attempt', pc', buffered')
    BY DEF Remaining
  <2>4. Remaining \in Nat /\ Remaining' \in Nat
    BY <2>1, <2>2, <2>3, RemainingIs
  <2>5. LeftAt("request", buffered) = MaxResponse + 3
        /\ LeftAt("read", buffered) = MaxResponse - buffered + 2
        /\ LeftAt("read", buffered') = MaxResponse - buffered' + 2
    BY DEF LeftAt
  <2>6. pc' \in {"sleep", "done"} => LeftAt(pc', buffered') <= 1 /\ LeftAt(pc', buffered') \in Nat
    BY <2>2, RemainingIs
  <2>7. CASE RequestFails \/ Answered
    <3>1. /\ pc = "request" /\ attempt' = attempt
          /\ pc' \in {"sleep", "done"} \/ (pc' = "read" /\ buffered' = 0)
      BY <2>7 DEF RequestFails, Answered, Handle
    <3>2. LeftAt(pc', buffered') < LeftAt(pc, buffered)
      BY <2>1, <2>5, <2>6, <3>1
    <3>3. QED  BY <2>1, <2>2, <2>3, <2>4, <3>1, <3>2, RemainingFalls
  <2>8. CASE ReadChunk
    <3>1. PICK n \in ChunkSizes :
            IF buffered + n > MaxResponse THEN Handle("Decode") /\ UNCHANGED buffered
            ELSE buffered' = buffered + n /\ UNCHANGED <<pc, errors, result>>
      BY <2>8 DEF ReadChunk
    <3>2. n \in Nat /\ n > 0 /\ pc = "read" /\ attempt' = attempt
      BY <2>8, FetchClientAssumption DEF ReadChunk
    <3>3. CASE buffered + n > MaxResponse
      <4>1. pc' \in {"sleep", "done"}
        BY <3>1, <3>3 DEF Handle
      <4>2. LeftAt(pc', buffered') < LeftAt(pc, buffered)
        BY <2>1, <2>5, <2>6, <3>2, <4>1
      <4>3. QED  BY <2>1, <2>2, <2>3, <2>4, <3>2, <4>2, RemainingFalls
    <3>4. CASE ~ (buffered + n > MaxResponse)
      <4>1. buffered' = buffered + n /\ pc' = "read"
        BY <3>1, <3>2, <3>4
      <4>2. LeftAt(pc', buffered') < LeftAt(pc, buffered)
        BY <2>1, <2>5, <3>2, <4>1
      <4>3. QED  BY <2>1, <2>2, <2>3, <2>4, <3>2, <4>2, RemainingFalls
    <3>5. QED  BY <3>3, <3>4
  <2>9. CASE ReadFails \/ BodyArrives
    <3>1. pc = "read" /\ pc' \in {"sleep", "done"} /\ attempt' = attempt
      BY <2>9 DEF ReadFails, BodyArrives, Handle
    <3>2. LeftAt(pc', buffered') < LeftAt(pc, buffered)
      BY <2>1, <2>5, <2>6, <3>1
    <3>3. QED  BY <2>1, <2>2, <2>3, <2>4, <3>1, <3>2, RemainingFalls
  <2>10. CASE Sleep
    <3>1. attempt' = attempt + 1 /\ pc = "sleep" /\ pc' = "request"
      BY <2>10 DEF Sleep
    <3>2. QED  BY <2>1, <2>2, <2>3, <2>4, <3>1, RemainingFalls
  <2>11. QED  BY <1>1, <2>7, <2>8, <2>9, <2>10 DEF Step
<1>2. QED  BY <1>1, Invariant, PTL DEF Spec, Next

=============================================================================
