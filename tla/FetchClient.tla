---------------------------- MODULE FetchClient ----------------------------
(***************************************************************************)
(* rdw-client: one fetch from RDW inside with_retry: a page of vehicles or *)
(* fuels, the count of the vehicles, or the columns of a dataset.  A       *)
(* request can fail in the network, with a status, while its body is read, *)
(* or because the body does not parse; failures that may pass are retried  *)
(* after a growing, jittered wait.                                         *)
(***************************************************************************)
EXTENDS ErrorResponse, Sequences, FiniteSetsExt, SequencesExt

CONSTANTS
    MaxAttempts,      \* RetryConfig::max_attempts, 5 in the code
    InitialBackoff,   \* RetryConfig::initial_backoff, 250 ms
    MaxBackoff,       \* RetryConfig::max_backoff, 4000 ms
    MaxDuration,      \* Duration::MAX
    MaxResponse,      \* MAX_RESPONSE_BYTES, 256 MB
    ChunkSizes        \* the lengths a chunk of a body can have

ASSUME FetchClientAssumption ==
    /\ MaxAttempts \in Nat \ {0}
    /\ InitialBackoff \in Nat /\ MaxBackoff \in Nat /\ MaxDuration \in Nat
    /\ MaxResponse \in Nat /\ ChunkSizes \subseteq Nat \ {0}

VARIABLES
    kind,      \* what is fetched
    pc,        \* "request", "read", "sleep" or "done"
    attempt,   \* with_retry's counter
    buffered,  \* the length of the body read so far
    errors,    \* history: the error of every failed attempt
    slept,     \* history: the time spent in sleep
    body,      \* history: the body that arrived on this attempt
    result     \* what the fetch returns

vars == <<kind, pc, attempt, buffered, errors, slept, body, result>>

\* get_csv_rows fetches a page or a count, get the columns.
Kinds == {"page", "count", "columns"}

\* Where a body ends: it is whole, or cut off behind a record, behind a newline
\* within a quoted cell, or elsewhere, so that its last byte is no newline.
Ends == {"whole", "atRecord", "inCell", "midLine"}

\* What a body can be: where it ends, a header that has the required columns
\* once, lacks one, or names a column twice, records that all have the header's
\* number of fields or not, and content that is what was asked for or not (a
\* count without a number, columns that are no list of named fields).
Bodies == [end : Ends, header : {"good", "missing", "duplicate"},
           fieldCounts : {"equal", "unequal"}, content : {"good", "bad"}]

NoBody == [end |-> "none", header |-> "none", fieldCounts |-> "equal", content |-> "good"]

\* Statuses other than success, by what is_retryable_status tells apart.
Errors == {"Timeout", "Http429", "Http5xx", "HttpOther", "Decode", "Transport"}

Retryable(e) == e \in {"Timeout", "Http429", "Http5xx", "Transport"}

\* Mutant: the last byte is not looked at; the csv reader ends an unfinished
\* quoted field at the end of the input without complaint.
ParseCsvRowsMutant(b) ==
    IF b.header # "good" THEN "Decode"
    ELSE IF b.fieldCounts = "unequal" THEN "Transport"
    ELSE "Ok"

\* parse_csv_rows: a body that does not end in a newline is taken for cut before
\* anything else is looked at.  That the newline may be one of a quoted cell is
\* not: if the cell is the last of its record, all fields are there.
ParseCsvRows(b) ==
    IF b.end = "midLine" THEN "Transport"
    ELSE IF b.header # "good" THEN "Decode"
    ELSE IF b.fieldCounts = "unequal" THEN "Transport"
    ELSE "Ok"

\* A single number, or a JSON text, cannot be read from a part of it: a count
\* that is cut has no row, or one that does not parse as a number.
Fits(b) == b.end = "whole" /\ b.content = "good"

\* fetch_vehicle_count and fetch_column_names look at the content after
\* with_retry has returned, fetch_column_names parses the JSON there, too: what
\* does not fit is then no reason to retry.
Parse(b) ==
    CASE kind = "page"    -> ParseCsvRows(b)
      [] kind = "count"   -> IF ParseCsvRows(b) = "Ok" /\ ~ Fits(b) THEN "Decode"
                             ELSE ParseCsvRows(b)
      [] kind = "columns" -> IF Fits(b) THEN "Ok" ELSE "Decode"

\* Duration::saturating_mul
SaturatingMul(duration, factor) ==
    IF duration * factor \in 0 .. MaxDuration THEN duration * factor ELSE MaxDuration

\* Mutant: the wait is not capped.
BackoffMutant(n) == SaturatingMul(InitialBackoff, 2 ^ (n - 1))

\* The wait after the n-th attempt, without its jitter.
Backoff(n) == Min({SaturatingMul(InitialBackoff, 2 ^ (n - 1)), MaxBackoff})

\* Mutant: gen_range(0..backoff / 4), which panics on the empty range of a
\* short wait: the task ends without an answer.
JitterMutant(backoff) == 0 .. backoff \div 4 - 1

Jitter(backoff) == 0 .. backoff \div 4 + 1

Init ==
    /\ kind \in Kinds
    /\ pc = "request"
    /\ attempt = 1
    /\ buffered = 0
    /\ errors = <<>>
    /\ slept = 0
    /\ body = NoBody
    /\ result = "none"

----------------------------------------------------------------------------
\* Mutant: retries whatever the error is.
HandleMutant(e) ==
    /\ errors' = Append(errors, e)
    /\ IF attempt < MaxAttempts
       THEN pc' = "sleep" /\ UNCHANGED result
       ELSE pc' = "done" /\ result' = "RetriesExhausted"

\* with_retry's match on a failed attempt.
Handle(e) ==
    /\ errors' = Append(errors, e)
    /\ IF Retryable(e) /\ attempt < MaxAttempts
       THEN pc' = "sleep" /\ UNCHANGED result
       ELSE pc' = "done" /\ result' = IF Retryable(e) THEN "RetriesExhausted" ELSE e

\* get_bytes or get fails in the network or with a status.
RequestFails ==
    /\ pc = "request"
    /\ \E e \in Errors \ {"Decode"} : Handle(e)
    /\ UNCHANGED <<kind, attempt, buffered, slept, body>>

\* An answer with a success status: its body can be read.
Answered ==
    /\ pc = "request"
    /\ pc' = "read"
    /\ buffered' = 0
    /\ UNCHANGED <<kind, attempt, errors, slept, body, result>>

\* The loop of get_bytes: chunks are taken up to the byte budget.
ReadChunk ==
    /\ pc = "read"
    /\ kind # "columns"
    /\ \E n \in ChunkSizes :
         IF buffered + n > MaxResponse THEN Handle("Decode") /\ UNCHANGED buffered
         ELSE buffered' = buffered + n /\ UNCHANGED <<pc, errors, result>>
    /\ UNCHANGED <<kind, attempt, slept, body>>

\* The connection breaks, or the time is up, while the body is read; either
\* counts as Transport.
ReadFails ==
    /\ pc = "read"
    /\ Handle("Transport")
    /\ UNCHANGED <<kind, attempt, buffered, slept, body>>

\* The body has been read, and the parser takes it or not.
BodyArrives ==
    /\ pc = "read"
    /\ \E b \in Bodies :
         /\ body' = b
         /\ \/ /\ Parse(b) = "Ok"
               /\ pc' = "done"
               /\ result' = "Ok"
               /\ UNCHANGED errors
            \/ /\ Parse(b) # "Ok"
               /\ Handle(Parse(b))
    /\ UNCHANGED <<kind, attempt, buffered, slept>>

Sleep ==
    /\ pc = "sleep"
    /\ \E j \in Jitter(Backoff(attempt)) : slept' = slept + Backoff(attempt) + j
    /\ attempt' = attempt + 1
    /\ pc' = "request"
    /\ body' = NoBody
    /\ UNCHANGED <<kind, buffered, errors, result>>

Step == RequestFails \/ Answered \/ ReadChunk \/ ReadFails \/ BodyArrives \/ Sleep

Next == Step

Spec == Init /\ [][Next]_vars

\* Every request ends within REQUEST_TIMEOUT, its body included, and every
\* sleep ends.
FairSpec == Spec /\ WF_vars(Step)

----------------------------------------------------------------------------
\* What the handler answers for an error of this fetch: From<ClientError> for
\* PipelineError, then pipeline_error_to_api_error.
ApiStatus(error) == StatusCode(ApiErrorOf(PipelineErrorOf(error)))

\* A page or a count whose last byte is no newline is asked for again, as long
\* as attempts are left, and is given up as exhausted retries after the last one
\* (csv_parse.rs:41-42); a count or a list of columns, on which the run or the
\* header of an export rests, is never taken from a part of an answer.
CutBodiesAreCaught ==
    /\ kind # "columns" /\ body.end = "midLine" =>
         \/ pc = "sleep"
         \/ pc = "done" /\ result = "RetriesExhausted" /\ Len(errors) = MaxAttempts
    /\ kind # "page" /\ result = "Ok" => body.end = "whole"

\* csv_parse.rs:27-29: "a body cut off mid-record must never be mistaken for a
\* short-but-complete page", which would end its range early.  The last byte of
\* a body that is cut within a quoted cell can be a newline, too.
NoCutPage == result = "Ok" => body.end \notin {"midLine", "inCell"}

\* Only an error that may pass is ever retried: whenever a further request is
\* on its way, every earlier one failed with a time-out, 429, 5xx or a broken
\* body.  A permanent error is returned as it is, and exhausted retries mean
\* that every attempt there is was made and failed with an error that may pass.
RetriesAreWarranted ==
    LET mayPass == \A i \in DOMAIN errors : Retryable(errors[i])
    IN  /\ pc # "done" => mayPass
        /\ result \in Errors =>
             errors # <<>> /\ result = Last(errors) /\ ~ Retryable(result)
        /\ result = "RetriesExhausted" => Len(errors) = MaxAttempts /\ mayPass

\* A fetch costs at most max_attempts requests, all waits together at most
\* max_backoff and its jitter for each retry, and the body of a page never
\* takes more memory than the byte budget, on whatever attempt it arrives.
EffortBounded ==
    /\ Len(errors) <= MaxAttempts
    /\ buffered <= MaxResponse
    /\ slept <= (MaxAttempts - 1) * (MaxBackoff + MaxBackoff \div 4 + 1)

\* A fetch always ends, with an answer or with an error.
FetchEnds == <>(pc = "done")

============================================================================
