# Formal models of rdw-backend

rdw-backend serves one endpoint, `GET /fuel`: it reads the vehicles of the
requested brands and their fuel rows from the Dutch vehicle register (RDW, a
Socrata API), joins them and answers with a gzipped CSV, or a ZIP of CSV parts.
Its promises are that no export is partial, that a key has three exports a day
and five a week, that one export runs at a time, and that a few failed fuel
fetches are tolerated and reported while many abort the export.

This directory holds TLA+ models of the parts that carry these promises, the
TLC runs that check them on small instances and TLAPS proofs of what holds for
every value of the constants. Every definition is translated from the code;
`PROJECT.json` (`map`) names the lines each one stands for.

## 1. The system

| Part | Code | State | Operations |
|---|---|---|---|
| Rate limiter | `rdw-core/rate_limit.rs` | a map from (API key, brand) to a day window, a week window and `last_seen` | `check_and_record`, `release`, `evict_stale` |
| Handler | `rdw-api/handlers.rs`, `extractors.rs`, `state.rs` | per request: its clock reading, its keys, whether it holds the one permit of `export_lock` | authenticate, validate, charge every brand, take the permit, export, assemble, respond, refund |
| Failure threshold | `rdw-core/failure.rs`, `abort.rs` | `attempted`, `failures`, `aborted` (atomics) | `should_abort`, `record_and_check` |
| Kenteken ranges | `rdw-core/ranges.rs`, `rdw-client/lib.rs` | none | boundaries, the `$where` bounds of a range |
| Concurrent export | `rdw-api/pipeline.rs`, `fetch_and_widen_concurrent` | range queue, error slot, error flag, emitted count, fuel summary, the tasks | workers page, count, stage; the main task joins, cancels, reconciles |
| Limited export | `rdw-api/pipeline.rs`, `fetch_and_widen` | keyset cursor, produced rows, fuel summary | the page loop |
| RDW client | `rdw-client/lib.rs`, `csv_parse.rs` | attempt counter, bytes read, window of issued batches | request, read, parse, retry; fuel batches with `buffered` |
| Merge-join | `rdw-core/merge.rs` | two cursors | validate, skip orphans, take fuel rows, push |
| Column metadata | `rdw-core/metadata.rs` | the labels, loaded once at startup | fetch or fall back, for each dataset |
| Widening | `rdw-core/widen.rs` | the columns of the running export | columns, header, cells of a row |
| Staging | `rdw-core/csv_writer.rs` | open part, closed parts, files on disk | `write_rows`, `abort`, `finish_with_report` |
| Response and errors | `handlers.rs` (`build_response`), `rdw-api/errors.rs` | none | headers and body of an export, status and form of an error |
| Settings and startup | `rdw-api/main.rs`, `state.rs` | the configuration | defaults, bounds |

How they interact: at startup the settings are read and the column labels are
loaded. The handler calls the limiter once per brand, then runs one of the two
exports, which share the assembler with the handler through an `Arc<Mutex<_>>`.
The workers of the concurrent export share the queue, the `GlobalAbort`, the
error slot and the assembler; each page goes through the client (with retries),
the fuel batches, the merge-join, the widener and the assembler. The handler
unwraps the `Arc`, finishes or aborts the assembler, builds the response, and
refunds the quota of an export that failed.

What is hard:

* request threads interleave inside the handler, across midnight;
* `record_and_check` is four atomic operations, not one;
* workers fail, panic or are cancelled at any await, several at once;
* RDW's data changes between two pages of a keyset scan, and its columns between
  startup and an export;
* bodies are cut off, requests time out and are retried, batches are answered
  in any order;
* a file operation can fail at any point of the staging or the response.

`PROJECT.json` (`hazards`) lists them at their lines, with the properties that
would catch each of them going wrong. Two have no property, since nothing in the
repository says what should happen: two requests that name the same brands in
different orders can refuse each other, and an empty array of columns is
accepted as the live columns.

## 2. The modules

| Module | Models | Uses |
|---|---|---|
| `RateWindow` | the pure part of the limiter: day and week keys, resets, verdict, release, staleness | |
| `RateLimiter` | the map and its three operations | `RateWindow` |
| `QuotaLedger` | **abstract specification**: a set of reservations, admitted exactly when day and week have room | `RateWindow` |
| `Extractors` | what a request asks for, and whether it may | |
| `FuelHandler` | `run` of `handlers.rs` for all requests at once | `RateWindow`, `Extractors`; implements `RateLimiter` |
| `FailureConfig` | `should_abort` | |
| `GlobalAbort` | the shared abort: `record_and_check` in its four steps | `FailureConfig` |
| `KentekenRanges` | boundaries and the membership test of a range | |
| `Pipeline` | `fetch_and_widen_concurrent` | `KentekenRanges`; the actions of `GlobalAbort` |
| `SequentialExport` | `fetch_and_widen` | `FailureConfig` |
| `ErrorResponse` | statuses, forms and conversions of errors | |
| `FetchClient` | one fetch inside `with_retry`: a page, a count or the columns | `ErrorResponse` |
| `RdwRows` | vehicle and fuel rows as the client hands them on | |
| `FuelBatches` | `fetch_fuel_for_kentekens` | `RdwRows` |
| `MergeJoin` | `merge_join` and its validations | `RdwRows` |
| `PageJoin` | one page: **composition** of `FuelBatches` and `MergeJoin` | both |
| `ExportFields` | the two compiled-in lists of fields | |
| `RowWidener` | columns, header and cells of a row | `ExportFields` |
| `Settings` | the environment variables with their defaults and bounds | |
| `ExportColumns` | **composition** of startup, metadata, record parsing and widening while RDW changes its columns | `RowWidener`, `Settings` |
| `ExportResponse` | the response to a finished export, and the report in a ZIP | |
| `Assembler` | `csv_writer.rs`, the ways the handler ends it, the response | `ExportResponse`, `ErrorResponse` |
| `*_proofs` | proofs about the module of the same name; `Pipeline_proofs` also holds those about `KentekenRanges` and `GlobalAbort`, `ExportColumns_proofs` those about `RowWidener` and `Settings` | |
| `MC*` | symmetry and definitions for the runs | |

Operators whose names end in `Mutant` are not part of a model. Each is one
definition as a plausible mistake would have it, kept beside the definition it
would replace; with it, the property named in `PROJECT.json` (`mutants`) fails.

### Rate limiter

`check_and_record` holds the shard lock of its entry from beginning to end, and
so does every removal of `evict_stale`, so each call is one action. A caller's
time stamp is an argument, read before the call: `MaxLag` is how old it may be.
`outstanding` is a history variable, the reservations that were granted and not
given back; the code keeps counters only, and the properties compare the two.

`SECONDS_PER_DAY` is 86400 in the code and a constant here. Days and weeks are
computed as in the code, with day 0 a Thursday.

### Handler

One action for each step of `run` between two points where another request can
run: `Arrive` (authentication, validation, clock reading), `Evict`, one `Check`
for each brand, `Acquire` (`try_acquire`), `Export`, `Finish`, `Respond`, and the
refund, one `release` at a time. The outcome of the export is arbitrary there:
what can come out of it is the subject of the other modules. `Disconnect` drops
the handler's future at the await of the pipeline, and with it the permit.
`recorded` is the vector of the code; `held` is a history variable, the keys a
request was charged for and has not given back, whatever its vector says.
`ParseBrands` takes the places where `parse_brands` pushes a brand
(`FirstMentions`) in their order.

`PromptChecks` says whether a second may pass between a request's clock reading
and its last check; see the findings.

### Concurrent export

A worker's `pc` names the point it is at: claiming, popping, checking the abort
flag, fetching vehicles, fetching fuel, recording, staging, counting, raising
the error flag. `Cancel` is possible at the awaits only, once the main task
called `abort_all`. `Panic` is possible where the code that could panic runs.
All hard errors of the staging step (a join error, a failed write) take the same
path and are one kind, `"Staging"`. `Change` is RDW: a plate is registered or
deregistered at any moment after the count; the dataset the count is taken from
is arbitrary. `Record` is made of the four actions of `GlobalAbort`, the last of
which decides how the worker goes on.

A plate is a number in Socrata's string order. `Width` plates share their first
two characters, and a boundary is the least plate with its two characters, which
is what comparing a plate with a two-character string means.

### Limited export

One task; `page` is the page in hand in the order of its `$order`, so that what
is cut off at the limit is the end of the page and not some of its vehicles.
RDW answers the first vehicles behind the cursor that it has at that moment
(`Pages`).

### Client, one page, columns

`FetchClient` keeps of an answer only what the code tells apart: the kind of an
error, where a body ends, whether its header, records and content fit. A body is
whole, or cut behind a record, behind a newline within a quoted cell, or
elsewhere (`Ends`); the last byte tells only the last of these cuts. The
body of a page or a count is read in chunks up to `MAX_RESPONSE_BYTES`; the
columns are read by `get`, which has no such budget. The product of the backoff
saturates as `Duration::saturating_mul` does.

`FuelBatches` models what `StreamExt::buffered` and `try_collect` do with the
batches: at most `Concurrency` are issued and not yielded, they are yielded in
order, an error ends the fetch. RDW may answer a batch with a row nobody asked
for, or one out of order. `SortedRows` is its `$order`: the plates of a batch in
order (`InOrder`), each with its rows. `PageJoin` hands what came back, or
nothing and a mark, to `MergeJoin`. Its properties speak of `Received`, all that
was answered in the order it was asked, and of the places (`Positions`) where a
plate's rows stand in it.

`ExportColumns` starts the server with any settings, loads the labels of both
datasets, and runs one export after another under columns that RDW may change
at any moment. A text is what it says and how it begins (`lead`), which is all
the code looks at when it neutralises a cell.

### Staging and response

`Assembler` keeps of a row its position, and lets every file operation fail;
`exportFailed` stands for the pipeline's error, which keeps the handler from
finishing the export. `Respond` opens the staged file, unlinks it, and sends or
refuses it by what the client accepts. `UNCOMPRESSED_SIZE_THRESHOLD_MB` is
multiplied in unsigned integers below `SizeModulus`, 2^64, that wrap, as in a release build (a
debug build panics). The request and the summary are chosen when they are first
read, which keeps the states few.

## 3. What is checked

| Run | States | What it shows |
|---|---|---|
| `MCRateLimiter` | 22,000 | Counters, resets, releases and evictions are exactly the ledger (`LedgerExact`, `ImplementsLedger`), so no key holds more than its limits in a calendar day or week (`WithinLimits`); eviction forgets nothing that counts. |
| `FuelHandler` | 130,000 | When nothing is in flight the counters are exactly the requests that were answered 200, Busy or not at all (`QuotaBalanced`), also when a brand is named twice; the permit is conserved on every path out of an export; `Retry-After` ends in the first second of the next window; every request is answered; the limiter is used as `RateLimiter` says. |
| `Pipeline` | 1,010,000 | No duplicate and no missing vehicle, a truthful summary, errors that surface, no false alarm of the reconciliation, no worker holding the assembler at the end, no missed excess of failures, and termination. |
| `SequentialExport` | 20,100 | A limited export holds the first vehicles, marks what it reports, ends for its failures exactly when they exceed the larger of floor and ratio (`ThresholdIsExact`), and ends. |
| `FetchClient` | 152,000 | A page or a count without its last newline is asked for again until the attempts are used up, a count or the columns are never taken from a part of an answer (`CutBodiesAreCaught`), only passing errors are retried and only a full row of them is exhausted retries (`RetriesAreWarranted`), requests, waits and buffered bytes are bounded, the fetch ends. |
| `PageJoin` | 539,000 | For every order of answers the joined page has exactly the fuel rows RDW answered for each of its vehicles (`JoinIsExact`); it fails on exactly the inputs that are not joinable; it is marked unavailable only for a reason, and for every reason; it ends. |
| `ExportColumns` | 20,700 | The header is the curated list however RDW publishes its columns (`HeaderIsCurated`), every cell stands under its own label although the columns changed since startup (`CellsUnderTheirHeader`), and a server that starts has workers, batches and pages of at least one (`StartsUsable`). |
| `Assembler` | 13,200 | What is sent with 200 is every row in order; parts fit Excel; the headers describe the bytes that follow; a degraded export is marked in name, header and report; 406 is decided by the threshold; nothing stays on disk after a finished export or after an abort without a failed file operation. |

Runs that end in a counterexample are in section 5.

### Bounds, and why they are enough

* `MCRateLimiter`: one key, four requests, limits 2 and 3, fourteen days of one
  second. Keys do not interact (an action changes the entry of one key, and
  eviction decides for each alone), four requests exceed both limits, and
  fourteen days hold two week boundaries and an entry's eviction after eight.
* `FuelHandler`: two requests, two brands, both limits 1, two seconds a day,
  from the last second of a Sunday to the second of Tuesday: a request can
  be refused by day, by week, or by the permit at its first or second brand, and
  be refunded after midnight or after the week has ended. With two seconds a day
  `Retry-After` is not constant.
* `Pipeline`: two workers, two ranges with a plate exactly on the boundary, four
  plates, pages of two, so that a range can take two pages and the last one can
  be full, short or empty; one change of the dataset, two kinds of hard faults
  in one export (one overwrites the other), a floor of one failure and a ratio
  of one half. `MaxAttempts` lies above every reachable count and cuts nothing
  off. The tolerance of the reconciliation is 0, so that one change can exceed
  it; in the code it is `max(50, count / 2000)`.
* `SequentialExport`: five plates, pages of two, limits from 0 to beyond the
  dataset, one change, a floor of one failure and a ratio of two thirds: with
  three pages the failures can be exactly the floor, exactly the ratio, or above.
* `FetchClient`: four attempts, waits of 1 capped at 2, so that without the cap
  the third wait alone would exceed what is allowed for it, and bodies of chunks
  of one and two bytes that meet or pass a budget of three.
* `PageJoin`: up to five plates in three batches (the last one short), a window
  of two, a page limit of five that a batch can reach exactly, plates with no, two
  or three fuel rows against a maximum of two, pages out of order, with a vehicle
  twice or without a plate, and one stray row in one of the batches (`MaxStrays`;
  a batch never has more than one).
* `ExportColumns`: RDW's 35 curated columns and two others in usual order, and
  with a column dropped, added, moved, doubled or without a name or field name;
  every numeric setting unset, 0, 1 or a million.
* `Assembler`: parts of two rows, seven rows in pages of up to three, two failing
  operations: up to four parts, a full last part, and a page that spans parts;
  no, one and three failed ranges; reports at ends of months, leap years and
  centuries; thresholds below, at and above the file, and one that wraps.

Deadlock is not checked in runs of systems that stop on purpose: an export
returns, requests are answered. Termination is a liveness property there.
`MCRateLimiter` and `ExportColumns`, which never stop, are checked for deadlock.

### Fairness

The code runs on tokio's multi-threaded runtime, which polls a task that is
ready. What makes an awaiting task ready is a reply, a lock or a sleep. A request
to RDW has a timeout and `with_retry` a bounded number of attempts, so every
RDW call ends (`FetchEnds`); locks are held across file writes only.

* `FuelHandler`: weak fairness for the steps of each request. No request waits
  for another one: `try_acquire` does not block.
* `Pipeline`: weak fairness of all tasks together, which is less than the
  runtime gives: while something can run, something runs. No fairness for
  `Change`, `Panic`, `Cancel`.
* `SequentialExport`, `FetchClient`, `PageJoin`: weak fairness of the one task's
  steps. `Change` is never fair.
* `ExportColumns`: weak fairness of the startup, since fetching labels ends.

Nothing in the repository makes the wall clock tick, RDW change or a client
disconnect, so none of these is assumed.

## 4. What is proved

All proofs are checked by TLAPS for arbitrary constants, under the assumptions
the modules name (`RateWindowAssumption`, `RateLimiterAssumption`,
`FailureConfigAssumption`, `KentekenRangesAssumption`, `PipelineAssumption`,
`SequentialExportAssumption`, `FetchClientAssumption`, `RdwRowsAssumption`,
`FuelBatchesAssumption`, `MergeJoinAssumption`, `PageJoinAssumption`,
`FuelHandlerAssumption`, `ExportResponseAssumption`, `AssemblerAssumption`,
`SummariesAssumption`, `ExportColumnsAssumption`, `SettingsAssumption`).
Each asks for what the code has by its types and constants: sizes are positive,
a plate is a number, what a page or an answer holds are plates and rows.
`SummariesAssumption` says of a summary what the pipeline makes of it: its ranges
are those of different pages, and are counted. `ExportColumnsAssumption` says
how texts are told apart here: a label of RDW is for its field, and is not one
of those compiled in.

Every safety property of every passing run is a theorem, for all constants the
assumptions allow; what is left to TLC alone is liveness.

**Rate limiter** (`RateLimiter_proofs`).

* `TypeCorrect`, `NoOvercharge`: for any age of the stamps, counters are natural
  numbers, and a counter never exceeds the reservations held in its window. So a
  client is never refused without enough holders behind the refusal. The second
  is inductive together with the types: a charge adds one to both sides, a
  release takes one from the counter exactly when the reservation lies in its
  window, a reset sets it to 0.
* `LimitsKept`, `CountersExact`, `EvictionSafe`, `LedgerImplemented`: with
  prompt stamps (`MaxLag = 0`) the limits hold in every day and week, counters
  equal the reservations, eviction forgets nothing, and the limiter implements
  `QuotaLedger`. None of these is inductive alone. `LedgerExact` survives a reset
  only because no reservation lies in a window later than the entry's
  (`ClockOrder`), a new entry may start at 0 only because an absent entry means
  an empty week (`EvictionForgetsNothing`), and that survives an eviction only
  because `last_seen` is not before any reservation of the key (`ClockOrder`
  again) and eight days reach into another week (`StaleWeekIsOver`). `IInv` is
  the conjunction of these with `WithinLimits` and the types. `Invariance`
  has one lemma for each action, and the two theorems above have one for the
  charge and one for the release.

**Shared abort** (`Pipeline_proofs`, for `GlobalAbort` on its own): for any number
of workers, any floor and any ratio, `AbortNotMissed` (when every call has
returned, totals above the threshold mean that the flag is set) and
`FloorNeverAborts`. The other direction, that totals were above the threshold
whenever an export is aborted, does not hold (section 5). The strengthening
is `ExcessIsSeen`: while the totals are above the threshold and the flag is not
set, some call that has seen every failure is about to judge, with a count of
attempts that is at most the total. Its step for a further attempt rests on
`should_abort` being monotone (`ExcessMonotone`).

**Ranges** (`Pipeline_proofs`, first part): for any number of ranges and prefixes, also
more ranges than prefixes, the boundaries ascend, no plate lies in two ranges
and every plate lies in one.

**Concurrent export** (`Pipeline_proofs`): every safety
property of the `Pipeline` run, for any number of workers, ranges, plates,
changes and faults, and any page size. The argument is a chain of invariants,
each proved from those before it.

* `Lifecycle`: what the workers can be doing in each phase of the main task. With
  it, `SoleOwner`: whatever failed or was cancelled, no worker has the assembler
  when the export returns, so the `unreachable!` of the handler is unreachable.
* `ErrorsKept`: once something failed, the error slot holds one of the faults, or
  a worker has panicked that is not joined yet, and the slot holds nothing else.
  Hence `ErrorsDoSurface`.
* `Ownership`: the queue holds the ranges that follow the claimed ones, and no
  range has two workers. With `RangesDisjoint` and `StagedOnce` (a staged vehicle
  lies behind the cursor of whoever holds its range) follows `NothingTwice`.
* `Background` and `NothingLost`: unless the export is doomed (aborted, an error,
  a panic), a vehicle that stayed registered and lies in a claimed range is
  staged or ahead of the range's holder: on a page to be asked for, on the page
  in hand, or behind a full page. The last disjunct is why a short page may end a
  range. With `RangesCover` follows `SuccessIsComplete`. It does not use the
  reconciliation: completeness does not rest on the count.
* `ExportAbortNotMissed` and `ExportFloorTolerated` are the theorems of the shared
  abort, for an export whose workers also end, panic and are cancelled. `Record`
  takes `GlobalAbort`'s own steps, so they carry over as they are.
* `SummaryCounts`: the summary runs ahead of the shared counters by exactly the
  workers between the two, and `AffectedCounted` does the same for the marked
  rows; at the end there are none in between: `SummaryIsTruthful`.
* `EmitCounts` and `Drift`: the emitted count is the number of staged vehicles
  less those of a page not yet counted, and what came and went since the count
  is at most the number of changes: `MismatchIsChange`.

**Limited export** (`SequentialExport_proofs`): every safety property of the
run, for any limit, page size, dataset and number of changes.

* `HoldsFirstVehicles` rests on `FirstRows`: the rows ascend and none lies
  behind the cursor, every vehicle that lasted and is not behind the cursor is a
  row, and the page in hand follows the cursor with no lasting vehicle skipped
  before its last one, or at all if it is short. The property alone is not inductive: it says
  nothing of a page that was answered before RDW changed and is not yet staged.
* `SummaryIsTruthful` rests on `SummaryCounts`: what the summary counts is the
  marked rows, and after the fuel fetch also the page in hand. The two agree at
  the end because a page is never longer than what the limit leaves, so that
  nothing of a page that is staged is cut off.
* `ThresholdExact` rests on `Judged`, which says at which points of the loop the
  failures are known to be tolerated, and on `ShouldAbortIs`: the two strict
  comparisons of the model are one with the larger allowance.

**Handler** (`FuelHandler_proofs`), for any number of requests and any clock.

* `PermitIsConserved` (`OnePermit`: the semaphore has the permit or exactly one
  request is between taking and returning it) and `RetryAfterIsTight`
  (`NextWindowBegins`: the two functions of `handlers.rs` land on the first second
  of the limiter's next window).
* `ChargesFollowRequests`: at every step, `held`, `recorded` and `todo` of a
  request fit its step; the brands of a request are distinct
  (`FirstMentions` has every brand once). From it follows `HandlerUsesLimiter`:
  every step of the handler is a step of `RateLimiter` or changes nothing of it,
  so that a request asks for a key once and releases what it was granted at most
  once, with its own stamp.
* `QuotaIsBalanced` and `PromptLimitsKept`: with `PromptChecks`, the theorems of
  `RateLimiter_proofs` carry over by the refinement. With nobody in flight the
  counters are the requests answered 200, Busy or dropped, and these stay within
  the limits. The stale clock reading of section 5 is thus the only way over the
  limits.

**Client** (`FetchClient_proofs`): `CutBodiesCaught`, `RetriesWarranted`,
`EffortIsBounded` and `FailuresAnswered502` for any retry configuration and byte
budget. `IInv` ties the attempt counter to the errors seen and the time slept,
the result to the kinds of errors seen, and the body in hand to what became of
it. `FailuresAnswered502` is not a property of the run: it follows from
`RetriesAreWarranted` and the two conversions of errors. `CutBodiesCaught` claims of a page only what the last byte can
tell; that some cut pages are accepted is the run `FetchClientTornPage`.

**One page** (`PageJoin_proofs`): every safety property of the run, for any page,
batch size, window and page limit, any rows RDW has of the plates, answers in any
order, and any number of batches (`MaxStrays`) with one row that was not asked
for or is out of place.

* What `FlattenSeq`, `SortedRows` and the order of a batch are, for sequences of
  any length (`FlattenLaid`, `LaidInTurn`, `LaidCovers`, `InOrderIs`): a flattened
  sequence holds its parts one behind the other with nothing in between.
* `FetchIsInOrder` (`PageInv`): the pages are the answers to the first batches
  in the order they were asked, none of them cut off, and an honest RDW answered
  each with the rows of its plates. Hence `UnavailableIsJustified`.
* `JoinInvHolds` (`JoinInv`): the rows behind the cursor belong to plates before
  the vehicle at hand, or are what it has been given, with volgnummers from 1 on;
  the vehicles before it were given all their rows. `Taking` is the part of it
  that an error leaves as evidence: from it follows that an error means bad
  input, and with `FuelOrderIsTotal` (neighbours in order mean all in order) that
  bad input means an error: `FailsOnBadInputOnly`.
* `JoinExact` adds that the rows RDW has of a plate stand in one place of what
  was received (`PartAlone`, once for the plates of a batch and once for the
  batches, since no plate is in two), and that a sequence has one such place
  (`RowsOfUnique`).

**Staging and response** (`Assembler_proofs`), for any size of part and page, any
number of failing file operations and any threshold.

* `OnlyTheOutputRemains`, from `FilesKnown`: as long as no write has failed, the
  files on disk are the open part and the closed ones, and every file has a
  number of its own.
* `NothingPartial` and `PartsDoFitExcel`, from `StagedInOrder`: all closed parts
  are full and hold the rows in order from the first, the open part goes on
  where they end, and what is left of the batch follows (`PartsFollow`). It
  describes each part by its place, not by flattening what was written. The
  `NothingOrRow` in it is why a ZIP never ends in a part without rows: a part is
  opened for a row that is there.
* `HeadersDescribe` and `ExpandedWithinThreshold`, from `AnswerFits`: an answer was
  built from the staged file as it is, and a refusal from one that is too large.
* `DegradedSaysSo`, from `ReportsAreFit`: the report of an export that lost fuel
  data has every failed range of the summary once, in the order of the plates
  (`SortingPermutes`: the stable sort is a permutation), counts the vehicles
  that were marked (the fold over the ranges is the size of their disjoint union),
  and dates each range right. `CivilIsRight` is the last part: the closed form of
  `civil_from_days` gives, for every day from 1970 on, the date that is reached by
  counting years and months, each with its days.

**Columns** (`ExportColumns_proofs`), for any columns RDW may have and any vehicles.

* `ColumnsInv` says what is in memory at every point: every label is for its field,
  and those compiled in are there only all together and on record
  (`MetadataFits`); the columns of the running export are taken from the labels
  (`ExportFits`), and the row in hand was read by the header it came with
  (`RowFits`).
* `ColumnsAreCurated` and `CellsStayUnderTheirHeader`: the columns an export keeps
  are described by their places in the list of the code, one behind the other, and
  two ascending enumerations of the same places are the same (`SameEnumeration`).
  So the columns are in the order of the code although RDW gave them in another,
  and the cells of a row are in the same order as the header, which was made at
  another time. The two literal lists are only used to see that each names a field
  once and that the fallback has every exported field.
* `StartIsUsable`: the part of `StartsUsable` that is not liveness. With any
  environment, also one with numbers of 0 or beyond every bound, the clamps of
  `main.rs` leave workers, batches and pages of at least one; and a server that
  serves goes on serving with the same labels.

**Everything comes to an end.** For five components a natural number is proved to
fall with every step, for all constants: the part of termination that does not
speak of fairness. No cycle is possible, whatever RDW answers and wherever it fails.

* `EveryStepSpends` (`FetchClient_proofs`): the attempts that are left, and in an
  attempt the bytes that may still be read.
* `EveryStepAdvances` (`SequentialExport_proofs`): the rows that are left up to the
  limit, and the phases of a page. A page that adds no row ends the export.
* `EveryStepAdvances` (`Pipeline_proofs`): a worker's plates between its cursor and
  the end of the dataset (`CursorsFit`), and its points; taking a range starts
  anew, but uses up the queue. For the main task it is the workers that are not
  joined yet. No step of one task raises what another has left.
* `EveryStepAdvances` (`PageJoin_proofs`): the answers still to come and the batches
  to be yielded, then the rows and vehicles behind the cursors.
* `EveryStepNearsTheAnswer` (`FuelHandler_proofs`): the brands that the loops of a
  request have still to visit, with the refund that may follow. A request cannot
  be held up by others: their steps leave the number as it is.

That a step is possible while the number is above its least value is checked by
TLC, in the liveness properties.

**Only model-checked**:

* liveness: `Terminates` of both exports, `EveryRequestAnswered`, `FetchEnds`,
  `PageEnds` and `StartsUsable`. Fairness and ENABLED are out of the prover's reach;
  the theorems above prove what of it can be said without them.

What is recursive cannot be unfolded for arbitrary length by induction here, since
the induction theorems take an operator as parameter. Where a proof needs a fact
of that kind, it is argued from a least counterexample (`LeastElement`): the
least index at which two sequences differ, the least number at which something
fails to exist.

## 5. Where code and documents disagree

Each of these is a run that ends in a counterexample.

* `FuelHandlerBusy` (`RefusedIsFree`): the quota is charged before the export
  permit is asked for, and the Busy answer (429) does not give it back.
  README.md:97 says that a refused request never costs quota.
* `FuelHandlerMidnight` (`UsableWithinLimits`): with `PromptChecks` FALSE, a
  request that read the clock before midnight and is checked after one of the
  new day resets the new day's window (any *different* key resets, not only a
  later one), and one export more than the limit can be used on that day.
  docs/RATE_LIMIT.md:7-9 says exactly three. The time between clock reading and
  check is short, so this is rare; it is also why the theorems of the limits
  assume prompt stamps.
* `FetchClientTornPage` (`NoCutPage`): a page that is cut behind a newline within
  the quoted last cell of a record ends in a newline and has all its fields, so
  the parser takes it for a short page, the last of its range. csv_parse.rs:27-29
  says that this never happens. In the concurrent export the reconciliation with
  the count may still notice it, in the limited one nothing does. It takes an
  answer that HTTP and gzip let pass for complete.
* `AssemblerOrphan` (`NoOrphanedFile`): a file operation that fails while a part
  is opened, closed or finished leaves its temporary file on disk.
  csv_writer.rs:5-7 says no orphaned partial file ever exists. The trace fails at
  the header; since the csv writer buffers, a full disk shows rather at the flush
  and the finish of a part, which leave the file in the same way.

Observed on the way, without a counterexample of its own:

* README.md:42 and docs/ARCHITECTURE.md:73 promise 504 when RDW timed out. It
  cannot arise: `with_retry` reports the last of a row of time-outs as exhausted
  retries (lib.rs:678-683), which pipeline.rs:76-90 maps to `Upstream` and the
  handler to 502. The theorem `FailuresAnswered502` says so of every fetch, for
  every number of attempts.
* `record_and_check` judges the failures it reads last by the number of its *own*
  attempt, which others may have passed. With a floor of 1, a ratio of one half
  and two failed fetches whose calls overlap as third and fourth, the first call
  can judge 2 failures of 3, though the totals are 1 of 3 and 2 of 4 in either
  order. So an export can be aborted for an excess that never was; abort.rs:34-35
  speaks of up-to-date totals. Only the other direction is claimed.
* A value of `UNCOMPRESSED_SIZE_THRESHOLD_MB` above 2^44 wraps in a release
  build, and more responses are refused than the setting says;
  `UncompressedWithinThreshold` shows that it can never expand more.
* An empty array of columns counts as live columns: the exports then have no
  column of RDW, and the fallback is not used.
* The memory bound on page size times workers that pipeline.rs:238 speaks of is
  that of the defaults; nothing enforces it for overridden settings.
* The comment above `fuel_by_kentekens_url` (lib.rs:383-388) begins with that of
  a query by range and cursor which the code no longer makes.
* The report of a ZIP names the status column `export_status`
  (csv_writer.rs:368), the header of the CSV is `Export status` (widen.rs:19).

## 6. What is not modelled

* The TCP listener, the router, the token, logging.
* The wording of errors, of the report and of the warnings; the counts, ranges
  and dates they show are modelled.
* URL building beyond what a request selects.
* Pages that are cut and yet accepted, outside `FetchClient`: there a body can be
  cut between two records (`atRecord`) or within a quoted cell (`inCell`), while
  `Pipeline`, `SequentialExport` and `FuelBatches` take what the client returns as
  RDW's whole answer. Their completeness rests on that.
* The fuel columns: they are loaded and never read by an export; whether their
  fetch fell back is modelled.
* `remove_file` failing, which the code ignores. A client that disconnects leaves
  the staged files behind (`Drop`); the repository says nothing about that.
* Restarts: the limiter is in memory, and losing its counters is documented.
* The floats of `should_abort` are a rational ratio.
* The pages of several workers in one assembler: `Pipeline` counts staged rows as
  a bag, `Assembler` stages pages in the order they arrive. `write_rows` runs
  under the mutex and without an await, so it is one step for the other workers
  and never cancelled in the middle; `SoleOwnerAtReturn` states the hand-over to
  the handler. No module has both the workers and the files.

## 7. Plan

Done, in this order: rate limiter with its ledger and proofs; shared abort with
proofs; ranges with proofs; handler; concurrent export, with proofs of all its
safety properties; limited export; client with proofs; one page as the
composition of fuel batches and merge-join; startup, metadata and widening;
staging, response and errors; proofs of all safety properties of the runs, and
that every step of a request, an export, a page and a fetch leaves less to do.

What could be added:

1. stamps of mixed age in one behaviour of the limiter, to say exactly which
   days can go over their limit, and by how much;
2. one model of `Pipeline` and `Assembler` together, with the order of the pages
   in the file;
3. a proof of liveness, with a prover that has ENABLED: what the steps leave to do
   is known to fall, so that only their possibility would be left.
