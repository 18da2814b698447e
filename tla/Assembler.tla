----------------------------- MODULE Assembler -----------------------------
(***************************************************************************)
(* rdw-core/src/csv_writer.rs, Assembler: the rows of an export are staged *)
(* in temporary part files, and become one CSV or a ZIP of the parts once  *)
(* every page has been fetched.  Every file operation can fail (a full     *)
(* disk).  The owner is the handler: it aborts the assembler after a       *)
(* failed write or a failed export, finishes it after a successful one,    *)
(* and sends the finished file to the client.                              *)
(*                                                                         *)
(* A row is the number of its position in the export, the header is row 0. *)
(***************************************************************************)
EXTENDS ExportResponse, ErrorResponse, FiniteSets

CONSTANTS
    EXCEL_MAX_DATA_ROWS,   \* 1_048_575 in the code
    MaxRows,               \* bound on the rows of the export
    MaxBatch,              \* bound on the rows of one page
    MaxFaults,             \* bound on failing file operations
    Summaries,             \* the FuelFailureSummary values an export may end with
    ReportDays,            \* the days a report may be written on
    ThresholdMbs           \* values of UNCOMPRESSED_SIZE_THRESHOLD_MB

ASSUME AssemblerAssumption ==
    /\ EXCEL_MAX_DATA_ROWS \in Nat \ {0}
    /\ MaxRows \in Nat /\ MaxBatch \in Nat /\ MaxFaults \in Nat
    /\ ReportDays \subseteq Nat /\ ThresholdMbs \subseteq Nat

\* The vehicles of failed ranges, each by its range and its place in it.
VehiclesOf(ranges) == UNION {{i} \X (1 .. ranges[i].vehicles) : i \in DOMAIN ranges}

\* The summary with which the pipeline returns: what is pushed when a fuel fetch
\* fails is counted, and no two pages begin with the same plate.
ASSUME SummariesAssumption ==
    \A s \in Summaries :
      /\ s.failedRanges \in Seq([lo : Nat, hi : Nat, vehicles : Nat, failedOn : Nat])
      /\ \A i, j \in DOMAIN s.failedRanges :
           s.failedRanges[i].lo = s.failedRanges[j].lo => i = j
      /\ s.failures = Len(s.failedRanges)
      /\ s.attempted \in Nat /\ s.attempted >= s.failures
      /\ s.affected = Cardinality(VehiclesOf(s.failedRanges))

VARIABLES
    nextFile,    \* TEMP_FILE_COUNTER
    files,       \* the temporary files on disk
    content,     \* the rows written to each file so far
    current,     \* Assembler::current: an open part, or NoPart
    partPaths,   \* Assembler::part_paths
    batch,       \* the rows of the running write_rows still to be written
    pc,          \* what the assembler's owner is doing
    submitted,   \* history: the rows given to write_rows
    summary,     \* the summary of the export, known when it ends
    output,      \* the Assembled that finish returned, with what is in its file
    reportedOn,  \* history: the day the report was written
    request,     \* what the client accepts, and the configured threshold; both
                 \* are fixed earlier, but nothing reads them before
    reply,       \* the response
    exportFailed,   \* some write_rows failed; the pipeline returns its error
    faults       \* history: file operations that failed

errorVars == <<pc, exportFailed, faults>>
replyVars == <<request, reply>>
outputVars == <<summary, output, reportedOn, replyVars>>
vars == <<nextFile, files, content, current, partPaths, batch, submitted,
          outputVars, errorVars>>

Header == 0
NoPart == [path |-> 0, rowCount |-> 0]
NoOutput == [kind |-> "none", path |-> 0, parts |-> <<>>, report |-> {}]

Init ==
    /\ nextFile = 1
    /\ files = {}
    /\ content = <<>>
    /\ current = NoPart
    /\ partPaths = <<>>
    /\ batch = <<>>
    /\ pc = "idle"
    /\ submitted = 0
    /\ summary = [attempted |-> 0, failures |-> 0, affected |-> 0, failedRanges |-> <<>>]
    /\ output = NoOutput
    /\ reportedOn = 0
    /\ request = [accept |-> "absent", acceptEncoding |-> "absent", mb |-> 0]
    /\ reply = [status |-> 0]
    /\ exportFailed = FALSE
    /\ faults = 0

\* A file operation fails.  write_rows returns the error and lets the
\* assembler go: until the export is cancelled, other workers may still write.
\* finish owns the assembler and drops it with the error.
Fault ==
    /\ faults < MaxFaults
    /\ faults' = faults + 1
    /\ \/ pc = "write" /\ pc' = "idle" /\ exportFailed' = TRUE
       \/ pc = "finish" /\ pc' = "finishFailed" /\ UNCHANGED exportFailed
       \/ pc = "assembled" /\ pc' = "refused" /\ UNCHANGED exportFailed

\* File::create at a path that no file had before, and what gets into it.
Create(rows) ==
    /\ nextFile' = nextFile + 1
    /\ files' = files \cup {nextFile}
    /\ content' = Append(content, rows)

\* open_new_part: create the file, then write the header to it.
OpenNewPart ==
    \/ /\ Create(<<Header>>)
       /\ current' = [path |-> nextFile, rowCount |-> 0]
       /\ UNCHANGED errorVars
    \/ /\ Fault        \* File::create
       /\ UNCHANGED <<nextFile, files, content, current>>
    \/ /\ Create(<<>>)          \* the header
       /\ Fault
       /\ UNCHANGED current

\* close_current_part: the part is taken out of current before it is flushed
\* and its gzip stream finished.
CloseCurrentPart ==
    /\ current' = NoPart
    /\ \/ /\ partPaths' = Append(partPaths, current.path)
          /\ UNCHANGED errorVars
       \/ /\ Fault     \* flush or finish
          /\ UNCHANGED partPaths

----------------------------------------------------------------------------
\* write_rows: the next page of rows arrives.
WriteRows ==
    /\ pc = "idle"
    /\ \E n \in 1 .. MaxBatch :
         /\ submitted + n <= MaxRows
         /\ batch' = [i \in 1 .. n |-> submitted + i]
         /\ submitted' = submitted + n
    /\ pc' = "write"
    /\ UNCHANGED <<nextFile, files, content, current, partPaths, outputVars,
                   exportFailed, faults>>

\* Mutant: off by one, the header counts as a row of its part.
PartIsFullMutant == current.rowCount > EXCEL_MAX_DATA_ROWS

PartIsFull == current.rowCount >= EXCEL_MAX_DATA_ROWS

\* The loop body of write_rows opens the first part, or the one after a close.
OpenForRow ==
    /\ pc = "write"
    /\ batch # <<>>
    /\ current = NoPart
    /\ OpenNewPart
    /\ UNCHANGED <<partPaths, batch, submitted, outputVars>>

CloseFull ==
    /\ pc = "write"
    /\ batch # <<>>
    /\ current # NoPart
    /\ PartIsFull
    /\ CloseCurrentPart
    /\ UNCHANGED <<nextFile, files, content, batch, submitted, outputVars>>

WriteRecord ==
    /\ pc = "write"
    /\ batch # <<>>
    /\ current # NoPart
    /\ ~ PartIsFull
    /\ \/ /\ content' = [content EXCEPT ![current.path] = Append(@, Head(batch))]
          /\ current' = [current EXCEPT !.rowCount = @ + 1]
          /\ batch' = Tail(batch)
          /\ UNCHANGED errorVars
       \/ /\ Fault
          /\ UNCHANGED <<content, current, batch>>
    /\ UNCHANGED <<nextFile, files, partPaths, submitted, outputVars>>

WriteDone ==
    /\ pc = "write"
    /\ batch = <<>>
    /\ pc' = "idle"
    /\ UNCHANGED <<nextFile, files, content, current, partPaths, batch, submitted,
                   outputVars, exportFailed, faults>>

----------------------------------------------------------------------------
\* abort, after a failed write_rows or when the export failed elsewhere
\* (handlers.rs:175).
Abort ==
    /\ pc = "idle"
    /\ files' = files \ ({current.path} \cup ToSet(partPaths))
    /\ pc' = "aborted"
    /\ current' = NoPart
    /\ partPaths' = <<>>
    /\ UNCHANGED <<nextFile, content, batch, submitted, outputVars,
                   exportFailed, faults>>

\* The client goes away while the export waits for RDW: the assembler is
\* dropped, and nothing is removed.
Drop ==
    /\ pc = "idle"
    /\ pc' = "dropped"
    /\ current' = NoPart
    /\ partPaths' = <<>>
    /\ UNCHANGED <<nextFile, files, content, batch, submitted, outputVars,
                   exportFailed, faults>>

\* finish_with_report, once every page was written.
Finish ==
    /\ pc = "idle"
    /\ ~ exportFailed
    /\ summary' \in Summaries
    /\ pc' = "finish"
    /\ UNCHANGED <<nextFile, files, content, current, partPaths, batch, submitted,
                   output, reportedOn, replyVars, exportFailed, faults>>

\* close_final_part: an export without any row is a CSV with only a header.
OpenHeaderOnly ==
    /\ pc = "finish"
    /\ current = NoPart /\ partPaths = <<>>
    /\ OpenNewPart
    /\ UNCHANGED <<partPaths, batch, submitted, outputVars>>

CloseFinal ==
    /\ pc = "finish"
    /\ current # NoPart
    /\ CloseCurrentPart
    /\ UNCHANGED <<nextFile, files, content, batch, submitted, outputVars>>

\* finish_parts with one part: its length is asked for, and it is the CSV.
FinishCsv ==
    /\ pc = "finish"
    /\ current = NoPart /\ Len(partPaths) = 1
    /\ \/ /\ output' = [kind |-> "csv", path |-> Head(partPaths),
                        parts |-> <<content[Head(partPaths)]>>, report |-> {}]
          /\ pc' = "assembled"
          /\ UNCHANGED <<exportFailed, faults>>
       \/ /\ Fault
          /\ UNCHANGED output
    /\ partPaths' = <<>>
    /\ UNCHANGED <<nextFile, files, content, current, batch, submitted, summary,
                   reportedOn, replyVars>>

\* Mutant: the same file is opened for every entry.
EntriesMutant == [i \in DOMAIN partPaths |-> content[partPaths[1]]]

\* The loop of try_zip_parts: one entry per part, in order.
Entries == [i \in DOMAIN partPaths |-> content[partPaths[i]]]

\* finish_parts with more parts, zip_parts: every part is expanded into the
\* archive, the report is added; the parts are removed either way, the archive
\* if it failed.
FinishZip ==
    /\ pc = "finish"
    /\ current = NoPart /\ Len(partPaths) > 1
    /\ nextFile' = nextFile + 1
    /\ content' = Append(content, <<>>)
    /\ partPaths' = <<>>
    /\ \/ /\ files' = (files \cup {nextFile}) \ ToSet(partPaths)
          /\ reportedOn' \in ReportDays
          /\ output' = [kind |-> "zip", path |-> nextFile,
                        parts |-> Entries,
                        report |-> {ReportText(summary, reportedOn')}]
          /\ pc' = "assembled"
          /\ UNCHANGED <<exportFailed, faults>>
       \/ /\ files' = files \ ToSet(partPaths)
          /\ Fault
          /\ UNCHANGED <<output, reportedOn>>
    /\ UNCHANGED <<current, batch, submitted, summary, replyVars>>

\* The length of the output file; one unit per row stands for its bytes.
StagedLength == Len(FlattenSeq(output.parts))

\* Mutant: a refused response leaves the file.
RespondMutant ==
    /\ pc = "assembled"
    /\ request' \in [accept : Accepts, acceptEncoding : AcceptEncodings, mb : ThresholdMbs]
    /\ IF TooLargeToExpand(output.kind, StagedLength, request'.acceptEncoding, request'.mb)
       THEN /\ pc' = "refused"
            /\ reply' = Render("NotAcceptable", 0, request'.accept)
            /\ UNCHANGED files
       ELSE /\ pc' = "responded"
            /\ reply' = Response(output.kind, StagedLength, output.parts, summary,
                                 request'.acceptEncoding)
            /\ files' = files \ {output.path}
    /\ UNCHANGED <<nextFile, content, current, partPaths, batch, submitted, summary,
                   output, reportedOn, exportFailed, faults>>

\* build_response: opens the file, unlinks it and streams it; when it cannot be
\* read (502) or is too large (406), the handler removes it.
Respond ==
    /\ pc = "assembled"
    /\ request' \in [accept : Accepts, acceptEncoding : AcceptEncodings, mb : ThresholdMbs]
    /\ files' = files \ {output.path}
    /\ \/ /\ Fault                         \* open or stat fails
          /\ reply' = Render("BadGateway", 0, request'.accept)
       \/ /\ IF TooLargeToExpand(output.kind, StagedLength, request'.acceptEncoding,
                                 request'.mb)
             THEN /\ pc' = "refused"
                  /\ reply' = Render("NotAcceptable", 0, request'.accept)
             ELSE /\ pc' = "responded"
                  /\ reply' = Response(output.kind, StagedLength, output.parts, summary,
                                       request'.acceptEncoding)
          /\ UNCHANGED <<exportFailed, faults>>
    /\ UNCHANGED <<nextFile, content, current, partPaths, batch, submitted, summary,
                   output, reportedOn>>

Next ==
    \/ WriteRows \/ OpenForRow \/ CloseFull \/ WriteRecord \/ WriteDone
    \/ Abort \/ Drop
    \/ Finish \/ OpenHeaderOnly \/ CloseFinal \/ FinishCsv \/ FinishZip
    \/ Respond

Spec == Init /\ [][Next]_vars

----------------------------------------------------------------------------
\* Never partial: what a client is sent with status 200 is every row that was
\* staged, once and in order, across any number of parts that each begin with
\* the header, whatever failed in between.
NeverPartial ==
    pc = "responded" =>
        LET parts == reply.body.parts
        IN  /\ parts # <<>> /\ \A i \in DOMAIN parts : Head(parts[i]) = Header
            /\ FlattenSeq([i \in DOMAIN parts |-> Tail(parts[i])]) =
                 [i \in 1 .. submitted |-> i]

\* No part is larger than Excel can open, and the output is split only when it
\* has to be: every part but the last is full, and none has only the header,
\* except the one of an export without rows.
PartsFitExcel ==
    pc \in {"assembled", "responded"} =>
        \A i \in DOMAIN output.parts :
          LET rows == Len(output.parts[i]) - 1
          IN  IF i < Len(output.parts) THEN rows = EXCEL_MAX_DATA_ROWS
              ELSE /\ rows <= EXCEL_MAX_DATA_ROWS
                   /\ rows = 0 => output.kind = "csv"

\* A finished export leaves exactly its own file, and nothing at all once the
\* response has opened it or was refused; an export that is aborted without a
\* file operation failing leaves nothing either.
OnlyOutputRemains ==
    /\ pc = "assembled" => files = {output.path}
    /\ pc \in {"responded", "refused"} => files = {}
    /\ pc = "aborted" /\ faults = 0 => files = {}

\* The headers describe the bytes that follow, for every kind of client: what
\* is gzip-encoded is the CSV as it was staged, and only for a client that
\* takes it; the length is that of the staged file, and left out when it is
\* expanded.  An error is HTML only for a client that prefers it, the 406 for
\* nobody, and no error of this stage asks the client to wait.
AnnouncedAsSent ==
    /\ pc = "responded" =>
         /\ reply.contentEncoding = "gzip" <=>
              output.kind = "csv" /\ reply.body.form = "as staged"
         /\ reply.contentEncoding = "gzip" => AcceptsGzip(request.acceptEncoding)
         /\ reply.contentLength = IF reply.body.form = "expanded" THEN {}
                                  ELSE {StagedLength}
         /\ reply.fileName.extension = "csv" <=> reply.contentType = "text/csv"
    /\ pc = "refused" =>
         /\ reply.status \in {406, 502} /\ reply.retryAfter = {}
         /\ reply.contentType = "text/html" <=>
              reply.status # 406 /\ PrefersHtml(request.accept)

\* The number of days from the epoch to a date, by counting leap years and months.
LeapYear(y) == y % 4 = 0 /\ (y % 100 # 0 \/ y % 400 = 0)
DaysInMonth(y, m) ==
    IF m = 2 THEN IF LeapYear(y) THEN 29 ELSE 28
    ELSE IF m \in {4, 6, 9, 11} THEN 30 ELSE 31
DayNumber(date) ==
    LET before[m \in 1 .. 12] ==
          IF m = 1 THEN 0 ELSE before[m - 1] + DaysInMonth(date.year, m - 1)
    IN  365 * (date.year - 1970) + Cardinality({y \in 1970 .. date.year - 1 : LeapYear(y)})
        + before[date.month] + date.day - 1

IsDate(date, day) ==
    /\ date.month \in 1 .. 12
    /\ date.day \in 1 .. DaysInMonth(date.year, date.month)
    /\ DayNumber(date) = day

\* An export that lost fuel data says so wherever a reader may look, with the
\* counts of its summary, and no other does: in the file name, in the warnings
\* header and in the report of a ZIP, which lists the failed ranges in plate
\* order, whichever failed first, under the right dates.
DegradedIsMarked ==
    pc = "responded" =>
        /\ reply.fileName.partial <=> HasFailures(summary)
        /\ reply.warnings = IF HasFailures(summary)
                            THEN {[failures |-> summary.failures,
                                   affected |-> summary.affected]} ELSE {}
        /\ output.kind = "zip" <=> output.report # {}
        /\ \A text \in output.report :
             /\ text.successful + text.failed = text.attempted
             /\ text.failed = Len(text.ranges)
             /\ text.affected = Cardinality(VehiclesOf(text.ranges))
             /\ \A i \in 1 .. Len(text.ranges) - 1 :
                  text.ranges[i].lo < text.ranges[i + 1].lo
             /\ IsDate(text.generated, reportedOn)
             /\ \A i \in DOMAIN text.ranges : \E r \in ToSet(summary.failedRanges) :
                  /\ r.lo = text.ranges[i].lo /\ r.hi = text.ranges[i].hi
                  /\ IsDate(text.ranges[i].failedOn, r.failedOn)

\* A client without gzip is sent an expanded CSV exactly up to the configured
\* number of megabytes, and refused above it; a number that overflows the
\* multiplication can only refuse more.
UncompressedWithinThreshold ==
    /\ pc = "responded" /\ reply.body.form = "expanded" =>
         StagedLength <= request.mb * BYTES_PER_MB
    /\ pc = "refused" /\ reply.status = 406 =>
         /\ output.kind = "csv" /\ ~ AcceptsGzip(request.acceptEncoding)
         /\ request.mb * BYTES_PER_MB < SizeModulus =>
              StagedLength > request.mb * BYTES_PER_MB

\* csv_writer.rs:3-7: if assembly fails partway, the temporary file is removed
\* before the error is returned, so no orphaned file ever exists.  A part is
\* not yet in current while its header is written, no longer while it is
\* closed, and part_paths is dropped when finish fails.
NoOrphanedFile == pc \in {"aborted", "finishFailed"} => files = {}

============================================================================
