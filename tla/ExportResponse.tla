--------------------------- MODULE ExportResponse ---------------------------
(***************************************************************************)
(* What a finished export is sent as: build_response of                    *)
(* rdw-api/src/handlers.rs, and the _EXPORT_REPORT.txt that a ZIP carries, *)
(* build_report_text of rdw-core/src/csv_writer.rs.                        *)
(*                                                                         *)
(* A FuelFailureSummary is a record [attempted, failures, affected,        *)
(* failedRanges], a FailedRange [lo, hi, vehicles, failedOn], where        *)
(* failedOn is a day of the Unix epoch.                                    *)
(***************************************************************************)
EXTENDS Integers, Sequences, SequencesExt, FiniteSets

CONSTANTS
    BYTES_PER_MB,   \* 1024 * 1024 in the code
    SizeModulus     \* sizes are unsigned integers below this, 2^64 in the code

ASSUME ExportResponseAssumption == BYTES_PER_MB \in Nat \ {0} /\ SizeModulus \in Nat \ {0}

HasFailures(summary) == summary.failures > 0

----------------------------------------------------------------------------
\* civil_from_days: yoe, doy and mp, which count from the first of March of an
\* era of 400 years, and the year, month and day of a day of the epoch, z >= 0.
YearInEra(doe) == (doe - doe \div 1460 + doe \div 36524 - doe \div 146096) \div 365
DayInYear(doe) ==
    doe - (365 * YearInEra(doe) + YearInEra(doe) \div 4 - YearInEra(doe) \div 100)
MonthFromMarch(doy) == (5 * doy + 2) \div 153
CivilFromDays(z) ==
    LET day == z + 719468
        era == day \div 146097
        doe == day - era * 146097
        doy == DayInYear(doe)
        mp  == MonthFromMarch(doy)
        m   == IF mp < 10 THEN mp + 3 ELSE mp - 9
    IN  [year  |-> YearInEra(doe) + era * 400 + (IF m <= 2 THEN 1 ELSE 0),
         month |-> m,
         day   |-> doy - (153 * mp + 2) \div 5 + 1]

\* Mutant: the failed ranges are listed in the order they failed.
SortedByLoMutant(ranges) == ranges

\* sort_by(|a, b| a.lo.cmp(&b.lo)), a stable sort: a range comes after those of
\* a lower lo, and after those of the same lo that failed before it.
Rank(ranges, j) ==
    Cardinality({i \in DOMAIN ranges :
                   \/ ranges[i].lo < ranges[j].lo
                   \/ ranges[i].lo = ranges[j].lo /\ i <= j})

SortedByLo(ranges) ==
    [n \in DOMAIN ranges |-> ranges[CHOOSE j \in DOMAIN ranges : Rank(ranges, j) = n]]

\* build_report_text, what it says in which order.
ReportText(summary, generatedOn) ==
    [generated  |-> CivilFromDays(generatedOn),
     successful |-> IF summary.attempted < summary.failures THEN 0
                    ELSE summary.attempted - summary.failures,
     attempted  |-> summary.attempted,
     failed     |-> summary.failures,
     affected   |-> summary.affected,
     ranges     |-> [i \in DOMAIN summary.failedRanges |->
                       LET r == SortedByLo(summary.failedRanges)[i]
                       IN  [r EXCEPT !.failedOn = CivilFromDays(r.failedOn)]]]

----------------------------------------------------------------------------
\* What an Accept-Encoding header can say, as far as the handler tells it apart.
AcceptEncodings == {"absent", "gzip", "other"}
AcceptsGzip(acceptEncoding) == acceptEncoding = "gzip"

\* uncompressed_threshold_bytes_from_env: the product wraps in a release build.
Threshold(mb) == (mb * BYTES_PER_MB) % SizeModulus

\* Mutant: only whole megabytes are compared.
TooLargeToExpandMutant(kind, length, acceptEncoding, mb) ==
    /\ kind = "csv"
    /\ ~ AcceptsGzip(acceptEncoding)
    /\ length \div BYTES_PER_MB > Threshold(mb) \div BYTES_PER_MB

\* The response cannot be sent expanded: 406.
TooLargeToExpand(kind, length, acceptEncoding, mb) ==
    /\ kind = "csv"
    /\ ~ AcceptsGzip(acceptEncoding)
    /\ length > Threshold(mb)

\* Mutant: the length of the staged file is announced in any case.
LengthMutant(kind, length, acceptEncoding) == {length}

\* Content-Length: of the staged file, unless it is expanded on the way out.
Length(kind, length, acceptEncoding) ==
    IF kind = "csv" /\ ~ AcceptsGzip(acceptEncoding) THEN {} ELSE {length}

FileName(kind, summary) == [partial |-> HasFailures(summary), extension |-> kind]

\* The successful response to a file of this kind, length and parts.
Response(kind, length, parts, summary, acceptEncoding) ==
    [status          |-> 200,
     contentType     |-> IF kind = "csv" THEN "text/csv" ELSE "application/zip",
     fileName        |-> FileName(kind, summary),
     warnings        |-> IF HasFailures(summary)
                         THEN {[failures |-> summary.failures,
                                affected |-> summary.affected]}
                         ELSE {},
     contentEncoding |-> IF kind = "csv" /\ AcceptsGzip(acceptEncoding) THEN "gzip"
                         ELSE "identity",
     contentLength   |-> Length(kind, length, acceptEncoding),
     body            |-> [form  |-> IF kind = "csv" /\ ~ AcceptsGzip(acceptEncoding)
                                    THEN "expanded" ELSE "as staged",
                          parts |-> parts]]

============================================================================
