SPECIFICATION Spec
CONSTANTS
    EXCEL_MAX_DATA_ROWS = 2
    MaxRows = 7
    MaxBatch = 3
    MaxFaults = 1
    BYTES_PER_MB = 2
    SizeModulus = 16
    ThresholdMbs = {1}
    Summaries <- MCSummaries
    ReportDays <- MCReportDays
INVARIANTS
    NoOrphanedFile
CHECK_DEADLOCK FALSE
