SPECIFICATION Spec
CONSTANTS
    EXCEL_MAX_DATA_ROWS = 2
    MaxRows = 7
    MaxBatch = 3
    MaxFaults = 2
    BYTES_PER_MB = 2
    SizeModulus = 16
    ThresholdMbs = {0, 1, 2, 9}
    Summaries <- MCSummaries
    ReportDays <- MCReportDays
INVARIANTS
    NeverPartial
    PartsFitExcel
    OnlyOutputRemains
    AnnouncedAsSent
    DegradedIsMarked
    UncompressedWithinThreshold
CHECK_DEADLOCK FALSE
