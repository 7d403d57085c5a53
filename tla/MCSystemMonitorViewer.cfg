CONSTANTS
    Now = 21000
    Metrics = {"mem", "cpu", "disk", "net"}
    Values = {"v1", "v2"}
    Logs <- MCLogs
    Requests <- MCRequests
    MetricLabels <- MCMetricLabels
    LabelOf <- MCLabelOf
SPECIFICATION Spec
\* Main ends with a plot, a warning, LOG_ERROR or a crash.
CHECK_DEADLOCK FALSE
INVARIANTS
    TypeOK
    LinesCarryLatestValue
    PlotLinesInRange
