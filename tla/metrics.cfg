\* Failing requests and monitoring requests around the bound and the retention.  The
\* bounds on the clock and on the failures stop the instance.
CONSTANTS
    None = None
    Requests = {p1, p2}
    Buffers = {"requestMetrics", "errorMetrics", "cacheMetrics", "databaseMetrics", "systemMetrics"}
    Kinds = {k1, k2, figures}
    Figures = figures
    MaxMetrics = 3
    Retention = 2
    MaxTime = 5
    MaxRecorded = 5
    DefaultRange = 1
    TimeRanges <- SomeRanges
SPECIFICATION MonitoringSpec
SYMMETRY Symmetry
INVARIANTS MonitoringTypeOK SummariesComplete SpanBounded
PROPERTY ErrorsReported
CHECK_DEADLOCK FALSE
