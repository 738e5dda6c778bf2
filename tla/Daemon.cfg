\* What the code does when mkdir_p() returns what get_cache_path() expects.
SPECIFICATION DaemonSpec
CONSTANTS
    Priorities <- MCPriorities
    Low = 10
    Medium = 50
    Critical = 90
    Spans <- MCSpans
    Settle = 1
    Retention = 3
    MkdirSuccess = 1
    MaxTime = 5
    MaxErrors = 2
    MaxTicks = 2
INVARIANTS
    TypeOK
    EmailSpan
    ReportsThisRun
    ReportNotCut
PROPERTIES
    DroppedForAReason
