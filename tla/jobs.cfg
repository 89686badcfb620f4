SPECIFICATION Spec
CONSTANTS
    Executors = {x1, x2}
    Jobs = {j1}
    Admins = {u1, u2}
    MaxTasks = 3
    MaxRetries = 1
    FaultKinds = {"process", "timeout", "disk", "database", "outage"}
    MaxFaults = 3
    MaxRows = 1
    DispatchModes = {"celery"}
    None = None
SYMMETRY Symmetry
INVARIANTS
    TypeOK
    NoSilentLoss
    RetriedWasSent
    DownloadIsWhole
PROPERTIES
    ImplementsExportService
    CompletedIsFinal
\* Once every message is handled nothing more has to happen.
CHECK_DEADLOCK FALSE
