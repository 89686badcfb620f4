SPECIFICATION FairSpec
CONSTANTS
    Executors = {x1}
    Jobs = {j1}
    Admins = {u1, u2}
    MaxTasks = 3
    MaxRetries = 1
    FaultKinds = {"process", "disk", "database", "outage"}
    MaxFaults = 3
    MaxRows = 1
    DispatchModes = {"inline", "celery"}
    None = None
PROPERTIES
    ImplementsExportService
    JobsSettle
\* Once every message is handled nothing more has to happen.
CHECK_DEADLOCK FALSE
