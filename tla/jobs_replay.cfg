SPECIFICATION Spec
CONSTANTS
    Executors = {x1}
    Jobs = {j1}
    Admins = {u1, u2}
    MaxTasks = 3
    MaxRetries = 1
    FaultKinds = {"process", "disk", "database"}
    MaxFaults = 2
    MaxRows = 1
    DispatchModes = {"celery"}
    None = None
INVARIANT
    ReplayedOnce
\* Once every message is handled nothing more has to happen.
CHECK_DEADLOCK FALSE
