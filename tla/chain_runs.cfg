SPECIFICATION Spec
CONSTANTS
    Apps = {a1}
    Requests = {r1, r2}
    Runs = {k1, k2}
    Admins = {}
    Verifiers = {}
    DispatchModes = {"celery"}
    Policies <- OnePolicy
    MaxRetries = 1
    MaxRuns = 3
    MaxSkew = 0
    MaxNow = 1
    MaxCrashes = 1
    e1 = e1
    e2 = e2
    e3 = e3
    None = None
    Payloads <- SafetyPayloads
    Posts <- ZonesPosts
INVARIANTS
    OutcomesAreTrue
    AcceptedOnce
    RetainedIsSuffix
    AnchorNamesRemovedEvent
    CheckpointCountsRemovals
PROPERTIES
    ImplementsAuditLog
\* Without a policy the trail comes to rest once every request is answered.
CHECK_DEADLOCK FALSE
