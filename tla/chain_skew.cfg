SPECIFICATION Spec
CONSTANTS
    Apps = {a1}
    Requests = {r1, r2, r3}
    Runs = {}
    Admins = {}
    Verifiers = {}
    DispatchModes = {"celery"}
    Policies <- OnePolicy
    MaxRetries = 1
    MaxRuns = 3
    MaxSkew = 2
    MaxNow = 2
    MaxCrashes = 0
    e1 = e1
    e2 = e2
    e3 = e3
    None = None
    Payloads <- SafetyPayloads
    Posts <- RunsPosts
INVARIANT
    NoFork
\* Without a policy the trail comes to rest once every request is answered.
CHECK_DEADLOCK FALSE
