SPECIFICATION FairSpec
CONSTANTS
    Apps = {a1, a2}
    Requests = {r1, r2}
    Runs = {k1, k2}
    Admins = {}
    Verifiers = {}
    DispatchModes = {"inline"}
    Policies <- OnePolicy
    MaxRetries = 1
    MaxRuns = 2
    MaxSkew = 0
    MaxNow = 0
    MaxCrashes = 0
    e1 = e1
    e2 = e2
    e3 = e3
    None = None
    Payloads <- LivenessPayloads
    Posts <- LivenessPosts
PROPERTIES
    RequestsAnswered
    RunsFinish
\* Without a policy the trail comes to rest once every request is answered.
CHECK_DEADLOCK FALSE
