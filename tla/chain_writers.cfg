SPECIFICATION Spec
CONSTANTS
    Apps = {a1}
    Requests = {r1, r2}
    Runs = {k1}
    Admins = {u1}
    Verifiers = {v1}
    DispatchModes = {"inline", "celery"}
    Policies <- HoldPolicies
    MaxRetries = 1
    MaxRuns = 2
    MaxSkew = 0
    MaxNow = 0
    MaxCrashes = 0
    e1 = e1
    e2 = e2
    e3 = e3
    None = None
    Payloads <- SafetyPayloads
    Posts <- WritersPosts
SYMMETRY Symmetry
INVARIANTS
    TypeOK
    ChainLinked
    OneRowPerExternalId
    OutcomesAreTrue
    AcceptedOnce
    InvalidVerdictExplained
PROPERTIES
    DeletedCountIsTrue
    ImplementsEventService
