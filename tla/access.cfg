SPECIFICATION Spec
CONSTANTS
    Keys = {k1}
    Limit = 2
    Window = 2
    MaxTime = 10
    Calls = {c1, c2}
    Admins = {u1}
    MaxCalls = 6
    None = None
SYMMETRY Symmetry
INVARIANTS
    TypeOK
    WindowLimit
    WaitedIsServed
PROPERTY
    RevocationIsFinal
\* The clock and the calls are bounded.
CHECK_DEADLOCK FALSE
