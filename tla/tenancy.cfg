SPECIFICATION Spec
CONSTANTS
    Organizations = {o1, o2}
    Applications = {p1}
    Slugs = {s1, s2}
    ApplicationSlugs = {t1}
    Users = {u1, u2}
    Names = {n1, n2}
    Logins = {l1}
    Memberships = {m1, m2}
    Roles <- TwoRoles
    Calls = {c1, c2}
    None = None
SYMMETRY Symmetry
INVARIANTS
    TypeOK
    NamesIdentifyRows
    PatchTookEffect
PROPERTIES
    DeactivationHolds
    RoleChangesAreAuthorized
    LastOwnerExplained
\* Once everybody is inactive nothing more can happen.
CHECK_DEADLOCK FALSE
