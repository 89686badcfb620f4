--------------------------- MODULE MembershipRoles ---------------------------
(***************************************************************************)
(* Who may do what in an organization: bootstrap_membership, which the     *)
(* management token may call, and update_membership_role behind            *)
(* get_current_user, get_current_membership and require_roles.  A PATCH is *)
(* five statements of one session, and any other request may run between   *)
(* two of them: the caller's role is read once, and the session keeps the  *)
(* objects it has loaded as they were.                                     *)
(***************************************************************************)
EXTENDS Identity

CONSTANTS
    Memberships,   \* the ids of memberships
    Roles,         \* the roles that requests ask for
    Calls          \* slots for PATCH requests in progress

ORGANIZATION_ROLES == {"owner", "administrator", "auditor", "writer"}

ASSUME RolesAssumption == Roles \subseteq ORGANIZATION_ROLES

VARIABLES
    memberships,   \* id -> its row, [organization, user, role], or None
    call           \* slot -> the PATCH in it, or None

membershipVars == <<memberships, call>>

MembershipRows == [organization : Organizations, user : Users, role : Roles]

\* A call at work.  own is the caller's membership and own_role the role that
\* its SELECT returned; target, role and loaded are known once the target is
\* read.  was_active, was_owner and in_force are histories: whether at some
\* moment of the call the caller was active, the caller was an owner of the
\* organization, and the target had the role that is asked for; alone is FALSE if
\* another PATCH of the organization was in progress at some moment of the call.
CallRecords ==
    [user : Users, organization : Organizations, phase : {"member", "target", "commit", "refresh"},
     own : Memberships \cup {None}, own_role : Roles \cup {None},
     target : Memberships \cup {None}, role : Roles \cup {None}, loaded : Roles \cup {None},
     was_active : BOOLEAN, was_owner : BOOLEAN, in_force : BOOLEAN, alone : BOOLEAN]

\* The type of memberships and calls; a membership refers to rows that exist.
MembershipTypeOK ==
    /\ memberships \in [Memberships -> MembershipRows \cup {None}]
    /\ \A m \in Memberships : memberships[m] # None =>
        /\ organizations[memberships[m].organization] # None
        /\ users[memberships[m].user] # None
    /\ call \in [Calls -> CallRecords \cup {None}]

MembershipInit ==
    /\ memberships = [m \in Memberships |-> None]
    /\ call = [c \in Calls |-> None]

-----------------------------------------------------------------------------
(* bootstrap_membership                                                    *)

MembershipsOf(o, u) ==
    {m \in Memberships : /\ memberships[m] # None
                         /\ memberships[m].organization = o /\ memberships[m].user = u}

\* Mutant: the user is not looked up.
OrganizationFound(o, u) == organizations[o] # None

\* session.get for each parent; 404 otherwise.
ParentsFound(o, u) == organizations[o] # None /\ users[u] # None

\* Both parents are looked up, then INSERT and COMMIT; uq_membership_org_user.
BootstrapMembership(m, o, u, role) ==
    /\ memberships[m] = None
    /\ ParentsFound(o, u)
    /\ MembershipsOf(o, u) = {}
    /\ memberships' = [memberships EXCEPT ![m] = [organization |-> o, user |-> u, role |-> role]]
    /\ UNCHANGED call

-----------------------------------------------------------------------------
(* update_membership_role                                                  *)

\* The calls at work on an organization, and what they see of one more.
CallsOn(o) == {c \in Calls : call[c] # None /\ call[c].organization = o}
Joined(o) ==
    [c \in Calls |-> IF c \in CallsOn(o) THEN [call[c] EXCEPT !.alone = FALSE] ELSE call[c]]

\* The token and the user's row.
ReceivePatch(c, u, o) ==
    /\ call[c] = None
    /\ get_current_user(u)
    /\ call' = [Joined(o) EXCEPT ![c] =
                    [user |-> u, organization |-> o, phase |-> "member",
                     own |-> None, own_role |-> None,
                     target |-> None, role |-> None, loaded |-> None,
                     was_active |-> users[u].is_active, was_owner |-> FALSE, in_force |-> FALSE,
                     alone |-> CallsOn(o) = {}]]
    /\ UNCHANGED memberships

EndCall(c) == call' = [call EXCEPT ![c] = None]

\* Mutant: administrators are let in as well.
OwnersAndAdministrators(role) == role \in {"owner", "administrator"}

\* require_roles("owner").
authorize(role) == role = "owner"

\* get_current_membership and require_roles: 403 ends the call.
CheckMembership(c) ==
    /\ call[c] # None /\ call[c].phase = "member"
    /\ LET own == MembershipsOf(call[c].organization, call[c].user)
       IN  \/ \E m \in own :
                /\ authorize(memberships[m].role)
                /\ call' = [call EXCEPT ![c].phase = "target", ![c].own = m,
                                        ![c].own_role = memberships[m].role,
                                        ![c].was_owner = memberships[m].role = "owner"]
           \/ /\ \A m \in own : ~authorize(memberships[m].role)
              /\ EndCall(c)
    /\ UNCHANGED memberships

\* Mutant: the SELECT does not ask for the organization.
AnyMembership(c) == {m \in Memberships : memberships[m] # None}

\* The memberships that the SELECT of the target can return.
Targets(c) ==
    {m \in Memberships :
        memberships[m] # None /\ memberships[m].organization = call[c].organization}

\* Mutant: every object is as old as the caller's.
RoleOfCaller(c, m) == call[c].own_role

\* The role of the object: a SELECT does not refresh one that the session has
\* loaded already, so the caller's own membership is still the one it read.
LoadedRole(c, m) == IF m = call[c].own THEN call[c].own_role ELSE memberships[m].role

ReadTarget(c) ==
    /\ call[c] # None /\ call[c].phase = "target"
    /\ \E m \in Targets(c), role \in Roles :
         call' = [call EXCEPT ![c].phase = "commit", ![c].target = m, ![c].role = role,
                              ![c].loaded = LoadedRole(c, m),
                              ![c].in_force = \/ memberships[m].role = role
                                              \/ m = call[c].own /\ call[c].own_role = role]
    /\ UNCHANGED memberships

\* What the calls in progress witness when the row of m gets its new role.
Witnessed(m, role) ==
    [c \in Calls |->
        IF call[c] = None THEN None
        ELSE [call[c] EXCEPT
                !.was_owner = @ \/ (m = call[c].own /\ role = "owner"),
                !.in_force = @ \/ (m = call[c].target /\ role = call[c].role)]]

\* COMMIT: an UPDATE only if the object's role has changed.
UpdateRole(c) ==
    /\ call[c] # None /\ call[c].phase = "commit"
    /\ LET m == call[c].target
           role == IF call[c].role # call[c].loaded THEN call[c].role ELSE memberships[m].role
       IN  /\ memberships' = [memberships EXCEPT ![m].role = role]
           /\ call' = [Witnessed(m, role) EXCEPT ![c].phase = "refresh"]

\* session.refresh and the answer, with the role that the row has now.
Answer(c) ==
    /\ call[c] # None /\ call[c].phase = "refresh"
    /\ EndCall(c)
    /\ UNCHANGED memberships

\* 404 for the target, or the process or the database fails: rollback.
AbortCall(c) ==
    /\ call[c] # None
    /\ EndCall(c)
    /\ UNCHANGED memberships

PatchStep(c) ==
    \/ \E u \in Users, o \in Organizations : ReceivePatch(c, u, o)
    \/ CheckMembership(c)
    \/ ReadTarget(c)
    \/ UpdateRole(c)
    \/ Answer(c)
    \/ AbortCall(c)
=============================================================================
