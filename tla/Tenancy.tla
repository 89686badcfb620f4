------------------------------- MODULE Tenancy -------------------------------
(***************************************************************************)
(* Organizations, their applications, human users and memberships,         *)
(* composed: management requests, logins, and role changes by members, all *)
(* interleaved statement by statement over one database.                   *)
(***************************************************************************)
EXTENDS MembershipRoles

ASSUME NoneAssumption ==
    None \notin OrganizationRows \cup ApplicationRows \cup UserRows
                \cup MembershipRows \cup CallRecords \cup [user : Users, row : UserRows]

vars == <<organizationVars, identityVars, membershipVars>>

Init == OrganizationsInit /\ IdentityInit /\ MembershipInit

\* What the management token may do, and an operator in the database.
Manage ==
    \/ /\ \E o \in Organizations :
            \/ \E slug \in Slugs : CreateOrganization(o, slug)
            \/ \E p \in Applications, slug \in ApplicationSlugs : CreateApplication(p, o, slug)
       /\ UNCHANGED <<identityVars, membershipVars>>
    \/ /\ \E u \in Users : (\E s \in Spellings : CreateUser(u, s)) \/ Deactivate(u)
       /\ UNCHANGED <<organizationVars, membershipVars>>
    \/ /\ \E m \in Memberships, o \in Organizations, u \in Users, role \in Roles :
            BootstrapMembership(m, o, u, role)
       /\ UNCHANGED <<organizationVars, identityVars>>

\* Tokens come with a login and go with time.
Authentication ==
    /\ \/ \E l \in Logins :
            (\E s \in Spellings : Authenticate(l, s)) \/ CompleteLogin(l) \/ AbortLogin(l)
       \/ \E u \in Users : TokenExpires(u)
    /\ UNCHANGED <<organizationVars, membershipVars>>

Patch(c) == PatchStep(c) /\ UNCHANGED <<organizationVars, identityVars>>

Next == Manage \/ Authentication \/ \E c \in Calls : Patch(c)

Spec == Init /\ [][Next]_vars

-----------------------------------------------------------------------------
(* Properties                                                              *)

\* Every variable keeps its type, and rows refer to rows that exist.
TypeOK == OrganizationsTypeOK /\ IdentityTypeOK /\ MembershipTypeOK

\* The lookups that expect one row find one: an account by its address,
\* however it was typed at registration and is typed at login, a tenant and
\* its applications by their slugs, a member by organization and user.
NamesIdentifyRows ==
    /\ \A s \in Spellings : \A u, w \in Users :
        /\ u \in FoundBy(s) /\ users[w] # None /\ users[w].email.name = s.name => u = w
        /\ users[u] # None /\ users[u].email.name = s.name => u \in FoundBy(s)
    /\ \A o, q \in Organizations :
        organizations[o] # None /\ organizations[o] = organizations[q] => o = q
    /\ \A p, q \in Applications :
        applications[p] # None /\ applications[p] = applications[q] => p = q
    /\ \A o \in Organizations, u \in Users : \A m, n \in MembershipsOf(o, u) : m = n

\* A deactivated account stays so, whatever login had read it before.
DeactivationHolds ==
    [][\A u \in Users : users[u] # None /\ ~users[u].is_active
         => users'[u] # None /\ ~users'[u].is_active]_vars

\* The role of a member changes only by a PATCH whose caller was active and
\* an owner of that same organization at some moment of the call.
RoleChangesAreAuthorized ==
    [][\A m \in Memberships :
         memberships[m] # None /\ memberships'[m] # memberships[m]
         => \E c \in Calls :
              /\ UpdateRole(c)
              /\ call[c].target = m /\ call[c].organization = memberships[m].organization
              /\ call[c].was_active /\ call[c].was_owner]_vars

Owners(o) ==
    {m \in Memberships : /\ memberships[m] # None
                         /\ memberships[m].organization = o /\ memberships[m].role = "owner"}

\* An organization loses its last owner in two ways only: the last owner
\* gives the role up, or two PATCHes of the organization were in progress at
\* once, so that the caller's role is not what it was when it was read.
LastOwnerExplained ==
    [][\A o \in Organizations :
         Owners(o) # {} /\ Owners(o)' = {}
         => \E c \in Calls :
              /\ UpdateRole(c)
              /\ call[c].organization = o
              /\ call[c].target = call[c].own \/ ~call[c].alone]_vars

\* A role change that is answered with 200 was in force at some moment of the
\* call, even if the session skipped the UPDATE and whatever the answer shows.
PatchTookEffect ==
    \A c \in Calls : call[c] # None /\ call[c].phase = "refresh" => call[c].in_force
=============================================================================
