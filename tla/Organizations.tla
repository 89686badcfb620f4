---------------------------- MODULE Organizations ----------------------------
(***************************************************************************)
(* Tenants and their source applications: create_organization and          *)
(* create_application, which only the management token may call.  A row is *)
(* inserted and committed by one transaction, and no endpoint deletes one. *)
(* A refused request (401, 404, 409) changes nothing and is no step.       *)
(***************************************************************************)
EXTENDS FiniteSets

CONSTANTS
    Organizations,     \* the ids of organizations
    Applications,      \* the ids of applications
    Slugs,             \* the slugs that requests ask for, for organizations
    ApplicationSlugs,  \* and for applications
    None               \* no such row, SQL NULL

VARIABLES
    organizations,   \* id -> its row, [slug], or None
    applications     \* id -> its row, [organization, slug], or None

organizationVars == <<organizations, applications>>

OrganizationRows == [slug : Slugs]
ApplicationRows == [organization : Organizations, slug : ApplicationSlugs]

\* The type of the tenants; an application refers to one that exists.
OrganizationsTypeOK ==
    /\ organizations \in [Organizations -> OrganizationRows \cup {None}]
    /\ applications \in [Applications -> ApplicationRows \cup {None}]
    /\ \A p \in Applications :
        applications[p] # None => organizations[applications[p].organization] # None

OrganizationsInit ==
    /\ organizations = [o \in Organizations |-> None]
    /\ applications = [p \in Applications |-> None]

\* The unique index over the slugs of all organizations.
SlugTaken(slug) == \E o \in Organizations : organizations[o] = [slug |-> slug]

CreateOrganization(o, slug) ==
    /\ organizations[o] = None
    /\ ~SlugTaken(slug)
    /\ organizations' = [organizations EXCEPT ![o] = [slug |-> slug]]
    /\ UNCHANGED applications

\* Two tenants may use one slug for an application, one tenant may not.
ApplicationSlugTaken(o, slug) ==
    \E p \in Applications : applications[p] = [organization |-> o, slug |-> slug]

\* session.get(Organization), then INSERT and COMMIT.
CreateApplication(p, o, slug) ==
    /\ applications[p] = None
    /\ organizations[o] # None
    /\ ~ApplicationSlugTaken(o, slug)
    /\ applications' = [applications EXCEPT ![p] = [organization |-> o, slug |-> slug]]
    /\ UNCHANGED organizations
=============================================================================
