--------------------------- MODULE Tenancy_proofs ---------------------------
(***************************************************************************)
(* Proofs about Tenancy, for any numbers of organizations, applications,   *)
(* users, memberships, logins and calls, and any roles.                    *)
(***************************************************************************)
EXTENDS Tenancy, TLAPS

-----------------------------------------------------------------------------
(* The inductive invariant.                                                *)

\* Addresses are stored in lower case, and every unique constraint holds.
UniqueNames ==
    /\ \A u \in Users : users[u] # None => users[u].email.letters = "lower"
    /\ \A u, w \in Users :
        /\ users[u] # None /\ users[w] # None
        /\ users[u].email = users[w].email
        => u = w
    /\ \A o, q \in Organizations :
        organizations[o] # None /\ organizations[o] = organizations[q] => o = q
    /\ \A p, q \in Applications :
        applications[p] # None /\ applications[p] = applications[q] => p = q
    /\ \A m, n \in Memberships :
        /\ memberships[m] # None /\ memberships[n] # None
        /\ memberships[m].organization = memberships[n].organization
        /\ memberships[m].user = memberships[n].user
        => m = n

\* A call past its checks was let in by an owner's membership.
LetIn(c) ==
    /\ call[c].own \in Memberships /\ call[c].own_role = "owner" /\ call[c].was_owner
    /\ call[c].own_role \in Roles
    /\ memberships[call[c].own] # None
    /\ memberships[call[c].own].organization = call[c].organization

\* A call that has read its target knows a member of its organization.
Aimed(c) ==
    /\ call[c].target \in Memberships /\ call[c].role \in Roles /\ call[c].loaded \in Roles
    /\ memberships[call[c].target] # None
    /\ memberships[call[c].target].organization = call[c].organization

\* What the phase of a call says.  An UPDATE is skipped only if the role that
\* the session knows, and so was in force, is the one that is asked for.
CallOK(c) ==
    call[c] # None =>
        /\ call[c].was_active
        /\ call[c].phase # "member" => LetIn(c)
        /\ call[c].phase \in {"commit", "refresh"} => Aimed(c)
        /\ call[c].phase = "commit" /\ call[c].loaded = call[c].role => call[c].in_force
        /\ call[c].phase = "refresh" => call[c].in_force

\* No two calls on one organization believe that they are alone.
Apart ==
    \A c, d \in Calls :
        /\ c # d /\ call[c] # None /\ call[d] # None
        /\ call[c].organization = call[d].organization
        => ~call[c].alone

\* Until its commit, a call that is alone is authorised by a present owner.
InCharge(c) ==
    call[c] # None /\ call[c].phase \in {"target", "commit"} /\ call[c].alone
        => memberships[call[c].own].role = "owner"

IInv ==
    /\ TypeOK /\ UniqueNames /\ Apart
    /\ \A c \in Calls : CallOK(c) /\ InCharge(c)

-----------------------------------------------------------------------------
(* The data types.                                                         *)

\* None is no row and no call.
LEMMA NoneIsNoRow ==
    /\ None \notin OrganizationRows /\ None \notin ApplicationRows
    /\ None \notin UserRows /\ None \notin MembershipRows
    /\ None \notin CallRecords /\ None \notin [user : Users, row : UserRows]
BY NoneAssumption

\* What create_user stores is an address in lower case.
LEMMA Lowered ==
    ASSUME NEW s \in Spellings
    PROVE  lower(s) \in Spellings /\ lower(s).letters = "lower" /\ lower(s).name = s.name
BY DEF lower, Spellings

LEMMA Normalized ==
    ASSUME NEW s \in Spellings
    PROVE  /\ StoredEmail(s) \in Spellings
           /\ StoredEmail(s).letters = "lower" /\ StoredEmail(s).name = s.name
<1>1. lower(s) \in Spellings /\ lower(s).letters = "lower" /\ lower(s).name = s.name
  BY Lowered
<1> DEFINE t == lower(s)
<1>2. StoredEmail(s) = lower(t)
  BY DEF StoredEmail, normalize_email
<1> HIDE DEF t
<1>3. t \in Spellings /\ t.name = s.name
  BY <1>1 DEF t
<1> QED  BY <1>2, <1>3, Lowered

\* An address in lower case is what a login looks for under its name.
LEMMA OneSpelling ==
    ASSUME NEW s \in Spellings, NEW e \in Spellings, e.letters = "lower"
    PROVE  e = SoughtEmail(s) <=> e.name = s.name
<1>1. e = [name |-> e.name, letters |-> "lower"]
  BY DEF Spellings
<1>2. SoughtEmail(s) = [name |-> s.name, letters |-> "lower"]
  BY DEF Spellings, SoughtEmail, lower
<1> QED  BY <1>1, <1>2

\* The flush of a login writes last_login_at and keeps the other columns.
LEMMA FlushedAccount ==
    ASSUME NEW row \in UserRows, NEW loaded \in UserRows
    PROVE  LET new == Flushed(row, loaded, [loaded EXCEPT !.last_login_at = "set"])
           IN  new \in UserRows /\ new.email = row.email /\ new.is_active = row.is_active
<1> DEFINE object == [loaded EXCEPT !.last_login_at = "set"]
           new == Flushed(row, loaded, object)
           last == IF object.last_login_at # loaded.last_login_at THEN object.last_login_at
                   ELSE row.last_login_at
<1>1. DOMAIN row = {"email", "is_active", "last_login_at"}
  BY DEF UserRows
<1>2. /\ object.email = loaded.email /\ object.is_active = loaded.is_active
      /\ object.last_login_at = "set"
  BY DEF UserRows
<1>3. /\ row.email \in Spellings /\ row.is_active \in BOOLEAN
      /\ row.last_login_at \in {None, "set"}
  BY DEF UserRows
<1> HIDE DEF object
<1>4. new = [f \in {"email", "is_active", "last_login_at"} |->
                IF object[f] # loaded[f] THEN object[f] ELSE row[f]]
  BY <1>1 DEF Flushed
<1>5. new = [email |-> row.email, is_active |-> row.is_active, last_login_at |-> last]
  BY <1>2, <1>4
<1>6. last \in {None, "set"}
  BY <1>2, <1>3
<1> HIDE DEF new, last
<1>7. new \in UserRows /\ new.email = row.email /\ new.is_active = row.is_active
  BY <1>3, <1>5, <1>6 DEF UserRows
<1> QED  BY <1>7 DEF new, object

-----------------------------------------------------------------------------
(* Types.                                                                  *)

LEMMA InitType == Init => TypeOK
BY DEF Init, TypeOK, OrganizationsInit, IdentityInit, MembershipInit,
       OrganizationsTypeOK, IdentityTypeOK, MembershipTypeOK

\* Rows that refer to rows still do when these stay.
LEMMA ReferencesKept ==
    ASSUME TypeOK, UNCHANGED <<memberships, call>>,
           \A o \in Organizations : organizations[o] # None => organizations'[o] # None,
           \A u \in Users : users[u] # None => users'[u] # None
    PROVE  MembershipTypeOK'
BY DEF TypeOK, MembershipTypeOK, MembershipRows

LEMMA CreateOrganizationType ==
    ASSUME TypeOK, NEW o \in Organizations, NEW slug \in Slugs, CreateOrganization(o, slug),
           UNCHANGED <<identityVars, membershipVars>>
    PROVE  TypeOK'
<1> USE DEF CreateOrganization, identityVars, membershipVars
<1>1. [slug |-> slug] \in OrganizationRows /\ [slug |-> slug] # None
  BY NoneIsNoRow DEF OrganizationRows
<1>2. \A q \in Organizations : organizations[q] # None => organizations'[q] # None
  BY <1>1 DEF TypeOK, OrganizationsTypeOK
<1>3. OrganizationsTypeOK'
  BY <1>1, <1>2 DEF TypeOK, OrganizationsTypeOK, ApplicationRows
<1>4. IdentityTypeOK'
  BY DEF TypeOK, IdentityTypeOK
<1>5. MembershipTypeOK'
  BY <1>2, ReferencesKept
<1> QED  BY <1>3, <1>4, <1>5 DEF TypeOK

LEMMA CreateApplicationType ==
    ASSUME TypeOK, NEW p \in Applications, NEW o \in Organizations,
           NEW slug \in ApplicationSlugs,
           CreateApplication(p, o, slug), UNCHANGED <<identityVars, membershipVars>>
    PROVE  TypeOK'
<1> USE DEF CreateApplication, identityVars, membershipVars
<1>1. [organization |-> o, slug |-> slug] \in ApplicationRows
  BY DEF ApplicationRows
<1>2. OrganizationsTypeOK'
  BY <1>1 DEF TypeOK, OrganizationsTypeOK
<1>3. IdentityTypeOK'
  BY DEF TypeOK, IdentityTypeOK
<1>4. MembershipTypeOK'
  BY ReferencesKept
<1> QED  BY <1>2, <1>3, <1>4 DEF TypeOK

\* The type of accounts, tokens and logins when an account is written.
LEMMA AccountWritten ==
    ASSUME TypeOK, NEW u \in Users, NEW row \in UserRows,
           users' = [users EXCEPT ![u] = row],
           UNCHANGED <<tokens, login, organizationVars, membershipVars>>
    PROVE  TypeOK'
<1> USE DEF organizationVars, membershipVars
<1>1. row # None
  BY NoneIsNoRow
<1>2. \A w \in Users : users[w] # None => users'[w] # None
  BY <1>1 DEF TypeOK, IdentityTypeOK
<1>3. OrganizationsTypeOK'
  BY DEF TypeOK, OrganizationsTypeOK
<1>4. IdentityTypeOK'
  <2>1. users' \in [Users -> UserRows \cup {None}]
    BY DEF TypeOK, IdentityTypeOK
  <2>2. {w \in Users : users[w] # None} \subseteq {w \in Users : users'[w] # None}
    BY <1>2
  <2>3. tokens' \subseteq {w \in Users : users'[w] # None}
    BY <2>2 DEF TypeOK, IdentityTypeOK
  <2>4. login' \in [Logins -> [user : {w \in Users : users'[w] # None}, row : UserRows]
                                \cup {None}]
    BY <2>2 DEF TypeOK, IdentityTypeOK
  <2> QED  BY <2>1, <2>3, <2>4 DEF IdentityTypeOK
<1>5. MembershipTypeOK'
  BY <1>2, ReferencesKept
<1> QED  BY <1>3, <1>4, <1>5 DEF TypeOK

LEMMA CreateUserType ==
    ASSUME TypeOK, NEW u \in Users, NEW s \in Spellings, CreateUser(u, s),
           UNCHANGED <<organizationVars, membershipVars>>
    PROVE  TypeOK'
<1>1. [email |-> StoredEmail(s), is_active |-> TRUE, last_login_at |-> None] \in UserRows
  BY Normalized DEF UserRows
<1> QED  BY <1>1, AccountWritten DEF CreateUser

LEMMA DeactivateType ==
    ASSUME TypeOK, NEW u \in Users, Deactivate(u), UNCHANGED <<organizationVars, membershipVars>>
    PROVE  TypeOK'
<1>1. users[u] \in UserRows
  BY DEF TypeOK, IdentityTypeOK, Deactivate
<1>2. [users[u] EXCEPT !.is_active = FALSE] \in UserRows
  BY <1>1 DEF UserRows
<1>3. users' = [users EXCEPT ![u] = [users[u] EXCEPT !.is_active = FALSE]]
  BY DEF TypeOK, IdentityTypeOK, Deactivate
<1> QED  BY <1>2, <1>3, AccountWritten DEF Deactivate

\* A login flushes no column that another request has written.
LEMMA LoginWrites ==
    ASSUME TypeOK, Authentication
    PROVE  /\ users' \in [Users -> UserRows \cup {None}]
           /\ \A u \in Users :
                /\ users'[u] = None <=> users[u] = None
                /\ users[u] # None =>
                     /\ users'[u].email = users[u].email
                     /\ users'[u].is_active = users[u].is_active
<1>1. users \in [Users -> UserRows \cup {None}]
  BY DEF TypeOK, IdentityTypeOK
<1>2. ASSUME NEW l \in Logins, CompleteLogin(l), NEW u \in Users
      PROVE  /\ users'[u] \in UserRows \cup {None} /\ DOMAIN users' = Users
             /\ users' = [w \in Users |-> users'[w]]
             /\ users'[u] = None <=> users[u] = None
             /\ users[u] # None =>
                  /\ users'[u].email = users[u].email
                  /\ users'[u].is_active = users[u].is_active
  <2>1. PICK w \in Users, loaded \in UserRows :
            /\ w = login[l].user /\ loaded = login[l].row /\ users[w] # None
    BY <1>2 DEF CompleteLogin, TypeOK, IdentityTypeOK
  <2> DEFINE new == Flushed(users[w], loaded, [loaded EXCEPT !.last_login_at = "set"])
  <2>2. users' = [users EXCEPT ![w] = new]
    BY <1>1, <1>2, <2>1 DEF CompleteLogin
  <2>3. users[w] \in UserRows
    BY <1>1, <2>1
  <2>4. /\ new \in UserRows /\ new # None
        /\ new.email = users[w].email /\ new.is_active = users[w].is_active
    BY <2>3, FlushedAccount, NoneIsNoRow
  <2> HIDE DEF new
  <2>5. CASE u = w
    BY <1>1, <2>1, <2>2, <2>4, <2>5
  <2>6. CASE u # w
    BY <1>1, <2>2, <2>6
  <2> QED  BY <1>1, <2>2, <2>5, <2>6
<1>3. CASE users' = users
  BY <1>1, <1>3
<1>4. ASSUME NEW l \in Logins, CompleteLogin(l)
      PROVE  users' \in [Users -> UserRows \cup {None}]
  <2>1. \A u \in Users : users'[u] \in UserRows \cup {None}
    BY <1>2, <1>4
  <2>2. users' = [w \in Users |-> users'[w]] \/ Users = {}
    BY <1>2, <1>4
  <2>3. DOMAIN users' = DOMAIN users /\ users' = [w \in DOMAIN users |-> users'[w]]
    BY <1>4 DEF CompleteLogin
  <2> QED  BY <1>1, <2>1, <2>3
<1> QED  BY <1>2, <1>3, <1>4 DEF Authentication, Authenticate, AbortLogin, TokenExpires

LEMMA AuthenticationType ==
    ASSUME TypeOK, Authentication
    PROVE  TypeOK'
<1> USE DEF organizationVars, membershipVars
<1>1. UNCHANGED <<organizations, applications, memberships, call>>
  BY DEF Authentication
<1>2. /\ users' \in [Users -> UserRows \cup {None}]
      /\ \A u \in Users : users[u] # None <=> users'[u] # None
  BY LoginWrites
<1> DEFINE Stored == {u \in Users : users[u] # None}
<1>3. Stored' = Stored /\ tokens \subseteq Stored
      /\ login \in [Logins -> [user : Stored, row : UserRows] \cup {None}]
  BY <1>2 DEF TypeOK, IdentityTypeOK
<1>4. tokens' \subseteq Stored /\ login' \in [Logins -> [user : Stored, row : UserRows] \cup {None}]
  <2>1. ASSUME NEW l \in Logins, NEW s \in Spellings, Authenticate(l, s)
        PROVE  /\ tokens' \subseteq Stored
               /\ login' \in [Logins -> [user : Stored, row : UserRows] \cup {None}]
    <3>1. PICK u \in FoundBy(s) : login' = [login EXCEPT ![l] = [user |-> u, row |-> users[u]]]
      BY <2>1 DEF Authenticate
    <3>2. u \in Stored /\ users[u] \in UserRows
      BY DEF FoundBy, TypeOK, IdentityTypeOK
    <3> HIDE DEF Stored
    <3>3. [user |-> u, row |-> users[u]] \in [user : Stored, row : UserRows]
      BY <3>2
    <3> QED  BY <1>3, <2>1, <3>1, <3>3 DEF Authenticate
  <2>2. ASSUME NEW l \in Logins, CompleteLogin(l)
        PROVE  /\ tokens' \subseteq Stored
               /\ login' \in [Logins -> [user : Stored, row : UserRows] \cup {None}]
    <3>1. /\ tokens' = tokens \cup {login[l].user} \/ tokens' = tokens
          /\ login' = [login EXCEPT ![l] = None] /\ login[l] # None
      BY <2>2 DEF CompleteLogin, create_access_token
    <3> HIDE DEF Stored
    <3> QED  BY <1>3, <3>1
  <2>3. ASSUME NEW l \in Logins, AbortLogin(l)
        PROVE  /\ tokens' \subseteq Stored
               /\ login' \in [Logins -> [user : Stored, row : UserRows] \cup {None}]
    <3> HIDE DEF Stored
    <3> QED  BY <1>3, <2>3 DEF AbortLogin
  <2>4. ASSUME NEW u \in Users, TokenExpires(u)
        PROVE  /\ tokens' \subseteq Stored
               /\ login' \in [Logins -> [user : Stored, row : UserRows] \cup {None}]
    <3> HIDE DEF Stored
    <3> QED  BY <1>3, <2>4 DEF TokenExpires
  <2> HIDE DEF Stored
  <2> QED  BY <2>1, <2>2, <2>3, <2>4 DEF Authentication
<1>5. IdentityTypeOK'
  <2>1. /\ tokens' \subseteq Stored'
        /\ login' \in [Logins -> [user : Stored', row : UserRows] \cup {None}]
    BY <1>3, <1>4
  <2> QED  BY <1>2, <2>1 DEF IdentityTypeOK
<1>6. OrganizationsTypeOK'
  BY <1>1 DEF TypeOK, OrganizationsTypeOK
<1>7. MembershipTypeOK'
  BY <1>1, <1>2, ReferencesKept
<1> QED  BY <1>5, <1>6, <1>7 DEF TypeOK

\* An UPDATE writes one column, and a call remembers more of what it saw.
LEMMA UpdateRoleEffect ==
    ASSUME TypeOK, NEW c \in Calls, CallOK(c), UpdateRole(c)
    PROVE  /\ call[c] \in CallRecords /\ call[c].phase = "commit"
           /\ \E role \in Roles :
                /\ role = IF call[c].role # call[c].loaded THEN call[c].role
                          ELSE memberships[call[c].target].role
                /\ memberships' = [memberships EXCEPT
                        ![call[c].target] = [memberships[call[c].target] EXCEPT !.role = role]]
                /\ call' = [Witnessed(call[c].target, role) EXCEPT ![c].phase = "refresh"]
<1>1. call[c] \in CallRecords /\ call[c].phase = "commit"
  BY DEF UpdateRole, TypeOK, MembershipTypeOK
<1>2. Aimed(c)
  BY <1>1, NoneIsNoRow DEF CallOK
<1>3. memberships[call[c].target] \in MembershipRows
  BY <1>2 DEF Aimed, TypeOK, MembershipTypeOK
<1> DEFINE role == IF call[c].role # call[c].loaded THEN call[c].role
                   ELSE memberships[call[c].target].role
<1>4. role \in Roles
  BY <1>2, <1>3 DEF Aimed, MembershipRows
<1>5. memberships' = [memberships EXCEPT
                        ![call[c].target] = [memberships[call[c].target] EXCEPT !.role = role]]
  BY <1>2 DEF UpdateRole, Aimed, TypeOK, MembershipTypeOK
<1>6. call' = [Witnessed(call[c].target, role) EXCEPT ![c].phase = "refresh"]
  BY DEF UpdateRole
<1> QED  BY <1>1, <1>4, <1>5, <1>6

LEMMA BootstrapType ==
    ASSUME TypeOK, NEW m \in Memberships, NEW o \in Organizations, NEW u \in Users,
           NEW role \in Roles, BootstrapMembership(m, o, u, role),
           UNCHANGED <<organizationVars, identityVars>>
    PROVE  TypeOK'
<1> USE DEF BootstrapMembership, organizationVars, identityVars
<1>1. [organization |-> o, user |-> u, role |-> role] \in MembershipRows
  BY DEF MembershipRows
<1>2. MembershipTypeOK'
  BY <1>1 DEF TypeOK, MembershipTypeOK, ParentsFound
<1>3. OrganizationsTypeOK' /\ IdentityTypeOK'
  BY DEF TypeOK, OrganizationsTypeOK, IdentityTypeOK
<1> QED  BY <1>2, <1>3 DEF TypeOK

\* What a PATCH may do to the types: it writes memberships and calls.
LEMMA PatchType ==
    ASSUME IInv, NEW c \in Calls, Patch(c)
    PROVE  TypeOK'
<1> USE DEF organizationVars, identityVars
<1>1. UNCHANGED <<organizations, applications, users, tokens, login>>
  BY DEF Patch
<1>2. OrganizationsTypeOK' /\ IdentityTypeOK'
  BY <1>1 DEF IInv, TypeOK, OrganizationsTypeOK, IdentityTypeOK
<1> SUFFICES MembershipTypeOK'
  BY <1>2 DEF TypeOK
<1>3. TypeOK /\ CallOK(c)
  BY DEF IInv
<1>4. ASSUME UNCHANGED memberships, call' \in [Calls -> CallRecords \cup {None}]
      PROVE  MembershipTypeOK'
  BY <1>1, <1>3, <1>4 DEF TypeOK, MembershipTypeOK
<1>5. \A rec \in CallRecords : [call EXCEPT ![c] = rec] \in [Calls -> CallRecords \cup {None}]
  BY <1>3 DEF TypeOK, MembershipTypeOK
<1>6. CASE EndCall(c) /\ UNCHANGED memberships
  BY <1>3, <1>4, <1>6 DEF EndCall, TypeOK, MembershipTypeOK
<1>7. ASSUME NEW u \in Users, NEW o \in Organizations, ReceivePatch(c, u, o)
      PROVE  MembershipTypeOK'
  <2>1. users[u].is_active \in BOOLEAN
    BY <1>3, <1>7 DEF ReceivePatch, get_current_user, decode_access_token,
                      TypeOK, IdentityTypeOK, UserRows
  <2>2. [user |-> u, organization |-> o, phase |-> "member", own |-> None, own_role |-> None,
         target |-> None, role |-> None, loaded |-> None,
         was_active |-> users[u].is_active, was_owner |-> FALSE, in_force |-> FALSE,
         alone |-> CallsOn(o) = {}] \in CallRecords
    BY <2>1 DEF CallRecords
  <2>3. Joined(o) \in [Calls -> CallRecords \cup {None}]
    <3>1. ASSUME NEW d \in Calls
          PROVE  Joined(o)[d] \in CallRecords \cup {None}
      <4>1. CASE d \in CallsOn(o)
        <5>1. call[d] \in CallRecords
          BY <1>3, <4>1 DEF CallsOn, TypeOK, MembershipTypeOK
        <5>2. [call[d] EXCEPT !.alone = FALSE] \in CallRecords
          BY <5>1 DEF CallRecords
        <5> QED  BY <4>1, <5>2 DEF Joined
      <4>2. CASE d \notin CallsOn(o)
        BY <1>3, <4>2 DEF Joined, TypeOK, MembershipTypeOK
      <4> QED  BY <4>1, <4>2
    <3> QED  BY <3>1 DEF Joined
  <2>4. call' \in [Calls -> CallRecords \cup {None}] /\ UNCHANGED memberships
    BY <1>7, <2>2, <2>3 DEF ReceivePatch
  <2> QED  BY <1>4, <2>4
<1>8. CASE CheckMembership(c)
  <2>1. CASE EndCall(c)
    BY <1>6, <1>8, <2>1 DEF CheckMembership
  <2>2. ASSUME NEW m \in MembershipsOf(call[c].organization, call[c].user),
               authorize(memberships[m].role),
               call' = [call EXCEPT ![c].phase = "target", ![c].own = m,
                                    ![c].own_role = memberships[m].role,
                                    ![c].was_owner = memberships[m].role = "owner"]
        PROVE  MembershipTypeOK'
    <3>1. call[c] \in CallRecords
      BY <1>3, <1>8 DEF CheckMembership, TypeOK, MembershipTypeOK
    <3>2. m \in Memberships /\ memberships[m] \in MembershipRows
      BY <1>3 DEF MembershipsOf, TypeOK, MembershipTypeOK
    <3> DEFINE rec == [call[c] EXCEPT !.phase = "target", !.own = m,
                                      !.own_role = memberships[m].role,
                                      !.was_owner = memberships[m].role = "owner"]
    <3>3. rec \in CallRecords
      BY <3>1, <3>2 DEF CallRecords, MembershipRows
    <3>4. call' = [call EXCEPT ![c] = rec]
      BY <1>3, <2>2 DEF TypeOK, MembershipTypeOK
    <3>5. UNCHANGED memberships
      BY <1>8 DEF CheckMembership
    <3> HIDE DEF rec
    <3> QED  BY <1>4, <1>5, <3>3, <3>4, <3>5
  <2> QED  BY <1>8, <2>1, <2>2 DEF CheckMembership
<1>9. CASE ReadTarget(c)
  <2>1. PICK m \in Targets(c), role \in Roles :
            call' = [call EXCEPT ![c].phase = "commit", ![c].target = m, ![c].role = role,
                                 ![c].loaded = LoadedRole(c, m),
                                 ![c].in_force = \/ memberships[m].role = role
                                                 \/ m = call[c].own /\ call[c].own_role = role]
    BY <1>9 DEF ReadTarget
  <2>2. call[c] \in CallRecords
    BY <1>3, <1>9 DEF ReadTarget, TypeOK, MembershipTypeOK
  <2>3. m \in Memberships /\ memberships[m] \in MembershipRows
    BY <1>3 DEF Targets, TypeOK, MembershipTypeOK
  <2>4. LoadedRole(c, m) \in Roles \cup {None}
    BY <2>2, <2>3 DEF LoadedRole, CallRecords, MembershipRows
  <2> DEFINE seen == \/ memberships[m].role = role
                     \/ m = call[c].own /\ call[c].own_role = role
             rec == [call[c] EXCEPT !.phase = "commit", !.target = m, !.role = role,
                                    !.loaded = LoadedRole(c, m), !.in_force = seen]
  <2>5. seen \in BOOLEAN
    OBVIOUS
  <2>6. call' = [call EXCEPT ![c] = rec]
    BY <1>3, <2>1 DEF TypeOK, MembershipTypeOK
  <2>7. rec \in CallRecords
    <3> HIDE DEF seen
    <3> QED  BY <2>2, <2>3, <2>4, <2>5 DEF CallRecords
  <2> HIDE DEF rec
  <2> QED  BY <1>4, <1>5, <1>9, <2>6, <2>7 DEF ReadTarget
<1>10. CASE UpdateRole(c)
  <2>1. PICK role \in Roles :
          /\ memberships' = [memberships EXCEPT
                 ![call[c].target] = [memberships[call[c].target] EXCEPT !.role = role]]
          /\ call' = [Witnessed(call[c].target, role) EXCEPT ![c].phase = "refresh"]
    BY <1>3, <1>10, UpdateRoleEffect
  <2>2. call[c].target \in Memberships /\ memberships[call[c].target] \in MembershipRows
    BY <1>3, <1>10, UpdateRoleEffect, NoneIsNoRow DEF CallOK, Aimed, TypeOK, MembershipTypeOK
  <2>3. [memberships[call[c].target] EXCEPT !.role = role] \in MembershipRows
    BY <2>2 DEF MembershipRows
  <2>4. /\ memberships' \in [Memberships -> MembershipRows \cup {None}]
        /\ \A m \in Memberships : memberships'[m] # None =>
              /\ organizations[memberships'[m].organization] # None
              /\ users[memberships'[m].user] # None
    BY <1>3, <2>1, <2>2, <2>3, NoneIsNoRow DEF TypeOK, MembershipTypeOK, MembershipRows
  <2>5. ASSUME NEW d \in Calls, call[d] # None
        PROVE  Witnessed(call[c].target, role)[d] \in CallRecords
    <3>1. call[d] \in CallRecords
      BY <1>3, <2>5 DEF TypeOK, MembershipTypeOK
    <3>2. \A a, b \in BOOLEAN : [call[d] EXCEPT !.was_owner = a, !.in_force = b] \in CallRecords
      BY <3>1 DEF CallRecords
    <3> DEFINE a == call[d].was_owner \/ (call[c].target = call[d].own /\ role = "owner")
               b == call[d].in_force \/ (call[c].target = call[d].target /\ role = call[d].role)
    <3>3. a \in BOOLEAN /\ b \in BOOLEAN
      OBVIOUS
    <3>4. Witnessed(call[c].target, role)[d] = [call[d] EXCEPT !.was_owner = a, !.in_force = b]
      BY <2>5 DEF Witnessed
    <3> HIDE DEF a, b
    <3> QED  BY <3>2, <3>3, <3>4
  <2>6. call[c] # None
    BY <1>10 DEF UpdateRole
  <2>7. [Witnessed(call[c].target, role)[c] EXCEPT !.phase = "refresh"] \in CallRecords
    BY <2>5, <2>6 DEF CallRecords
  <2>8. call' \in [Calls -> CallRecords \cup {None}]
    BY <2>1, <2>5, <2>7 DEF Witnessed
  <2> QED  BY <1>1, <2>4, <2>8 DEF MembershipTypeOK
<1>11. CASE Answer(c) \/ AbortCall(c)
  BY <1>6, <1>11 DEF Answer, AbortCall
<1> QED  BY <1>7, <1>8, <1>9, <1>10, <1>11 DEF Patch, PatchStep

-----------------------------------------------------------------------------
(* What steps leave alone.                                                 *)

\* A PATCH writes roles and nothing else, and only when it commits.
LEMMA PatchKeepsMembers ==
    ASSUME IInv, NEW c \in Calls, Patch(c), NEW m \in Memberships
    PROVE  /\ memberships'[m] = None <=> memberships[m] = None
           /\ memberships[m] # None =>
                /\ memberships'[m].organization = memberships[m].organization
                /\ memberships'[m].user = memberships[m].user
           /\ memberships'[m] # memberships[m] => UpdateRole(c) /\ m = call[c].target
<1>1. TypeOK /\ CallOK(c)
  BY DEF IInv
<1>2. CASE UpdateRole(c)
  <2>1. PICK role \in Roles :
          memberships' = [memberships EXCEPT
              ![call[c].target] = [memberships[call[c].target] EXCEPT !.role = role]]
    BY <1>1, <1>2, UpdateRoleEffect
  <2>2. call[c].target \in Memberships /\ memberships[call[c].target] \in MembershipRows
    BY <1>1, <1>2, UpdateRoleEffect, NoneIsNoRow DEF CallOK, Aimed, TypeOK, MembershipTypeOK
  <2>3. [memberships[call[c].target] EXCEPT !.role = role] \in MembershipRows
    BY <2>2 DEF MembershipRows
  <2>4. /\ [memberships[call[c].target] EXCEPT !.role = role].organization
              = memberships[call[c].target].organization
        /\ [memberships[call[c].target] EXCEPT !.role = role].user
              = memberships[call[c].target].user
    BY <2>2 DEF MembershipRows
  <2>5. CASE m = call[c].target
    BY <1>1, <1>2, <2>1, <2>2, <2>3, <2>4, <2>5, NoneIsNoRow DEF TypeOK, MembershipTypeOK
  <2>6. CASE m # call[c].target
    BY <1>1, <2>1, <2>6 DEF TypeOK, MembershipTypeOK
  <2> QED  BY <2>5, <2>6
<1>3. CASE ~UpdateRole(c)
  BY <1>3 DEF Patch, PatchStep, ReceivePatch, CheckMembership, ReadTarget, Answer, AbortCall
<1> QED  BY <1>2, <1>3

\* A membership that exists goes on to exist, for its organization.
LEMMA MembersStay ==
    ASSUME IInv, [Next]_vars, NEW m \in Memberships, memberships[m] # None
    PROVE  memberships'[m] # None /\ memberships'[m].organization = memberships[m].organization
<1>1. CASE UNCHANGED memberships
  BY <1>1
<1>2. ASSUME NEW n \in Memberships, NEW o \in Organizations, NEW u \in Users, NEW role \in Roles,
             BootstrapMembership(n, o, u, role)
      PROVE  memberships'[m] = memberships[m]
  BY <1>2 DEF BootstrapMembership, IInv, TypeOK, MembershipTypeOK
<1>3. ASSUME NEW c \in Calls, Patch(c)
      PROVE  memberships'[m] # None /\ memberships'[m].organization = memberships[m].organization
  BY <1>3, PatchKeepsMembers
<1> QED
  BY <1>1, <1>2, <1>3 DEF Next, Manage, Authentication, vars, membershipVars

-----------------------------------------------------------------------------
(* Names.                                                                  *)

LEMMA NamesStep ==
    ASSUME IInv, [Next]_vars
    PROVE  UniqueNames'
<1> USE DEF organizationVars, identityVars, membershipVars
<1>1. TypeOK /\ UniqueNames
  BY DEF IInv
<1>2. ASSUME NEW o \in Organizations, NEW slug \in Slugs, CreateOrganization(o, slug),
             UNCHANGED <<identityVars, membershipVars>>
      PROVE  UniqueNames'
  <2>1. \A q \in Organizations :
          organizations'[q] = IF q = o THEN [slug |-> slug] ELSE organizations[q]
    BY <1>1, <1>2 DEF CreateOrganization, TypeOK, OrganizationsTypeOK
  <2>2. \A q \in Organizations : organizations[q] # [slug |-> slug]
    BY <1>2 DEF CreateOrganization, SlugTaken
  <2> QED  BY <1>1, <1>2, <2>1, <2>2 DEF UniqueNames, CreateOrganization
<1>3. ASSUME NEW p \in Applications, NEW o \in Organizations,
             NEW slug \in ApplicationSlugs,
             CreateApplication(p, o, slug), UNCHANGED <<identityVars, membershipVars>>
      PROVE  UniqueNames'
  <2>1. \A q \in Applications :
          applications'[q] = IF q = p THEN [organization |-> o, slug |-> slug] ELSE applications[q]
    BY <1>1, <1>3 DEF CreateApplication, TypeOK, OrganizationsTypeOK
  <2>2. \A q \in Applications : applications[q] # [organization |-> o, slug |-> slug]
    BY <1>3 DEF CreateApplication, ApplicationSlugTaken
  <2> QED  BY <1>1, <1>3, <2>1, <2>2 DEF UniqueNames, CreateApplication
<1>4. ASSUME NEW u \in Users, NEW s \in Spellings, CreateUser(u, s),
             UNCHANGED <<organizationVars, membershipVars>>
      PROVE  UniqueNames'
  <2>1. \A w \in Users :
          users'[w] = IF w = u THEN [email |-> StoredEmail(s), is_active |-> TRUE,
                                     last_login_at |-> None]
                      ELSE users[w]
    BY <1>1, <1>4 DEF CreateUser, TypeOK, IdentityTypeOK
  <2>2. \A w \in Users : users[w] # None => users[w].email # StoredEmail(s)
    BY <1>4 DEF CreateUser, EmailTaken
  <2>3. StoredEmail(s).letters = "lower"
    BY Normalized
  <2> QED  BY <1>1, <1>4, <2>1, <2>2, <2>3 DEF UniqueNames, CreateUser
<1>5. ASSUME NEW u \in Users, Deactivate(u), UNCHANGED <<organizationVars, membershipVars>>
      PROVE  UniqueNames'
  <2>1. users[u] \in UserRows /\ users[u] # None
    BY <1>1, <1>5 DEF Deactivate, TypeOK, IdentityTypeOK
  <2>2. [users[u] EXCEPT !.is_active = FALSE].email = users[u].email
    BY <2>1 DEF UserRows
  <2>3. \A w \in Users :
          users'[w] = IF w = u THEN [users[u] EXCEPT !.is_active = FALSE] ELSE users[w]
    BY <1>1, <1>5 DEF Deactivate, TypeOK, IdentityTypeOK
  <2>4. \A w \in Users : users'[w] # None => users[w] # None /\ users'[w].email = users[w].email
    BY <2>1, <2>2, <2>3
  <2> QED  BY <1>1, <1>5, <2>4 DEF UniqueNames
<1>6. ASSUME NEW m \in Memberships, NEW o \in Organizations, NEW u \in Users, NEW role \in Roles,
             BootstrapMembership(m, o, u, role), UNCHANGED <<organizationVars, identityVars>>
      PROVE  UniqueNames'
  <2>1. \A n \in Memberships :
          memberships'[n] = IF n = m THEN [organization |-> o, user |-> u, role |-> role]
                            ELSE memberships[n]
    BY <1>1, <1>6 DEF BootstrapMembership, TypeOK, MembershipTypeOK
  <2>2. \A n \in Memberships :
          memberships[n] # None => memberships[n].organization # o \/ memberships[n].user # u
    BY <1>6 DEF BootstrapMembership, MembershipsOf
  <2> QED  BY <1>1, <1>6, <2>1, <2>2 DEF UniqueNames
<1>7. CASE Authentication
  <2>1. \A u \in Users : users'[u] # None => users[u] # None /\ users'[u].email = users[u].email
    BY <1>1, <1>7, LoginWrites
  <2>2. UNCHANGED <<organizations, applications, memberships>>
    BY <1>7 DEF Authentication
  <2> QED  BY <1>1, <2>1, <2>2 DEF UniqueNames
<1>8. ASSUME NEW c \in Calls, Patch(c)
      PROVE  UniqueNames'
  <2>1. \A m \in Memberships : memberships'[m] # None =>
          /\ memberships[m] # None
          /\ memberships'[m].organization = memberships[m].organization
          /\ memberships'[m].user = memberships[m].user
    BY <1>8, PatchKeepsMembers
  <2> QED  BY <1>1, <1>8, <2>1 DEF UniqueNames, Patch
<1>9. CASE UNCHANGED vars
  BY <1>1, <1>9 DEF UniqueNames, vars
<1> QED
  BY <1>2, <1>3, <1>4, <1>5, <1>6, <1>7, <1>8, <1>9 DEF Next, Manage

-----------------------------------------------------------------------------
(* Calls.                                                                  *)

\* A call that a step leaves alone, but for the company it has, is as good as
\* it was.
LEMMA CallKept ==
    ASSUME IInv, [Next]_vars, NEW c \in Calls,
           \/ call'[c] = call[c]
           \/ call[c] # None /\ call'[c] = [call[c] EXCEPT !.alone = FALSE]
    PROVE  CallOK(c)'
<1>1. CallOK(c) /\ TypeOK
  BY DEF IInv
<1>2. CASE call[c] = None
  BY <1>2 DEF CallOK
<1>3. CASE call[c] # None
  <2>1. call[c] \in CallRecords
    BY <1>1, <1>3 DEF TypeOK, MembershipTypeOK
  <2>2. /\ call'[c].own = call[c].own /\ call'[c].own_role = call[c].own_role
        /\ call'[c].organization = call[c].organization /\ call'[c].phase = call[c].phase
        /\ call'[c].target = call[c].target /\ call'[c].role = call[c].role
        /\ call'[c].loaded = call[c].loaded /\ call'[c].was_active = call[c].was_active
        /\ call'[c].was_owner = call[c].was_owner /\ call'[c].in_force = call[c].in_force
    BY <2>1 DEF CallRecords
  <2>3. LetIn(c) => LetIn(c)'
    BY <2>2, MembersStay DEF LetIn
  <2>4. Aimed(c) => Aimed(c)'
    BY <2>2, MembersStay DEF Aimed
  <2> QED  BY <1>1, <1>3, <2>2, <2>3, <2>4 DEF CallOK
<1> QED  BY <1>2, <1>3

\* The UPDATE of d moves d on and adds to what every call has witnessed.
LEMMA WitnessedFields ==
    ASSUME IInv, NEW d \in Calls, UpdateRole(d), NEW c \in Calls, call[c] # None
    PROVE  /\ call'[c].own = call[c].own /\ call'[c].own_role = call[c].own_role
           /\ call'[c].organization = call[c].organization /\ call'[c].alone = call[c].alone
           /\ call'[c].target = call[c].target /\ call'[c].role = call[c].role
           /\ call'[c].loaded = call[c].loaded /\ call'[c].was_active = call[c].was_active
           /\ call[c].was_owner => call'[c].was_owner
           /\ call[c].in_force => call'[c].in_force
           /\ c # d => call'[c].phase = call[c].phase
           /\ c = d => call'[c].phase = "refresh" /\ call'[c].in_force
<1>1. TypeOK /\ CallOK(d)
  BY DEF IInv
<1>2. PICK role \in Roles :
        /\ role = IF call[d].role # call[d].loaded THEN call[d].role
                  ELSE memberships[call[d].target].role
        /\ call' = [Witnessed(call[d].target, role) EXCEPT ![d].phase = "refresh"]
  BY <1>1, UpdateRoleEffect
<1>3. call[c] \in CallRecords
  BY <1>1 DEF TypeOK, MembershipTypeOK
<1> DEFINE owner == call[c].was_owner \/ (call[d].target = call[c].own /\ role = "owner")
           force == call[c].in_force \/ (call[d].target = call[c].target /\ role = call[c].role)
           rec == [call[c] EXCEPT !.was_owner = owner, !.in_force = force]
<1>4. Witnessed(call[d].target, role)[c] = rec
  BY DEF Witnessed
<1>5. /\ rec.own = call[c].own /\ rec.own_role = call[c].own_role
      /\ rec.organization = call[c].organization /\ rec.alone = call[c].alone
      /\ rec.target = call[c].target /\ rec.role = call[c].role
      /\ rec.loaded = call[c].loaded /\ rec.was_active = call[c].was_active
      /\ rec.phase = call[c].phase
      /\ rec.was_owner = owner /\ rec.in_force = force
      /\ rec = [rec EXCEPT !.phase = call[c].phase]
  <2> HIDE DEF owner, force
  <2> QED  BY <1>3 DEF CallRecords
<1>6. CASE c # d
  <2>1. call'[c] = rec
    BY <1>2, <1>4, <1>6 DEF Witnessed
  <2> HIDE DEF rec
  <2> QED  BY <1>5, <1>6, <2>1
<1>7. CASE c = d
  <2>1. call'[c] = [rec EXCEPT !.phase = "refresh"]
    BY <1>2, <1>4, <1>7 DEF Witnessed
  <2>2. force
    <3>1. call[c].phase = "commit"
      BY <1>7 DEF UpdateRole
    <3>2. CASE call[c].role # call[c].loaded
      BY <1>2, <1>7, <3>2
    <3>3. CASE call[c].role = call[c].loaded
      BY <1>1, <1>7, <3>1, <3>3 DEF CallOK
    <3> QED  BY <3>2, <3>3
  <2>3. LET new == [rec EXCEPT !.phase = "refresh"]
        IN  /\ new.own = rec.own /\ new.own_role = rec.own_role
            /\ new.organization = rec.organization /\ new.alone = rec.alone
            /\ new.target = rec.target /\ new.role = rec.role
            /\ new.loaded = rec.loaded /\ new.was_active = rec.was_active
            /\ new.was_owner = rec.was_owner /\ new.in_force = rec.in_force
            /\ new.phase = "refresh"
    <3> HIDE DEF owner, force
    <3> QED  BY <1>3 DEF CallRecords
  <2> HIDE DEF rec
  <2> QED  BY <1>5, <1>7, <2>1, <2>2, <2>3
<1> QED  BY <1>6, <1>7

\* The steps of a call establish what its next phase says.
LEMMA PatchKeepsCall ==
    ASSUME IInv, [Next]_vars, NEW c \in Calls, Patch(c)
    PROVE  CallOK(c)'
<1>1. TypeOK /\ CallOK(c)
  BY DEF IInv
<1>2. call \in [Calls -> CallRecords \cup {None}]
  BY <1>1 DEF TypeOK, MembershipTypeOK
<1>3. ASSUME NEW u \in Users, NEW o \in Organizations, ReceivePatch(c, u, o)
      PROVE  CallOK(c)'
  <2>1. call'[c].was_active = users[u].is_active /\ call'[c].phase = "member"
    BY <1>2, <1>3 DEF ReceivePatch, Joined
  <2> QED  BY <1>3, <2>1 DEF CallOK, ReceivePatch, get_current_user
<1>4. CASE EndCall(c)
  BY <1>2, <1>4 DEF EndCall, CallOK
<1>5. CASE CheckMembership(c) /\ ~EndCall(c)
  <2>1. PICK m \in MembershipsOf(call[c].organization, call[c].user) :
          /\ authorize(memberships[m].role)
          /\ call' = [call EXCEPT ![c].phase = "target", ![c].own = m,
                                  ![c].own_role = memberships[m].role,
                                  ![c].was_owner = memberships[m].role = "owner"]
    BY <1>5 DEF CheckMembership
  <2>2. call[c] \in CallRecords /\ call[c] # None /\ memberships' = memberships
    BY <1>2, <1>5 DEF CheckMembership
  <2>3. /\ m \in Memberships /\ memberships[m] # None
        /\ memberships[m].organization = call[c].organization
        /\ memberships[m].role = "owner" /\ memberships[m].role \in Roles
    BY <1>1, <2>1 DEF MembershipsOf, authorize, TypeOK, MembershipTypeOK, MembershipRows
  <2>4. /\ call'[c].phase = "target" /\ call'[c].own = m /\ call'[c].own_role = "owner"
        /\ call'[c].own_role \in Roles
        /\ call'[c].was_owner /\ call'[c].was_active = call[c].was_active
        /\ call'[c].organization = call[c].organization
    BY <1>2, <2>1, <2>2, <2>3 DEF CallRecords
  <2>5. LetIn(c)'
    BY <2>2, <2>3, <2>4 DEF LetIn
  <2> QED  BY <1>1, <2>2, <2>4, <2>5 DEF CallOK
<1>6. CASE ReadTarget(c)
  <2>1. PICK m \in Targets(c), role \in Roles :
            call' = [call EXCEPT ![c].phase = "commit", ![c].target = m, ![c].role = role,
                                 ![c].loaded = LoadedRole(c, m),
                                 ![c].in_force = \/ memberships[m].role = role
                                                 \/ m = call[c].own /\ call[c].own_role = role]
    BY <1>6 DEF ReadTarget
  <2>2. /\ call[c] \in CallRecords /\ call[c] # None /\ memberships' = memberships
        /\ call[c].phase = "target"
    BY <1>2, <1>6 DEF ReadTarget
  <2>3. /\ m \in Memberships /\ memberships[m] # None
        /\ memberships[m].organization = call[c].organization
    BY DEF Targets
  <2>4. memberships[m] \in MembershipRows
    BY <1>1, <2>3 DEF TypeOK, MembershipTypeOK
  <2> DEFINE seen == \/ memberships[m].role = role
                     \/ m = call[c].own /\ call[c].own_role = role
  <2>5. /\ call'[c].phase = "commit" /\ call'[c].target = m /\ call'[c].role = role
        /\ call'[c].loaded = LoadedRole(c, m) /\ call'[c].in_force = seen
        /\ call'[c].was_active = call[c].was_active /\ call'[c].was_owner = call[c].was_owner
        /\ call'[c].organization = call[c].organization
        /\ call'[c].own = call[c].own /\ call'[c].own_role = call[c].own_role
    <3>1. call' = [call EXCEPT ![c] =
             [call[c] EXCEPT !.phase = "commit", !.target = m, !.role = role,
                             !.loaded = LoadedRole(c, m), !.in_force = seen]]
      BY <1>2, <2>1
    <3> HIDE DEF seen
    <3> QED  BY <1>2, <2>2, <3>1 DEF CallRecords
  <2>6. LetIn(c)
    BY <1>1, <2>2 DEF CallOK
  <2>7. LoadedRole(c, m) \in Roles
    <3>1. CASE m = call[c].own
      BY <2>6, <3>1 DEF LoadedRole, LetIn
    <3>2. CASE m # call[c].own
      BY <2>4, <3>2 DEF LoadedRole, MembershipRows
    <3> QED  BY <3>1, <3>2
  <2>8. LetIn(c)'
    BY <2>2, <2>5, <2>6 DEF LetIn
  <2>9. Aimed(c)'
    BY <2>2, <2>3, <2>5, <2>7 DEF Aimed
  <2>10. call'[c].loaded = call'[c].role => call'[c].in_force
    BY <2>5 DEF LoadedRole
  <2>11. call'[c].was_active
    BY <1>1, <2>2, <2>5 DEF CallOK
  <2>12. call'[c].phase # "refresh"
    BY <2>5
  <2> HIDE DEF seen
  <2> QED  BY <2>8, <2>9, <2>10, <2>11, <2>12 DEF CallOK
<1>7. CASE UpdateRole(c)
  <2>1. call[c] # None /\ call[c].phase = "commit"
    BY <1>7 DEF UpdateRole
  <2>2. LetIn(c) /\ Aimed(c) /\ call[c].was_active
    BY <1>1, <2>1 DEF CallOK
  <2>3. LetIn(c)'
    BY <1>7, <2>1, <2>2, WitnessedFields, MembersStay DEF LetIn
  <2>4. Aimed(c)'
    BY <1>7, <2>1, <2>2, WitnessedFields, MembersStay DEF Aimed
  <2>5. call'[c].was_active /\ call'[c].phase = "refresh" /\ call'[c].in_force
    BY <1>7, <2>1, <2>2, WitnessedFields
  <2> QED  BY <2>3, <2>4, <2>5 DEF CallOK
<1> QED
  BY <1>3, <1>4, <1>5, <1>6, <1>7 DEF Patch, PatchStep, Answer, AbortCall

LEMMA CallsStep ==
    ASSUME IInv, [Next]_vars, NEW c \in Calls
    PROVE  CallOK(c)'
<1>1. CASE UNCHANGED call
  BY <1>1, CallKept
<1>2. CASE Patch(c)
  BY <1>2, PatchKeepsCall
<1>3. ASSUME NEW d \in Calls, Patch(d), d # c
      PROVE  CallOK(c)'
  <2>1. CASE UpdateRole(d)
    <3>1. CASE call[c] = None
      <4>1. call'[c] = None
        BY <1>3, <2>1, <3>1 DEF UpdateRole, Witnessed
      <4> QED  BY <4>1 DEF CallOK
    <3>2. CASE call[c] # None
      <4>1. CallOK(c)
        BY DEF IInv
      <4>2. LetIn(c) => LetIn(c)'
        BY <2>1, <3>2, WitnessedFields, MembersStay DEF LetIn
      <4>3. Aimed(c) => Aimed(c)'
        BY <2>1, <3>2, WitnessedFields, MembersStay DEF Aimed
      <4>4. call'[c].phase = call[c].phase
        BY <1>3, <2>1, <3>2, WitnessedFields
      <4> QED  BY <2>1, <3>2, <4>1, <4>2, <4>3, <4>4, WitnessedFields DEF CallOK
    <3> QED  BY <3>1, <3>2
  <2>2. ASSUME NEW u \in Users, NEW o \in Organizations, ReceivePatch(d, u, o)
        PROVE  CallOK(c)'
    <3>1. call'[c] = Joined(o)[c]
      BY <1>3, <2>2 DEF ReceivePatch, Joined
    <3>2. \/ call'[c] = call[c]
          \/ call[c] # None /\ call'[c] = [call[c] EXCEPT !.alone = FALSE]
      BY <3>1 DEF Joined, CallsOn
    <3> QED  BY <3>2, CallKept
  <2>3. CASE CheckMembership(d) \/ ReadTarget(d) \/ EndCall(d)
    <3>1. call'[c] = call[c]
      BY <1>3, <2>3 DEF CheckMembership, ReadTarget, EndCall, IInv, TypeOK, MembershipTypeOK
    <3> QED  BY <3>1, CallKept
  <2> QED  BY <1>3, <2>1, <2>2, <2>3 DEF Patch, PatchStep, Answer, AbortCall
<1> QED
  BY <1>1, <1>2, <1>3
     DEF Next, Manage, BootstrapMembership, Authentication, membershipVars, vars

\* Which call changes a membership that exists.
LEMMA ChangedByUpdate ==
    ASSUME IInv, Next, NEW m \in Memberships, memberships[m] # None,
           memberships'[m] # memberships[m]
    PROVE  \E c \in Calls :
              UpdateRole(c) /\ call[c].target = m /\ LetIn(c) /\ Aimed(c) /\ call[c].was_active
<1>1. ASSUME NEW n \in Memberships, NEW o \in Organizations, NEW u \in Users, NEW role \in Roles,
             BootstrapMembership(n, o, u, role)
      PROVE  FALSE
  BY <1>1 DEF BootstrapMembership, IInv, TypeOK, MembershipTypeOK
<1>2. PICK c \in Calls : Patch(c)
  BY <1>1 DEF Next, Manage, Authentication, membershipVars
<1>3. UpdateRole(c) /\ m = call[c].target
  BY <1>2, PatchKeepsMembers
<1>4. LetIn(c) /\ Aimed(c) /\ call[c].was_active
  BY <1>3 DEF UpdateRole, CallOK, IInv
<1> QED  BY <1>3, <1>4

\* What the steps of a call and of others do to its company: one that has
\* begun names its organization for good and is alone no more than it was.
LEMMA CompanyKept ==
    ASSUME IInv, [Next]_vars, NEW c \in Calls, call'[c] # None,
           ~\E u \in Users, o \in Organizations : ReceivePatch(c, u, o)
    PROVE  /\ call[c] # None /\ call'[c].organization = call[c].organization
           /\ call'[c].alone => call[c].alone
<1>1. TypeOK /\ call \in [Calls -> CallRecords \cup {None}]
  BY DEF IInv, TypeOK, MembershipTypeOK
<1>2. CASE call'[c] = call[c]
  BY <1>2
<1>3. ASSUME NEW d \in Calls, NEW u \in Users, NEW o \in Organizations, ReceivePatch(d, u, o)
      PROVE  /\ call[c] # None /\ call'[c].organization = call[c].organization
             /\ call'[c].alone => call[c].alone
  <2>1. c # d
    BY <1>3
  <2>2. call'[c] = Joined(o)[c]
    BY <1>3, <2>1 DEF ReceivePatch, Joined
  <2>3. CASE c \in CallsOn(o)
    <3>1. call[c] \in CallRecords /\ call[c] # None
      BY <1>1, <2>3 DEF CallsOn
    <3>2. call'[c] = [call[c] EXCEPT !.alone = FALSE]
      BY <2>2, <2>3 DEF Joined
    <3> QED  BY <3>1, <3>2 DEF CallRecords
  <2>4. CASE c \notin CallsOn(o)
    BY <1>2, <2>2, <2>4 DEF Joined
  <2> QED  BY <2>3, <2>4
<1>4. ASSUME NEW d \in Calls, UpdateRole(d)
      PROVE  /\ call[c] # None /\ call'[c].organization = call[c].organization
             /\ call'[c].alone => call[c].alone
  <2>1. call[c] # None
    BY <1>1, <1>4 DEF UpdateRole, Witnessed
  <2> QED  BY <1>4, <2>1, WitnessedFields
<1>5. ASSUME NEW d \in Calls, CheckMembership(d) \/ ReadTarget(d) \/ EndCall(d)
      PROVE  /\ call[c] # None /\ call'[c].organization = call[c].organization
             /\ call'[c].alone => call[c].alone
  <2>1. CASE c # d
    BY <1>1, <1>2, <1>5, <2>1 DEF CheckMembership, ReadTarget, EndCall
  <2>2. CASE c = d
    <3>1. ~EndCall(c)
      BY <1>1 DEF EndCall
    <3>2. call[c] \in CallRecords /\ call[c] # None
      BY <1>1, <1>5, <2>2, <3>1 DEF CheckMembership, ReadTarget
    <3>3. CASE CheckMembership(c)
      <4>1. PICK m \in MembershipsOf(call[c].organization, call[c].user) :
              call' = [call EXCEPT ![c].phase = "target", ![c].own = m,
                                   ![c].own_role = memberships[m].role,
                                   ![c].was_owner = memberships[m].role = "owner"]
        BY <3>1, <3>3 DEF CheckMembership
      <4> QED  BY <1>1, <3>2, <4>1 DEF CallRecords
    <3>4. CASE ReadTarget(c)
      <4>1. PICK m \in Targets(c), role \in Roles :
              call' = [call EXCEPT ![c].phase = "commit", ![c].target = m, ![c].role = role,
                                   ![c].loaded = LoadedRole(c, m),
                                   ![c].in_force = \/ memberships[m].role = role
                                                   \/ m = call[c].own /\ call[c].own_role = role]
        BY <3>4 DEF ReadTarget
      <4> QED  BY <1>1, <3>2, <4>1 DEF CallRecords
    <3> QED  BY <1>1, <1>5, <2>2, <3>3, <3>4 DEF EndCall
  <2> QED  BY <2>1, <2>2
<1> QED
  BY <1>2, <1>3, <1>4, <1>5
     DEF Next, Manage, BootstrapMembership, Authentication, Patch, PatchStep, Answer, AbortCall,
         membershipVars, vars

LEMMA ApartStep ==
    ASSUME IInv, [Next]_vars
    PROVE  Apart'
<1> SUFFICES ASSUME NEW c \in Calls, NEW d \in Calls, c # d, call'[c] # None, call'[d] # None,
                    call'[c].organization = call'[d].organization, call'[c].alone
             PROVE  FALSE
  BY DEF Apart
<1>1. Apart /\ call \in [Calls -> CallRecords \cup {None}]
  BY DEF IInv, TypeOK, MembershipTypeOK
<1>2. ASSUME NEW u \in Users, NEW o \in Organizations, ReceivePatch(c, u, o)
      PROVE  FALSE
  <2>1. call'[c].organization = o /\ (call'[c].alone => CallsOn(o) = {})
    BY <1>1, <1>2 DEF ReceivePatch, Joined
  <2>2. ~\E w \in Users, q \in Organizations : ReceivePatch(d, w, q)
    BY <1>1, <1>2 DEF ReceivePatch, Joined
  <2>3. call[d] # None /\ call[d].organization = o
    BY <2>1, <2>2, CompanyKept
  <2> QED  BY <2>1, <2>3 DEF CallsOn
<1>3. ASSUME NEW u \in Users, NEW o \in Organizations, ReceivePatch(d, u, o)
      PROVE  FALSE
  <2>1. call'[d].organization = o /\ call'[c] = Joined(o)[c] /\ call[d] = None
    BY <1>1, <1>3 DEF ReceivePatch, Joined
  <2>2. ~\E w \in Users, q \in Organizations : ReceivePatch(c, w, q)
    BY <1>2
  <2>3. call[c] # None /\ call[c].organization = o
    BY <2>1, <2>2, CompanyKept
  <2>4. call'[c] = [call[c] EXCEPT !.alone = FALSE] /\ call[c] \in CallRecords
    BY <1>1, <2>1, <2>3 DEF Joined, CallsOn
  <2> QED  BY <2>4 DEF CallRecords
<1>4. CASE ~\E w \in Users, q \in Organizations : ReceivePatch(c, w, q) \/ ReceivePatch(d, w, q)
  BY <1>1, <1>4, CompanyKept DEF Apart
<1> QED  BY <1>2, <1>3, <1>4

\* Nobody else changes the role of the caller of a call that is alone.
LEMMA OwnKept ==
    ASSUME IInv, [Next]_vars, NEW c \in Calls, call[c] # None, call[c].phase # "member",
           call[c].alone, ~UpdateRole(c)
    PROVE  memberships'[call[c].own] = memberships[call[c].own]
<1>1. LetIn(c) /\ Apart
  BY DEF IInv, CallOK
<1> SUFFICES ASSUME memberships'[call[c].own] # memberships[call[c].own] PROVE FALSE
  OBVIOUS
<1>2. Next
  BY DEF vars, membershipVars
<1>3. PICK d \in Calls : UpdateRole(d) /\ call[d].target = call[c].own /\ Aimed(d)
  BY <1>1, <1>2, ChangedByUpdate DEF LetIn
<1>4. call[d].organization = call[c].organization /\ call[d] # None /\ d # c
  BY <1>1, <1>3 DEF LetIn, Aimed, UpdateRole
<1> QED  BY <1>1, <1>4 DEF Apart

LEMMA ChargeStep ==
    ASSUME IInv, [Next]_vars, NEW c \in Calls
    PROVE  InCharge(c)'
<1> SUFFICES ASSUME call'[c] # None, call'[c].phase \in {"target", "commit"}, call'[c].alone
             PROVE  memberships'[call'[c].own].role = "owner"
  BY DEF InCharge
<1>1. /\ TypeOK /\ CallOK(c) /\ InCharge(c)
      /\ call \in [Calls -> CallRecords \cup {None}]
  BY DEF IInv, TypeOK, MembershipTypeOK
<1>2. ~\E u \in Users, o \in Organizations : ReceivePatch(c, u, o)
  BY <1>1 DEF ReceivePatch, Joined
<1>3. call[c] # None /\ call[c] \in CallRecords /\ call[c].alone
  BY <1>1, <1>2, CompanyKept
<1>4. ~UpdateRole(c)
  BY <1>3, WitnessedFields
<1>5. CASE call'[c].own = call[c].own /\ call[c].phase \in {"target", "commit"}
  BY <1>1, <1>3, <1>4, <1>5, OwnKept DEF InCharge
<1>6. CASE CheckMembership(c)
  <2>1. ~EndCall(c)
    BY <1>1 DEF EndCall
  <2>2. PICK m \in MembershipsOf(call[c].organization, call[c].user) :
          /\ authorize(memberships[m].role)
          /\ call' = [call EXCEPT ![c].phase = "target", ![c].own = m,
                                  ![c].own_role = memberships[m].role,
                                  ![c].was_owner = memberships[m].role = "owner"]
    BY <1>6, <2>1 DEF CheckMembership
  <2>3. call'[c].own = m
    BY <1>1, <1>3, <2>2 DEF CallRecords
  <2> QED  BY <1>6, <2>2, <2>3 DEF CheckMembership, authorize
<1>7. CASE ReadTarget(c)
  <2>1. PICK m \in Targets(c), role \in Roles :
          call' = [call EXCEPT ![c].phase = "commit", ![c].target = m, ![c].role = role,
                               ![c].loaded = LoadedRole(c, m),
                               ![c].in_force = \/ memberships[m].role = role
                                               \/ m = call[c].own /\ call[c].own_role = role]
    BY <1>7 DEF ReadTarget
  <2>2. call'[c].own = call[c].own /\ call[c].phase = "target"
    BY <1>1, <1>3, <1>7, <2>1 DEF ReadTarget, CallRecords
  <2> QED  BY <1>5, <2>2
<1>8. ASSUME NEW d \in Calls, d # c, Patch(d)
      PROVE  call'[c].own = call[c].own /\ call[c].phase \in {"target", "commit"}
  <2>1. CASE UpdateRole(d)
    BY <1>3, <1>8, <2>1, WitnessedFields
  <2>2. ASSUME NEW u \in Users, NEW o \in Organizations, ReceivePatch(d, u, o)
        PROVE  call'[c].own = call[c].own /\ call[c].phase \in {"target", "commit"}
    <3>1. call'[c] = call[c] \/ call'[c] = [call[c] EXCEPT !.alone = FALSE]
      BY <1>8, <2>2 DEF ReceivePatch, Joined
    <3> QED  BY <1>3, <3>1 DEF CallRecords
  <2>3. CASE CheckMembership(d) \/ ReadTarget(d) \/ EndCall(d)
    BY <1>1, <1>8, <2>3 DEF CheckMembership, ReadTarget, EndCall
  <2> QED  BY <1>8, <2>1, <2>2, <2>3 DEF Patch, PatchStep, Answer, AbortCall
<1>9. CASE EndCall(c)
  BY <1>1, <1>9 DEF EndCall
<1>10. CASE call' = call
  BY <1>5, <1>10
<1> QED
  BY <1>2, <1>4, <1>5, <1>6, <1>7, <1>8, <1>9, <1>10
     DEF Next, Manage, BootstrapMembership, Authentication, Patch, PatchStep, Answer, AbortCall,
         membershipVars, vars

-----------------------------------------------------------------------------
(* The invariant, and what it is for.                                      *)

LEMMA TypeStep ==
    ASSUME IInv, [Next]_vars
    PROVE  TypeOK'
<1>1. TypeOK
  BY DEF IInv
<1>2. CASE Manage
  BY <1>1, <1>2, CreateOrganizationType, CreateApplicationType, CreateUserType, DeactivateType,
     BootstrapType DEF Manage
<1>3. CASE Authentication
  BY <1>1, <1>3, AuthenticationType
<1>4. ASSUME NEW c \in Calls, Patch(c)
      PROVE  TypeOK'
  BY <1>4, PatchType
<1>5. CASE UNCHANGED vars
  BY <1>1, <1>5 DEF vars, organizationVars, identityVars, membershipVars, TypeOK,
                    OrganizationsTypeOK, IdentityTypeOK, MembershipTypeOK
<1> QED  BY <1>2, <1>3, <1>4, <1>5 DEF Next

LEMMA Invariance == Spec => []IInv
<1>1. Init => IInv
  <2> SUFFICES ASSUME Init PROVE IInv
    OBVIOUS
  <2>1. TypeOK
    BY InitType
  <2>2. UniqueNames
    BY DEF Init, OrganizationsInit, IdentityInit, MembershipInit, UniqueNames
  <2>3. Apart /\ \A c \in Calls : CallOK(c) /\ InCharge(c)
    BY DEF Init, MembershipInit, CallOK, InCharge, Apart
  <2> QED  BY <2>1, <2>2, <2>3 DEF IInv
<1>2. IInv /\ [Next]_vars => IInv'
  BY TypeStep, NamesStep, CallsStep, ApartStep, ChargeStep DEF IInv
<1> QED  BY <1>1, <1>2, PTL DEF Spec

\* Types, for any numbers of rows and requests: each row that a commit
\* stores refers to rows that exist, though its parents were looked up before.
THEOREM TypeCorrect == Spec => []TypeOK
<1>1. IInv => TypeOK
  BY DEF IInv
<1> QED  BY <1>1, Invariance, PTL

\* An address that is normalized at registration and at login finds at most
\* one account, and finds it whatever was typed; slugs and memberships are as
\* unique as the lookups of the routers take them to be.
THEOREM NamesUnique == Spec => []NamesIdentifyRows
<1>1. IInv => NamesIdentifyRows
  <2> SUFFICES ASSUME IInv PROVE NamesIdentifyRows
    OBVIOUS
  <2>1. TypeOK /\ UniqueNames
    BY DEF IInv
  <2>2. ASSUME NEW u \in Users, users[u] # None
        PROVE  users[u].email \in Spellings /\ users[u].email.letters = "lower"
    BY <2>1, <2>2 DEF TypeOK, IdentityTypeOK, UserRows, UniqueNames
  <2>3. ASSUME NEW s \in Spellings, NEW u \in Users, users[u] # None
        PROVE  users[u].email = SoughtEmail(s) <=> users[u].email.name = s.name
    BY <2>2, <2>3, OneSpelling
  <2>4. ASSUME NEW s \in Spellings, NEW u \in Users, NEW w \in Users
        PROVE  /\ u \in FoundBy(s) /\ users[w] # None /\ users[w].email.name = s.name => u = w
               /\ users[u] # None /\ users[u].email.name = s.name => u \in FoundBy(s)
    BY <2>1, <2>3 DEF FoundBy, UniqueNames
  <2>5. \A o \in Organizations, u \in Users : \A m, n \in MembershipsOf(o, u) : m = n
    BY <2>1 DEF MembershipsOf, UniqueNames
  <2> QED  BY <2>1, <2>4, <2>5 DEF NamesIdentifyRows, UniqueNames
<1> QED  BY <1>1, Invariance, PTL

\* update_membership_role answers 200 only if the role was in force at some
\* moment of the call, also when the session skipped the UPDATE because the
\* object it had loaded earlier already had the role.
THEOREM PatchEffective == Spec => []PatchTookEffect
<1>1. IInv => PatchTookEffect
  BY DEF IInv, CallOK, PatchTookEffect
<1> QED  BY <1>1, Invariance, PTL

\* authenticate_user writes only the columns that it changed: no login brings
\* an account back that was deactivated after the login had read it.
THEOREM DeactivationFinal == Spec => DeactivationHolds
<1>1. IInv /\ [Next]_vars
        => [\A u \in Users : users[u] # None /\ ~users[u].is_active
              => users'[u] # None /\ ~users'[u].is_active]_vars
  <2> SUFFICES ASSUME IInv, Next, NEW u \in Users, users[u] # None, ~users[u].is_active
               PROVE  users'[u] # None /\ ~users'[u].is_active
    OBVIOUS
  <2>1. TypeOK
    BY DEF IInv
  <2>2. ASSUME NEW w \in Users, NEW s \in Spellings, CreateUser(w, s)
        PROVE  users'[u] = users[u]
    BY <2>1, <2>2 DEF CreateUser, TypeOK, IdentityTypeOK
  <2>3. ASSUME NEW w \in Users, Deactivate(w)
        PROVE  users'[u] = users[u]
    BY <2>1, <2>3 DEF Deactivate, TypeOK, IdentityTypeOK
  <2>4. CASE Authentication
    BY <2>1, <2>4, LoginWrites
  <2> QED  BY <2>2, <2>3, <2>4 DEF Next, Manage, Patch, identityVars
<1> QED  BY <1>1, Invariance, PTL DEF Spec, DeactivationHolds

\* require_roles guards every role change, though the role it looked at may
\* be an old one when the change commits.
THEOREM RoleChangesOwned == Spec => RoleChangesAreAuthorized
<1>1. IInv /\ [Next]_vars
        => [\A m \in Memberships :
              memberships[m] # None /\ memberships'[m] # memberships[m]
              => \E c \in Calls :
                   /\ UpdateRole(c)
                   /\ call[c].target = m /\ call[c].organization = memberships[m].organization
                   /\ call[c].was_active /\ call[c].was_owner]_vars
  <2> SUFFICES ASSUME IInv, Next, NEW m \in Memberships, memberships[m] # None,
                      memberships'[m] # memberships[m]
               PROVE  \E c \in Calls :
                        /\ UpdateRole(c)
                        /\ call[c].target = m
                        /\ call[c].organization = memberships[m].organization
                        /\ call[c].was_active /\ call[c].was_owner
    OBVIOUS
  <2> QED  BY ChangedByUpdate DEF LetIn, Aimed
<1> QED  BY <1>1, Invariance, PTL DEF Spec, RoleChangesAreAuthorized

\* The endpoint does not count owners; while PATCHes of an organization do not
\* overlap, it still keeps an owner until the last one gives the role up.
THEOREM LastOwner == Spec => LastOwnerExplained
<1>1. IInv /\ [Next]_vars
        => [\A o \in Organizations :
              Owners(o) # {} /\ Owners(o)' = {}
              => \E c \in Calls :
                   /\ UpdateRole(c)
                   /\ call[c].organization = o
                   /\ call[c].target = call[c].own \/ ~call[c].alone]_vars
  <2> SUFFICES ASSUME IInv, Next, NEW o \in Organizations, NEW m \in Owners(o), Owners(o)' = {}
               PROVE  \E c \in Calls :
                        /\ UpdateRole(c)
                        /\ call[c].organization = o
                        /\ call[c].target = call[c].own \/ ~call[c].alone
    OBVIOUS
  <2>1. /\ m \in Memberships /\ memberships[m] # None /\ memberships'[m] # memberships[m]
        /\ memberships[m].organization = o
    BY DEF Owners
  <2>2. PICK c \in Calls : UpdateRole(c) /\ call[c].target = m /\ LetIn(c) /\ Aimed(c)
    BY <2>1, ChangedByUpdate
  <2>3. call[c].organization = o
    BY <2>1, <2>2 DEF Aimed
  <2>4. ASSUME call[c].target # call[c].own, call[c].alone
        PROVE  FALSE
    <3>1. call[c] # None /\ call[c].phase = "commit"
      BY <2>2 DEF UpdateRole
    <3>2. call[c].own \in Owners(o)
      BY <2>2, <2>3, <2>4, <3>1 DEF IInv, InCharge, LetIn, Owners
    <3>3. memberships'[call[c].own] = memberships[call[c].own]
      BY <2>2, <2>4 DEF UpdateRole
    <3> QED  BY <3>2, <3>3 DEF Owners
  <2> QED  BY <2>2, <2>3, <2>4
<1> QED  BY <1>1, Invariance, PTL DEF Spec, LastOwnerExplained
=============================================================================
