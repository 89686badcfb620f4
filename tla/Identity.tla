------------------------------ MODULE Identity ------------------------------
(***************************************************************************)
(* Human accounts and their tokens: create_user, and login with            *)
(* authenticate_user.  A login is a SELECT and a later COMMIT, between     *)
(* which the account may be deactivated.  A refused request changes        *)
(* nothing and is no step.                                                 *)
(***************************************************************************)
EXTENDS Organizations

CONSTANTS
    Users,     \* the ids of users
    Names,     \* mail addresses, however spelled
    Logins     \* slots for POST /auth/token in progress

VARIABLES
    users,     \* id -> its row, or None
    tokens,    \* the users who hold a token that has not expired
    login      \* slot -> [user, row]: the row it has read, or None

identityVars == <<users, tokens, login>>

\* An address with the letters somebody typed.
Spellings == [name : Names, letters : {"lower", "mixed"}]

\* last_login_at stands for all that a login writes, password_hash included.
UserRows == [email : Spellings, is_active : BOOLEAN, last_login_at : {None, "set"}]

\* The type of accounts, tokens and logins; a token names an account.
IdentityTypeOK ==
    /\ users \in [Users -> UserRows \cup {None}]
    /\ tokens \subseteq {u \in Users : users[u] # None}
    /\ login \in [Logins -> [user : {u \in Users : users[u] # None}, row : UserRows] \cup {None}]

IdentityInit ==
    /\ users = [u \in Users |-> None]
    /\ tokens = {}
    /\ login = [l \in Logins |-> None]

-----------------------------------------------------------------------------
(* create_user, and the deactivation that no endpoint offers               *)

\* str.lower.
lower(spelling) == [spelling EXCEPT !.letters = "lower"]

\* The validator of UserCreate.
normalize_email(spelling) == lower(spelling)

\* Mutant: the address is stored as it was typed.
AsTyped(spelling) == spelling

\* The address that create_user stores.
StoredEmail(spelling) == lower(normalize_email(spelling))

\* The unique index on users.email.
EmailTaken(email) == \E u \in Users : users[u] # None /\ users[u].email = email

CreateUser(u, spelling) ==
    /\ users[u] = None
    /\ ~EmailTaken(StoredEmail(spelling))
    /\ users' = [users EXCEPT ![u] = [email |-> StoredEmail(spelling), is_active |-> TRUE,
                                       last_login_at |-> None]]
    /\ UNCHANGED <<tokens, login>>

\* is_active is read in two places and set to FALSE nowhere: an operator
\* does that in the database.
Deactivate(u) ==
    /\ users[u] # None /\ users[u].is_active
    /\ users' = [users EXCEPT ![u].is_active = FALSE]
    /\ UNCHANGED <<tokens, login>>

-----------------------------------------------------------------------------
(* login and authenticate_user                                             *)

\* The address that a login looks for; its body has no validator of its own.
SoughtEmail(spelling) == lower(spelling)

\* The accounts that an address finds, however it is typed.
FoundBy(spelling) ==
    {u \in Users : users[u] # None /\ users[u].email = SoughtEmail(spelling)}

\* SELECT, then the password and is_active are checked on the row read.
Authenticate(l, spelling) ==
    /\ login[l] = None
    /\ \E u \in FoundBy(spelling) :
        /\ users[u].is_active
        /\ login' = [login EXCEPT ![l] = [user |-> u, row |-> users[u]]]
    /\ UNCHANGED <<users, tokens>>

\* Mutant: the object is written back as a whole.
Overwritten(row, loaded, object) == object

\* An ORM flush writes the attributes that differ from the loaded row.
Flushed(row, loaded, object) ==
    [f \in DOMAIN row |-> IF object[f] # loaded[f] THEN object[f] ELSE row[f]]

create_access_token(u) == tokens' = tokens \cup {u}

\* UPDATE, COMMIT and the answer with a token, even if the account is inactive
\* by now; no token if the refresh after the commit fails.
CompleteLogin(l) ==
    /\ login[l] # None
    /\ LET u == login[l].user
           loaded == login[l].row
       IN  /\ users' = [users EXCEPT ![u] =
                            Flushed(@, loaded, [loaded EXCEPT !.last_login_at = "set"])]
           /\ create_access_token(u) \/ UNCHANGED tokens
    /\ login' = [login EXCEPT ![l] = None]

\* The process or the database fails: no token.
AbortLogin(l) ==
    /\ login[l] # None
    /\ login' = [login EXCEPT ![l] = None]
    /\ UNCHANGED <<users, tokens>>

\* jwt_access_minutes have passed since the last login of u.
TokenExpires(u) ==
    /\ u \in tokens
    /\ tokens' = tokens \ {u}
    /\ UNCHANGED <<users, login>>

\* get_current_user: the token decodes, and the row read now is active.
decode_access_token(u) == u \in tokens

\* Mutant: a token that decodes is enough.
TokenHolder(u) == decode_access_token(u)

get_current_user(u) == decode_access_token(u) /\ users[u].is_active
=============================================================================
