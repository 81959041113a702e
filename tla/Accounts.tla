------------------------------ MODULE Accounts ------------------------------
(***************************************************************************)
(* The accounts of an installation: its setup, users, application sessions *)
(* and browser client epochs, as the backend keeps them in PostgreSQL.     *)
(*                                                                         *)
(* A handler that reads an account, waits and then saves the entity it     *)
(* read is two actions.  TypeORM's save writes every column in which the   *)
(* entity differs from the row, so the entity as it was read replaces the  *)
(* row (the password hash is not selected and is written only when it is   *)
(* set), and a row that is gone is inserted again.                         *)
(*                                                                         *)
(* Names, languages and the text of passwords are left out; an email is a  *)
(* value the unique index compares.  The permission check and the first    *)
(* read of a handler are one step.                                         *)
(***************************************************************************)
EXTENDS Naturals, FiniteSets

CONSTANTS Users,        \* account identifiers, never given twice
          Emails,
          Sessions,     \* session identifiers (sid), one browser each
          Requests,     \* handlers that may be between two of their steps
          Nobody,       \* not an account
          Roles,        \* the roles an administrator hands out
          Authors,      \* accounts that content refers to
          Starts        \* what an instance may begin with: its accounts and how
                        \* often it may perform each operation

AllRoles == {"superadmin", "it-admin", "admin", "user", "guest"}

Operations == {"setup", "login", "profile", "create", "update", "remove",
               "restore", "register", "expire", "crash"}

ASSUME AccountsConstants ==
    /\ Nobody \notin Users
    /\ Roles \subseteq AllRoles
    /\ Authors \subseteq Users
    /\ \A start \in Starts, operation \in Operations :
           start.left[operation] \in Nat

Account == [role : AllRoles \cup {"none"}, version : Nat, archived : BOOLEAN,
            email : Emails \cup {Nobody}, password : BOOLEAN]

NoAccount == [role |-> "none", version |-> 0, archived |-> FALSE,
              email |-> Nobody, password |-> FALSE]

\* Before setup there is no account; after it, the custodian's.
ASSUME StartsAreWhole ==
    \A start \in Starts :
        /\ start.account \in [Users -> Account]
        /\ IF start.custodian = Nobody
           THEN start.account = [u \in Users |-> NoAccount]
           ELSE /\ start.custodian \in Users
                /\ start.account[start.custodian].role # "none"

VARIABLES account,      \* the users table
          custodian,    \* the account e2ee_key_state names; Nobody before setup
          session,      \* the signed tokens in circulation
          epoch,        \* the client epoch each browser registered
          reserved,     \* sessions an unexpired key ceremony holds
          request,      \* the entity each waiting handler has read
          left,         \* operations the instance still allows
          issued,       \* history: identifiers handed out
          founded,      \* history: initial setups that succeeded
          revoked,      \* history: revocations of each account's sessions
          overwritten   \* history: accounts a stale entity was saved over

accountVars == <<account, custodian, session, epoch, reserved, request, left,
                 issued, founded, revoked, overwritten>>
-----------------------------------------------------------------------------
Exists(u) == account[u].role # "none"
Active(u) == Exists(u) /\ ~account[u].archived

ContentRole(role) == role \in {"superadmin", "admin", "user"}
ProtectedTextReader(role) == ContentRole(role) \/ role = "guest"

\* Who may change what a category of the permission table covers.
Manages(category) ==
    CASE category = "users" -> {"superadmin", "admin"}
      [] category = "authSettings" -> {"superadmin", "it-admin"}

\* A token names its user and the session version it was made for; since is
\* how often the account had been revoked when that version was read.
Token == [user : Users \cup {Nobody}, version : Nat, since : Nat,
          expired : BOOLEAN]
NoToken == [user |-> Nobody, version |-> 0, since |-> 0, expired |-> FALSE]

RequestKinds == {"idle", "setup", "login", "profile", "update", "epochs",
                 "restore", "register", "ceremony", "activate"}
Idle == [kind |-> "idle", user |-> Nobody, row |-> NoAccount, since |-> 0,
         session |-> Nobody]
Request == [kind : RequestKinds, user : Users \cup {Nobody}, row : Account,
            since : Nat, session : Sessions \cup {Nobody}]

AccountsTypeOK ==
    /\ account \in [Users -> Account]
    /\ custodian \in Users \cup {Nobody}
    /\ session \in [Sessions -> Token]
    /\ epoch \in [Sessions -> {"none", "active", "grace", "revoked"}]
    /\ reserved \subseteq Sessions
    /\ request \in [Requests -> Request]
    /\ issued \subseteq Users
    /\ founded \in Nat
    /\ revoked \in [Users -> Nat]
    /\ overwritten \subseteq Users

\* Either nothing is set up, or an installation that was set up earlier.
AccountsInit(start) ==
    /\ account = start.account
    /\ custodian = start.custodian
    /\ founded = IF start.custodian = Nobody THEN 0 ELSE 1
    /\ issued = {u \in Users : start.account[u] # NoAccount}
    /\ session = [s \in Sessions |-> NoToken]
    /\ epoch = [s \in Sessions |-> "none"]
    /\ reserved = {}
    /\ request = [r \in Requests |-> Idle]
    /\ left = start.left
    /\ revoked = [u \in Users |-> 0]
    /\ overwritten = {}
-----------------------------------------------------------------------------
Spend(operation) ==
    /\ left[operation] > 0
    /\ left' = [left EXCEPT ![operation] = @ - 1]

\* The guard's answer for a bearer token: an unexpired one, of an account that
\* is not archived, made for the account's session version.
CanActivate(s) ==
    LET u == session[s].user IN
    /\ u # Nobody
    /\ ~session[s].expired
    /\ Active(u)
    /\ account[u].version = session[s].version

\* A session of a running ceremony is refused everything else.
OutsideCeremony(s) == s \notin reserved

Permitted(s, category) ==
    /\ CanActivate(s)
    /\ OutsideCeremony(s)
    /\ account[session[s].user].role \in Manages(category)

\* A handler starts waiting with the account it has just read.
Await(r, kind, u, s) ==
    request' = [request EXCEPT
        ![r] = [kind |-> kind, user |-> u, row |-> account[u],
                since |-> revoked[u], session |-> s]]

Return(r) == request' = [request EXCEPT ![r] = Idle]

EmailTaken(u, email) ==
    \E v \in Users \ {u} : Exists(v) /\ account[v].email = email

\* Whether saving what r read undoes what others wrote meanwhile.
Stale(r) ==
    LET u == request[r].user
        row == request[r].row
    IN  \/ ~Exists(u)
        \/ row.version # account[u].version
        \/ account[u].archived /\ ~row.archived

\* save(entity): the entity's columns replace the row's, or the row is
\* inserted again.  The password hash is written only when it was set.
SaveAccount(r, entity) ==
    LET u == request[r].user IN
    /\ account' = [account EXCEPT
                      ![u] = [entity EXCEPT !.password =
                                  entity.password \/ account[u].password]]
    /\ overwritten' = IF Stale(r) THEN overwritten \cup {u} ELSE overwritten

IssueSession(s, u, version, since) ==
    /\ session[s] = NoToken
    /\ session' = [session EXCEPT
          ![s] = [user |-> u, version |-> version, since |-> since,
                  expired |-> FALSE]]
-----------------------------------------------------------------------------
\* The setup password matched and the account password is being hashed.
BeginSetup(r) ==
    /\ request[r] = Idle
    /\ Spend("setup")
    /\ request' = [request EXCEPT ![r].kind = "setup"]
    /\ UNCHANGED <<account, custodian, session, epoch, reserved, issued,
                   founded, revoked, overwritten>>

\* One transaction under the setup lock: the three counts, the settings, the
\* superadmin and the first key state that names it as custodian.
CreateInitialUser(r, u, email) ==
    /\ request[r].kind = "setup"
    /\ u \notin issued
    /\ Return(r)
    /\ IF custodian = Nobody /\ ~\E v \in Users : Exists(v)
       THEN /\ account' = [account EXCEPT
                  ![u] = [role |-> "superadmin", version |-> 1,
                          archived |-> FALSE, email |-> email,
                          password |-> TRUE]]
            /\ custodian' = u
            /\ founded' = founded + 1
            /\ issued' = issued \cup {u}
       ELSE UNCHANGED <<account, custodian, founded, issued>>
    /\ UNCHANGED <<session, epoch, reserved, left, revoked, overwritten>>

\* The account of an address was found and its password is being compared.
BeginLogin(r, u) ==
    /\ request[r] = Idle
    /\ Active(u)
    /\ account[u].password
    /\ Spend("login")
    /\ Await(r, "login", u, Nobody)
    /\ UNCHANGED <<account, custodian, session, epoch, reserved, issued,
                   founded, revoked, overwritten>>

Login(r, s) ==
    /\ request[r].kind = "login"
    /\ IssueSession(s, request[r].user, request[r].row.version,
                    request[r].since)
    /\ Return(r)
    /\ UNCHANGED <<account, custodian, epoch, reserved, left, issued,
                   founded, revoked, overwritten>>

ExpireSession(s) ==
    /\ session[s].user # Nobody
    /\ ~session[s].expired
    /\ Spend("expire")
    /\ session' = [session EXCEPT ![s].expired = TRUE]
    /\ UNCHANGED <<account, custodian, epoch, reserved, request, issued,
                   founded, revoked, overwritten>>

\* The guard has loaded the account of the session; its entity is what
\* updateProfile saves after hashing.
BeginProfile(r, s) ==
    /\ request[r] = Idle
    /\ CanActivate(s)
    /\ OutsideCeremony(s)
    /\ Spend("profile")
    /\ Await(r, "profile", session[s].user, s)
    /\ UNCHANGED <<account, custodian, session, epoch, reserved, issued,
                   founded, revoked, overwritten>>

UpdateProfile(r, email, passwordSet) ==
    /\ request[r].kind = "profile"
    /\ Return(r)
    /\ IF EmailTaken(request[r].user, email)
       THEN UNCHANGED <<account, overwritten>>
       ELSE SaveAccount(r, [request[r].row EXCEPT !.email = email,
                                                  !.password = passwordSet])
    /\ UNCHANGED <<custodian, session, epoch, reserved, left, issued,
                   founded, revoked>>
-----------------------------------------------------------------------------
CreateUser(s, u, role, email) ==
    /\ Permitted(s, "users")
    /\ u \notin issued
    /\ ~EmailTaken(u, email)
    /\ Spend("create")
    /\ account' = [account EXCEPT
          ![u] = [role |-> role, version |-> 1, archived |-> FALSE,
                  email |-> email, password |-> TRUE]]
    /\ issued' = issued \cup {u}
    /\ UNCHANGED <<custodian, session, epoch, reserved, request, founded,
                   revoked, overwritten>>

BeginUpdate(r, s, u) ==
    /\ request[r] = Idle
    /\ Permitted(s, "users")
    /\ Exists(u)
    /\ Spend("update")
    /\ Await(r, "update", u, s)
    /\ UNCHANGED <<account, custodian, session, epoch, reserved, issued,
                   founded, revoked, overwritten>>

\* Losing the content roles raises the session version in the same save; the
\* client epochs are revoked by a statement of its own afterwards.
UpdateUser(r, role, email) ==
    LET u == request[r].user
        row == request[r].row
        lost == ContentRole(row.role) /\ ~ContentRole(role)
    IN
    /\ request[r].kind = "update"
    /\ IF EmailTaken(u, email)
       THEN /\ Return(r)
            /\ UNCHANGED <<account, overwritten, revoked>>
       ELSE /\ SaveAccount(r, [row EXCEPT
                   !.role = role, !.email = email, !.password = FALSE,
                   !.version = IF lost THEN @ + 1 ELSE @])
            /\ revoked' = IF lost THEN [revoked EXCEPT ![u] = @ + 1]
                          ELSE revoked
            /\ IF lost THEN request' = [request EXCEPT ![r].kind = "epochs"]
               ELSE Return(r)
    /\ UNCHANGED <<custodian, session, epoch, reserved, left, issued, founded>>

\* UPDATE e2ee_client_epochs ... WHERE user_id = u AND revoked_at IS NULL.
EpochsRevokedFor(u) ==
    [s \in Sessions |-> IF session[s].user = u /\ epoch[s] = "active"
                        THEN "revoked" ELSE epoch[s]]

RevokeEpochsOfUser(r) ==
    /\ request[r].kind = "epochs"
    /\ epoch' = EpochsRevokedFor(request[r].user)
    /\ Return(r)
    /\ UNCHANGED <<account, custodian, session, reserved, left, issued,
                   founded, revoked, overwritten>>

\* Mutant: the rows of ceremonies and of external sign-in do not count.
ReferencedByContent(u, elsewhere) ==
    \/ u \in Authors
    \/ u = custodian
    \/ \E s \in Sessions : session[s].user = u /\ epoch[s] # "none"

\* The rows that keep an account from being deleted.
Referenced(u, elsewhere) ==
    \/ u \in Authors
    \/ u \in elsewhere
    \/ u = custodian
    \/ \E s \in Sessions : session[s].user = u /\ epoch[s] # "none"

\* One transaction that holds the account's row: archive and revoke what is
\* referenced, delete what is not.
RemoveUser(s, u, elsewhere) ==
    /\ Permitted(s, "users")
    /\ Exists(u)
    /\ Spend("remove")
    /\ revoked' = [revoked EXCEPT ![u] = @ + 1]
    /\ IF Referenced(u, elsewhere)
       THEN /\ account' = [account EXCEPT ![u].archived = TRUE,
                                          ![u].version = @ + 1]
            /\ epoch' = EpochsRevokedFor(u)
       ELSE /\ account' = [account EXCEPT ![u] = NoAccount]
            /\ UNCHANGED epoch
    /\ UNCHANGED <<custodian, session, reserved, request, issued, founded,
                   overwritten>>

BeginRestore(r, s, u) ==
    /\ request[r] = Idle
    /\ Permitted(s, "users")
    /\ Exists(u)
    /\ Spend("restore")
    /\ Await(r, "restore", u, s)
    /\ UNCHANGED <<account, custodian, session, epoch, reserved, issued,
                   founded, revoked, overwritten>>

RestoreUser(r) ==
    /\ request[r].kind = "restore"
    /\ IF EmailTaken(request[r].user, request[r].row.email)
       THEN UNCHANGED <<account, overwritten>>
       ELSE SaveAccount(r, [request[r].row EXCEPT !.archived = FALSE,
                                                  !.password = FALSE])
    /\ Return(r)
    /\ UNCHANGED <<custodian, session, epoch, reserved, left, issued, founded,
                   revoked>>
-----------------------------------------------------------------------------
\* A browser registers its epoch: the guard's answer first, the insert later.
BeginRegister(r, s) ==
    /\ request[r] = Idle
    /\ CanActivate(s)
    /\ OutsideCeremony(s)
    /\ ProtectedTextReader(account[session[s].user].role)
    /\ epoch[s] = "none"
    /\ Spend("register")
    /\ Await(r, "register", session[s].user, s)
    /\ UNCHANGED <<account, custodian, session, epoch, reserved, issued,
                   founded, revoked, overwritten>>

RegisterClientEpoch(r) ==
    LET s == request[r].session IN
    /\ request[r].kind = "register"
    /\ epoch' = IF Exists(request[r].user) /\ epoch[s] = "none"
                THEN [epoch EXCEPT ![s] = "active"] ELSE epoch
    /\ Return(r)
    /\ UNCHANGED <<account, custodian, session, reserved, left, issued,
                   founded, revoked, overwritten>>

\* The browser locks: it revokes the epoch it registered.
RevokeClientEpoch(s) ==
    /\ CanActivate(s)
    /\ OutsideCeremony(s)
    /\ ProtectedTextReader(account[session[s].user].role)
    /\ epoch[s] = "active"
    /\ epoch' = [epoch EXCEPT ![s] = "revoked"]
    /\ UNCHANGED <<account, custodian, session, reserved, request, left,
                   issued, founded, revoked, overwritten>>

\* The process stops: every handler is cut off where it waits.
Crash ==
    /\ Spend("crash")
    /\ request' = [r \in Requests |-> Idle]
    /\ UNCHANGED <<account, custodian, session, epoch, reserved, issued,
                   founded, revoked, overwritten>>

AccountsNext(elsewhere) ==
    \/ \E r \in Requests :
          \/ BeginSetup(r)
          \/ \E u \in Users, email \in Emails : CreateInitialUser(r, u, email)
          \/ \E u \in Users : BeginLogin(r, u)
          \/ \E s \in Sessions : Login(r, s)
          \/ \E s \in Sessions : BeginProfile(r, s)
          \/ \E email \in Emails, set \in BOOLEAN : UpdateProfile(r, email, set)
          \/ \E s \in Sessions, u \in Users : BeginUpdate(r, s, u)
          \/ \E role \in Roles, email \in Emails : UpdateUser(r, role, email)
          \/ RevokeEpochsOfUser(r)
          \/ \E s \in Sessions, u \in Users : BeginRestore(r, s, u)
          \/ RestoreUser(r)
          \/ \E s \in Sessions : BeginRegister(r, s)
          \/ RegisterClientEpoch(r)
    \/ \E s \in Sessions :
          \/ ExpireSession(s)
          \/ RevokeClientEpoch(s)
          \/ \E u \in Users : RemoveUser(s, u, elsewhere)
          \/ \E u \in Users, role \in Roles, email \in Emails :
                CreateUser(s, u, role, email)
-----------------------------------------------------------------------------
\* A session the guard admits was issued after the last time its account was
\* archived, deleted, stripped of the content roles or revoked by a key
\* activation, unless a handler saved an entity it had read before that over
\* the account.
RevokedStaysRevoked ==
    \A s \in Sessions :
        CanActivate(s) =>
            \/ session[s].since = revoked[session[s].user]
            \/ session[s].user \in overwritten

\* Setup happens once, and what it created stays whole: the account that holds
\* custody of the key state is always there, so the three counts the status
\* page compares never disagree.
InstallationStaysWhole ==
    /\ founded <= 1
    /\ founded = 1 => custodian # Nobody
    /\ custodian # Nobody => Exists(custodian)
=============================================================================
