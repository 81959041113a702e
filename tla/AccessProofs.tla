---------------------------- MODULE AccessProofs ----------------------------
(***************************************************************************)
(* Who gets in, for any number of accounts, sessions, handlers, sign-ins   *)
(* and ceremonies: a session that was revoked is not admitted again, an    *)
(* account that other tables name is there, sign-ins use what was tested   *)
(* and sign in once, and every generation of the keys is the work of two   *)
(* people and reads what the one before it could.                          *)
(*                                                                         *)
(* The three services are taken one after the other: AccountsInv speaks of *)
(* the accounts alone, ExternalInv of the sign-ins, CeremonyInv of the     *)
(* ceremonies; only the custodian an activation names joins the last with  *)
(* the first.                                                              *)
(***************************************************************************)
EXTENDS Access, FiniteSetTheorems, TLAPS

(* Accounts and their sessions *)

\* The version of an account moves with its revocations: what was read with the
\* version and the count of then is told apart from the account of now by both or
\* by neither.
Dated(u, version, since, A, R, O) ==
    A[u].role # "none" /\ u \notin O => version + R[u] = A[u].version + since

GoodToken(t, A, R, O, I) ==
    t.user # Nobody => t.user \in I /\ Dated(t.user, t.version, t.since, A, R, O)

GoodRequest(q, A, R, O, I) ==
    q.kind \notin {"idle", "setup"} =>
        /\ q.user \in I
        /\ q.row.role # "none"
        /\ Dated(q.user, q.row.version, q.since, A, R, O)
        /\ q.kind = "register" => q.session \in Sessions

AccountsInv ==
    /\ AccountsTypeOK
    /\ \A u \in Users : Exists(u) => u \in issued
    /\ \A s \in Sessions : GoodToken(session[s], account, revoked, overwritten, issued)
    /\ \A r \in Requests : GoodRequest(request[r], account, revoked, overwritten, issued)
    /\ InstallationStaysWhole

-----------------------------------------------------------------------------
(* External sign-in *)

\* What is known of a provider's row, whoever has read it and when.
GoodProvider(p, row, T) ==
    /\ row.tested # Draft => <<p, row.tested>> \in T
    /\ row.enabled => Approved(row)

\* A callback of the transaction a.
GoodCallback(a, c, T) ==
    /\ c.step \in {"exchange", "link", "code"} =>
          /\ a.provider \in Providers
          /\ c.row.config = a.config
          /\ GoodProvider(a.provider, c.row, T)
    /\ c.step \in {"link", "code"} =>
          a.purpose = "login" /\ <<a.provider, a.config>> \in T /\ c.user \in Users
    /\ c.step = "link" => c.subject \in Subjects
    /\ a.stage \in {"none", "open"} => c.step = "idle"
    /\ a.stage # "none" => a.provider \in Providers /\ a.config \in Configs

\* A transaction a, its callback and how often it has signed in.
GoodFlow(a, c, n, T) ==
    /\ a.purpose = "login" /\ a.stage \in {"coded", "done"} => <<a.provider, a.config>> \in T
    /\ a.stage = "coded" => c.step = "over" /\ n = 0 /\ a.user \in Users
    /\ n # 0 => n = 1 /\ c.step = "over" /\ a.stage \in {"done", "gone"}
    /\ a.stage = "none" => ~a.expired

GoodSetting(q, T) ==
    /\ q.id # Nobody => GoodProvider(q.id, q.row, T)
    /\ q.kind \in {"enable", "disable", "remove"} => q.id \in Providers

GoodLinks(L) ==
    \A l, k \in L :
        l.provider = k.provider =>
            /\ l.subject = k.subject => l.user = k.user
            /\ l.user = k.user /\ l.active /\ k.active => l = k

ExternalInv ==
    /\ ExternalTypeOK
    /\ \A p \in Providers : GoodProvider(p, provider[p], tested)
    /\ \A r \in Requests : GoodSetting(setting[r], tested)
    /\ \A f \in Flows : GoodCallback(flow[f], callback[f], tested)
    /\ \A f \in Flows : GoodFlow(flow[f], callback[f], signedIn[f], tested)
    /\ GoodLinks(link)

-----------------------------------------------------------------------------
(* Key ceremonies *)

CeremonyFields == {"state", "expired", "operation", "grace", "generation", "candidate",
                   "initiator", "approver"}

\* A candidate that was checked against these keys and wrappers.
Succeeds(candidate, keys, W) ==
    /\ candidate.ork = keys.ork => candidate.ock = keys.ock
    /\ candidate.ork # keys.ork =>
          ({k \in 1 .. Keys : <<keys.ork, k>> \in W} \cup {keys.ock}) \ {candidate.ock}
              \subseteq candidate.history

GoodCeremony(row, P, keys, W) ==
    /\ DOMAIN row = CeremonyFields
    /\ row.candidate \in Candidate
    /\ row.initiator \in Operator /\ row.approver \in Operator
    /\ row.generation \in Nat /\ row.generation <= keys.generation
    /\ row.state \in {"pending", "ready"} =>
          /\ row.initiator.user \in Users
          /\ <<row.initiator.user, row.candidate>> \in P
          /\ ContextMatches(row.candidate)
          /\ row.generation = keys.generation => Succeeds(row.candidate, keys, W)
    /\ row.state = "ready" =>
          /\ row.approver.user \in Users
          /\ row.approver.user # row.initiator.user
          /\ <<row.approver.user, row.candidate>> \in P

AuditEntry == [ceremony : Ceremonies, generation : Nat, actors : SUBSET Users]

\* An entry about the ceremony row, n generations ago.
GoodAudit(entry, n, row, P, keys) ==
    /\ row.state = "activated"
    /\ entry.generation + n = keys.generation
    /\ Cardinality(entry.actors) = 2
    /\ \A u \in entry.actors : <<u, row.candidate>> \in P

CeremonyInv ==
    /\ KeyTypeOK
    /\ {keyState.shared, keyState.recovery} \subseteq Slot
    /\ KeysStayReachable
    /\ ceremony = [c \in Ceremonies |-> ceremony[c]]
    /\ proposed = [c \in Ceremonies |-> proposed[c]]
    /\ \A c \in Ceremonies : GoodCeremony(ceremony[c], proposed[c], keyState, wrapper)
    /\ audit \in Seq(AuditEntry)
    /\ \A i \in 1 .. Len(audit) :
          GoodAudit(audit[i], Len(audit) - i, ceremony[audit[i].ceremony],
                    proposed[audit[i].ceremony], keyState)

AccessInv == AccountsInv /\ ExternalInv /\ CeremonyInv
-----------------------------------------------------------------------------
(* Steps of the accounts *)

\* Accounts change their version with their revocations, unless what a handler has
\* read is saved over them.
LEMMA AccountsMove ==
    ASSUME AccountsInv, AccountsTypeOK', issued \subseteq issued',
           \A u \in Users : account'[u].role # "none" => u \in issued',
           \A u \in issued : account'[u].role # "none" /\ u \notin overwritten' =>
              /\ account[u].role # "none" /\ u \notin overwritten
              /\ \E d \in 0..1 : /\ account'[u].version = account[u].version + d
                                 /\ revoked'[u] = revoked[u] + d,
           \A s \in Sessions :
              session'[s] = session[s] \/ GoodToken(session'[s], account', revoked', overwritten', issued'),
           \A r \in Requests :
              request'[r] = request[r] \/ GoodRequest(request'[r], account', revoked', overwritten', issued'),
           InstallationStaysWhole'
    PROVE  AccountsInv'
<1>1. ASSUME NEW u \in issued, NEW version \in Nat, NEW since \in Nat,
             Dated(u, version, since, account, revoked, overwritten)
      PROVE  Dated(u, version, since, account', revoked', overwritten')
  <2> SUFFICES ASSUME account'[u].role # "none", u \notin overwritten'
               PROVE  version + revoked'[u] = account'[u].version + since
    BY DEF Dated
  <2>1. version + revoked[u] = account[u].version + since
    BY <1>1 DEF Dated
  <2>2. PICK d \in 0..1 : /\ account'[u].version = account[u].version + d
                          /\ revoked'[u] = revoked[u] + d
    OBVIOUS
  <2>3. u \in Users /\ revoked[u] \in Nat /\ account[u].version \in Nat
    BY DEF AccountsInv, AccountsTypeOK, Account
  <2> QED  BY <2>1, <2>2, <2>3
<1>2. ASSUME NEW s \in Sessions
      PROVE  GoodToken(session'[s], account', revoked', overwritten', issued')
  <2>1. GoodToken(session[s], account, revoked, overwritten, issued) /\ session[s] \in Token
    BY DEF AccountsInv, AccountsTypeOK
  <2> QED  BY <1>1, <2>1 DEF GoodToken, Token
<1>3. ASSUME NEW r \in Requests
      PROVE  GoodRequest(request'[r], account', revoked', overwritten', issued')
  <2>1. GoodRequest(request[r], account, revoked, overwritten, issued) /\ request[r] \in Request
    BY DEF AccountsInv, AccountsTypeOK
  <2>2. request[r].row.version \in Nat /\ request[r].since \in Nat
    BY <2>1 DEF Request, Account
  <2> QED  BY <1>1, <2>1, <2>2 DEF GoodRequest
<1> QED  BY <1>2, <1>3 DEF AccountsInv, Exists

\* Tokens are issued, handlers read and return, browsers register: the accounts stay.
LEMMA AccountsStay ==
    ASSUME AccountsInv, UNCHANGED <<account, custodian, issued, founded, revoked, overwritten>>,
           session' \in [Sessions -> Token], request' \in [Requests -> Request],
           epoch' \in [Sessions -> {"none", "active", "grace", "revoked"}],
           reserved' \subseteq Sessions,
           \A s \in Sessions :
              session'[s] = session[s] \/ GoodToken(session'[s], account, revoked, overwritten, issued),
           \A r \in Requests :
              request'[r] = request[r] \/ GoodRequest(request'[r], account, revoked, overwritten, issued)
    PROVE  AccountsInv'
  BY DEF AccountsInv, AccountsTypeOK, InstallationStaysWhole, Exists

\* A handler returns.
LEMMA Returned ==
    ASSUME AccountsInv, NEW r \in Requests, Return(r)
    PROVE  /\ request' \in [Requests -> Request]
           /\ \A q \in Requests \ {r} : request'[q] = request[q]
           /\ request'[r].kind = "idle"
<1>1. Idle \in Request /\ Idle.kind = "idle"
  BY DEF Idle, Request, RequestKinds, NoAccount, Account
<1> QED  BY <1>1 DEF Return, AccountsInv, AccountsTypeOK

\* A handler waits with the account it has read.
LEMMA Awaited ==
    ASSUME AccountsInv, NEW r \in Requests, NEW kind \in RequestKinds, NEW u \in Users, Exists(u),
           NEW s \in Sessions \cup {Nobody}, kind = "register" => s \in Sessions,
           Await(r, kind, u, s)
    PROVE  /\ request' \in [Requests -> Request]
           /\ \A q \in Requests : \/ request'[q] = request[q]
                                  \/ GoodRequest(request'[q], account, revoked, overwritten, issued)
<1> DEFINE x == [kind |-> kind, user |-> u, row |-> account[u], since |-> revoked[u], session |-> s]
<1>1. account[u] \in Account /\ revoked[u] \in Nat /\ account[u].version \in Nat
  BY DEF AccountsInv, AccountsTypeOK, Account
<1>2. x \in Request
  BY <1>1 DEF Request
<1>3. GoodRequest(x, account, revoked, overwritten, issued)
  BY <1>1 DEF GoodRequest, Dated, AccountsInv, Exists
<1>4. request' = [request EXCEPT ![r] = x]
  BY DEF Await
<1> HIDE DEF x
<1> QED  BY <1>2, <1>3, <1>4 DEF AccountsInv, AccountsTypeOK

\* A session begins.
LEMMA Issued ==
    ASSUME AccountsInv, NEW s \in Sessions, NEW u \in issued, NEW version \in Nat, NEW since \in Nat,
           Dated(u, version, since, account, revoked, overwritten), IssueSession(s, u, version, since)
    PROVE  /\ session' \in [Sessions -> Token]
           /\ \A q \in Sessions : \/ session'[q] = session[q]
                                  \/ GoodToken(session'[q], account, revoked, overwritten, issued)
<1> DEFINE x == [user |-> u, version |-> version, since |-> since, expired |-> FALSE]
<1>1. u \in Users
  BY DEF AccountsInv, AccountsTypeOK
<1>2. x \in Token
  BY <1>1 DEF Token
<1>3. GoodToken(x, account, revoked, overwritten, issued)
  BY DEF GoodToken
<1>4. session' = [session EXCEPT ![s] = x]
  BY DEF IssueSession
<1> HIDE DEF x
<1> QED  BY <1>2, <1>3, <1>4 DEF AccountsInv, AccountsTypeOK

\* A handler saves the entity it has read, with or without a new version.
LEMMA Saved ==
    ASSUME AccountsInv, NEW r \in Requests, NEW entity \in Account, NEW d \in 0..1,
           request[r].kind \notin {"idle", "setup"}, SaveAccount(r, entity),
           entity.role # "none", entity.version = request[r].row.version + d,
           revoked' = [revoked EXCEPT ![request[r].user] = @ + d],
           UNCHANGED <<custodian, issued, founded, session, epoch, reserved>>,
           request' \in [Requests -> Request],
           \A q \in Requests \ {r} : request'[q] = request[q],
           \/ request'[r].kind = "idle"
           \/ request'[r].kind # "register" /\ request'[r] = [request[r] EXCEPT !.kind = "epochs"]
    PROVE  AccountsInv'
<1> DEFINE u == request[r].user
           row == request[r].row
           x == [entity EXCEPT !.password = entity.password \/ account[u].password]
<1>0. AccountsTypeOK /\ GoodRequest(request[r], account, revoked, overwritten, issued)
  BY DEF AccountsInv
<1>1. u \in issued /\ u \in Users /\ row \in Account /\ row.version \in Nat /\ request[r].since \in Nat
  BY <1>0 DEF GoodRequest, AccountsTypeOK, Request, Account
<1>2. account[u] \in Account /\ revoked[u] \in Nat /\ account[u].version \in Nat
  BY <1>0, <1>1 DEF AccountsTypeOK, Account
<1>3. x \in Account /\ x.role # "none" /\ x.version = row.version + d
  BY <1>2 DEF Account
<1>4. /\ account' = [account EXCEPT ![u] = x]
      /\ overwritten' = IF Stale(r) THEN overwritten \cup {u} ELSE overwritten
  BY DEF SaveAccount
<1> HIDE DEF x
<1>5. account'[u] = x /\ revoked'[u] = revoked[u] + d
      /\ \A v \in Users \ {u} : account'[v] = account[v] /\ revoked'[v] = revoked[v]
  BY <1>0, <1>1, <1>4 DEF AccountsTypeOK
<1>6. AccountsTypeOK'
  <2>1. account' \in [Users -> Account]
    BY <1>0, <1>3, <1>4 DEF AccountsTypeOK
  <2>2. revoked' \in [Users -> Nat]
    <3>1. revoked[u] + d \in Nat
      BY <1>2
    <3> QED  BY <1>0, <3>1 DEF AccountsTypeOK
  <2>3. overwritten' \subseteq Users
    BY <1>0, <1>1, <1>4 DEF AccountsTypeOK
  <2> QED  BY <1>0, <2>1, <2>2, <2>3 DEF AccountsTypeOK
<1>7. ASSUME NEW v \in issued, account'[v].role # "none", v \notin overwritten'
      PROVE  /\ account[v].role # "none" /\ v \notin overwritten
             /\ \E e \in 0..1 : /\ account'[v].version = account[v].version + e
                                /\ revoked'[v] = revoked[v] + e
  <2>1. v \in Users
    BY <1>0 DEF AccountsTypeOK
  <2>2. CASE v # u
    <3>1. account'[v].version = account[v].version + 0 /\ revoked'[v] = revoked[v] + 0
      BY <1>0, <1>5, <2>1, <2>2 DEF AccountsTypeOK, Account
    <3> QED  BY <1>4, <1>5, <1>7, <2>1, <2>2, <3>1
  <2>3. CASE v = u
    <3>1. ~Stale(r) /\ v \notin overwritten
      BY <1>4, <1>7, <2>3
    <3>2. row.version = account[u].version /\ account[u].role # "none"
      BY <3>1 DEF Stale, Exists
    <3> QED  BY <1>3, <1>5, <2>3, <3>1, <3>2
  <2> QED  BY <2>2, <2>3
<1>8. GoodRequest(request'[r], account', revoked', overwritten', issued')
  <2>1. CASE request'[r].kind = "idle"
    BY <2>1 DEF GoodRequest
  <2>2. CASE request'[r].kind # "register" /\ request'[r] = [request[r] EXCEPT !.kind = "epochs"]
    <3>1. request'[r].user = u /\ request'[r].row = row /\ request'[r].since = request[r].since
      BY <1>0, <2>2 DEF AccountsTypeOK, Request
    <3>2. Dated(u, row.version, request[r].since, account', revoked', overwritten')
      <4> SUFFICES ASSUME account'[u].role # "none", u \notin overwritten'
                   PROVE  row.version + revoked'[u] = account'[u].version + request[r].since
        BY DEF Dated
      <4>1. row.version + revoked[u] = account[u].version + request[r].since
        BY <1>0, <1>7, <1>1 DEF GoodRequest, Dated
      <4>2. PICK e \in 0..1 : /\ account'[u].version = account[u].version + e
                              /\ revoked'[u] = revoked[u] + e
        BY <1>1, <1>7
      <4> QED  BY <1>1, <1>2, <4>1, <4>2
    <3> QED  BY <1>0, <1>1, <2>2, <3>1, <3>2 DEF GoodRequest
  <2> QED  BY <2>1, <2>2
<1>9. \A v \in Users : account'[v].role # "none" => v \in issued'
  BY <1>1, <1>5 DEF AccountsInv, Exists
<1>10. InstallationStaysWhole'
  BY <1>0, <1>3, <1>5 DEF AccountsInv, InstallationStaysWhole, Exists, AccountsTypeOK
<1> QED  BY <1>6, <1>7, <1>8, <1>9, <1>10, AccountsMove

\* Setup: the first account is the custodian's.
LEMMA SetupKeepsAccounts ==
    ASSUME AccountsInv, NEW r \in Requests,
           \/ BeginSetup(r)
           \/ \E u \in Users, email \in Emails : CreateInitialUser(r, u, email)
    PROVE  AccountsInv'
<1>1. CASE BeginSetup(r)
  <2>1. /\ request' = [request EXCEPT ![r].kind = "setup"] /\ request \in [Requests -> Request]
        /\ UNCHANGED <<account, custodian, session, epoch, reserved, issued, founded, revoked, overwritten>>
    BY <1>1 DEF BeginSetup, AccountsInv, AccountsTypeOK
  <2>2. request' \in [Requests -> Request] /\ request'[r].kind = "setup"
    BY <2>1 DEF Request, RequestKinds
  <2>3. \A q \in Requests : \/ request'[q] = request[q]
                            \/ GoodRequest(request'[q], account, revoked, overwritten, issued)
    BY <2>1, <2>2 DEF GoodRequest
  <2> QED  BY <2>1, <2>2, <2>3, AccountsStay DEF AccountsInv, AccountsTypeOK
<1>2. ASSUME NEW u \in Users, NEW email \in Emails, CreateInitialUser(r, u, email)
      PROVE  AccountsInv'
  <2>1. /\ request' \in [Requests -> Request] /\ \A q \in Requests \ {r} : request'[q] = request[q]
        /\ GoodRequest(request'[r], account', revoked', overwritten', issued')
        /\ UNCHANGED <<session, epoch, reserved, revoked, overwritten>>
    BY <1>2, Returned DEF CreateInitialUser, GoodRequest
  <2>2. CASE UNCHANGED <<account, custodian, founded, issued>>
    BY <2>1, <2>2, AccountsStay DEF AccountsInv, AccountsTypeOK
  <2>3. CASE custodian = Nobody /\ ~\E v \in Users : Exists(v)
    <3> DEFINE x == [role |-> "superadmin", version |-> 1, archived |-> FALSE, email |-> email,
                     password |-> TRUE]
    <3>1. /\ account' = [account EXCEPT ![u] = x] /\ custodian' = u /\ founded' = founded + 1
          /\ issued' = issued \cup {u}
      BY <1>2, <2>3 DEF CreateInitialUser
    <3>2. x \in Account /\ x.role # "none"
      BY DEF Account, AllRoles
    <3> HIDE DEF x
    <3>3. AccountsTypeOK'
      BY <2>1, <3>1, <3>2 DEF AccountsInv, AccountsTypeOK
    <3>4. /\ u \notin issued /\ account'[u].role # "none"
          /\ \A v \in Users \ {u} : account'[v].role = "none"
      BY <1>2, <2>3, <3>1, <3>2 DEF CreateInitialUser, AccountsInv, AccountsTypeOK, Exists
    <3>5. founded' = 1 /\ custodian' = u
      BY <2>3, <3>1 DEF AccountsInv, AccountsTypeOK, InstallationStaysWhole
    <3>6. InstallationStaysWhole'
      BY <3>4, <3>5, AccountsConstants DEF InstallationStaysWhole, Exists, AccountsConstants
    <3>7. issued \subseteq Users /\ issued \subseteq issued' /\ u \in issued'
      BY <3>1 DEF AccountsInv, AccountsTypeOK
    <3> QED  BY <2>1, <3>3, <3>4, <3>6, <3>7, AccountsMove
  <2> QED  BY <1>2, <2>2, <2>3 DEF CreateInitialUser
<1> QED  BY <1>1, <1>2

\* A handler reads an account and waits; a session begins or expires; a browser
\* registers its epoch or revokes it.
LEMMA SessionsKeepAccounts ==
    ASSUME AccountsInv, NEW r \in Requests,
           \/ \E u \in Users : BeginLogin(r, u) \/ \E s \in Sessions : BeginUpdate(r, s, u)
                                                                 \/ BeginRestore(r, s, u)
           \/ \E s \in Sessions : BeginProfile(r, s) \/ BeginRegister(r, s)
    PROVE  AccountsInv'
<1>1. UNCHANGED <<account, custodian, session, epoch, reserved, issued, founded, revoked, overwritten>>
  BY DEF BeginLogin, BeginUpdate, BeginRestore, BeginProfile, BeginRegister
<1>2. PICK kind \in RequestKinds, u \in Users, s \in Sessions \cup {Nobody} :
         Exists(u) /\ (kind = "register" => s \in Sessions) /\ Await(r, kind, u, s)
  <2>1. ASSUME NEW s \in Sessions, CanActivate(s)
        PROVE  session[s].user \in Users /\ Exists(session[s].user)
    BY <2>1 DEF CanActivate, Active, AccountsInv, AccountsTypeOK, Token
  <2>2. ASSUME NEW u \in Users, BeginLogin(r, u)
        PROVE  Exists(u) /\ Await(r, "login", u, Nobody)
    BY <2>2 DEF BeginLogin, Active
  <2>3. ASSUME NEW u \in Users, NEW s \in Sessions, BeginUpdate(r, s, u)
        PROVE  Exists(u) /\ Await(r, "update", u, s)
    BY <2>3 DEF BeginUpdate
  <2>4. ASSUME NEW u \in Users, NEW s \in Sessions, BeginRestore(r, s, u)
        PROVE  Exists(u) /\ Await(r, "restore", u, s)
    BY <2>4 DEF BeginRestore
  <2>5. ASSUME NEW s \in Sessions, BeginProfile(r, s)
        PROVE  \E u \in Users : Exists(u) /\ Await(r, "profile", u, s)
    BY <2>1, <2>5 DEF BeginProfile
  <2>6. ASSUME NEW s \in Sessions, BeginRegister(r, s)
        PROVE  \E u \in Users : Exists(u) /\ Await(r, "register", u, s)
    BY <2>1, <2>6 DEF BeginRegister
  <2>7. {"login", "update", "restore", "profile", "register"} \subseteq RequestKinds
    BY DEF RequestKinds
  <2> QED  BY <2>2, <2>3, <2>4, <2>5, <2>6, <2>7
<1> QED  BY <1>1, <1>2, Awaited, AccountsStay DEF AccountsInv, AccountsTypeOK

\* A login was checked against the account that was read.
LEMMA LoginKeepsAccounts ==
    ASSUME AccountsInv, NEW r \in Requests, NEW s \in Sessions, Login(r, s)
    PROVE  AccountsInv'
<1>1. /\ request' \in [Requests -> Request] /\ \A q \in Requests \ {r} : request'[q] = request[q]
      /\ GoodRequest(request'[r], account, revoked, overwritten, issued)
  BY Returned DEF Login, GoodRequest
<1>2. /\ request[r].user \in issued /\ request[r].row.version \in Nat /\ request[r].since \in Nat
      /\ Dated(request[r].user, request[r].row.version, request[r].since, account, revoked, overwritten)
  BY DEF Login, AccountsInv, AccountsTypeOK, GoodRequest, Request, Account
<1>3. /\ session' \in [Sessions -> Token]
      /\ \A q \in Sessions : \/ session'[q] = session[q]
                             \/ GoodToken(session'[q], account, revoked, overwritten, issued)
  BY <1>2, Issued DEF Login
<1>4. UNCHANGED <<account, custodian, epoch, reserved, issued, founded, revoked, overwritten>>
  BY DEF Login
<1> QED  BY <1>1, <1>3, <1>4, AccountsStay DEF AccountsInv, AccountsTypeOK

LEMMA EpochsKeepAccounts ==
    ASSUME AccountsInv,
           \/ \E s \in Sessions : ExpireSession(s) \/ RevokeClientEpoch(s)
           \/ \E r \in Requests : RevokeEpochsOfUser(r) \/ RegisterClientEpoch(r)
    PROVE  AccountsInv'
<1>0. AccountsTypeOK
  BY DEF AccountsInv
<1>1. ASSUME NEW s \in Sessions, ExpireSession(s) PROVE AccountsInv'
  <2> DEFINE x == [session[s] EXCEPT !.expired = TRUE]
  <2>1. /\ session' = [session EXCEPT ![s] = x]
        /\ UNCHANGED <<account, custodian, epoch, reserved, request, issued, founded, revoked, overwritten>>
    BY <1>0, <1>1 DEF ExpireSession, AccountsTypeOK
  <2>2. /\ x \in Token /\ x.user = session[s].user /\ x.version = session[s].version
        /\ x.since = session[s].since
    BY <1>0 DEF AccountsTypeOK, Token
  <2>3. GoodToken(x, account, revoked, overwritten, issued)
    BY <2>2 DEF AccountsInv, GoodToken
  <2> HIDE DEF x
  <2> QED  BY <1>0, <2>1, <2>2, <2>3, AccountsStay DEF AccountsTypeOK
<1>2. ASSUME NEW s \in Sessions, RevokeClientEpoch(s) PROVE AccountsInv'
  BY <1>0, <1>2, AccountsStay DEF RevokeClientEpoch, AccountsTypeOK
<1>3. ASSUME NEW r \in Requests, RevokeEpochsOfUser(r) \/ RegisterClientEpoch(r) PROVE AccountsInv'
  <2>1. /\ request' \in [Requests -> Request] /\ \A q \in Requests \ {r} : request'[q] = request[q]
        /\ GoodRequest(request'[r], account, revoked, overwritten, issued)
    BY <1>3, Returned DEF RevokeEpochsOfUser, RegisterClientEpoch, GoodRequest
  <2>2. epoch' \in [Sessions -> {"none", "active", "grace", "revoked"}]
    BY <1>0, <1>3 DEF RevokeEpochsOfUser, RegisterClientEpoch, EpochsRevokedFor, AccountsTypeOK
  <2>3. UNCHANGED <<account, custodian, session, reserved, issued, founded, revoked, overwritten>>
    BY <1>3 DEF RevokeEpochsOfUser, RegisterClientEpoch
  <2> QED  BY <1>0, <2>1, <2>2, <2>3, AccountsStay DEF AccountsTypeOK
<1> QED  BY <1>1, <1>2, <1>3

\* An entity is saved over the account it was read from.
LEMMA SavesKeepAccounts ==
    ASSUME AccountsInv, NEW r \in Requests,
           \/ \E email \in Emails, set \in BOOLEAN : UpdateProfile(r, email, set)
           \/ \E role \in Roles, email \in Emails : UpdateUser(r, role, email)
           \/ RestoreUser(r)
    PROVE  AccountsInv'
<1> DEFINE u == request[r].user
           row == request[r].row
<1>0. /\ AccountsTypeOK /\ request[r].kind \notin {"idle", "setup"}
      /\ GoodRequest(request[r], account, revoked, overwritten, issued)
  BY DEF AccountsInv, UpdateProfile, UpdateUser, RestoreUser
<1>1. u \in Users /\ row \in Account /\ row.role # "none" /\ row.version \in Nat
  BY <1>0 DEF GoodRequest, AccountsTypeOK, Request, Account
<1>2. UNCHANGED <<custodian, issued, founded, session, epoch, reserved>>
  BY DEF UpdateProfile, UpdateUser, RestoreUser
<1>3. ASSUME Return(r)
      PROVE  /\ request' \in [Requests -> Request] /\ \A q \in Requests \ {r} : request'[q] = request[q]
             /\ request'[r].kind = "idle"
             /\ GoodRequest(request'[r], account, revoked, overwritten, issued)
  BY <1>3, Returned DEF GoodRequest
<1>4. CASE Return(r) /\ UNCHANGED <<account, overwritten, revoked>>
  BY <1>0, <1>2, <1>3, <1>4, AccountsStay DEF AccountsTypeOK
<1>5. ASSUME Return(r), UNCHANGED revoked,
             NEW entity \in Account, entity.role = row.role, entity.version = row.version,
             SaveAccount(r, entity)
      PROVE  AccountsInv'
  <2> DEFINE d == 0
  <2>1. revoked' = [revoked EXCEPT ![u] = @ + d]
    BY <1>0, <1>1, <1>5 DEF AccountsTypeOK
  <2>2. d \in 0..1 /\ entity.version = row.version + d
    BY <1>1, <1>5
  <2> HIDE DEF d
  <2> QED  BY <1>0, <1>1, <1>2, <1>3, <1>5, <2>1, <2>2, Saved
<1>6. ASSUME NEW email \in Emails, NEW set \in BOOLEAN, UpdateProfile(r, email, set)
      PROVE  AccountsInv'
  <2> DEFINE entity == [row EXCEPT !.email = email, !.password = set]
  <2>1. entity \in Account /\ entity.role = row.role /\ entity.version = row.version
    BY <1>1 DEF Account
  <2>2. Return(r) /\ UNCHANGED revoked /\ (SaveAccount(r, entity) \/ UNCHANGED <<account, overwritten>>)
    BY <1>6 DEF UpdateProfile
  <2> HIDE DEF entity
  <2> QED  BY <1>4, <1>5, <2>1, <2>2
<1>7. CASE RestoreUser(r)
  <2> DEFINE entity == [row EXCEPT !.archived = FALSE, !.password = FALSE]
  <2>1. entity \in Account /\ entity.role = row.role /\ entity.version = row.version
    BY <1>1 DEF Account
  <2>2. Return(r) /\ UNCHANGED revoked /\ (SaveAccount(r, entity) \/ UNCHANGED <<account, overwritten>>)
    BY <1>7 DEF RestoreUser
  <2> HIDE DEF entity
  <2> QED  BY <1>4, <1>5, <2>1, <2>2
<1>8. ASSUME NEW role \in Roles, NEW email \in Emails, UpdateUser(r, role, email)
      PROVE  AccountsInv'
  <2> DEFINE lost == ContentRole(row.role) /\ ~ContentRole(role)
             d == IF lost THEN 1 ELSE 0
             entity == [row EXCEPT !.role = role, !.email = email, !.password = FALSE,
                                   !.version = IF lost THEN @ + 1 ELSE @]
  <2>1. CASE EmailTaken(u, email)
    BY <1>4, <1>8, <2>1 DEF UpdateUser
  <2>2. CASE ~EmailTaken(u, email)
    <3>1. role \in AllRoles /\ role # "none"
      BY AccountsConstants DEF AccountsConstants, AllRoles
    <3>2. entity \in Account /\ entity.role # "none" /\ entity.version = row.version + d
      <4>1. CASE lost
        <5> DEFINE n == row.version + 1
        <5>1. n \in Nat /\ d = 1
          BY <1>1, <4>1
        <5>2. entity = [row EXCEPT !.role = role, !.email = email, !.password = FALSE, !.version = n]
          BY <1>1, <4>1 DEF Account
        <5>3. n = row.version + d
          BY <5>1
        <5> HIDE DEF n, d, entity, lost
        <5> QED  BY <1>1, <3>1, <5>1, <5>2, <5>3 DEF Account
      <4>2. CASE ~lost
        <5>1. d = 0 /\ row.version = row.version + d
          BY <1>1, <4>2
        <5>2. entity = [row EXCEPT !.role = role, !.email = email, !.password = FALSE]
          BY <1>1, <4>2 DEF Account
        <5> HIDE DEF d, entity, lost
        <5> QED  BY <1>1, <3>1, <5>1, <5>2 DEF Account
      <4> QED  BY <4>1, <4>2
    <3>3. SaveAccount(r, entity) /\ revoked' = IF lost THEN [revoked EXCEPT ![u] = @ + 1] ELSE revoked
      BY <1>8, <2>2 DEF UpdateUser
    <3>4. revoked' = [revoked EXCEPT ![u] = @ + d] /\ d \in 0..1
      <4>1. CASE lost
        BY <3>3, <4>1
      <4>2. CASE ~lost
        <5>1. d = 0 /\ revoked' = revoked /\ revoked[u] + 0 = revoked[u]
          BY <1>0, <1>1, <3>3, <4>2 DEF AccountsTypeOK
        <5> HIDE DEF d
        <5> QED  BY <1>0, <1>1, <5>1 DEF AccountsTypeOK
      <4> QED  BY <4>1, <4>2
    <3>5. /\ request' \in [Requests -> Request] /\ \A q \in Requests \ {r} : request'[q] = request[q]
          /\ \/ request'[r].kind = "idle"
             \/ request'[r].kind # "register" /\ request'[r] = [request[r] EXCEPT !.kind = "epochs"]
      <4>1. CASE Return(r)
        BY <1>3, <4>1
      <4>2. CASE request' = [request EXCEPT ![r].kind = "epochs"]
        <5> DEFINE x == [request[r] EXCEPT !.kind = "epochs"]
        <5>1. x \in Request /\ x.kind = "epochs"
          BY <1>0 DEF AccountsTypeOK, Request, RequestKinds
        <5>2. request' = [request EXCEPT ![r] = x]
          BY <1>0, <4>2 DEF AccountsTypeOK
        <5> HIDE DEF x
        <5>3. request' \in [Requests -> Request] /\ request'[r] = x
          BY <1>0, <5>1, <5>2 DEF AccountsTypeOK
        <5> QED  BY <1>0, <5>1, <5>2, <5>3 DEF AccountsTypeOK, x
      <4> QED  BY <1>8, <2>2, <4>1, <4>2 DEF UpdateUser
    <3> HIDE DEF entity, d
    <3> QED  BY <1>0, <1>2, <3>2, <3>3, <3>4, <3>5, Saved
  <2> QED  BY <2>1, <2>2
<1> QED  BY <1>6, <1>7, <1>8

\* An account nobody has had before.
LEMMA CreateKeepsAccounts ==
    ASSUME AccountsInv, NEW s \in Sessions, NEW u \in Users, NEW role \in Roles, NEW email \in Emails,
           CreateUser(s, u, role, email)
    PROVE  AccountsInv'
<1> DEFINE x == [role |-> role, version |-> 1, archived |-> FALSE, email |-> email, password |-> TRUE]
<1>1. /\ account' = [account EXCEPT ![u] = x] /\ issued' = issued \cup {u} /\ u \notin issued
      /\ UNCHANGED <<custodian, session, epoch, reserved, request, founded, revoked, overwritten>>
  BY DEF CreateUser
<1>2. x \in Account /\ x.role # "none"
  BY AccountsConstants DEF AccountsConstants, Account, AllRoles
<1> HIDE DEF x
<1>3. AccountsTypeOK'
  BY <1>1, <1>2 DEF AccountsInv, AccountsTypeOK
<1>4. \A v \in Users \ {u} : account'[v] = account[v]
  BY <1>1 DEF AccountsInv, AccountsTypeOK
<1>5. \A v \in issued : /\ v # u /\ v \in Users /\ account'[v] = account[v]
                        /\ account'[v].version = account[v].version + 0
                        /\ revoked'[v] = revoked[v] + 0
  BY <1>1, <1>4 DEF AccountsInv, AccountsTypeOK, Account
<1>6. InstallationStaysWhole'
  BY <1>1, <1>2, <1>4 DEF AccountsInv, AccountsTypeOK, InstallationStaysWhole, Exists
<1>7. \A v \in Users : account'[v].role # "none" => v \in issued'
  BY <1>1, <1>4 DEF AccountsInv, Exists
<1> QED  BY <1>1, <1>3, <1>5, <1>6, <1>7, AccountsMove

\* An account that rows refer to is archived and its sessions are revoked; another one
\* is gone, and the custodian's is not.
LEMMA RemoveKeepsAccounts ==
    ASSUME AccountsInv, NEW s \in Sessions, NEW u \in Users, NEW elsewhere, RemoveUser(s, u, elsewhere)
    PROVE  AccountsInv'
<1>0. /\ AccountsTypeOK /\ Exists(u) /\ u \in issued
      /\ revoked' = [revoked EXCEPT ![u] = @ + 1]
      /\ UNCHANGED <<custodian, session, reserved, request, issued, founded, overwritten>>
  BY DEF RemoveUser, AccountsInv
<1>1. account[u] \in Account /\ account[u].version \in Nat /\ revoked[u] + 1 \in Nat
  BY <1>0 DEF AccountsTypeOK, Account
<1>2. PICK x \in Account : /\ account' = [account EXCEPT ![u] = x]
                           /\ x.role # "none" => /\ x.role = account[u].role
                                                 /\ x.version = account[u].version + 1
                           /\ u = custodian => x.role # "none"
  <2>1. CASE Referenced(u, elsewhere)
    <3> DEFINE x == [account[u] EXCEPT !.archived = TRUE, !.version = @ + 1]
    <3>1. /\ x \in Account /\ x.role = account[u].role
          /\ x.version = account[u].version + 1
      <4> DEFINE n == account[u].version + 1
      <4>1. n \in Nat /\ x = [account[u] EXCEPT !.archived = TRUE, !.version = n]
        BY <1>1 DEF Account
      <4>2. x.version = n
        BY <1>1 DEF Account
      <4> HIDE DEF n, x
      <4>3. x \in Account /\ x.role = account[u].role
        BY <1>1, <4>1 DEF Account
      <4> QED  BY <4>2, <4>3 DEF n
    <3>2. account' = [account EXCEPT ![u] = x]
      BY <1>0, <2>1 DEF RemoveUser, AccountsTypeOK
    <3> HIDE DEF x
    <3> QED  BY <1>0, <3>1, <3>2 DEF Exists
  <2>2. CASE ~Referenced(u, elsewhere)
    <3>1. account' = [account EXCEPT ![u] = NoAccount] /\ u # custodian
      BY <2>2 DEF RemoveUser, Referenced
    <3>2. NoAccount \in Account /\ NoAccount.role = "none"
      BY DEF NoAccount, Account
    <3> QED  BY <3>1, <3>2
  <2> QED  BY <2>1, <2>2
<1>3. epoch' \in [Sessions -> {"none", "active", "grace", "revoked"}]
  BY <1>0 DEF RemoveUser, EpochsRevokedFor, AccountsTypeOK
<1>4. AccountsTypeOK'
  BY <1>0, <1>1, <1>2, <1>3 DEF AccountsTypeOK
<1>5. /\ account'[u] = x /\ revoked'[u] = revoked[u] + 1
      /\ \A v \in Users \ {u} : account'[v] = account[v] /\ revoked'[v] = revoked[v]
  BY <1>0, <1>2 DEF AccountsTypeOK
<1>6. \A v \in Users \ {u} : /\ account'[v].version = account[v].version + 0
                             /\ revoked'[v] = revoked[v] + 0
  BY <1>0, <1>5 DEF AccountsTypeOK, Account
<1>7. ASSUME NEW v \in issued, account'[v].role # "none", v \notin overwritten'
      PROVE  /\ account[v].role # "none" /\ v \notin overwritten
             /\ \E d \in 0..1 : /\ account'[v].version = account[v].version + d
                                /\ revoked'[v] = revoked[v] + d
  <2>1. v \in Users
    BY <1>0 DEF AccountsTypeOK
  <2>2. CASE v = u
    BY <1>0, <1>2, <1>5, <1>7, <2>2
  <2>3. CASE v # u
    BY <1>0, <1>5, <1>6, <1>7, <2>1, <2>3
  <2> QED  BY <2>2, <2>3
<1>8. InstallationStaysWhole'
  BY <1>0, <1>2, <1>5 DEF AccountsInv, AccountsTypeOK, InstallationStaysWhole, Exists
<1>9. \A v \in Users : account'[v].role # "none" => v \in issued'
  BY <1>0, <1>5 DEF AccountsInv, Exists
<1> QED  BY <1>0, <1>4, <1>7, <1>8, <1>9, AccountsMove

LEMMA AccountsNextKeepsAccounts ==
    ASSUME AccountsInv, NEW elsewhere, AccountsNext(elsewhere)
    PROVE  AccountsInv'
<1>1. ASSUME NEW r \in Requests,
             \/ BeginSetup(r)
             \/ \E u \in Users, email \in Emails : CreateInitialUser(r, u, email)
      PROVE  AccountsInv'
  BY <1>1, SetupKeepsAccounts
<1>2. ASSUME NEW r \in Requests,
             \/ \E u \in Users : BeginLogin(r, u)
             \/ \E s \in Sessions : BeginProfile(r, s) \/ BeginRegister(r, s)
             \/ \E s \in Sessions, u \in Users : BeginUpdate(r, s, u) \/ BeginRestore(r, s, u)
      PROVE  AccountsInv'
  BY <1>2, SessionsKeepAccounts
<1>3. ASSUME NEW r \in Requests, NEW s \in Sessions, Login(r, s) PROVE AccountsInv'
  BY <1>3, LoginKeepsAccounts
<1>4. ASSUME NEW r \in Requests,
             \/ \E email \in Emails, set \in BOOLEAN : UpdateProfile(r, email, set)
             \/ \E role \in Roles, email \in Emails : UpdateUser(r, role, email)
             \/ RestoreUser(r)
      PROVE  AccountsInv'
  BY <1>4, SavesKeepAccounts
<1>5. ASSUME NEW r \in Requests, RevokeEpochsOfUser(r) \/ RegisterClientEpoch(r) PROVE AccountsInv'
  BY <1>5, EpochsKeepAccounts
<1>6. ASSUME NEW s \in Sessions, ExpireSession(s) \/ RevokeClientEpoch(s) PROVE AccountsInv'
  BY <1>6, EpochsKeepAccounts
<1>7. ASSUME NEW s \in Sessions, NEW u \in Users, RemoveUser(s, u, elsewhere) PROVE AccountsInv'
  BY <1>7, RemoveKeepsAccounts
<1>8. ASSUME NEW s \in Sessions, NEW u \in Users, NEW role \in Roles, NEW email \in Emails,
             CreateUser(s, u, role, email)
      PROVE  AccountsInv'
  BY <1>8, CreateKeepsAccounts
<1> QED  BY <1>1, <1>2, <1>3, <1>4, <1>5, <1>6, <1>7, <1>8 DEF AccountsNext

\* A restart ends every handler.
LEMMA CrashKeepsAccounts ==
    ASSUME AccountsInv, Crash
    PROVE  AccountsInv'
<1>1. /\ request' = [r \in Requests |-> Idle]
      /\ UNCHANGED <<account, custodian, session, epoch, reserved, issued, founded, revoked, overwritten>>
  BY DEF Crash
<1>2. Idle \in Request /\ GoodRequest(Idle, account, revoked, overwritten, issued)
  BY DEF Idle, Request, RequestKinds, NoAccount, Account, GoodRequest
<1> QED  BY <1>1, <1>2, AccountsStay DEF AccountsInv, AccountsTypeOK

LEMMA InitEstablishesAccounts ==
    ASSUME NEW start \in Starts, AccountsInit(start)
    PROVE  AccountsInv
<1>1. /\ start.account \in [Users -> Account] /\ start.custodian \in Users \cup {Nobody}
      /\ start.custodian # Nobody => start.account[start.custodian].role # "none"
  BY StartsAreWhole DEF StartsAreWhole
<1>2. AccountsTypeOK
  BY <1>1 DEF AccountsInit, AccountsTypeOK, NoToken, Token, Idle, Request, RequestKinds, NoAccount, Account
<1>3. NoToken.user = Nobody /\ Idle.kind = "idle" /\ NoAccount.role = "none"
  BY DEF NoToken, Idle, NoAccount
<1>4. /\ \A u \in Users : Exists(u) => u \in issued
      /\ \A s \in Sessions : GoodToken(session[s], account, revoked, overwritten, issued)
      /\ \A r \in Requests : GoodRequest(request[r], account, revoked, overwritten, issued)
  BY <1>3 DEF AccountsInit, Exists, GoodToken, GoodRequest
<1>5. InstallationStaysWhole
  BY <1>1 DEF AccountsInit, InstallationStaysWhole, Exists
<1> QED  BY <1>2, <1>4, <1>5 DEF AccountsInv
-----------------------------------------------------------------------------
(* Steps of the other services, seen from the accounts *)

LEMMA AccountsUntouched ==
    ASSUME AccountsInv,
           UNCHANGED <<account, custodian, session, epoch, reserved, request, issued, founded,
                       revoked, overwritten>>
    PROVE  AccountsInv'
<1>1. AccountsTypeOK
  BY DEF AccountsInv
<1> QED  BY <1>1, AccountsStay DEF AccountsTypeOK

\* A sign-in from outside issues a session for the account of that moment.
LEMMA CompletionKeepsAccounts ==
    ASSUME AccountsInv, ExternalInv, NEW f \in Flows, NEW s \in Sessions, CompleteFlow(f, s)
    PROVE  AccountsInv'
<1> DEFINE u == flow[f].user
           version == account[u].version
           since == revoked[u]
<1>1. AccountsTypeOK /\ flow[f].stage = "coded" /\ GoodFlow(flow[f], callback[f], signedIn[f], tested)
  BY DEF CompleteFlow, AccountsInv, ExternalInv
<1>2. u \in Users /\ Exists(u)
  BY <1>1 DEF CompleteFlow, Active, GoodFlow
<1>3. u \in issued /\ version \in Nat /\ since \in Nat
  BY <1>1, <1>2 DEF AccountsInv, AccountsTypeOK, Account
<1>4. Dated(u, version, since, account, revoked, overwritten)
  BY <1>3 DEF Dated
<1>5. /\ IssueSession(s, u, version, since)
      /\ UNCHANGED <<account, custodian, epoch, reserved, request, issued, founded, revoked, overwritten>>
  BY DEF CompleteFlow
<1> HIDE DEF u, version, since
<1>6. /\ session' \in [Sessions -> Token]
      /\ \A q \in Sessions : \/ session'[q] = session[q]
                             \/ GoodToken(session'[q], account, revoked, overwritten, issued)
  BY <1>3, <1>4, <1>5, Issued
<1> QED  BY <1>1, <1>5, <1>6, AccountsStay DEF AccountsTypeOK

LEMMA ExternalKeepsAccounts ==
    ASSUME AccountsInv, ExternalInv, ExternalNext
    PROVE  AccountsInv'
<1>1. ASSUME NEW r \in Requests,
             \/ \E s \in Sessions, kind \in SettingKinds : LoadSettings(r, s, kind)
             \/ \E config \in Configs \cup {Draft} : SaveSettings(r, config)
             \/ SetEnabled(r)
             \/ RemoveProvider(r)
      PROVE  AccountsInv'
  BY <1>1, AccountsUntouched
     DEF LoadSettings, SaveSettings, SetEnabled, RemoveProvider, accountVars
<1>2. ASSUME NEW s \in Sessions, NEW u \in Users, ResetLink(s, u) PROVE AccountsInv'
  BY <1>2, AccountsUntouched DEF ResetLink
<1>3. ASSUME NEW f \in Flows,
             \/ \E p \in Providers : StartLogin(f, p)
             \/ \E p \in Providers, s \in Sessions : StartTest(f, p, s)
             \/ FlowExpires(f)
      PROVE  AccountsInv'
  BY <1>3, AccountsUntouched DEF StartLogin, StartTest, StartFlow, FlowExpires
<1>4. ASSUME NEW f \in Flows,
             \/ ConsumeCallbackState(f)
             \/ \E cancelled \in BOOLEAN : LoadProvider(f, cancelled)
             \/ ExchangeFails(f)
             \/ RecordSuccessfulTest(f)
      PROVE  AccountsInv'
  BY <1>4, AccountsUntouched
     DEF ConsumeCallbackState, LoadProvider, ExchangeFails, RecordSuccessfulTest, accountVars
<1>5. ASSUME NEW f \in Flows,
             \/ \E subject \in Subjects, email \in Emails : Authenticate(f, subject, email)
             \/ InsertLink(f)
             \/ SaveCode(f)
             \/ SaveFailure(f)
      PROVE  AccountsInv'
  BY <1>5, AccountsUntouched DEF Authenticate, InsertLink, SaveCode, SaveFailure, accountVars
<1>6. ASSUME NEW f \in Flows, NEW s \in Sessions, CompleteFlow(f, s) PROVE AccountsInv'
  BY <1>6, CompletionKeepsAccounts
<1>7. CASE RestartExternal
  BY <1>7, CrashKeepsAccounts DEF RestartExternal
<1> QED  BY <1>1, <1>2, <1>3, <1>4, <1>5, <1>6, <1>7 DEF ExternalNext

\* The sessions a set of ceremonies holds are sessions.
LEMMA ReservedAreSessions ==
    ASSUME NEW C
    PROVE  ReservedBy(C) \subseteq Sessions
  BY DEF ReservedBy

\* A ceremony handler that is done: nothing of the accounts changes but what the
\* ceremonies hold.
LEMMA CeremonyReturns ==
    ASSUME AccountsInv, NEW r \in Requests, Return(r), reserved' \subseteq Sessions,
           UNCHANGED <<account, custodian, session, epoch, issued, founded, revoked, overwritten>>
    PROVE  AccountsInv'
<1>1. AccountsTypeOK
  BY DEF AccountsInv
<1>2. /\ request' \in [Requests -> Request] /\ \A q \in Requests \ {r} : request'[q] = request[q]
      /\ GoodRequest(request'[r], account, revoked, overwritten, issued)
  BY Returned DEF GoodRequest
<1> QED  BY <1>1, <1>2, AccountsStay DEF AccountsTypeOK

\* Every version and every count of revocations goes up by one; the custodian is an
\* account that was found active.
LEMMA ActivationKeepsAccounts ==
    ASSUME AccountsInv, CeremonyInv, NEW r \in Requests, NEW c \in Ceremonies, ActivateRecovery(r, c)
    PROVE  AccountsInv'
<1> DEFINE raised(u) == [account[u] EXCEPT !.version = @ + 1]
           i == ceremony[c].initiator.user
<1>0. AccountsTypeOK
  BY DEF AccountsInv
<1>1. /\ account' = [u \in Users |-> IF Exists(u) THEN raised(u) ELSE account[u]]
      /\ revoked' = [u \in Users |-> revoked[u] + 1]
      /\ custodian' = custodian \/ custodian' = i
      /\ UNCHANGED <<session, issued, founded, overwritten>> /\ Return(r)
  BY DEF ActivateRecovery, EverySessionRevoked
<1>2. i \in Users /\ Exists(i)
  BY DEF ActivateRecovery, CanActivateCeremony, Eligible, Active, CeremonyInv, GoodCeremony
<1>3. ASSUME NEW u \in Users
      PROVE  /\ raised(u) \in Account /\ raised(u).role = account[u].role
             /\ raised(u).version = account[u].version + 1
             /\ revoked[u] \in Nat /\ revoked[u] + 1 \in Nat /\ account[u] \in Account
  <2> DEFINE n == account[u].version + 1
  <2>1. account[u] \in Account /\ n \in Nat /\ revoked[u] \in Nat /\ revoked[u] + 1 \in Nat
    BY <1>0 DEF AccountsTypeOK, Account
  <2>2. raised(u) = [account[u] EXCEPT !.version = n]
    BY <2>1 DEF Account
  <2> HIDE DEF n, raised
  <2>3. raised(u) \in Account /\ raised(u).role = account[u].role /\ raised(u).version = n
    BY <2>1, <2>2 DEF Account
  <2> QED  BY <2>1, <2>3 DEF n
<1> HIDE DEF raised
<1>4. \A u \in Users : /\ account'[u] \in Account /\ account'[u].role = account[u].role
                       /\ Exists(u) => account'[u] = raised(u)
  BY <1>1, <1>3
<1>5. /\ request' \in [Requests -> Request] /\ \A q \in Requests \ {r} : request'[q] = request[q]
      /\ GoodRequest(request'[r], account', revoked', overwritten', issued')
  BY <1>1, Returned DEF GoodRequest
<1>6. AccountsTypeOK'
  <2>1. account' \in [Users -> Account] /\ revoked' \in [Users -> Nat]
    BY <1>1, <1>3, <1>4
  <2>2. epoch' \in [Sessions -> {"none", "active", "grace", "revoked"}]
    <3>1. epoch' = [s \in Sessions |-> IF epoch[s] # "active" THEN epoch[s]
                                       ELSE IF ceremony[c].grace THEN "grace" ELSE "revoked"]
      BY DEF ActivateRecovery, EveryEpochRevoked
    <3> QED  BY <1>0, <3>1 DEF AccountsTypeOK
  <2>3. reserved' \subseteq Sessions
    BY ReservedAreSessions DEF ActivateRecovery, SetCeremony
  <2> QED  BY <1>0, <1>1, <1>2, <1>5, <2>1, <2>2, <2>3 DEF AccountsTypeOK
<1>7. ASSUME NEW u \in issued, account'[u].role # "none", u \notin overwritten'
      PROVE  /\ account[u].role # "none" /\ u \notin overwritten
             /\ \E d \in 0..1 : /\ account'[u].version = account[u].version + d
                                /\ revoked'[u] = revoked[u] + d
  <2>1. u \in Users /\ Exists(u)
    BY <1>0, <1>4, <1>7 DEF AccountsTypeOK, Exists
  <2>2. account'[u].version = account[u].version + 1 /\ revoked'[u] = revoked[u] + 1
    BY <1>1, <1>3, <1>4, <2>1
  <2> QED  BY <1>1, <1>7, <2>1, <2>2 DEF Exists
<1>8. \A u \in Users : account'[u].role # "none" => u \in issued'
  BY <1>1, <1>4 DEF AccountsInv, Exists
<1>9. InstallationStaysWhole'
  BY <1>0, <1>1, <1>2, <1>4, AccountsConstants
     DEF AccountsInv, AccountsTypeOK, InstallationStaysWhole, Exists, AccountsConstants
<1> QED  BY <1>1, <1>5, <1>6, <1>7, <1>8, <1>9, AccountsMove

LEMMA CeremonyKeepsAccounts ==
    ASSUME AccountsInv, CeremonyInv, CeremonyNext
    PROVE  AccountsInv'
<1>0. AccountsTypeOK
  BY DEF AccountsInv
<1>1. ASSUME NEW r \in Requests, NEW s \in Sessions, BeginCeremonyCall(r, s) PROVE AccountsInv'
  <2>1. UNCHANGED <<account, custodian, session, epoch, reserved, issued, founded, revoked, overwritten>>
    BY <1>1 DEF BeginCeremonyCall
  <2>2. PICK kind \in {"ceremony", "activate"} : /\ session[s].user \in Users /\ Exists(session[s].user)
                                                 /\ Await(r, kind, session[s].user, s)
    BY <1>0, <1>1 DEF BeginCeremonyCall, CanActivate, Active, AccountsTypeOK, Token
  <2>3. kind \in RequestKinds /\ kind # "register"
    BY DEF RequestKinds
  <2>4. /\ request' \in [Requests -> Request]
        /\ \A q \in Requests : \/ request'[q] = request[q]
                               \/ GoodRequest(request'[q], account, revoked, overwritten, issued)
    BY <2>2, <2>3, Awaited
  <2> QED  BY <1>0, <2>1, <2>4, AccountsStay DEF AccountsTypeOK
<1>2. ASSUME NEW r \in Requests, Refuse(r) PROVE AccountsInv'
  BY <1>0, <1>2, CeremonyReturns DEF Refuse, AccountsTypeOK
<1>3. ASSUME NEW r \in Requests, NEW c \in Ceremonies,
             \/ StartRecovery(r, c)
             \/ \E reason \in OperationReasons : StartKeyCeremony(r, c, reason)
      PROVE  AccountsInv'
  <2>1. PICK reason, candidate : Begin(r, c, reason, candidate)
    BY <1>3 DEF StartRecovery, StartKeyCeremony
  <2>2. reserved' \subseteq Sessions
    BY <2>1, ReservedAreSessions DEF Begin
  <2> QED  BY <2>1, <2>2, CeremonyReturns DEF Begin
<1>4. ASSUME NEW r \in Requests, NEW c \in Ceremonies,
             ApproveRecovery(r, c) \/ AbortRecovery(r, c) \/ ConfirmPresence(r, c)
      PROVE  AccountsInv'
  <2>1. reserved' \subseteq Sessions
    BY <1>4, ReservedAreSessions DEF ApproveRecovery, AbortRecovery, ConfirmPresence, SetCeremony
  <2> QED  BY <1>4, <2>1, CeremonyReturns DEF ApproveRecovery, AbortRecovery, ConfirmPresence
<1>5. ASSUME NEW r \in Requests, NEW c \in Ceremonies, RefuseIneligible(r, c) PROVE AccountsInv'
  BY <1>0, <1>5, CeremonyReturns DEF RefuseIneligible, AccountsTypeOK
<1>6. ASSUME NEW r \in Requests, NEW c \in Ceremonies, ActivateRecovery(r, c) PROVE AccountsInv'
  BY <1>6, ActivationKeepsAccounts
<1>7. ASSUME NEW c \in Ceremonies, PresenceLapses(c) \/ CeremonyExpires(c) PROVE AccountsInv'
  <2>1. reserved' \subseteq Sessions
    BY <1>7, ReservedAreSessions DEF PresenceLapses, CeremonyExpires, SetCeremony
  <2>2. UNCHANGED <<account, custodian, session, epoch, request, issued, founded, revoked, overwritten>>
    BY <1>7 DEF PresenceLapses, CeremonyExpires
  <2> QED  BY <1>0, <2>1, <2>2, AccountsStay DEF AccountsTypeOK
<1>8. CASE GraceEnds
  <2>1. epoch' \in [Sessions -> {"none", "active", "grace", "revoked"}]
    BY <1>0, <1>8 DEF GraceEnds, AccountsTypeOK
  <2> QED  BY <1>0, <1>8, <2>1, AccountsStay DEF GraceEnds, AccountsTypeOK
<1> QED  BY <1>1, <1>2, <1>3, <1>4, <1>5, <1>6, <1>7, <1>8 DEF CeremonyNext
-----------------------------------------------------------------------------
(* Steps of the sign-ins *)

\* What was tested stays tested, so what is known of a row lasts; a step shows what it
\* changes.
LEMMA ExternalMove ==
    ASSUME ExternalInv, ExternalTypeOK', tested \subseteq tested', GoodLinks(link'),
           \A p \in Providers :
              provider'[p] = provider[p] \/ GoodProvider(p, provider'[p], tested'),
           \A r \in Requests :
              setting'[r] = setting[r] \/ GoodSetting(setting'[r], tested'),
           \A f \in Flows :
              \/ flow'[f] = flow[f] /\ callback'[f] = callback[f] /\ signedIn'[f] = signedIn[f]
              \/ /\ GoodCallback(flow'[f], callback'[f], tested')
                 /\ GoodFlow(flow'[f], callback'[f], signedIn'[f], tested')
    PROVE  ExternalInv'
<1>1. \A p \in Providers : GoodProvider(p, provider'[p], tested')
  BY DEF ExternalInv, GoodProvider
<1>2. \A r \in Requests : GoodSetting(setting'[r], tested')
  BY DEF ExternalInv, GoodSetting, GoodProvider
<1>3. \A f \in Flows : GoodCallback(flow'[f], callback'[f], tested')
  BY DEF ExternalInv, GoodCallback, GoodProvider
<1>4. \A f \in Flows : GoodFlow(flow'[f], callback'[f], signedIn'[f], tested')
  BY DEF ExternalInv, GoodFlow
<1> QED  BY <1>1, <1>2, <1>3, <1>4 DEF ExternalInv

\* A settings handler saves a row it has made of the one it read.
LEMMA ProviderSaved ==
    ASSUME ExternalInv, NEW p \in Providers, NEW row \in Provider, GoodProvider(p, row, tested),
           SaveProvider(p, row)
    PROVE  /\ provider' \in [Providers -> Provider]
           /\ \A q \in Providers : provider'[q] = provider[q] \/ GoodProvider(q, provider'[q], tested)
  BY DEF SaveProvider, ExternalInv, ExternalTypeOK

\* A configuration that is saved keeps the approval only when it is the tested one.
LEMMA ReconfiguredIsGood ==
    ASSUME NEW p, NEW row \in Provider, NEW T, GoodProvider(p, row, T), NEW config \in Configs \cup {Draft}
    PROVE  Reconfigured(row, config) \in Provider /\ GoodProvider(p, Reconfigured(row, config), T)
<1>1. CASE row.tested \in {Draft, config}
  <2> DEFINE x == [row EXCEPT !.exists = TRUE, !.config = config]
  <2>1. x \in Provider /\ x.config = config /\ x.tested = row.tested /\ x.enabled = row.enabled
    BY DEF Provider
  <2>2. Reconfigured(row, config) = x
    BY <1>1 DEF Reconfigured
  <2> HIDE DEF x
  <2> QED  BY <1>1, <2>1, <2>2 DEF GoodProvider, Approved
<1>2. CASE row.tested \notin {Draft, config}
  <2> DEFINE x == [row EXCEPT !.config = config, !.tested = Draft, !.enabled = FALSE]
  <2>1. x \in Provider /\ x.tested = Draft /\ ~x.enabled
    BY DEF Provider
  <2>2. Reconfigured(row, config) = x
    BY <1>2 DEF Reconfigured
  <2> HIDE DEF x
  <2> QED  BY <2>1, <2>2 DEF GoodProvider
<1> QED  BY <1>1, <1>2

LEMMA SettingsKeepExternal ==
    ASSUME ExternalInv, NEW r \in Requests,
           \/ \E s \in Sessions, kind \in SettingKinds : LoadSettings(r, s, kind)
           \/ \E config \in Configs \cup {Draft} : SaveSettings(r, config)
           \/ SetEnabled(r)
           \/ RemoveProvider(r)
    PROVE  ExternalInv'
<1>0. ExternalTypeOK /\ GoodLinks(link)
  BY DEF ExternalInv
<1>1. NoProvider \in Provider /\ NoSetting \in Setting /\ NoSetting.id = Nobody /\ NoSetting.kind = "idle"
  BY DEF NoSetting, Setting, NoProvider, Provider
<1>2. GoodSetting(NoSetting, tested)
  BY <1>1 DEF GoodSetting
<1>3. setting[r] \in Setting /\ setting[r].row \in Provider /\ GoodSetting(setting[r], tested)
  BY <1>0 DEF ExternalTypeOK, Setting, ExternalInv
<1>4. ASSUME NEW x \in Setting, GoodSetting(x, tested), setting' = [setting EXCEPT ![r] = x],
             GoodLinks(link'), link' \subseteq Link, UNCHANGED <<flow, callback, tested, signedIn>>,
             provider' \in [Providers -> Provider],
             \A q \in Providers : provider'[q] = provider[q] \/ GoodProvider(q, provider'[q], tested)
      PROVE  ExternalInv'
  <2>1. /\ setting' \in [Requests -> Setting]
        /\ \A q \in Requests : setting'[q] = setting[q] \/ GoodSetting(setting'[q], tested)
    BY <1>0, <1>4 DEF ExternalTypeOK
  <2>2. ExternalTypeOK'
    BY <1>0, <1>4, <2>1 DEF ExternalTypeOK
  <2> QED  BY <1>4, <2>1, <2>2, ExternalMove
<1>5. \A q \in Providers : provider[q] \in Provider /\ GoodProvider(q, provider[q], tested)
  BY <1>0 DEF ExternalInv, ExternalTypeOK
<1>6. link \subseteq Link /\ provider \in [Providers -> Provider]
  BY <1>0 DEF ExternalTypeOK
<1>7. ASSUME NEW s \in Sessions, NEW kind \in SettingKinds, LoadSettings(r, s, kind)
      PROVE  ExternalInv'
  <2>1. setting[r] = NoSetting /\ UNCHANGED <<provider, link, flow, callback, tested, signedIn>>
    BY <1>7 DEF LoadSettings
  <2>2. ASSUME NEW p \in Current, setting' = [setting EXCEPT ![r] = [kind |-> kind, id |-> p, row |-> provider[p]]]
        PROVE  ExternalInv'
    <3> DEFINE x == [kind |-> kind, id |-> p, row |-> provider[p]]
    <3>1. p \in Providers
      BY DEF Current
    <3>2. x \in Setting /\ GoodSetting(x, tested)
      BY <1>5, <3>1 DEF Setting, GoodSetting
    <3> HIDE DEF x
    <3>3. setting' = [setting EXCEPT ![r] = x]
      BY <2>2 DEF x
    <3> QED  BY <1>0, <1>4, <1>6, <2>1, <3>2, <3>3
  <2>3. ASSUME kind = "save", setting' = [setting EXCEPT ![r].kind = kind]
        PROVE  ExternalInv'
    <3> DEFINE x == [NoSetting EXCEPT !.kind = kind]
    <3>1. x \in Setting /\ x.id = Nobody /\ x.kind = "save"
      BY <1>1, <2>3 DEF Setting
    <3>2. GoodSetting(x, tested)
      BY <3>1 DEF GoodSetting
    <3>3. setting' = [setting EXCEPT ![r] = x]
      BY <1>0, <2>1, <2>3 DEF ExternalTypeOK
    <3> HIDE DEF x
    <3> QED  BY <1>0, <1>4, <1>6, <2>1, <3>1, <3>2, <3>3
  <2> QED  BY <1>7, <2>2, <2>3 DEF LoadSettings
<1>8. ASSUME NEW config \in Configs \cup {Draft}, SaveSettings(r, config)
      PROVE  ExternalInv'
  <2>1. PICK p \in Providers, row \in Provider : /\ GoodProvider(p, row, tested)
                                                 /\ SaveProvider(p, Reconfigured(row, config))
    <3>1. CASE setting[r].id # Nobody /\ SaveProvider(setting[r].id, Reconfigured(setting[r].row, config))
      BY <1>3, <3>1 DEF Setting, GoodSetting
    <3>2. ASSUME NEW q \in Providers, SaveProvider(q, Reconfigured(NoProvider, config))
          PROVE  GoodProvider(q, NoProvider, tested)
      BY DEF GoodProvider, NoProvider
    <3> QED  BY <1>1, <1>8, <3>1, <3>2 DEF SaveSettings
  <2>2. /\ provider' \in [Providers -> Provider]
        /\ \A q \in Providers : provider'[q] = provider[q] \/ GoodProvider(q, provider'[q], tested)
    BY <2>1, ProviderSaved, ReconfiguredIsGood
  <2> QED  BY <1>0, <1>1, <1>2, <1>4, <1>6, <1>8, <2>2 DEF SaveSettings
<1>9. CASE SetEnabled(r)
  <2> DEFINE p == setting[r].id
             row == setting[r].row
             enabled == setting[r].kind = "enable"
             x == [row EXCEPT !.enabled = enabled]
  <2>1. p \in Providers /\ enabled \in BOOLEAN
    BY <1>3, <1>9 DEF SetEnabled, GoodSetting
  <2>2. GoodProvider(p, row, tested)
    BY <1>3, <2>1, ExternalConstants DEF ExternalConstants, GoodSetting
  <2>3. x \in Provider /\ x.config = row.config /\ x.tested = row.tested /\ x.enabled = enabled
    <3> HIDE DEF enabled, row
    <3> QED  BY <1>3, <2>1 DEF Provider, row
  <2>4. provider' = provider \/ ((enabled => Approved(row)) /\ SaveProvider(p, x))
    BY <1>9 DEF SetEnabled
  <2> HIDE DEF x, enabled
  <2>5. (enabled => Approved(row)) => GoodProvider(p, x, tested)
    BY <2>2, <2>3 DEF GoodProvider, Approved
  <2>6. /\ provider' \in [Providers -> Provider]
        /\ \A q \in Providers : provider'[q] = provider[q] \/ GoodProvider(q, provider'[q], tested)
    BY <1>6, <2>1, <2>3, <2>4, <2>5, ProviderSaved
  <2> QED  BY <1>0, <1>1, <1>2, <1>4, <1>6, <1>9, <2>6 DEF SetEnabled
<1>10. CASE RemoveProvider(r)
  <2> DEFINE p == setting[r].id
             x == [NoProvider EXCEPT !.exists = TRUE, !.removed = TRUE]
             idle(l) == [l EXCEPT !.active = @ /\ l.provider # p]
  <2>1. p \in Providers /\ SaveProvider(p, x) /\ link' = {idle(l) : l \in link}
    BY <1>3, <1>10 DEF RemoveProvider, GoodSetting
  <2>2. x \in Provider /\ x.tested = Draft /\ ~x.enabled
    BY DEF Provider, NoProvider
  <2>3. GoodProvider(p, x, tested)
    BY <2>2 DEF GoodProvider
  <2>4. ASSUME NEW l \in link
        PROVE  /\ idle(l) \in Link /\ idle(l).provider = l.provider
               /\ idle(l).subject = l.subject /\ idle(l).user = l.user
               /\ idle(l).active => l.active
    <3>1. l \in Link
      BY <1>6
    <3> QED  BY <3>1 DEF Link
  <2> HIDE DEF x, idle
  <2>5. link' \subseteq Link
    BY <2>1, <2>4
  <2>6. GoodLinks(link')
    <3> SUFFICES ASSUME NEW l \in link, NEW k \in link, idle(l).provider = idle(k).provider
                 PROVE  /\ idle(l).subject = idle(k).subject => idle(l).user = idle(k).user
                        /\ idle(l).user = idle(k).user /\ idle(l).active /\ idle(k).active
                              => idle(l) = idle(k)
      BY <2>1 DEF GoodLinks
    <3>1. l.provider = k.provider
      BY <2>4
    <3>2. l.subject = k.subject => l.user = k.user
      BY <1>0, <3>1 DEF GoodLinks
    <3>3. l.user = k.user /\ l.active /\ k.active => l = k
      BY <1>0, <3>1 DEF GoodLinks
    <3> QED  BY <2>4, <3>2, <3>3
  <2>7. /\ provider' \in [Providers -> Provider]
        /\ \A q \in Providers : provider'[q] = provider[q] \/ GoodProvider(q, provider'[q], tested)
    BY <2>1, <2>2, <2>3, ProviderSaved
  <2> QED  BY <1>1, <1>2, <1>4, <1>10, <2>5, <2>6, <2>7 DEF RemoveProvider
<1> QED  BY <1>7, <1>8, <1>9, <1>10

\* An administrator takes an account's link away.
LEMMA ResetKeepsExternal ==
    ASSUME ExternalInv, NEW s \in Sessions, NEW u \in Users, ResetLink(s, u)
    PROVE  ExternalInv'
<1>1. link' \subseteq link /\ UNCHANGED <<provider, setting, flow, callback, tested, signedIn>>
  BY DEF ResetLink
<1>2. ExternalTypeOK' /\ GoodLinks(link')
  BY <1>1 DEF ExternalInv, ExternalTypeOK, GoodLinks
<1> QED  BY <1>1, <1>2, ExternalMove
\* A step of one transaction: the others stay.
LEMMA FlowStep ==
    ASSUME ExternalInv, NEW f \in Flows, NEW a \in Flow, NEW c \in Callback,
           flow' = [flow EXCEPT ![f] = a], callback' = [callback EXCEPT ![f] = c],
           UNCHANGED <<setting, signedIn>>,
           tested \subseteq tested', tested' \subseteq Providers \X Configs,
           link' \subseteq Link, GoodLinks(link'),
           provider' \in [Providers -> Provider],
           \A p \in Providers : provider'[p] = provider[p] \/ GoodProvider(p, provider'[p], tested'),
           GoodCallback(a, c, tested'), GoodFlow(a, c, signedIn[f], tested')
    PROVE  ExternalInv'
<1>1. /\ flow' \in [Flows -> Flow] /\ callback' \in [Flows -> Callback]
      /\ flow'[f] = a /\ callback'[f] = c
      /\ \A g \in Flows \ {f} : flow'[g] = flow[g] /\ callback'[g] = callback[g]
  BY DEF ExternalInv, ExternalTypeOK
<1>2. ExternalTypeOK'
  BY <1>1 DEF ExternalInv, ExternalTypeOK
<1>3. \A p \in Providers : GoodProvider(p, provider'[p], tested')
  BY DEF ExternalInv, GoodProvider
<1>4. \A r \in Requests : GoodSetting(setting'[r], tested')
  BY DEF ExternalInv, GoodSetting, GoodProvider
<1>5. \A g \in Flows : GoodCallback(flow'[g], callback'[g], tested')
  BY <1>1 DEF ExternalInv, GoodCallback, GoodProvider
<1>6. \A g \in Flows : GoodFlow(flow'[g], callback'[g], signedIn'[g], tested')
  BY <1>1 DEF ExternalInv, GoodFlow
<1> QED  BY <1>2, <1>3, <1>4, <1>5, <1>6 DEF ExternalInv

\* Expired and completed transactions go; what is known of the others stays.
LEMMA CleaningUp ==
    ASSUME ExternalInv
    PROVE  /\ CleanedUp \in [Flows -> Flow]
           /\ \A f \in Flows : /\ GoodCallback(CleanedUp[f], callback[f], tested)
                               /\ GoodFlow(CleanedUp[f], callback[f], signedIn[f], tested)
<1> SUFFICES ASSUME NEW f \in Flows
             PROVE  /\ CleanedUp[f] \in Flow
                    /\ GoodCallback(CleanedUp[f], callback[f], tested)
                    /\ GoodFlow(CleanedUp[f], callback[f], signedIn[f], tested)
  BY DEF CleanedUp
<1>1. /\ flow[f] \in Flow
      /\ GoodCallback(flow[f], callback[f], tested) /\ GoodFlow(flow[f], callback[f], signedIn[f], tested)
  BY DEF ExternalInv, ExternalTypeOK
<1>2. CASE flow[f].stage = "done" \/ flow[f].expired
  <2> DEFINE x == [flow[f] EXCEPT !.stage = "gone"]
  <2>1. /\ x \in Flow /\ x.stage = "gone" /\ x.purpose = flow[f].purpose
        /\ x.provider = flow[f].provider /\ x.config = flow[f].config
    BY <1>1 DEF Flow
  <2>2. CleanedUp[f] = x /\ flow[f].stage # "none"
    BY <1>1, <1>2 DEF CleanedUp, GoodFlow
  <2> HIDE DEF x
  <2>3. GoodCallback(x, callback[f], tested)
    BY <1>1, <2>1, <2>2 DEF GoodCallback
  <2>4. GoodFlow(x, callback[f], signedIn[f], tested)
    BY <1>1, <2>1, <2>2 DEF GoodFlow
  <2> QED  BY <2>1, <2>2, <2>3, <2>4
<1>3. CASE ~(flow[f].stage = "done" \/ flow[f].expired)
  BY <1>1, <1>3 DEF CleanedUp
<1> QED  BY <1>2, <1>3

LEMMA StartsKeepExternal ==
    ASSUME ExternalInv, NEW f \in Flows, NEW p \in Providers,
           NEW purpose \in {"login", "test"}, StartFlow(f, p, purpose)
    PROVE  ExternalInv'
<1> DEFINE x == [stage |-> "open", purpose |-> purpose, provider |-> p,
                 config |-> provider[p].config, expired |-> FALSE, user |-> Nobody]
<1>1. /\ flow[f] = NoFlow /\ flow' = [CleanedUp EXCEPT ![f] = x]
      /\ UNCHANGED <<provider, link, setting, callback, tested, signedIn>>
  BY DEF StartFlow
<1>2. x \in Flow /\ x.config \in Configs
  BY DEF StartFlow, Flow, ExternalInv, ExternalTypeOK, Provider
<1>3. callback[f].step = "idle" /\ signedIn[f] = 0
  <2>1. flow[f].stage = "none"
    BY <1>1 DEF NoFlow
  <2>2. GoodCallback(flow[f], callback[f], tested) /\ GoodFlow(flow[f], callback[f], signedIn[f], tested)
    BY DEF ExternalInv
  <2> QED  BY <2>1, <2>2 DEF GoodCallback, GoodFlow
<1>4. GoodCallback(x, callback[f], tested) /\ GoodFlow(x, callback[f], signedIn[f], tested)
  BY <1>2, <1>3 DEF GoodCallback, GoodFlow
<1> HIDE DEF x
<1>5. /\ flow' \in [Flows -> Flow]
      /\ \A g \in Flows : /\ GoodCallback(flow'[g], callback[g], tested)
                          /\ GoodFlow(flow'[g], callback[g], signedIn[g], tested)
  BY <1>1, <1>2, <1>4, CleaningUp
<1>6. ExternalTypeOK' /\ GoodLinks(link')
  BY <1>1, <1>5 DEF ExternalInv, ExternalTypeOK
<1> QED  BY <1>1, <1>5, <1>6, ExternalMove

\* A code is exchanged once: its transaction is done with it.
LEMMA CompletionKeepsExternal ==
    ASSUME ExternalInv, NEW f \in Flows, NEW s \in Sessions, CompleteFlow(f, s)
    PROVE  ExternalInv'
<1> DEFINE x == [CleanedUp[f] EXCEPT !.stage = "done"]
<1>1. /\ flow[f].stage = "coded" /\ ~flow[f].expired
      /\ flow' = [CleanedUp EXCEPT ![f].stage = "done"]
      /\ signedIn' = [signedIn EXCEPT ![f] = @ + 1]
      /\ UNCHANGED <<provider, link, setting, callback, tested>>
  BY DEF CompleteFlow
<1>2. /\ CleanedUp[f] = flow[f] /\ flow[f] \in Flow /\ CleanedUp \in [Flows -> Flow]
      /\ GoodCallback(flow[f], callback[f], tested) /\ GoodFlow(flow[f], callback[f], signedIn[f], tested)
  BY <1>1, CleaningUp DEF CleanedUp, ExternalInv, ExternalTypeOK
<1>3. flow' = [CleanedUp EXCEPT ![f] = x]
  BY <1>1, <1>2
<1>4. /\ x \in Flow /\ x.stage = "done" /\ x.purpose = flow[f].purpose
      /\ x.provider = flow[f].provider /\ x.config = flow[f].config /\ ~x.expired
  BY <1>1, <1>2 DEF Flow
<1>5. signedIn[f] = 0 /\ signedIn'[f] = 1 /\ \A g \in Flows \ {f} : signedIn'[g] = signedIn[g]
  BY <1>1, <1>2 DEF GoodFlow, ExternalInv, ExternalTypeOK
<1> HIDE DEF x
<1>6. GoodCallback(x, callback[f], tested) /\ GoodFlow(x, callback[f], 1, tested)
  BY <1>1, <1>2, <1>4 DEF GoodCallback, GoodFlow
<1>7. /\ flow' \in [Flows -> Flow] /\ flow'[f] = x
      /\ \A g \in Flows \ {f} : flow'[g] = CleanedUp[g]
  BY <1>2, <1>3, <1>4
<1>8. signedIn' \in [Flows -> Nat]
  BY <1>1, <1>5 DEF ExternalInv, ExternalTypeOK
<1>9. ExternalTypeOK' /\ GoodLinks(link')
  BY <1>1, <1>7, <1>8 DEF ExternalInv, ExternalTypeOK
<1>10. \A g \in Flows : /\ GoodCallback(flow'[g], callback'[g], tested')
                        /\ GoodFlow(flow'[g], callback'[g], signedIn'[g], tested')
  BY <1>1, <1>5, <1>6, <1>7, CleaningUp
<1> QED  BY <1>1, <1>9, <1>10, ExternalMove
\* A callback goes on: nothing but its own row changes.
LEMMA CallbackStep ==
    ASSUME ExternalInv, NEW f \in Flows, NEW c \in Callback, callback' = [callback EXCEPT ![f] = c],
           GoodCallback(flow[f], c, tested), callback[f].step \notin {"idle", "over"},
           link' \subseteq Link, GoodLinks(link'),
           UNCHANGED <<provider, setting, flow, tested, signedIn>>
    PROVE  ExternalInv'
<1>1. /\ flow[f] \in Flow /\ flow' = [flow EXCEPT ![f] = flow[f]]
      /\ tested' \subseteq Providers \X Configs /\ provider' \in [Providers -> Provider]
  BY DEF ExternalInv, ExternalTypeOK
<1>2. GoodFlow(flow[f], c, signedIn[f], tested)
  BY DEF ExternalInv, GoodFlow
<1> DEFINE a == flow[f]
<1> HIDE DEF a
<1>3. a \in Flow /\ flow' = [flow EXCEPT ![f] = a] /\ GoodFlow(a, c, signedIn[f], tested)
      /\ GoodCallback(a, c, tested)
  BY <1>1, <1>2 DEF a
<1> QED  BY <1>1, <1>3, FlowStep

\* A callback fails.
LEMMA CallbackFails ==
    ASSUME ExternalInv, NEW f \in Flows, callback[f].step \notin {"idle", "over"},
           callback' = [callback EXCEPT ![f].step = "failed"],
           UNCHANGED <<provider, link, setting, flow, tested, signedIn>>
    PROVE  ExternalInv'
<1> DEFINE c == [callback[f] EXCEPT !.step = "failed"]
<1>1. callback[f] \in Callback /\ GoodCallback(flow[f], callback[f], tested) /\ GoodLinks(link)
      /\ link \subseteq Link
  BY DEF ExternalInv, ExternalTypeOK
<1>2. c \in Callback /\ c.step = "failed"
  BY <1>1 DEF Callback, CallbackSteps
<1>3. callback' = [callback EXCEPT ![f] = c]
  BY DEF ExternalInv, ExternalTypeOK
<1> HIDE DEF c
<1>4. GoodCallback(flow[f], c, tested)
  BY <1>1, <1>2 DEF GoodCallback
<1> QED  BY <1>1, <1>2, <1>3, <1>4, CallbackStep

LEMMA ConsumeKeepsExternal ==
    ASSUME ExternalInv, NEW f \in Flows, ConsumeCallbackState(f)
    PROVE  ExternalInv'
<1> DEFINE a == [flow[f] EXCEPT !.stage = "consumed"]
           c == [NoCallback EXCEPT !.step = "load"]
<1>1. /\ flow[f] \in Flow /\ flow[f].stage = "open"
      /\ GoodCallback(flow[f], callback[f], tested) /\ GoodFlow(flow[f], callback[f], signedIn[f], tested)
      /\ UNCHANGED <<provider, link, setting, tested, signedIn>>
  BY DEF ExternalInv, ExternalTypeOK, ConsumeCallbackState
<1>2. /\ a \in Flow /\ a.stage = "consumed" /\ a.provider = flow[f].provider /\ a.config = flow[f].config
      /\ c \in Callback /\ c.step = "load"
  BY <1>1 DEF Flow, NoCallback, Callback, CallbackSteps, NoProvider, Provider
<1>3. flow' = [flow EXCEPT ![f] = a] /\ callback' = [callback EXCEPT ![f] = c]
  BY DEF ExternalInv, ExternalTypeOK, ConsumeCallbackState
<1> HIDE DEF a, c
<1>4. GoodCallback(a, c, tested) /\ GoodFlow(a, c, signedIn[f], tested)
  BY <1>1, <1>2 DEF GoodCallback, GoodFlow
<1>5. /\ tested' \subseteq Providers \X Configs /\ link' \subseteq Link /\ GoodLinks(link')
      /\ provider' \in [Providers -> Provider]
  BY <1>1 DEF ExternalInv, ExternalTypeOK
<1> QED  BY <1>1, <1>2, <1>3, <1>4, <1>5, FlowStep

\* The provider's row is read; the callback goes on only with the configuration its
\* transaction began with.
LEMMA LoadKeepsExternal ==
    ASSUME ExternalInv, NEW f \in Flows, NEW cancelled \in BOOLEAN, LoadProvider(f, cancelled)
    PROVE  ExternalInv'
<1> DEFINE row == provider[flow[f].provider]
           next == IF row.removed THEN "over"
                   ELSE IF cancelled \/ row.config # flow[f].config THEN "failed" ELSE "exchange"
           c == [callback[f] EXCEPT !.row = row, !.step = next]
<1>1. /\ callback[f] \in Callback /\ callback[f].step = "load" /\ flow[f].stage \notin {"none", "open"}
      /\ flow[f].provider \in Providers /\ flow[f].config \in Configs
  BY DEF ExternalInv, ExternalTypeOK, LoadProvider, GoodCallback
<1>2. row \in Provider /\ GoodProvider(flow[f].provider, row, tested)
  BY <1>1 DEF ExternalInv, ExternalTypeOK
<1>3. next \in {"over", "failed", "exchange"} /\ (next = "exchange" => row.config = flow[f].config)
  OBVIOUS
<1>4. callback' = [callback EXCEPT ![f] = c]
  BY DEF ExternalInv, ExternalTypeOK, LoadProvider
<1> HIDE DEF next, row
<1>5. c \in Callback /\ c.step = next /\ c.row = row
  BY <1>1, <1>2, <1>3 DEF Callback, CallbackSteps
<1> HIDE DEF c
<1>6. GoodCallback(flow[f], c, tested)
  BY <1>1, <1>2, <1>3, <1>5 DEF GoodCallback
<1>7. /\ UNCHANGED <<provider, link, setting, flow, tested, signedIn>>
      /\ link \subseteq Link /\ GoodLinks(link)
  BY DEF LoadProvider, ExternalInv, ExternalTypeOK
<1> QED  BY <1>1, <1>4, <1>5, <1>6, <1>7, CallbackStep

\* A test that succeeded is recorded for the configuration it was made with.
LEMMA TestsKeepExternal ==
    ASSUME ExternalInv, NEW f \in Flows, RecordSuccessfulTest(f)
    PROVE  ExternalInv'
<1> DEFINE p == flow[f].provider
           config == flow[f].config
<1>0. /\ ExternalTypeOK /\ GoodLinks(link) /\ flow[f] \in Flow /\ callback[f] \in Callback
      /\ GoodCallback(flow[f], callback[f], tested) /\ GoodFlow(flow[f], callback[f], signedIn[f], tested)
  BY DEF ExternalInv, ExternalTypeOK
<1>1. callback[f].step = "exchange" /\ flow[f].purpose = "test" /\ UNCHANGED <<link, setting, signedIn>>
  BY DEF RecordSuccessfulTest
<1>2. CASE /\ callback' = [callback EXCEPT ![f].step = "failed"]
           /\ UNCHANGED <<provider, tested, flow>>
  BY <1>1, <1>2, CallbackFails
<1>3. CASE /\ ~provider[p].removed /\ provider[p].config = config
           /\ provider' = [provider EXCEPT ![p].tested = config]
           /\ tested' = tested \cup {<<p, config>>}
           /\ callback' = [callback EXCEPT ![f].step = "over"]
           /\ flow' = [flow EXCEPT ![f].stage = "consumed"]
  <2> DEFINE a == [flow[f] EXCEPT !.stage = "consumed"]
             c == [callback[f] EXCEPT !.step = "over"]
             row == [provider[p] EXCEPT !.tested = config]
  <2>1. p \in Providers /\ config \in Configs /\ provider[p] \in Provider
    BY <1>0, <1>1 DEF GoodCallback, Flow, ExternalTypeOK
  <2>2. /\ a \in Flow /\ a.stage = "consumed" /\ a.provider = p /\ a.config = config
        /\ a.purpose = "test" /\ flow[f].stage # "none"
        /\ c \in Callback /\ c.step = "over"
    BY <1>0, <1>1 DEF Flow, Callback, CallbackSteps, GoodCallback
  <2>3. row \in Provider /\ row.tested = config /\ row.config = config
    BY <1>3, <2>1 DEF Provider
  <2>4. /\ flow' = [flow EXCEPT ![f] = a] /\ callback' = [callback EXCEPT ![f] = c]
        /\ provider' = [provider EXCEPT ![p] = row]
    BY <1>0, <1>3, <2>1 DEF ExternalTypeOK
  <2> HIDE DEF a, c, row
  <2>5. GoodCallback(a, c, tested') /\ GoodFlow(a, c, signedIn[f], tested')
    <3>1. signedIn[f] = 0
      BY <1>0, <1>1 DEF GoodFlow
    <3> QED  BY <2>1, <2>2, <3>1 DEF GoodCallback, GoodFlow
  <2>6. GoodProvider(p, row, tested')
    BY <1>3, <2>1, <2>3, ExternalConstants DEF ExternalConstants, GoodProvider, Approved
  <2>7. /\ tested' \subseteq Providers \X Configs /\ tested \subseteq tested'
        /\ provider' \in [Providers -> Provider] /\ link' \subseteq Link /\ GoodLinks(link')
        /\ \A q \in Providers : provider'[q] = provider[q] \/ GoodProvider(q, provider'[q], tested')
    BY <1>0, <1>1, <1>3, <2>1, <2>3, <2>4, <2>6 DEF ExternalTypeOK
  <2> QED  BY <1>1, <2>2, <2>4, <2>5, <2>7, FlowStep
<1> QED  BY <1>2, <1>3 DEF RecordSuccessfulTest
\* The account of a sign-in is found: by its link, or by its address to be linked now.
LEMMA AuthenticateKeepsExternal ==
    ASSUME ExternalInv, NEW f \in Flows, NEW subject \in Subjects, NEW email \in Emails,
           Authenticate(f, subject, email)
    PROVE  ExternalInv'
<1>1. /\ callback[f] \in Callback /\ callback[f].step = "exchange" /\ flow[f].purpose = "login"
      /\ GoodCallback(flow[f], callback[f], tested) /\ link \subseteq Link /\ GoodLinks(link)
      /\ UNCHANGED <<provider, link, setting, flow, tested, signedIn>>
  BY DEF Authenticate, ExternalInv, ExternalTypeOK
<1>2. CASE callback' = [callback EXCEPT ![f].step = "failed"]
  BY <1>1, <1>2, CallbackFails
<1>3. ASSUME NEW step \in {"code", "link", "failed"}, NEW u \in Users, Usable(callback[f].row),
             callback' = [callback EXCEPT ![f].step = step, ![f].user = u, ![f].subject = subject]
      PROVE  ExternalInv'
  <2> DEFINE c == [callback[f] EXCEPT !.step = step, !.user = u, !.subject = subject]
  <2>1. c \in Callback /\ c.step = step /\ c.user = u /\ c.subject = subject /\ c.row = callback[f].row
    BY <1>1 DEF Callback, CallbackSteps
  <2>2. callback' = [callback EXCEPT ![f] = c]
    BY <1>3 DEF ExternalInv, ExternalTypeOK
  <2> HIDE DEF c
  <2>3. <<flow[f].provider, flow[f].config>> \in tested
    BY <1>1, <1>3 DEF Usable, Approved, GoodCallback, GoodProvider
  <2>4. GoodCallback(flow[f], c, tested)
    BY <1>1, <2>1, <2>3 DEF GoodCallback
  <2> QED  BY <1>1, <2>1, <2>2, <2>4, CallbackStep
<1>4. ASSUME Usable(callback[f].row),
             NEW u \in {l.user : l \in ActiveLink(flow[f].provider, subject)},
             callback' = [callback EXCEPT ![f].step = IF Active(u) THEN "code" ELSE "failed",
                                          ![f].user = u, ![f].subject = subject]
      PROVE  ExternalInv'
  <2> DEFINE step == IF Active(u) THEN "code" ELSE "failed"
  <2>1. u \in Users
    BY <1>1 DEF ActiveLink, Link
  <2>2. step \in {"code", "link", "failed"}
    OBVIOUS
  <2> HIDE DEF step
  <2>3. callback' = [callback EXCEPT ![f].step = step, ![f].user = u, ![f].subject = subject]
    BY <1>4 DEF step
  <2> QED  BY <1>3, <1>4, <2>1, <2>2, <2>3
<1> QED  BY <1>2, <1>3, <1>4 DEF Authenticate

\* A link is made where neither its subject nor its account has one.
LEMMA LinksKeepExternal ==
    ASSUME ExternalInv, NEW f \in Flows, InsertLink(f)
    PROVE  ExternalInv'
<1> DEFINE p == flow[f].provider
           u == callback[f].user
           subject == callback[f].subject
           l == [provider |-> p, subject |-> subject, user |-> u, active |-> TRUE]
           c == [callback[f] EXCEPT !.step = "code"]
<1>1. /\ callback[f] \in Callback /\ callback[f].step = "link"
      /\ GoodCallback(flow[f], callback[f], tested) /\ link \subseteq Link /\ GoodLinks(link)
      /\ UNCHANGED <<provider, setting, flow, tested, signedIn>>
  BY DEF InsertLink, ExternalInv, ExternalTypeOK
<1>2. CASE LinkTaken(p, subject, u) \/ ~Exists(u)
  <2>1. callback' = [callback EXCEPT ![f].step = "failed"] /\ UNCHANGED link
    BY <1>2 DEF InsertLink
  <2> QED  BY <1>1, <2>1, CallbackFails
<1>3. CASE ~(LinkTaken(p, subject, u) \/ ~Exists(u))
  <2>1. link' = link \cup {l} /\ callback' = [callback EXCEPT ![f].step = "code"]
    BY <1>3 DEF InsertLink
  <2>2. p \in Providers /\ subject \in Subjects /\ u \in Users
    BY <1>1 DEF GoodCallback
  <2>3. l \in Link /\ l.provider = p /\ l.subject = subject /\ l.user = u
    BY <2>2 DEF Link
  <2>4. c \in Callback /\ c.step = "code" /\ c.user = u /\ c.row = callback[f].row
    BY <1>1 DEF Callback, CallbackSteps
  <2>5. callback' = [callback EXCEPT ![f] = c]
    BY <2>1 DEF ExternalInv, ExternalTypeOK
  <2>6. GoodCallback(flow[f], c, tested)
    <3> HIDE DEF c
    <3> QED  BY <1>1, <2>4 DEF GoodCallback
  <2>7. \A k \in link : k.provider = p => k.subject # subject /\ ~(k.user = u /\ k.active)
    BY <1>3 DEF LinkTaken
  <2> HIDE DEF l, c, p, subject, u
  <2>8. link' \subseteq Link /\ GoodLinks(link')
    BY <1>1, <2>1, <2>3, <2>7 DEF GoodLinks
  <2> QED  BY <1>1, <2>4, <2>5, <2>6, <2>8, CallbackStep
<1> QED  BY <1>2, <1>3

\* The outcome of a callback is saved over its transaction.
LEMMA OutcomesKeepExternal ==
    ASSUME ExternalInv, NEW f \in Flows, SaveCode(f) \/ SaveFailure(f)
    PROVE  ExternalInv'
<1> DEFINE c == [callback[f] EXCEPT !.step = "over"]
<1>1. /\ callback[f] \in Callback /\ flow[f] \in Flow /\ callback[f].step \in {"code", "failed"}
      /\ GoodCallback(flow[f], callback[f], tested) /\ GoodFlow(flow[f], callback[f], signedIn[f], tested)
      /\ UNCHANGED <<provider, link, setting, tested, signedIn>>
      /\ link \subseteq Link /\ GoodLinks(link)
      /\ provider \in [Providers -> Provider] /\ tested \subseteq Providers \X Configs
  BY DEF SaveCode, SaveFailure, ExternalInv, ExternalTypeOK
<1>2. c \in Callback /\ c.step = "over" /\ callback' = [callback EXCEPT ![f] = c]
  BY <1>1 DEF Callback, CallbackSteps, SaveCode, SaveFailure, ExternalInv, ExternalTypeOK
<1>3. /\ signedIn[f] = 0 /\ flow[f].stage \notin {"none", "open", "coded"}
      /\ flow[f].provider \in Providers /\ flow[f].config \in Configs
  BY <1>1 DEF GoodCallback, GoodFlow
<1> HIDE DEF c
<1>4. ASSUME NEW a \in Flow, flow' = [flow EXCEPT ![f] = a],
             a.provider = flow[f].provider, a.config = flow[f].config, a.stage \notin {"none", "open"},
             a.purpose = "login" /\ a.stage \in {"coded", "done"} => <<a.provider, a.config>> \in tested,
             a.stage = "coded" => a.user \in Users
      PROVE  ExternalInv'
  <2>1. GoodCallback(a, c, tested) /\ GoodFlow(a, c, signedIn[f], tested)
    BY <1>2, <1>3, <1>4 DEF GoodCallback, GoodFlow
  <2> QED  BY <1>1, <1>2, <1>4, <2>1, FlowStep
<1>5. CASE SaveCode(f)
  <2>1. CASE Exists(callback[f].user)
    <3> DEFINE a == [flow[f] EXCEPT !.stage = "coded", !.expired = FALSE, !.user = callback[f].user]
    <3>1. callback[f].user \in Users /\ <<flow[f].provider, flow[f].config>> \in tested
      BY <1>1, <1>5 DEF SaveCode, GoodCallback
    <3>2. /\ a \in Flow /\ a.provider = flow[f].provider /\ a.config = flow[f].config
          /\ a.stage = "coded" /\ a.user \in Users
      BY <1>1, <3>1 DEF Flow
    <3>3. flow' = [flow EXCEPT ![f] = a]
      BY <1>5, <2>1 DEF SaveCode, ExternalInv, ExternalTypeOK
    <3> HIDE DEF a
    <3> QED  BY <1>4, <3>1, <3>2, <3>3
  <2>2. CASE ~Exists(callback[f].user)
    <3>1. flow' = flow
      BY <1>5, <2>2 DEF SaveCode
    <3>2. GoodCallback(flow[f], c, tested)
      BY <1>2, <1>3 DEF GoodCallback
    <3> QED  BY <1>1, <1>2, <3>1, <3>2, CallbackStep
  <2> QED  BY <2>1, <2>2
<1>6. CASE SaveFailure(f)
  <2> DEFINE a == [flow[f] EXCEPT !.stage = "consumed"]
  <2>1. a \in Flow /\ a.provider = flow[f].provider /\ a.config = flow[f].config /\ a.stage = "consumed"
    BY <1>1 DEF Flow
  <2>2. flow' = [flow EXCEPT ![f] = a]
    BY <1>6 DEF SaveFailure, ExternalInv, ExternalTypeOK
  <2> HIDE DEF a
  <2> QED  BY <1>4, <2>1, <2>2
<1> QED  BY <1>5, <1>6

LEMMA ExpiryKeepsExternal ==
    ASSUME ExternalInv, NEW f \in Flows, FlowExpires(f)
    PROVE  ExternalInv'
<1> DEFINE a == [flow[f] EXCEPT !.expired = TRUE]
<1>1. /\ callback[f] \in Callback /\ flow[f] \in Flow /\ flow[f].stage # "none"
      /\ GoodCallback(flow[f], callback[f], tested) /\ GoodFlow(flow[f], callback[f], signedIn[f], tested)
      /\ UNCHANGED <<provider, link, setting, callback, tested, signedIn>>
      /\ link \subseteq Link /\ GoodLinks(link)
      /\ provider \in [Providers -> Provider] /\ tested \subseteq Providers \X Configs
      /\ callback' = [callback EXCEPT ![f] = callback[f]]
  BY DEF FlowExpires, ExternalInv, ExternalTypeOK
<1>2. /\ a \in Flow /\ a.provider = flow[f].provider /\ a.config = flow[f].config
      /\ a.stage = flow[f].stage /\ a.purpose = flow[f].purpose /\ a.user = flow[f].user
  BY <1>1 DEF Flow
<1>3. flow' = [flow EXCEPT ![f] = a]
  BY DEF FlowExpires, ExternalInv, ExternalTypeOK
<1> DEFINE c == callback[f]
<1> HIDE DEF a
<1>4. GoodCallback(a, c, tested) /\ GoodFlow(a, c, signedIn[f], tested)
  BY <1>1, <1>2 DEF GoodCallback, GoodFlow
<1>5. c \in Callback /\ callback' = [callback EXCEPT ![f] = c]
  BY <1>1
<1> HIDE DEF c
<1> QED  BY <1>1, <1>2, <1>3, <1>4, <1>5, FlowStep

\* A restart ends callbacks and settings handlers where they are.
LEMMA RestartKeepsExternal ==
    ASSUME ExternalInv, RestartExternal
    PROVE  ExternalInv'
<1> DEFINE over(f) == IF callback[f].step = "idle" THEN NoCallback ELSE [callback[f] EXCEPT !.step = "over"]
<1>1. /\ setting' = [r \in Requests |-> NoSetting] /\ callback' = [f \in Flows |-> over(f)]
      /\ UNCHANGED <<provider, link, flow, tested, signedIn>>
  BY DEF RestartExternal
<1>2. /\ NoSetting \in Setting /\ GoodSetting(NoSetting, tested)
      /\ NoCallback \in Callback /\ NoCallback.step = "idle"
  BY DEF NoSetting, Setting, NoProvider, Provider, GoodSetting, NoCallback, Callback, CallbackSteps
<1>3. ASSUME NEW f \in Flows
      PROVE  /\ over(f) \in Callback
             /\ over(f).step = IF callback[f].step = "idle" THEN "idle" ELSE "over"
  <2>1. callback[f] \in Callback
    BY DEF ExternalInv, ExternalTypeOK
  <2> QED  BY <1>2, <2>1 DEF Callback, CallbackSteps
<1> HIDE DEF over
<1>4. ASSUME NEW f \in Flows
      PROVE  GoodCallback(flow[f], over(f), tested) /\ GoodFlow(flow[f], over(f), signedIn[f], tested)
  <2>1. GoodCallback(flow[f], callback[f], tested) /\ GoodFlow(flow[f], callback[f], signedIn[f], tested)
    BY DEF ExternalInv
  <2>2. CASE callback[f].step = "idle"
    BY <1>3, <2>1, <2>2 DEF GoodCallback, GoodFlow
  <2>3. CASE callback[f].step # "idle"
    BY <1>3, <2>1, <2>3 DEF GoodCallback, GoodFlow
  <2> QED  BY <2>2, <2>3
<1>5. ExternalTypeOK' /\ GoodLinks(link')
  BY <1>1, <1>2, <1>3 DEF ExternalInv, ExternalTypeOK
<1> QED  BY <1>1, <1>2, <1>4, <1>5, ExternalMove

LEMMA ExternalNextKeepsExternal ==
    ASSUME ExternalInv, ExternalNext
    PROVE  ExternalInv'
<1>1. ASSUME NEW r \in Requests,
             \/ \E s \in Sessions, kind \in SettingKinds : LoadSettings(r, s, kind)
             \/ \E config \in Configs \cup {Draft} : SaveSettings(r, config)
             \/ SetEnabled(r)
             \/ RemoveProvider(r)
      PROVE  ExternalInv'
  BY <1>1, SettingsKeepExternal
<1>2. ASSUME NEW s \in Sessions, NEW u \in Users, ResetLink(s, u) PROVE ExternalInv'
  BY <1>2, ResetKeepsExternal
<1>3. ASSUME NEW f \in Flows, NEW p \in Providers,
             StartLogin(f, p) \/ \E s \in Sessions : StartTest(f, p, s)
      PROVE  ExternalInv'
  <2>1. PICK purpose \in {"login", "test"} : StartFlow(f, p, purpose)
    BY <1>3 DEF StartLogin, StartTest
  <2> QED  BY <2>1, StartsKeepExternal
<1>4. ASSUME NEW f \in Flows, FlowExpires(f) \/ ConsumeCallbackState(f) PROVE ExternalInv'
  BY <1>4, ExpiryKeepsExternal, ConsumeKeepsExternal
<1>5. ASSUME NEW f \in Flows, NEW cancelled \in BOOLEAN, LoadProvider(f, cancelled) PROVE ExternalInv'
  BY <1>5, LoadKeepsExternal
<1>6. ASSUME NEW f \in Flows, ExchangeFails(f) PROVE ExternalInv'
  BY <1>6, CallbackFails DEF ExchangeFails
<1>7. ASSUME NEW f \in Flows, RecordSuccessfulTest(f) PROVE ExternalInv'
  BY <1>7, TestsKeepExternal
<1>8. ASSUME NEW f \in Flows, NEW subject \in Subjects, NEW email \in Emails,
             Authenticate(f, subject, email)
      PROVE  ExternalInv'
  BY <1>8, AuthenticateKeepsExternal
<1>9. ASSUME NEW f \in Flows, InsertLink(f) PROVE ExternalInv'
  BY <1>9, LinksKeepExternal
<1>10. ASSUME NEW f \in Flows, SaveCode(f) \/ SaveFailure(f) PROVE ExternalInv'
  BY <1>10, OutcomesKeepExternal
<1>11. ASSUME NEW f \in Flows, NEW s \in Sessions, CompleteFlow(f, s) PROVE ExternalInv'
  BY <1>11, CompletionKeepsExternal
<1>12. CASE RestartExternal
  BY <1>12, RestartKeepsExternal
<1> QED  BY <1>1, <1>2, <1>3, <1>4, <1>5, <1>6, <1>7, <1>8, <1>9, <1>10, <1>11, <1>12 DEF ExternalNext

LEMMA InitEstablishesExternal ==
    ASSUME NEW start, ExternalInit(start)
    PROVE  ExternalInv
<1> DEFINE p == CHOOSE q \in Providers : TRUE
           c == CHOOSE d \in Configs : TRUE
           none == [q \in Providers |-> NoProvider]
           x == [exists |-> TRUE, removed |-> FALSE, config |-> c, tested |-> c, enabled |-> TRUE]
<1>1. p \in Providers /\ c \in Configs
  BY ExternalConstants DEF ExternalConstants
<1>2. /\ \/ provider = none /\ tested = {}
         \/ provider = [none EXCEPT ![p] = x] /\ tested = {<<p, c>>}
      /\ link = {} /\ setting = [r \in Requests |-> NoSetting]
      /\ flow = [f \in Flows |-> NoFlow] /\ callback = [f \in Flows |-> NoCallback]
      /\ signedIn = [f \in Flows |-> 0]
  BY DEF ExternalInit
<1>3. /\ x \in Provider /\ x.tested = c /\ x.config = c
      /\ NoProvider \in Provider /\ NoProvider.tested = Draft /\ ~NoProvider.enabled
  BY <1>1 DEF Provider, NoProvider
<1>4. /\ NoSetting \in Setting /\ NoSetting.id = Nobody /\ NoSetting.kind = "idle"
      /\ NoFlow \in Flow /\ NoFlow.stage = "none" /\ ~NoFlow.expired
      /\ NoCallback \in Callback /\ NoCallback.step = "idle"
  BY <1>3 DEF NoSetting, Setting, NoFlow, Flow, NoCallback, Callback, CallbackSteps
<1> HIDE DEF x, p, c
<1>5. /\ provider \in [Providers -> Provider] /\ tested \subseteq Providers \X Configs
      /\ \A q \in Providers : \/ provider[q] = NoProvider
                              \/ provider[q] = x /\ q = p /\ <<p, c>> \in tested
  BY <1>1, <1>2, <1>3
<1>6. \A q \in Providers : GoodProvider(q, provider[q], tested)
  BY <1>1, <1>3, <1>5, ExternalConstants DEF ExternalConstants, GoodProvider, Approved
<1>7. GoodSetting(NoSetting, tested) /\ GoodCallback(NoFlow, NoCallback, tested)
      /\ GoodFlow(NoFlow, NoCallback, 0, tested)
  BY <1>4 DEF GoodSetting, GoodCallback, GoodFlow
<1> QED  BY <1>2, <1>4, <1>5, <1>6, <1>7 DEF ExternalInv, ExternalTypeOK, GoodLinks
-----------------------------------------------------------------------------
(* Steps of the ceremonies *)

\* The keys stay: a step shows what it makes of the ceremonies, and that it leaves the
\* activated ones alone.
LEMMA CeremonyMove ==
    ASSUME CeremonyInv, UNCHANGED <<keyState, wrapper, audit, contentKeys>>,
           ceremony' = [c \in Ceremonies |-> ceremony'[c]],
           proposed' = [c \in Ceremonies |-> proposed'[c]],
           \A c \in Ceremonies : GoodCeremony(ceremony'[c], proposed'[c], keyState, wrapper),
           \A c \in Ceremonies : ceremony[c].state = "activated" =>
              ceremony'[c] = ceremony[c] /\ proposed'[c] = proposed[c]
    PROVE  CeremonyInv'
<1>1. KeyTypeOK' /\ KeysStayReachable'
  BY DEF CeremonyInv, KeyTypeOK, KeysStayReachable, GoodCeremony
<1>2. ASSUME NEW i \in 1 .. Len(audit)
      PROVE  GoodAudit(audit[i], Len(audit) - i, ceremony'[audit[i].ceremony],
                       proposed'[audit[i].ceremony], keyState)
  <2>1. audit[i] \in AuditEntry
    BY DEF CeremonyInv
  <2>2. audit[i].ceremony \in Ceremonies
    BY <2>1 DEF AuditEntry
  <2>3. GoodAudit(audit[i], Len(audit) - i, ceremony[audit[i].ceremony],
                  proposed[audit[i].ceremony], keyState)
    BY DEF CeremonyInv
  <2> QED  BY <2>2, <2>3 DEF GoodAudit
<1> QED  BY <1>1, <1>2 DEF CeremonyInv

LEMMA CeremonyUntouched ==
    ASSUME CeremonyInv, UNCHANGED ceremonyVars
    PROVE  CeremonyInv'
<1>1. UNCHANGED <<keyState, wrapper, audit, contentKeys, ceremony, proposed>>
  BY DEF ceremonyVars
<1> QED  BY <1>1, CeremonyMove DEF CeremonyInv

\* One ceremony's row is saved.
LEMMA CeremonySaved ==
    ASSUME CeremonyInv, NEW c \in Ceremonies, NEW row, ceremony[c].state # "activated",
           ceremony' = [ceremony EXCEPT ![c] = row],
           UNCHANGED <<keyState, wrapper, audit, contentKeys>>,
           proposed' = [d \in Ceremonies |-> proposed'[d]],
           \A d \in Ceremonies \ {c} : proposed'[d] = proposed[d],
           GoodCeremony(row, proposed'[c], keyState, wrapper)
    PROVE  CeremonyInv'
<1>1. /\ ceremony' = [d \in Ceremonies |-> ceremony'[d]] /\ ceremony'[c] = row
      /\ \A d \in Ceremonies \ {c} : ceremony'[d] = ceremony[d]
  BY DEF CeremonyInv
<1>2. \A d \in Ceremonies : GoodCeremony(ceremony'[d], proposed'[d], keyState, wrapper)
  BY <1>1 DEF CeremonyInv
<1> QED  BY <1>1, <1>2, CeremonyMove

\* The operator a handler acts for.
LEMMA CallerIsOperator ==
    ASSUME AccountsInv, NEW r \in Requests, request[r].kind \in {"ceremony", "activate"}
    PROVE  Caller(r) \in Operator /\ Caller(r).user = request[r].user /\ request[r].user \in Users
<1>1. request[r] \in Request /\ GoodRequest(request[r], account, revoked, overwritten, issued)
      /\ issued \subseteq Users
  BY DEF AccountsInv, AccountsTypeOK
<1>2. request[r].user \in Users /\ request[r].session \in Sessions \cup {Nobody}
      /\ request[r].row.version \in Nat
  BY <1>1 DEF GoodRequest, Request, Account
<1> QED  BY <1>2 DEF Caller, Operator

\* A proposal that fits the keys of the moment.
Fits(candidate) ==
    /\ candidate \in Candidate
    /\ ContextMatches(candidate)
    /\ Succeeds(candidate, keyState, wrapper)

LEMMA BeginKeepsCeremonies ==
    ASSUME AccountsInv, CeremonyInv, NEW r \in Requests, NEW c \in Ceremonies, NEW reason,
           NEW candidate, Fits(candidate), Begin(r, c, reason, candidate)
    PROVE  CeremonyInv'
<1> DEFINE x == [state |-> "pending", expired |-> FALSE, operation |-> reason.operation,
                 grace |-> reason.grace, generation |-> keyState.generation,
                 candidate |-> candidate, initiator |-> Caller(r), approver |-> NoOperator]
           aborted(d) == [ceremony[d] EXCEPT !.state = "aborted"]
           P == {<<request[r].user, candidate>>}
<1>1. /\ ceremony' = [Superseded EXCEPT ![c] = x] /\ proposed' = [proposed EXCEPT ![c] = P]
      /\ ceremony[c].state = "none" /\ request[r].kind = "ceremony"
      /\ UNCHANGED <<keyState, wrapper, audit, contentKeys>>
  BY DEF Begin
<1>2. Caller(r) \in Operator /\ Caller(r).user = request[r].user /\ request[r].user \in Users
  BY <1>1, CallerIsOperator
<1>3. NoOperator \in Operator
  BY DEF NoOperator, Operator
<1>4. /\ DOMAIN x = CeremonyFields /\ x.state = "pending" /\ x.generation = keyState.generation
      /\ x.candidate = candidate /\ x.initiator = Caller(r) /\ x.approver = NoOperator
  BY DEF CeremonyFields
<1> HIDE DEF x
<1>5. GoodCeremony(x, P, keyState, wrapper)
  BY <1>2, <1>3, <1>4 DEF GoodCeremony, Fits, CeremonyInv, KeyTypeOK
<1>6. ASSUME NEW d \in Ceremonies \ {c}
      PROVE  /\ GoodCeremony(Superseded[d], proposed[d], keyState, wrapper)
             /\ ceremony[d].state = "activated" => Superseded[d] = ceremony[d]
  <2>1. GoodCeremony(ceremony[d], proposed[d], keyState, wrapper)
    BY DEF CeremonyInv
  <2>2. CASE Open(d)
    <3>1. Superseded[d] = aborted(d)
      BY <2>2 DEF Superseded
    <3>2. /\ DOMAIN aborted(d) = CeremonyFields /\ aborted(d).state = "aborted"
          /\ aborted(d).candidate = ceremony[d].candidate /\ aborted(d).generation = ceremony[d].generation
          /\ aborted(d).initiator = ceremony[d].initiator /\ aborted(d).approver = ceremony[d].approver
      BY <2>1 DEF GoodCeremony, CeremonyFields
    <3> HIDE DEF aborted
    <3> QED  BY <2>1, <2>2, <3>1, <3>2 DEF GoodCeremony, Open
  <2>3. CASE ~Open(d)
    BY <2>1, <2>3 DEF Superseded
  <2> QED  BY <2>2, <2>3
<1>7. /\ ceremony' = [d \in Ceremonies |-> ceremony'[d]] /\ ceremony'[c] = x
      /\ \A d \in Ceremonies \ {c} : ceremony'[d] = Superseded[d]
  BY <1>1 DEF Superseded
<1>8. /\ proposed' = [d \in Ceremonies |-> proposed'[d]] /\ proposed'[c] = P
      /\ \A d \in Ceremonies \ {c} : proposed'[d] = proposed[d]
  BY <1>1 DEF CeremonyInv
<1> HIDE DEF P
<1>9. \A d \in Ceremonies : GoodCeremony(ceremony'[d], proposed'[d], keyState, wrapper)
  BY <1>5, <1>6, <1>7, <1>8
<1>10. \A d \in Ceremonies : ceremony[d].state = "activated" =>
          ceremony'[d] = ceremony[d] /\ proposed'[d] = proposed[d]
  BY <1>1, <1>6, <1>7, <1>8
<1> QED  BY <1>1, <1>7, <1>8, <1>9, <1>10, CeremonyMove

\* A lost passphrase keeps both keys.
LEMMA RecoveryKeepsCeremonies ==
    ASSUME AccountsInv, CeremonyInv, NEW r \in Requests, NEW c \in Ceremonies, StartRecovery(r, c)
    PROVE  CeremonyInv'
<1> DEFINE slot == [wraps |-> keyState.ork, made |-> c]
           x == [CandidateOf(keyState) EXCEPT !.shared = slot]
           kept == CandidateOf(keyState)
<1>1. /\ keyState.ork \in 1 .. Keys /\ keyState.ock \in 1 .. Keys
      /\ keyState.shared \in Slot /\ keyState.recovery \in Slot
      /\ keyState.recovery.wraps = keyState.ork
  BY DEF CeremonyInv, KeyTypeOK, KeysStayReachable
<1>2. slot \in Slot /\ slot.wraps = keyState.ork
  BY <1>1 DEF Slot
<1>3. /\ kept \in Candidate /\ kept.ork = keyState.ork /\ kept.ock = keyState.ock
      /\ kept.recovery = keyState.recovery /\ kept.history = {}
  BY <1>1 DEF CandidateOf, Candidate
<1> HIDE DEF slot, kept
<1>4. /\ x \in Candidate /\ x.ork = keyState.ork /\ x.ock = keyState.ock
      /\ x.recovery = keyState.recovery /\ x.history = {} /\ x.shared = slot
  BY <1>2, <1>3 DEF Candidate, kept
<1> HIDE DEF x
<1>5. Fits(x)
  BY <1>1, <1>2, <1>4 DEF Fits, ContextMatches, Succeeds
<1>6. Begin(r, c, [operation |-> "lost_passphrase", grace |-> FALSE], x)
  BY DEF StartRecovery, slot, x
<1> QED  BY <1>5, <1>6, BeginKeepsCeremonies

\* What a browser puts together is a candidate, and the check makes it fit.
LEMMA ProposalsFit ==
    ASSUME CeremonyInv, NEW c \in Ceremonies, NEW candidate \in Proposals(c), NEW operation,
           CandidateValid(operation, candidate)
    PROVE  Fits(candidate)
<1> DEFINE parts == [ork : {keyState.ork, keyState.ork + 1} \cap (1 .. Keys),
                     ock : {keyState.ock, keyState.ock + 1} \cap (1 .. Keys),
                     shared : BOOLEAN, recovery : BOOLEAN, changed : BOOLEAN,
                     history : {{}, {keyState.ock}, contentKeys}, copies : {0, 2}]
           slot(made, kept, k) == IF made THEN [wraps |-> k, made |-> c] ELSE kept
<1>1. PICK p \in parts : candidate = [p EXCEPT !.shared = slot(p.shared, keyState.shared, p.ork),
                                               !.recovery = slot(p.recovery, keyState.recovery, p.ork)]
  BY DEF Proposals
<1>2. /\ keyState.ork \in 1 .. Keys /\ keyState.ock \in 1 .. Keys /\ contentKeys \subseteq 1 .. Keys
      /\ keyState.recovery \in Slot /\ keyState.shared \in Slot
  BY DEF CeremonyInv, KeyTypeOK
<1>3. /\ p.ork \in 1 .. Keys /\ p.ock \in 1 .. Keys /\ p.changed \in BOOLEAN
      /\ p.history \subseteq 1 .. Keys /\ p.copies \in {0, 2}
  BY <1>2
<1>4. slot(p.shared, keyState.shared, p.ork) \in Slot /\ slot(p.recovery, keyState.recovery, p.ork) \in Slot
  BY <1>2, <1>3 DEF Slot
<1> HIDE DEF slot
<1>5. candidate \in Candidate
  BY <1>1, <1>3, <1>4 DEF Candidate
<1>6. candidate.ork = keyState.ork => candidate.ock = keyState.ock
  BY DEF CandidateValid, OperationMatches
<1>7. candidate.ork # keyState.ork => candidate.history = RequiredHistory(candidate)
  BY DEF CandidateValid, HistoryComplete
<1> QED  BY <1>5, <1>6, <1>7 DEF Fits, Succeeds, CandidateValid, RequiredHistory

LEMMA StartKeepsCeremonies ==
    ASSUME AccountsInv, CeremonyInv, NEW r \in Requests, NEW c \in Ceremonies, NEW reason,
           StartKeyCeremony(r, c, reason)
    PROVE  CeremonyInv'
<1>1. PICK candidate \in Proposals(c) : /\ CandidateValid(reason.operation, candidate)
                                        /\ Begin(r, c, reason, candidate)
  BY DEF StartKeyCeremony
<1> DEFINE operation == reason.operation
<1>2. CandidateValid(operation, candidate)
  BY <1>1
<1> HIDE DEF operation
<1>3. Fits(candidate)
  BY <1>1, <1>2, ProposalsFit
<1> QED  BY <1>1, <1>3, BeginKeepsCeremonies
\* The second operator confirms the candidate the first one proposed.
LEMMA ApproveKeepsCeremonies ==
    ASSUME AccountsInv, CeremonyInv, NEW r \in Requests, NEW c \in Ceremonies, ApproveRecovery(r, c)
    PROVE  CeremonyInv'
<1> DEFINE row == ceremony[c]
           x == [row EXCEPT !.state = "ready", !.approver = Caller(r)]
           P == proposed[c] \cup {<<request[r].user, row.candidate>>}
<1>1. /\ request[r].kind = "ceremony" /\ row.state = "pending" /\ row.initiator.user # request[r].user
      /\ ceremony' = [ceremony EXCEPT ![c] = x]
      /\ UNCHANGED <<keyState, wrapper, audit, contentKeys>>
      /\ GoodCeremony(row, proposed[c], keyState, wrapper)
  BY DEF ApproveRecovery, CanApprove, SetCeremony, CeremonyInv
<1>2. proposed' = [proposed EXCEPT ![c] = P]
  BY DEF ApproveRecovery
<1>3. Caller(r) \in Operator /\ Caller(r).user = request[r].user /\ request[r].user \in Users
  BY <1>1, CallerIsOperator
<1>4. /\ DOMAIN x = CeremonyFields /\ x.state = "ready" /\ x.approver = Caller(r)
      /\ x.candidate = row.candidate /\ x.generation = row.generation /\ x.initiator = row.initiator
  BY <1>1 DEF GoodCeremony, CeremonyFields
<1>5. <<request[r].user, row.candidate>> \in P /\ proposed[c] \subseteq P
  OBVIOUS
<1>6. /\ proposed' = [d \in Ceremonies |-> proposed'[d]] /\ proposed'[c] = P
      /\ \A d \in Ceremonies \ {c} : proposed'[d] = proposed[d]
  BY <1>2 DEF CeremonyInv
<1> HIDE DEF x, P
<1>7. GoodCeremony(x, P, keyState, wrapper)
  BY <1>1, <1>3, <1>4, <1>5 DEF GoodCeremony
<1> QED  BY <1>1, <1>6, <1>7, CeremonySaved

\* A ceremony is aborted or expires, an operator is present or no longer.
LEMMA MarksKeepCeremonies ==
    ASSUME CeremonyInv, NEW c \in Ceremonies,
           \/ \E r \in Requests : AbortRecovery(r, c) \/ ConfirmPresence(r, c)
           \/ PresenceLapses(c) \/ CeremonyExpires(c)
    PROVE  CeremonyInv'
<1> DEFINE row == ceremony[c]
           Abort == [row EXCEPT !.state = "aborted"]
           Expire == [row EXCEPT !.expired = TRUE]
           First(b) == [row EXCEPT !.initiator.present = b]
           Second(b) == [row EXCEPT !.approver.present = b]
           Kept(x) == /\ DOMAIN x = CeremonyFields /\ x.candidate = row.candidate
                      /\ x.generation = row.generation
                      /\ x.initiator \in Operator /\ x.initiator.user = row.initiator.user
                      /\ x.approver \in Operator /\ x.approver.user = row.approver.user
                      /\ x.state \in {row.state, "aborted"}
<1>1. /\ GoodCeremony(row, proposed[c], keyState, wrapper) /\ row.state \in {"pending", "ready"}
      /\ proposed = [d \in Ceremonies |-> proposed[d]]
      /\ UNCHANGED <<keyState, wrapper, audit, contentKeys, proposed>>
  BY DEF AbortRecovery, ConfirmPresence, PresenceLapses, CeremonyExpires, Open, CeremonyInv
<1>2. ASSUME NEW b \in BOOLEAN
      PROVE  Kept(First(b)) /\ Kept(Second(b))
  <2> DEFINE x == [row.initiator EXCEPT !.present = b]
             y == [row.approver EXCEPT !.present = b]
  <2>1. x \in Operator /\ x.user = row.initiator.user /\ y \in Operator /\ y.user = row.approver.user
    BY <1>1 DEF GoodCeremony, Operator
  <2>2. First(b) = [row EXCEPT !.initiator = x] /\ Second(b) = [row EXCEPT !.approver = y]
    BY <1>1 DEF GoodCeremony, CeremonyFields
  <2> HIDE DEF x, y, First, Second
  <2> QED  BY <1>1, <2>1, <2>2 DEF GoodCeremony, CeremonyFields
<1>3. Kept(Abort) /\ Kept(Expire)
  BY <1>1 DEF GoodCeremony, CeremonyFields
<1> HIDE DEF Abort, Expire, First, Second
<1>4. PICK x : Kept(x) /\ ceremony' = [ceremony EXCEPT ![c] = x]
  <2>1. \/ ceremony' = [ceremony EXCEPT ![c] = Abort]
        \/ ceremony' = [ceremony EXCEPT ![c] = Expire]
        \/ \E b \in BOOLEAN : \/ ceremony' = [ceremony EXCEPT ![c] = First(b)]
                              \/ ceremony' = [ceremony EXCEPT ![c] = Second(b)]
    BY DEF AbortRecovery, ConfirmPresence, PresenceLapses, CeremonyExpires, SetCeremony,
           Abort, Expire, First, Second
  <2> HIDE DEF Kept
  <2> QED  BY <1>2, <1>3, <2>1
<1>5. GoodCeremony(x, proposed[c], keyState, wrapper)
  BY <1>1, <1>4 DEF GoodCeremony
<1> QED  BY <1>1, <1>4, <1>5, CeremonySaved
LEMMA TwoPeople ==
    ASSUME NEW u, NEW v, u # v
    PROVE  Cardinality({u, v}) = 2
<1>1. IsFiniteSet({u}) /\ Cardinality({u}) = 1
  BY FS_Singleton
<1>2. Cardinality({u} \cup {v}) = Cardinality({u}) + 1
  BY <1>1, FS_AddElement
<1>3. {u, v} = {u} \cup {v}
  OBVIOUS
<1> QED  BY <1>1, <1>2, <1>3

\* The next generation reads what the present one does: its keys were checked against
\* the keys that are replaced now and no others.
LEMMA ActivationKeepsKeys ==
    ASSUME CeremonyInv, NEW r \in Requests, NEW c \in Ceremonies, ActivateRecovery(r, c)
    PROVE  /\ keyState'.generation = keyState.generation + 1 /\ keyState'.generation \in Nat
           /\ keyState'.ork \in 1 .. Keys /\ keyState'.ock \in 1 .. Keys
           /\ {keyState'.shared, keyState'.recovery} \subseteq Slot
           /\ wrapper' \subseteq (1 .. Keys) \X (1 .. Keys)
           /\ contentKeys' \subseteq 1 .. Keys
           /\ KeysStayReachable'
<1> DEFINE row == ceremony[c]
           new == row.candidate
<1>1. /\ keyState' = [generation |-> keyState.generation + 1, ork |-> new.ork, ock |-> new.ock,
                      shared |-> new.shared, recovery |-> new.recovery]
      /\ wrapper' = WrappersWith(new) /\ contentKeys' = contentKeys \cup {new.ock}
      /\ row.generation = keyState.generation /\ row.state = "ready"
  BY DEF ActivateRecovery, CanActivateCeremony
<1>2. GoodCeremony(row, proposed[c], keyState, wrapper)
  BY DEF CeremonyInv
<1>3. new \in Candidate /\ ContextMatches(new) /\ Succeeds(new, keyState, wrapper)
  BY <1>1, <1>2 DEF GoodCeremony
<1>4. /\ new.ork \in 1 .. Keys /\ new.ock \in 1 .. Keys /\ new.shared \in Slot /\ new.recovery \in Slot
      /\ new.history \subseteq 1 .. Keys
  BY <1>3 DEF Candidate
<1>5. /\ keyState.generation \in Nat /\ wrapper \subseteq (1 .. Keys) \X (1 .. Keys)
      /\ contentKeys \subseteq 1 .. Keys
      /\ \A k \in contentKeys : k = keyState.ock \/ <<keyState.ork, k>> \in wrapper
  BY DEF CeremonyInv, KeyTypeOK, KeysStayReachable
<1> HIDE DEF new
<1>6. /\ keyState'.generation = keyState.generation + 1
      /\ keyState'.ork = new.ork /\ keyState'.ock = new.ock
      /\ keyState'.shared = new.shared /\ keyState'.recovery = new.recovery
  BY <1>1
<1>7. wrapper \subseteq wrapper' /\ wrapper' \subseteq (1 .. Keys) \X (1 .. Keys)
  BY <1>1, <1>4, <1>5 DEF WrappersWith
<1>8. ASSUME NEW k \in contentKeys', k # new.ock
      PROVE  <<new.ork, k>> \in wrapper'
  <2>1. k \in contentKeys /\ k \in 1 .. Keys
    BY <1>1, <1>5, <1>8
  <2>2. CASE new.ork = keyState.ork
    BY <1>3, <1>5, <1>7, <1>8, <2>1, <2>2 DEF Succeeds
  <2>3. CASE new.ork # keyState.ork
    <3>1. k \in new.history
      BY <1>3, <1>5, <1>8, <2>1, <2>3 DEF Succeeds
    <3> QED  BY <1>1, <2>3, <3>1 DEF WrappersWith
  <2> QED  BY <2>2, <2>3
<1>9. KeysStayReachable'
  BY <1>3, <1>6, <1>8 DEF KeysStayReachable, ContextMatches
<1>10. keyState'.generation = keyState.generation + 1 /\ keyState'.generation \in Nat
  BY <1>5, <1>6
<1>11. /\ keyState'.ork \in 1 .. Keys /\ keyState'.ock \in 1 .. Keys
       /\ {keyState'.shared, keyState'.recovery} \subseteq Slot
  BY <1>4, <1>6
<1>12. contentKeys' \subseteq 1 .. Keys
  BY <1>1, <1>4, <1>5
<1> QED  BY <1>7, <1>9, <1>10, <1>11, <1>12

LEMMA ActivateKeepsCeremonies ==
    ASSUME CeremonyInv, NEW r \in Requests, NEW c \in Ceremonies, ActivateRecovery(r, c)
    PROVE  CeremonyInv'
<1> DEFINE row == ceremony[c]
           x == [row EXCEPT !.state = "activated"]
           entry == [ceremony |-> c, generation |-> keyState.generation + 1,
                     actors |-> {row.initiator.user, row.approver.user}]
<1>1. /\ ceremony' = [ceremony EXCEPT ![c] = x] /\ audit' = Append(audit, entry)
      /\ row.state = "ready" /\ UNCHANGED proposed
      /\ GoodCeremony(row, proposed[c], keyState, wrapper) /\ audit \in Seq(AuditEntry)
  BY DEF ActivateRecovery, CanActivateCeremony, SetCeremony, CeremonyInv
<1>2. /\ keyState'.generation = keyState.generation + 1 /\ keyState'.generation \in Nat
      /\ keyState.generation \in Nat
  BY ActivationKeepsKeys DEF CeremonyInv, KeyTypeOK
<1>3. /\ DOMAIN x = CeremonyFields /\ x.state = "activated" /\ x.candidate = row.candidate
      /\ x.generation = row.generation /\ x.initiator = row.initiator /\ x.approver = row.approver
  BY <1>1 DEF GoodCeremony, CeremonyFields
<1>4. entry \in AuditEntry /\ entry.ceremony = c /\ entry.generation = keyState'.generation
      /\ Cardinality(entry.actors) = 2 /\ \A u \in entry.actors : <<u, row.candidate>> \in proposed[c]
  <2>1. /\ row.initiator.user \in Users /\ row.approver.user \in Users
        /\ row.initiator.user # row.approver.user
        /\ <<row.initiator.user, row.candidate>> \in proposed[c]
        /\ <<row.approver.user, row.candidate>> \in proposed[c]
    BY <1>1 DEF GoodCeremony
  <2> QED  BY <1>2, <2>1, TwoPeople DEF AuditEntry
<1> HIDE DEF x, entry
<1>5. /\ ceremony' = [d \in Ceremonies |-> ceremony'[d]] /\ ceremony'[c] = x
      /\ \A d \in Ceremonies \ {c} : ceremony'[d] = ceremony[d]
      /\ proposed' = [d \in Ceremonies |-> proposed'[d]]
  BY <1>1 DEF CeremonyInv
<1>6. ASSUME NEW d \in Ceremonies
      PROVE  GoodCeremony(ceremony'[d], proposed'[d], keyState', wrapper')
  <2>1. /\ GoodCeremony(ceremony[d], proposed[d], keyState, wrapper)
        /\ ceremony[d].generation \in Nat /\ ceremony[d].generation <= keyState.generation
    BY DEF CeremonyInv, GoodCeremony
  <2>2. ceremony[d].generation <= keyState'.generation /\ ceremony[d].generation # keyState'.generation
    BY <1>2, <2>1
  <2>3. CASE d = c
    BY <1>1, <1>3, <1>5, <2>1, <2>2, <2>3 DEF GoodCeremony
  <2>4. CASE d # c
    BY <1>1, <1>5, <2>1, <2>2, <2>4 DEF GoodCeremony
  <2> QED  BY <2>3, <2>4
<1>7. audit' \in Seq(AuditEntry) /\ Len(audit') = Len(audit) + 1 /\ Len(audit) \in Nat
  BY <1>1, <1>4
<1>8. ASSUME NEW i \in 1 .. Len(audit')
      PROVE  GoodAudit(audit'[i], Len(audit') - i, ceremony'[audit'[i].ceremony],
                       proposed'[audit'[i].ceremony], keyState')
  <2>1. CASE i = Len(audit')
    <3>1. audit'[i] = entry /\ Len(audit') - i = 0
      BY <1>1, <1>4, <1>7, <2>1
    <3> DEFINE n == Len(audit') - i
    <3>2. n = 0 /\ entry.generation + n = keyState'.generation
      BY <1>2, <1>4, <3>1
    <3> HIDE DEF n
    <3>3. GoodAudit(entry, n, ceremony'[c], proposed'[c], keyState')
      BY <1>1, <1>3, <1>4, <1>5, <3>2 DEF GoodAudit
    <3> QED  BY <1>4, <3>1, <3>3 DEF n
  <2>2. CASE i # Len(audit')
    <3>1. i \in 1 .. Len(audit) /\ audit'[i] = audit[i] /\ audit[i] \in AuditEntry
      BY <1>1, <1>4, <1>7, <2>2
    <3> DEFINE d == audit[i].ceremony
               m == Len(audit) - i
               n == Len(audit') - i
    <3>2. GoodAudit(audit[i], m, ceremony[d], proposed[d], keyState)
      BY <3>1 DEF CeremonyInv
    <3>3. /\ d \in Ceremonies /\ ceremony[d].state = "activated" /\ audit[i].generation \in Nat
          /\ audit[i].generation + m = keyState.generation
      BY <3>1, <3>2 DEF GoodAudit, AuditEntry
    <3>4. n = m + 1 /\ audit[i].generation + n = keyState'.generation
      <4> DEFINE g == audit[i].generation
                 k == keyState.generation
                 L == Len(audit)
      <4>1. g \in Nat /\ k \in Nat /\ L \in Nat /\ i \in Nat /\ m = L - i /\ n = (L + 1) - i
            /\ g + m = k /\ keyState'.generation = k + 1
        BY <1>2, <1>7, <3>1, <3>3
      <4> HIDE DEF g, k, L, m, n
      <4>2. n = m + 1 /\ g + n = keyState'.generation
        BY <4>1
      <4> QED  BY <4>2 DEF g
    <3>5. ceremony'[d] = ceremony[d] /\ proposed'[d] = proposed[d]
      BY <1>1, <1>5, <3>3
    <3> HIDE DEF d, m, n
    <3>6. GoodAudit(audit[i], n, ceremony'[d], proposed'[d], keyState')
      BY <3>2, <3>4, <3>5 DEF GoodAudit
    <3> QED  BY <3>1, <3>6 DEF d, n
  <2> QED  BY <2>1, <2>2
<1>9. KeyTypeOK'
  BY <1>6, ActivationKeepsKeys DEF KeyTypeOK, GoodCeremony
<1> QED  BY <1>5, <1>6, <1>7, <1>8, <1>9, ActivationKeepsKeys DEF CeremonyInv

LEMMA CeremonyNextKeepsCeremonies ==
    ASSUME AccountsInv, CeremonyInv, CeremonyNext
    PROVE  CeremonyInv'
<1>1. ASSUME NEW r \in Requests, (\E s \in Sessions : BeginCeremonyCall(r, s)) \/ Refuse(r)
      PROVE  CeremonyInv'
  BY <1>1, CeremonyUntouched DEF BeginCeremonyCall, Refuse
<1>2. ASSUME NEW r \in Requests, NEW c \in Ceremonies, StartRecovery(r, c) PROVE CeremonyInv'
  BY <1>2, RecoveryKeepsCeremonies
<1>3. ASSUME NEW r \in Requests, NEW c \in Ceremonies, NEW reason \in OperationReasons,
             StartKeyCeremony(r, c, reason)
      PROVE  CeremonyInv'
  BY <1>3, StartKeepsCeremonies
<1>4. ASSUME NEW r \in Requests, NEW c \in Ceremonies, ApproveRecovery(r, c) PROVE CeremonyInv'
  BY <1>4, ApproveKeepsCeremonies
<1>5. ASSUME NEW r \in Requests, NEW c \in Ceremonies, ActivateRecovery(r, c) PROVE CeremonyInv'
  BY <1>5, ActivateKeepsCeremonies
<1>6. ASSUME NEW r \in Requests, NEW c \in Ceremonies, RefuseIneligible(r, c) PROVE CeremonyInv'
  BY <1>6, CeremonyUntouched DEF RefuseIneligible
<1>7. ASSUME NEW c \in Ceremonies,
             \/ \E r \in Requests : AbortRecovery(r, c) \/ ConfirmPresence(r, c)
             \/ PresenceLapses(c) \/ CeremonyExpires(c)
      PROVE  CeremonyInv'
  BY <1>7, MarksKeepCeremonies
<1>8. CASE GraceEnds
  BY <1>8, CeremonyUntouched DEF GraceEnds
<1> QED  BY <1>1, <1>2, <1>3, <1>4, <1>5, <1>6, <1>7, <1>8 DEF CeremonyNext

LEMMA InitEstablishesCeremonies ==
    ASSUME NEW start \in Starts, KeyInit(start)
    PROVE  CeremonyInv
<1>1. /\ keyState \in {FirstKeys, RotatedKeys} /\ (keyState = RotatedKeys => Keys > 1)
      /\ contentKeys = 1 .. keyState.ock
      /\ wrapper = IF keyState = FirstKeys THEN {} ELSE {keyState.ork} \X contentKeys
      /\ ceremony = [c \in Ceremonies |-> NoCeremony] /\ proposed = [c \in Ceremonies |-> {}]
      /\ audit = <<>>
  BY StartingKeys DEF StartingKeys, KeyInit
<1>2. FirstSlot \in Slot /\ FirstSlot.wraps = 1
  BY KeysAreNumbered DEF KeysAreNumbered, FirstSlot, Slot
<1>3. /\ FirstKeys.generation = 1 /\ FirstKeys.ork = 1 /\ FirstKeys.ock = 1
      /\ FirstKeys.shared = FirstSlot /\ FirstKeys.recovery = FirstSlot
  BY DEF FirstKeys
<1>4. /\ keyState.generation \in Nat /\ keyState.ork \in 1 .. Keys /\ keyState.ock \in 1 .. Keys
      /\ {keyState.shared, keyState.recovery} \subseteq Slot
      /\ keyState.shared.wraps = keyState.ork /\ keyState.recovery.wraps = keyState.ork
      /\ contentKeys \subseteq 1 .. Keys /\ wrapper \subseteq (1 .. Keys) \X (1 .. Keys)
      /\ \A k \in contentKeys : k = keyState.ock \/ <<keyState.ork, k>> \in wrapper
  <2>1. CASE keyState = FirstKeys
    BY <1>1, <1>2, <1>3, <2>1, KeysAreNumbered DEF KeysAreNumbered
  <2>2. CASE keyState = RotatedKeys
    <3> DEFINE slot == [wraps |-> 2, made |-> Nobody]
    <3>1. Keys \in Nat /\ Keys > 1
      BY <1>1, <2>2, KeysAreNumbered DEF KeysAreNumbered
    <3>2. slot \in Slot /\ slot.wraps = 2
      BY <3>1 DEF Slot
    <3>3. /\ keyState.generation = 2 /\ keyState.ork = 2 /\ keyState.ock = 2
          /\ keyState.shared = slot /\ keyState.recovery = slot
      BY <2>2 DEF RotatedKeys
    <3>4. keyState # FirstKeys
      BY <1>3, <3>3
    <3> HIDE DEF slot
    <3>5. contentKeys = 1 .. 2 /\ wrapper = {2} \X (1 .. 2)
      BY <1>1, <3>3, <3>4
    <3> QED  BY <3>1, <3>2, <3>3, <3>5
  <2> QED  BY <1>1, <2>1, <2>2
<1>5. /\ DOMAIN NoCeremony = CeremonyFields /\ NoCeremony.state = "none" /\ NoCeremony.generation = 0
      /\ NoCeremony.candidate = CandidateOf(FirstKeys)
      /\ NoCeremony.initiator = NoOperator /\ NoCeremony.approver = NoOperator
  BY DEF NoCeremony, CeremonyFields
<1>6. NoOperator \in Operator
  BY DEF NoOperator, Operator
<1>7. CandidateOf(FirstKeys) \in Candidate
  BY <1>2, <1>3, KeysAreNumbered DEF KeysAreNumbered, CandidateOf, Candidate
<1>8. GoodCeremony(NoCeremony, {}, keyState, wrapper)
  BY <1>4, <1>5, <1>6, <1>7 DEF GoodCeremony
<1>9. \A c \in Ceremonies : ceremony[c] = NoCeremony /\ proposed[c] = {}
  BY <1>1
<1>10. KeyTypeOK /\ KeysStayReachable
  BY <1>4, <1>5, <1>6, <1>7, <1>9 DEF KeyTypeOK, KeysStayReachable
<1> QED  BY <1>1, <1>4, <1>8, <1>9, <1>10 DEF CeremonyInv

-----------------------------------------------------------------------------
(* The three services together *)

LEMMA AccessNextKeepsAccess ==
    ASSUME AccessInv, [AccessNext]_accessVars
    PROVE  AccessInv'
<1>1. ASSUME UNCHANGED externalVars PROVE ExternalInv'
  <2>1. UNCHANGED <<provider, link, setting, flow, callback, tested, signedIn>>
    BY <1>1 DEF externalVars
  <2> QED  BY <2>1, ExternalMove DEF AccessInv, ExternalInv, ExternalTypeOK
<1>2. ASSUME UNCHANGED ceremonyVars PROVE CeremonyInv'
  BY <1>2, CeremonyUntouched DEF AccessInv
<1>3. CASE AccountsNext(ReferredElsewhere) /\ UNCHANGED <<externalVars, ceremonyVars>>
  <2> DEFINE elsewhere == ReferredElsewhere
  <2>1. AccountsNext(elsewhere)
    BY <1>3
  <2> HIDE DEF elsewhere
  <2>2. AccountsInv'
    BY <2>1, AccountsNextKeepsAccounts DEF AccessInv
  <2> QED  BY <1>1, <1>2, <1>3, <2>2 DEF AccessInv
<1>4. CASE ExternalNext /\ UNCHANGED ceremonyVars
  BY <1>2, <1>4, ExternalKeepsAccounts, ExternalNextKeepsExternal DEF AccessInv
<1>5. CASE CeremonyNext /\ UNCHANGED externalVars
  BY <1>1, <1>5, CeremonyKeepsAccounts, CeremonyNextKeepsCeremonies DEF AccessInv
<1>6. CASE UNCHANGED accessVars
  <2>1. UNCHANGED accountVars /\ UNCHANGED externalVars /\ UNCHANGED ceremonyVars
    BY <1>6 DEF accessVars
  <2>2. AccountsInv'
    BY <2>1, AccountsUntouched DEF AccessInv, accountVars
  <2> QED  BY <1>1, <1>2, <2>1, <2>2 DEF AccessInv
<1> QED  BY <1>3, <1>4, <1>5, <1>6 DEF AccessNext

\* The invariant of the accounts, the sign-ins and the ceremonies (auth.guard,
\* users.service, external-auth.service, e2ee-recovery.service) holds in every
\* reachable state.
THEOREM AccessInvariance == AccessSpec => []AccessInv
<1>1. AccessInit => AccessInv
  BY InitEstablishesAccounts, InitEstablishesExternal, InitEstablishesCeremonies
     DEF AccessInit, AccessInv
<1>2. AccessInv /\ [AccessNext]_accessVars => AccessInv'
  BY AccessNextKeepsAccess
<1> QED  BY <1>1, <1>2, PTL DEF AccessSpec

\* A session that the guard admits was issued after the last revocation of its
\* account, unless a stale entity was saved over the account: the version in the
\* token and the one in the row were dated by the same count.
THEOREM RevokedHold == AccessSpec => []RevokedStaysRevoked
<1>1. AccessInv => RevokedStaysRevoked
  <2> SUFFICES ASSUME AccessInv, NEW s \in Sessions, CanActivate(s), session[s].user \notin overwritten
               PROVE  session[s].since = revoked[session[s].user]
    BY DEF RevokedStaysRevoked
  <2> DEFINE t == session[s]
             u == session[s].user
  <2>1. AccountsTypeOK /\ GoodToken(t, account, revoked, overwritten, issued) /\ t \in Token
    BY DEF AccessInv, AccountsInv, AccountsTypeOK
  <2>2. u # Nobody /\ account[u].role # "none" /\ account[u].version = t.version
    BY DEF CanActivate, Active, Exists
  <2>3. u \in Users /\ t.version + revoked[u] = account[u].version + t.since
    BY <2>1, <2>2 DEF GoodToken, Dated, Token
  <2>4. revoked[u] \in Nat /\ t.since \in Nat /\ t.version \in Nat
    BY <2>1, <2>3 DEF AccountsTypeOK, Token
  <2> QED  BY <2>2, <2>3, <2>4
<1> QED  BY <1>1, AccessInvariance, PTL

-----------------------------------------------------------------------------
(* What other tables refer to *)

GoodRegistration(q, S) ==
    q.kind = "register" =>
        q.session \in Sessions /\ q.user \in Users /\ S[q.session].user = q.user

\* An account that a row of another table names.
Named(u) ==
    \/ u \in ReferredElsewhere
    \/ \E s \in Sessions : epoch[s] # "none" /\ session[s].user = u

ReferencesInv ==
    /\ \A u \in ReferredElsewhere \ {Nobody} : u \in Users /\ account[u].role # "none"
    /\ \A s \in Sessions : epoch[s] # "none" =>
          session[s].user \in Users /\ account[session[s].user].role # "none"
    /\ \A r \in Requests : GoodRegistration(request[r], session)

\* Only accounts that nothing names are deleted, and rows are written about accounts
\* that are there.
LEMMA ReferencesMove ==
    ASSUME AccessInv, ReferencesInv,
           \A u \in Users : account[u].role # "none" /\ Named(u) => account'[u].role # "none",
           \A u \in ReferredElsewhere' \ {Nobody} :
              u \in ReferredElsewhere \/ (u \in Users /\ account'[u].role # "none"),
           \A s \in Sessions : session[s].user = Nobody \/ session'[s].user = session[s].user,
           \A s \in Sessions : epoch'[s] # "none" =>
              \/ epoch[s] # "none"
              \/ (session[s].user \in Users /\ account'[session[s].user].role # "none"),
           \A r \in Requests :
              request'[r] = request[r] \/ GoodRegistration(request'[r], session)
    PROVE  ReferencesInv'
<1>0. Nobody \notin Users
  BY AccountsConstants DEF AccountsConstants
<1>1. ASSUME NEW u \in ReferredElsewhere' \ {Nobody} PROVE u \in Users /\ account'[u].role # "none"
  BY <1>1 DEF ReferencesInv, Named
<1>2. ASSUME NEW s \in Sessions, epoch'[s] # "none"
      PROVE  session'[s].user \in Users /\ account'[session'[s].user].role # "none"
  <2>1. session[s].user \in Users /\ account'[session[s].user].role # "none"
    BY <1>2 DEF ReferencesInv, Named
  <2> QED  BY <1>0, <2>1
<1>3. ASSUME NEW r \in Requests PROVE GoodRegistration(request'[r], session')
  <2>1. GoodRegistration(request'[r], session)
    BY DEF ReferencesInv
  <2> QED  BY <1>0, <2>1 DEF GoodRegistration
<1> QED  BY <1>1, <1>2, <1>3 DEF ReferencesInv

\* A handler of the accounts that saves, creates or removes one.
LEMMA SavesKeepReferences ==
    ASSUME AccessInv, ReferencesInv, UNCHANGED <<externalVars, ceremonyVars>>,
           \/ \E r \in Requests :
                 \/ \E u \in Users, email \in Emails : CreateInitialUser(r, u, email)
                 \/ \E email \in Emails, set \in BOOLEAN : UpdateProfile(r, email, set)
                 \/ \E role \in Roles, email \in Emails : UpdateUser(r, role, email)
                 \/ RestoreUser(r)
           \/ \E s \in Sessions, u \in Users :
                 \/ RemoveUser(s, u, ReferredElsewhere)
                 \/ \E role \in Roles, email \in Emails : CreateUser(s, u, role, email)
    PROVE  ReferencesInv'
<1>0. /\ AccountsInv /\ AccountsTypeOK
      /\ \A r \in Requests : GoodRequest(request[r], account, revoked, overwritten, issued)
  BY DEF AccessInv, AccountsInv
<1>1. ReferredElsewhere' = ReferredElsewhere
  BY DEF ReferredElsewhere, Linked, Participants, externalVars, ceremonyVars
<1>2. /\ UNCHANGED session
      /\ \A s \in Sessions : epoch'[s] # "none" => epoch[s] # "none"
  BY <1>0 DEF CreateInitialUser, UpdateProfile, UpdateUser, RestoreUser, RemoveUser, CreateUser,
              EpochsRevokedFor, AccountsTypeOK
<1>3. \A r \in Requests : request'[r] = request[r] \/ GoodRegistration(request'[r], session)
  <2>1. ASSUME NEW r \in Requests,
               \/ \E u \in Users, email \in Emails : CreateInitialUser(r, u, email)
               \/ \E email \in Emails, set \in BOOLEAN : UpdateProfile(r, email, set)
               \/ RestoreUser(r)
        PROVE  \A q \in Requests : request'[q] = request[q] \/ GoodRegistration(request'[q], session)
    <3>1. Return(r)
      BY <2>1 DEF CreateInitialUser, UpdateProfile, RestoreUser
    <3> QED  BY <1>0, <3>1, Returned DEF GoodRegistration
  <2>2. ASSUME NEW r \in Requests, NEW role \in Roles, NEW email \in Emails, UpdateUser(r, role, email)
        PROVE  \A q \in Requests : request'[q] = request[q] \/ GoodRegistration(request'[q], session)
    <3>1. CASE Return(r)
      BY <1>0, <3>1, Returned DEF GoodRegistration
    <3>2. CASE request' = [request EXCEPT ![r].kind = "epochs"]
      BY <1>0, <3>2 DEF GoodRegistration, AccountsTypeOK, Request
    <3> QED  BY <2>2, <3>1, <3>2 DEF UpdateUser
  <2> QED  BY <2>1, <2>2 DEF RemoveUser, CreateUser
<1>4. ASSUME NEW u \in Users, account[u].role # "none", Named(u) PROVE account'[u].role # "none"
  <2>1. ASSUME NEW r \in Requests, NEW v \in Users, NEW email \in Emails, CreateInitialUser(r, v, email)
        PROVE  account'[u].role # "none"
    BY <1>4, <2>1 DEF CreateInitialUser, Exists
  <2>2. ASSUME NEW r \in Requests, NEW entity, SaveAccount(r, entity),
               request[r].kind \notin {"idle", "setup"}, entity \in Account, entity.role # "none"
        PROVE  account'[u].role # "none"
    <3> DEFINE v == request[r].user
               x == [entity EXCEPT !.password = entity.password \/ account[v].password]
    <3>1. x.role # "none"
      BY <2>2 DEF Account
    <3>2. account' = [account EXCEPT ![v] = x]
      BY <2>2 DEF SaveAccount
    <3> HIDE DEF x
    <3> QED  BY <1>0, <1>4, <3>1, <3>2 DEF Exists, AccountsTypeOK
  <2>3. ASSUME NEW r \in Requests, request[r].kind \notin {"idle", "setup"}
        PROVE  request[r].row \in Account /\ request[r].row.role # "none"
    BY <1>0, <2>3 DEF GoodRequest, AccountsTypeOK, Request
  <2>4. ASSUME NEW r \in Requests, NEW email \in Emails, NEW set \in BOOLEAN, UpdateProfile(r, email, set)
        PROVE  account'[u].role # "none"
    <3> DEFINE entity == [request[r].row EXCEPT !.email = email, !.password = set]
    <3>1. request[r].kind = "profile"
      BY <2>4 DEF UpdateProfile
    <3>2. entity \in Account /\ entity.role # "none"
      BY <2>3, <3>1 DEF Account
    <3>3. UNCHANGED account \/ SaveAccount(r, entity)
      BY <2>4 DEF UpdateProfile
    <3> HIDE DEF entity
    <3> QED  BY <1>4, <2>2, <3>1, <3>2, <3>3 DEF Exists
  <2>5. ASSUME NEW r \in Requests, RestoreUser(r) PROVE account'[u].role # "none"
    <3> DEFINE entity == [request[r].row EXCEPT !.archived = FALSE, !.password = FALSE]
    <3>1. request[r].kind = "restore"
      BY <2>5 DEF RestoreUser
    <3>2. entity \in Account /\ entity.role # "none"
      BY <2>3, <3>1 DEF Account
    <3>3. UNCHANGED account \/ SaveAccount(r, entity)
      BY <2>5 DEF RestoreUser
    <3> HIDE DEF entity
    <3> QED  BY <1>4, <2>2, <3>1, <3>2, <3>3 DEF Exists
  <2>6. ASSUME NEW r \in Requests, NEW role \in Roles, NEW email \in Emails, UpdateUser(r, role, email)
        PROVE  account'[u].role # "none"
    <3> DEFINE row == request[r].row
               lost == ContentRole(row.role) /\ ~ContentRole(role)
               n == IF lost THEN row.version + 1 ELSE row.version
               entity == [row EXCEPT !.role = role, !.email = email, !.password = FALSE,
                                     !.version = IF lost THEN @ + 1 ELSE @]
    <3>1. request[r].kind = "update"
      BY <2>6 DEF UpdateUser
    <3>2. row \in Account /\ row.version \in Nat
      BY <2>3, <3>1 DEF Account
    <3>3. role \in AllRoles /\ role # "none"
      BY AccountsConstants DEF AccountsConstants, AllRoles
    <3>4. entity \in Account /\ entity.role # "none"
      <4>1. n \in Nat /\ entity = [row EXCEPT !.role = role, !.email = email, !.password = FALSE,
                                               !.version = n]
        BY <3>2 DEF Account
      <4> HIDE DEF n, entity
      <4> QED  BY <3>2, <3>3, <4>1 DEF Account
    <3>5. UNCHANGED account \/ SaveAccount(r, entity)
      BY <2>6 DEF UpdateUser
    <3> HIDE DEF entity
    <3> QED  BY <1>4, <2>2, <3>1, <3>4, <3>5 DEF Exists
  <2>7. ASSUME NEW s \in Sessions, NEW v \in Users, NEW role \in Roles, NEW email \in Emails,
               CreateUser(s, v, role, email)
        PROVE  account'[u].role # "none"
    <3>1. role # "none"
      BY AccountsConstants DEF AccountsConstants, AllRoles
    <3> QED  BY <1>0, <1>4, <2>7, <3>1 DEF CreateUser, Exists, AccountsTypeOK
  <2>8. ASSUME NEW s \in Sessions, NEW v \in Users, RemoveUser(s, v, ReferredElsewhere)
        PROVE  account'[u].role # "none"
    <3>1. CASE v # u
      <4>1. PICK x : account' = [account EXCEPT ![v] = x]
        BY <1>0, <2>8 DEF RemoveUser, AccountsTypeOK
      <4> QED  BY <1>0, <1>4, <3>1, <4>1 DEF Exists, AccountsTypeOK
    <3>2. CASE v = u
      <4>1. Referenced(u, ReferredElsewhere)
        BY <1>4 DEF Named, Referenced
      <4>2. account' = [account EXCEPT ![u].archived = TRUE, ![u].version = @ + 1]
        BY <2>8, <3>2, <4>1 DEF RemoveUser
      <4> QED  BY <1>0, <1>4, <4>2 DEF Exists, AccountsTypeOK, Account
    <3> QED  BY <3>1, <3>2
  <2> QED  BY <2>1, <2>4, <2>5, <2>6, <2>7, <2>8
<1> QED  BY <1>1, <1>2, <1>3, <1>4, ReferencesMove

\* A handler of the accounts that only reads, signs in or registers a browser.
LEMMA ReadsKeepReferences ==
    ASSUME AccessInv, ReferencesInv, UNCHANGED <<externalVars, ceremonyVars>>,
           \/ \E r \in Requests :
                 \/ BeginSetup(r)
                 \/ \E u \in Users : BeginLogin(r, u)
                 \/ \E s \in Sessions : Login(r, s)
                 \/ \E s \in Sessions : BeginProfile(r, s) \/ BeginRegister(r, s)
                 \/ \E s \in Sessions, u \in Users : BeginUpdate(r, s, u) \/ BeginRestore(r, s, u)
                 \/ RevokeEpochsOfUser(r) \/ RegisterClientEpoch(r)
           \/ \E s \in Sessions : ExpireSession(s) \/ RevokeClientEpoch(s)
    PROVE  ReferencesInv'
<1>0. /\ AccountsInv /\ AccountsTypeOK
      /\ \A r \in Requests : GoodRegistration(request[r], session)
  BY DEF AccessInv, AccountsInv, ReferencesInv
<1>1. ReferredElsewhere' = ReferredElsewhere
  BY DEF ReferredElsewhere, Linked, Participants, externalVars, ceremonyVars
<1>2. UNCHANGED account
  BY DEF BeginSetup, BeginLogin, Login, BeginProfile, BeginRegister, BeginUpdate, BeginRestore,
         RevokeEpochsOfUser, RegisterClientEpoch, ExpireSession, RevokeClientEpoch
<1>3. \A u \in Users : account[u].role # "none" => account'[u].role # "none"
  BY <1>2
<1>4. \A s \in Sessions : session[s].user = Nobody \/ session'[s].user = session[s].user
  <2>1. ASSUME NEW r \in Requests, NEW q \in Sessions, Login(r, q), NEW s \in Sessions
        PROVE  session[s].user = Nobody \/ session'[s].user = session[s].user
    BY <1>0, <2>1 DEF Login, IssueSession, NoToken, AccountsTypeOK
  <2>2. ASSUME NEW q \in Sessions, ExpireSession(q), NEW s \in Sessions
        PROVE  session'[s].user = session[s].user
    BY <1>0, <2>2 DEF ExpireSession, AccountsTypeOK, Token
  <2> QED  BY <2>1, <2>2 DEF BeginSetup, BeginLogin, BeginProfile, BeginRegister, BeginUpdate,
                            BeginRestore, RevokeEpochsOfUser, RegisterClientEpoch, RevokeClientEpoch
<1>5. \A s \in Sessions : epoch'[s] # "none" =>
         epoch[s] # "none" \/ (session[s].user \in Users /\ account'[session[s].user].role # "none")
  <2>1. ASSUME NEW r \in Requests, RegisterClientEpoch(r), NEW s \in Sessions, epoch'[s] # "none"
        PROVE  epoch[s] # "none" \/ (session[s].user \in Users /\ account'[session[s].user].role # "none")
    <3>1. request[r].kind = "register"
      BY <2>1 DEF RegisterClientEpoch
    <3>2. CASE epoch' = epoch
      BY <2>1, <3>2
    <3>3. CASE Exists(request[r].user) /\ epoch' = [epoch EXCEPT ![request[r].session] = "active"]
      <4>1. /\ request[r].session \in Sessions /\ request[r].user \in Users
            /\ session[request[r].session].user = request[r].user
        BY <1>0, <3>1 DEF GoodRegistration
      <4>2. s = request[r].session \/ epoch'[s] = epoch[s]
        BY <1>0, <3>3 DEF AccountsTypeOK
      <4> QED  BY <1>2, <2>1, <3>3, <4>1, <4>2 DEF Exists
    <3> QED  BY <2>1, <3>2, <3>3 DEF RegisterClientEpoch
  <2>2. ASSUME NEW r \in Requests, RevokeEpochsOfUser(r), NEW s \in Sessions, epoch'[s] # "none"
        PROVE  epoch[s] # "none"
    BY <1>0, <2>2 DEF RevokeEpochsOfUser, EpochsRevokedFor, AccountsTypeOK
  <2>3. ASSUME NEW q \in Sessions, RevokeClientEpoch(q), NEW s \in Sessions, epoch'[s] # "none"
        PROVE  epoch[s] # "none"
    BY <1>0, <2>3 DEF RevokeClientEpoch, AccountsTypeOK
  <2> QED  BY <2>1, <2>2, <2>3 DEF BeginSetup, BeginLogin, Login, BeginProfile, BeginRegister,
                                  BeginUpdate, BeginRestore, ExpireSession
<1>6. \A r \in Requests : request'[r] = request[r] \/ GoodRegistration(request'[r], session)
  <2>1. ASSUME NEW r \in Requests, NEW kind \in RequestKinds, NEW u \in Users, NEW s \in Sessions \cup {Nobody},
               kind = "register" => s \in Sessions /\ session[s].user = u, Await(r, kind, u, s)
        PROVE  \A q \in Requests : request'[q] = request[q] \/ GoodRegistration(request'[q], session)
    BY <1>0, <2>1 DEF Await, GoodRegistration, AccountsTypeOK
  <2>2. ASSUME NEW r \in Requests, Return(r)
        PROVE  \A q \in Requests : request'[q] = request[q] \/ GoodRegistration(request'[q], session)
    BY <1>0, <2>2, Returned DEF GoodRegistration
  <2>3. ASSUME NEW r \in Requests, BeginSetup(r)
        PROVE  \A q \in Requests : request'[q] = request[q] \/ GoodRegistration(request'[q], session)
    BY <1>0, <2>3 DEF BeginSetup, GoodRegistration, AccountsTypeOK, Request
  <2>4. ASSUME NEW r \in Requests, NEW u \in Users, BeginLogin(r, u)
        PROVE  \A q \in Requests : request'[q] = request[q] \/ GoodRegistration(request'[q], session)
    BY <2>1, <2>4 DEF BeginLogin, RequestKinds
  <2>5. ASSUME NEW r \in Requests, NEW s \in Sessions, BeginProfile(r, s) \/ BeginRegister(r, s)
        PROVE  \A q \in Requests : request'[q] = request[q] \/ GoodRegistration(request'[q], session)
    <3>1. session[s].user \in Users
      BY <1>0, <2>5 DEF BeginProfile, BeginRegister, CanActivate, AccountsTypeOK, Token
    <3> QED  BY <2>1, <2>5, <3>1 DEF BeginProfile, BeginRegister, RequestKinds
  <2>6. ASSUME NEW r \in Requests, NEW s \in Sessions, NEW u \in Users,
               BeginUpdate(r, s, u) \/ BeginRestore(r, s, u)
        PROVE  \A q \in Requests : request'[q] = request[q] \/ GoodRegistration(request'[q], session)
    BY <2>1, <2>6 DEF BeginUpdate, BeginRestore, RequestKinds
  <2> QED  BY <2>2, <2>3, <2>4, <2>5, <2>6 DEF Login, RevokeEpochsOfUser, RegisterClientEpoch,
                                              ExpireSession, RevokeClientEpoch
<1> QED  BY <1>1, <1>3, <1>4, <1>5, <1>6, ReferencesMove

\* A link is written about an account that is there, and only links are.
LEMMA ExternalKeepsReferences ==
    ASSUME AccessInv, ReferencesInv, ExternalNext, UNCHANGED ceremonyVars
    PROVE  ReferencesInv'
<1> DEFINE Quiet == UNCHANGED <<account, session, epoch, request>>
<1>0. AccountsInv /\ AccountsTypeOK /\ ExternalInv /\ ExternalTypeOK
  BY DEF AccessInv, AccountsInv, ExternalInv
<1>1. ASSUME UNCHANGED <<account, epoch>>,
             \A r \in Requests : request'[r] = request[r] \/ request'[r].kind # "register",
             \A s \in Sessions : session[s].user = Nobody \/ session'[s].user = session[s].user,
             \A k \in link' : k.user \in Linked \/ (k.user \in Users /\ account[k.user].role # "none")
      PROVE  ReferencesInv'
  <2>1. Participants' = Participants
    BY DEF Participants, ceremonyVars
  <2>2. \A u \in ReferredElsewhere' \ {Nobody} :
           u \in ReferredElsewhere \/ (u \in Users /\ account'[u].role # "none")
    BY <1>1, <2>1 DEF ReferredElsewhere, Linked
  <2>3. \A r \in Requests : request'[r] = request[r] \/ GoodRegistration(request'[r], session)
    BY <1>1 DEF GoodRegistration
  <2> QED  BY <1>1, <2>2, <2>3, ReferencesMove
<1>2. Quiet /\ link' \subseteq link => ReferencesInv'
  BY <1>1 DEF Linked
<1>3. ASSUME NEW r \in Requests,
             \/ \E s \in Sessions, kind \in SettingKinds : LoadSettings(r, s, kind)
             \/ \E config \in Configs \cup {Draft} : SaveSettings(r, config)
             \/ SetEnabled(r)
      PROVE  ReferencesInv'
  BY <1>2, <1>3 DEF LoadSettings, SaveSettings, SetEnabled, accountVars
<1>4. ASSUME NEW r \in Requests, RemoveProvider(r) PROVE ReferencesInv'
  <2>1. ASSUME NEW k \in link' PROVE k.user \in Linked
    <3>1. PICK l \in link : k = [l EXCEPT !.active = @ /\ l.provider # setting[r].id]
      BY <1>4 DEF RemoveProvider
    <3>2. l \in Link
      BY <1>0 DEF ExternalTypeOK
    <3> QED  BY <3>1, <3>2 DEF Linked, Link
  <2>2. Quiet
    BY <1>4 DEF RemoveProvider, accountVars
  <2> QED  BY <1>1, <2>1, <2>2
<1>5. ASSUME NEW s \in Sessions, NEW u \in Users, ResetLink(s, u) PROVE ReferencesInv'
  <2>1. Quiet /\ link' \subseteq link
    BY <1>5 DEF ResetLink
  <2> QED  BY <1>2, <2>1
<1>6. ASSUME NEW f \in Flows,
             \/ \E p \in Providers : StartLogin(f, p)
             \/ \E p \in Providers, s \in Sessions : StartTest(f, p, s)
             \/ FlowExpires(f)
      PROVE  ReferencesInv'
  BY <1>2, <1>6 DEF StartLogin, StartTest, StartFlow, FlowExpires
<1>7. ASSUME NEW f \in Flows,
             \/ ConsumeCallbackState(f)
             \/ \E cancelled \in BOOLEAN : LoadProvider(f, cancelled)
             \/ ExchangeFails(f)
             \/ RecordSuccessfulTest(f)
      PROVE  ReferencesInv'
  BY <1>2, <1>7 DEF ConsumeCallbackState, LoadProvider, ExchangeFails, RecordSuccessfulTest, accountVars
<1>8. ASSUME NEW f \in Flows,
             \/ \E subject \in Subjects, email \in Emails : Authenticate(f, subject, email)
             \/ SaveCode(f)
             \/ SaveFailure(f)
      PROVE  ReferencesInv'
  BY <1>2, <1>8 DEF Authenticate, SaveCode, SaveFailure, accountVars
<1>9. ASSUME NEW f \in Flows, InsertLink(f) PROVE ReferencesInv'
  <2>1. ASSUME NEW k \in link'
        PROVE  k.user \in Linked \/ (k.user \in Users /\ account[k.user].role # "none")
    <3>1. CASE k \in link
      BY <3>1 DEF Linked
    <3>2. CASE k \notin link
      <4>1. k.user = callback[f].user /\ Exists(callback[f].user) /\ callback[f].step = "link"
        BY <1>9, <3>2 DEF InsertLink
      <4>2. callback[f].user \in Users
        BY <1>0, <4>1 DEF ExternalInv, GoodCallback
      <4> QED  BY <4>1, <4>2 DEF Exists
    <3> QED  BY <3>1, <3>2
  <2>2. Quiet
    BY <1>9 DEF InsertLink, accountVars
  <2> QED  BY <1>1, <2>1, <2>2
<1>10. ASSUME NEW f \in Flows, NEW q \in Sessions, CompleteFlow(f, q) PROVE ReferencesInv'
  <2>1. \A s \in Sessions : session[s].user = Nobody \/ session'[s].user = session[s].user
    BY <1>0, <1>10 DEF CompleteFlow, IssueSession, NoToken, AccountsTypeOK
  <2>2. UNCHANGED <<account, epoch, request, link>>
    BY <1>10 DEF CompleteFlow
  <2> QED  BY <1>1, <2>1, <2>2 DEF Linked
<1>11. CASE RestartExternal
  <2>1. /\ UNCHANGED <<account, epoch, session, link>>
        /\ \A r \in Requests : request'[r].kind # "register"
    BY <1>11 DEF RestartExternal, Crash, Idle
  <2> QED  BY <1>1, <2>1 DEF Linked
<1> QED  BY <1>3, <1>4, <1>5, <1>6, <1>7, <1>8, <1>9, <1>10, <1>11 DEF ExternalNext

\* A ceremony is written about its caller, who is there.
LEMMA CeremonyKeepsReferences ==
    ASSUME AccessInv, ReferencesInv, CeremonyNext, UNCHANGED externalVars
    PROVE  ReferencesInv'
<1>0. /\ AccountsInv /\ AccountsTypeOK /\ CeremonyInv
      /\ \A r \in Requests : GoodRequest(request[r], account, revoked, overwritten, issued)
      /\ \A c \in Ceremonies : /\ DOMAIN ceremony[c] = CeremonyFields
                               /\ ceremony[c].initiator \in Operator /\ ceremony[c].approver \in Operator
      /\ ceremony = [c \in Ceremonies |-> ceremony[c]]
  BY DEF AccessInv, AccountsInv, CeremonyInv, GoodCeremony
<1>1. ASSUME UNCHANGED session,
             \A u \in Users : account[u].role # "none" => account'[u].role # "none",
             \A s \in Sessions : epoch'[s] # "none" => epoch[s] # "none",
             \A r \in Requests : request'[r] = request[r] \/ request'[r].kind # "register",
             \A u \in Participants' \ {Nobody} :
                 u \in Participants \/ (u \in Users /\ account[u].role # "none")
      PROVE  ReferencesInv'
  <2>1. Linked' = Linked
    BY DEF Linked, externalVars
  <2>2. \A u \in ReferredElsewhere' \ {Nobody} :
           u \in ReferredElsewhere \/ (u \in Users /\ account'[u].role # "none")
    BY <1>1, <2>1 DEF ReferredElsewhere
  <2>3. \A r \in Requests : request'[r] = request[r] \/ GoodRegistration(request'[r], session)
    BY <1>1 DEF GoodRegistration
  <2> QED  BY <1>1, <2>2, <2>3, ReferencesMove
<1>2. ASSUME NEW r \in Requests, Return(r)
      PROVE  \A q \in Requests : request'[q] = request[q] \/ request'[q].kind # "register"
  BY <1>0, <1>2, Returned
<1> DEFINE Holds(row) ==
        \A u \in {row.initiator.user, row.approver.user} :
            u \in Participants \cup {Nobody} \/ (u \in Users /\ account[u].role # "none")
           AllHold == \A c \in Ceremonies : Holds(ceremony'[c])
<1>3. AllHold => \A u \in Participants' \ {Nobody} :
                    u \in Participants \/ (u \in Users /\ account[u].role # "none")
  BY DEF Participants
<1>4. \A c \in Ceremonies : Holds(ceremony[c])
  BY DEF Participants
<1>5. ASSUME NEW r \in Requests, request[r].kind \in {"ceremony", "activate"}
      PROVE  request[r].user \in Users /\ Caller(r).user = request[r].user
  BY <1>0, <1>5 DEF GoodRequest, Caller, AccountsTypeOK
<1>6. ASSUME NEW c \in Ceremonies, NEW row, SetCeremony(c, row), Holds(row) PROVE AllHold
  <2> HIDE DEF Holds
  <2> QED  BY <1>0, <1>4, <1>6 DEF SetCeremony
<1>7. ASSUME NEW c \in Ceremonies, NEW row, SetCeremony(c, row),
             row.initiator.user = ceremony[c].initiator.user,
             row.approver.user = ceremony[c].approver.user
      PROVE  AllHold
  <2>1. Holds(row)
    BY <1>4, <1>7
  <2> HIDE DEF Holds, AllHold
  <2> QED  BY <1>6, <1>7, <2>1
<1>8. UNCHANGED ceremony => AllHold
  BY <1>4
<1> HIDE DEF AllHold, Holds
<1>9. ASSUME NEW r \in Requests, NEW s \in Sessions, BeginCeremonyCall(r, s) PROVE ReferencesInv'
  <2>1. UNCHANGED <<account, session, epoch, ceremony>>
    BY <1>9 DEF BeginCeremonyCall, ceremonyVars
  <2>2. PICK kind \in {"ceremony", "activate"} : Await(r, kind, session[s].user, s)
    BY <1>9 DEF BeginCeremonyCall
  <2>3. \A q \in Requests : request'[q] = request[q] \/ request'[q].kind # "register"
    BY <1>0, <2>2 DEF Await, AccountsTypeOK
  <2> QED  BY <1>1, <1>3, <1>8, <2>1, <2>3
<1>10. ASSUME NEW r \in Requests, Refuse(r) \/ \E c \in Ceremonies : RefuseIneligible(r, c)
       PROVE  ReferencesInv'
  <2>1. UNCHANGED <<account, session, epoch, ceremony>> /\ Return(r)
    BY <1>10 DEF Refuse, RefuseIneligible, ceremonyVars
  <2> QED  BY <1>1, <1>2, <1>3, <1>8, <2>1
<1>11. ASSUME NEW r \in Requests, NEW c \in Ceremonies,
              \/ StartRecovery(r, c)
              \/ \E reason \in OperationReasons : StartKeyCeremony(r, c, reason)
       PROVE  ReferencesInv'
  <2>1. PICK reason, candidate : Begin(r, c, reason, candidate)
    BY <1>11 DEF StartRecovery, StartKeyCeremony
  <2> DEFINE new == [state |-> "pending", expired |-> FALSE,
                     operation |-> reason.operation, grace |-> reason.grace,
                     generation |-> keyState.generation,
                     candidate |-> candidate, initiator |-> Caller(r),
                     approver |-> NoOperator]
  <2>2. /\ UNCHANGED <<account, session, epoch>> /\ Return(r)
        /\ request[r].kind = "ceremony" /\ Exists(request[r].user)
        /\ ceremony' = [Superseded EXCEPT ![c] = new]
    BY <2>1 DEF Begin
  <2>3. request[r].user \in Users /\ Caller(r).user = request[r].user
    BY <1>5, <2>2
  <2>4. Holds(new)
    <3>1. new.initiator = Caller(r) /\ new.approver.user = Nobody
      BY DEF NoOperator
    <3> HIDE DEF new
    <3> QED  BY <2>2, <2>3, <3>1 DEF Holds, Exists
  <2>5. ASSUME NEW d \in Ceremonies PROVE Holds(Superseded[d])
    <3>1. /\ Superseded[d].initiator = ceremony[d].initiator
          /\ Superseded[d].approver = ceremony[d].approver
      BY <1>0 DEF Superseded, CeremonyFields
    <3> QED  BY <1>4, <3>1 DEF Holds
  <2>6. DOMAIN Superseded = Ceremonies
    BY DEF Superseded
  <2> HIDE DEF new
  <2>7. AllHold
    BY <2>2, <2>4, <2>5, <2>6 DEF AllHold
  <2> QED  BY <1>1, <1>2, <1>3, <2>2, <2>7
<1>12. ASSUME NEW r \in Requests, NEW c \in Ceremonies, ApproveRecovery(r, c) PROVE ReferencesInv'
  <2> DEFINE row == [ceremony[c] EXCEPT !.state = "ready", !.approver = Caller(r)]
  <2>1. /\ UNCHANGED <<account, session, epoch>> /\ Return(r)
        /\ request[r].kind = "ceremony" /\ Exists(request[r].user) /\ SetCeremony(c, row)
    BY <1>12 DEF ApproveRecovery, CanApprove
  <2>2. request[r].user \in Users /\ Caller(r).user = request[r].user
    BY <1>5, <2>1
  <2>3. row.initiator = ceremony[c].initiator /\ row.approver = Caller(r)
    BY <1>0 DEF CeremonyFields
  <2> HIDE DEF row
  <2>4. Holds(row)
    BY <1>4, <2>1, <2>2, <2>3 DEF Holds, Exists
  <2> QED  BY <1>1, <1>2, <1>3, <1>6, <2>1, <2>4
<1>13. ASSUME NEW r \in Requests, NEW c \in Ceremonies, ActivateRecovery(r, c) PROVE ReferencesInv'
  <2> DEFINE row == [ceremony[c] EXCEPT !.state = "activated"]
  <2>1. UNCHANGED session /\ Return(r) /\ SetCeremony(c, row) /\ EverySessionRevoked
        /\ \E grace : EveryEpochRevoked(grace)
    BY <1>13 DEF ActivateRecovery
  <2>2. row.initiator = ceremony[c].initiator /\ row.approver = ceremony[c].approver
    BY <1>0 DEF CeremonyFields
  <2>3. \A u \in Users : account[u].role # "none" => account'[u].role # "none"
    BY <1>0, <2>1 DEF EverySessionRevoked, AccountsTypeOK, Account
  <2>4. \A s \in Sessions : epoch'[s] # "none" => epoch[s] # "none"
    BY <2>1 DEF EveryEpochRevoked
  <2> HIDE DEF row
  <2> QED  BY <1>1, <1>2, <1>3, <1>7, <2>1, <2>2, <2>3, <2>4
<1>14. ASSUME NEW r \in Requests, NEW c \in Ceremonies, AbortRecovery(r, c) \/ ConfirmPresence(r, c)
       PROVE  ReferencesInv'
  <2>1. PICK row : /\ SetCeremony(c, row)
                   /\ row \in {[ceremony[c] EXCEPT !.state = "aborted"],
                               [ceremony[c] EXCEPT !.initiator.present = TRUE],
                               [ceremony[c] EXCEPT !.approver.present = TRUE]}
    BY <1>14 DEF AbortRecovery, ConfirmPresence
  <2>2. row.initiator.user = ceremony[c].initiator.user /\ row.approver.user = ceremony[c].approver.user
    BY <1>0, <2>1 DEF CeremonyFields, Operator
  <2>3. UNCHANGED <<account, session, epoch>> /\ Return(r)
    BY <1>14 DEF AbortRecovery, ConfirmPresence
  <2> QED  BY <1>1, <1>2, <1>3, <1>7, <2>1, <2>2, <2>3
<1>15. ASSUME NEW c \in Ceremonies, PresenceLapses(c) \/ CeremonyExpires(c) PROVE ReferencesInv'
  <2>1. PICK row : /\ SetCeremony(c, row)
                   /\ row \in {[ceremony[c] EXCEPT !.expired = TRUE],
                               [ceremony[c] EXCEPT !.initiator.present = FALSE],
                               [ceremony[c] EXCEPT !.approver.present = FALSE]}
    BY <1>15 DEF PresenceLapses, CeremonyExpires
  <2>2. row.initiator.user = ceremony[c].initiator.user /\ row.approver.user = ceremony[c].approver.user
    BY <1>0, <2>1 DEF CeremonyFields, Operator
  <2>3. UNCHANGED <<account, session, epoch, request>>
    BY <1>15 DEF PresenceLapses, CeremonyExpires
  <2> QED  BY <1>1, <1>3, <1>7, <2>1, <2>2, <2>3
<1>16. CASE GraceEnds
  <2>1. UNCHANGED <<account, session, request, ceremony>>
    BY <1>16 DEF GraceEnds, ceremonyVars
  <2>2. \A s \in Sessions : epoch'[s] # "none" => epoch[s] # "none"
    BY <1>16 DEF GraceEnds
  <2> QED  BY <1>1, <1>3, <1>8, <2>1, <2>2
<1> QED  BY <1>9, <1>10, <1>11, <1>12, <1>13, <1>14, <1>15, <1>16 DEF CeremonyNext

\* Accounts that links, ceremonies or browsers name are archived rather than deleted
\* (users.service.ts:62), and no handler of auth, users, external-auth or e2ee writes a
\* row about one that is gone.
THEOREM ReferencesInvariance == AccessSpec => [](AccessInv /\ ReferencesInv)
<1>1. AccessInit => ReferencesInv
  <2> SUFFICES ASSUME AccessInit PROVE ReferencesInv
    OBVIOUS
  <2>1. /\ link = {} /\ ceremony = [c \in Ceremonies |-> NoCeremony]
        /\ epoch = [s \in Sessions |-> "none"] /\ request = [r \in Requests |-> Idle]
    BY DEF AccessInit, AccountsInit, ExternalInit, KeyInit
  <2>2. ReferredElsewhere \subseteq {Nobody}
    BY <2>1 DEF ReferredElsewhere, Linked, Participants, NoCeremony, NoOperator
  <2> QED  BY <2>1, <2>2 DEF ReferencesInv, GoodRegistration, Idle
<1>2. ASSUME AccessInv, ReferencesInv, [AccessNext]_accessVars PROVE ReferencesInv'
  <2>1. CASE AccountsNext(ReferredElsewhere) /\ UNCHANGED <<externalVars, ceremonyVars>>
    <3> DEFINE elsewhere == ReferredElsewhere
    <3>1. \/ \E r \in Requests :
                \/ BeginSetup(r)
                \/ \E u \in Users : BeginLogin(r, u)
                \/ \E s \in Sessions : Login(r, s)
                \/ \E s \in Sessions : BeginProfile(r, s) \/ BeginRegister(r, s)
                \/ \E s \in Sessions, u \in Users : BeginUpdate(r, s, u) \/ BeginRestore(r, s, u)
                \/ RevokeEpochsOfUser(r) \/ RegisterClientEpoch(r)
          \/ \E s \in Sessions : ExpireSession(s) \/ RevokeClientEpoch(s)
          \/ \E r \in Requests :
                \/ \E u \in Users, email \in Emails : CreateInitialUser(r, u, email)
                \/ \E email \in Emails, set \in BOOLEAN : UpdateProfile(r, email, set)
                \/ \E role \in Roles, email \in Emails : UpdateUser(r, role, email)
                \/ RestoreUser(r)
          \/ \E s \in Sessions, u \in Users :
                \/ RemoveUser(s, u, elsewhere)
                \/ \E role \in Roles, email \in Emails : CreateUser(s, u, role, email)
      <4>1. AccountsNext(elsewhere)
        BY <2>1
      <4> HIDE DEF elsewhere
      <4> QED  BY <4>1 DEF AccountsNext
    <3> QED  BY <1>2, <2>1, <3>1, SavesKeepReferences, ReadsKeepReferences
  <2>2. CASE ExternalNext /\ UNCHANGED ceremonyVars
    BY <1>2, <2>2, ExternalKeepsReferences
  <2>3. CASE CeremonyNext /\ UNCHANGED externalVars
    BY <1>2, <2>3, CeremonyKeepsReferences
  <2>4. CASE UNCHANGED accessVars
    BY <1>2, <2>4
       DEF accessVars, accountVars, externalVars, ceremonyVars, ReferencesInv, GoodRegistration,
           ReferredElsewhere, Linked, Participants
  <2> QED  BY <1>2, <2>1, <2>2, <2>3, <2>4 DEF AccessNext
<1>3. AccessInv /\ ReferencesInv /\ [AccessNext]_accessVars => ReferencesInv'
  BY <1>2
<1> QED  BY <1>1, <1>3, AccessInvariance, PTL DEF AccessSpec

\* Every table keeps rows of its type through every handler of the three services, the
\* account that holds custody of the keys is there from setup on, and so is every account
\* that a link, a ceremony or a registered browser refers to.
THEOREM TablesHold == AccessSpec => []TablesStayWhole
<1>1. AccessInv /\ ReferencesInv => TablesStayWhole
  BY DEF AccessInv, AccountsInv, ExternalInv, CeremonyInv, TablesStayWhole, AccessTypeOK,
         ReferencesInv, ReferencesHold, Exists
<1> QED  BY <1>1, ReferencesInvariance, PTL

\* An enabled provider and a completed sign-in have a tested configuration, a
\* transaction signs in once, and links are unique both ways.
THEOREM SignInsHold == AccessSpec => []SignInsAreSound
<1>1. AccessInv => SignInsUseTestedConfiguration
  BY DEF AccessInv, ExternalInv, SignInsUseTestedConfiguration, GoodProvider, Approved, GoodFlow
<1>2. AccessInv => SignsInOnce
  <2> SUFFICES ASSUME AccessInv
               PROVE  SignsInOnce
    OBVIOUS
  <2>1. ExternalInv
    BY DEF AccessInv
  <2>2. ASSUME NEW f \in Flows
        PROVE  signedIn[f] <= 1
    <3>1. GoodFlow(flow[f], callback[f], signedIn[f], tested)
      BY <2>1 DEF ExternalInv
    <3>2. signedIn[f] = 0 \/ signedIn[f] = 1
      BY <3>1 DEF GoodFlow
    <3> QED  BY <3>2
  <2>3. GoodLinks(link)
    BY <2>1 DEF ExternalInv
  <2> QED  BY <2>2, <2>3 DEF SignsInOnce, GoodLinks
<1> QED  BY <1>1, <1>2, AccessInvariance, PTL DEF SignInsAreSound

\* Every generation was proposed by one person and approved by another over the same
\* candidate, and every content key that was ever used can be read under it.
THEOREM GenerationsHold == AccessSpec => []GenerationsAreSound
<1>1. AccessInv => TwoOperatorsPerGeneration
  <2> SUFFICES ASSUME AccessInv, NEW i \in 1 .. Len(audit)
               PROVE  /\ audit[i].generation = keyState.generation + i - Len(audit)
                      /\ Cardinality(audit[i].actors) = 2
                      /\ \A u \in audit[i].actors :
                            <<u, ceremony[audit[i].ceremony].candidate>> \in proposed[audit[i].ceremony]
    BY DEF TwoOperatorsPerGeneration
  <2>1. /\ audit \in Seq(AuditEntry) /\ keyState.generation \in Nat
        /\ GoodAudit(audit[i], Len(audit) - i, ceremony[audit[i].ceremony],
                     proposed[audit[i].ceremony], keyState)
    BY DEF AccessInv, CeremonyInv, KeyTypeOK
  <2>2. audit[i].generation \in Nat /\ Len(audit) \in Nat /\ i \in Nat
    <3>1. audit[i] \in AuditEntry
      BY <2>1
    <3> QED  BY <2>1, <3>1 DEF AuditEntry
  <2>3. audit[i].generation + (Len(audit) - i) = keyState.generation
    BY <2>1 DEF GoodAudit
  <2>4. audit[i].generation = keyState.generation + i - Len(audit)
    BY <2>1, <2>2, <2>3
  <2> QED  BY <2>1, <2>4 DEF GoodAudit
<1>2. AccessInv => KeysStayReachable
  BY DEF AccessInv, CeremonyInv
<1> QED  BY <1>1, <1>2, AccessInvariance, PTL DEF GenerationsAreSound
=============================================================================
