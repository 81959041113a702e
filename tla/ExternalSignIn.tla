--------------------------- MODULE ExternalSignIn ---------------------------
(***************************************************************************)
(* Sign-in through an external provider, on top of the accounts: the       *)
(* provider's settings, the links between its subjects and accounts, and   *)
(* the login transactions from start over the callback to the completion   *)
(* code that is exchanged for a session.                                   *)
(*                                                                         *)
(* The settings handlers read the provider's row and save it later without *)
(* a lock; the callback reads it, talks to the provider and goes on with   *)
(* what it read.  A configuration stands for its fingerprint; Draft is one *)
(* that misses a field.  The provider itself answers with any subject and  *)
(* any address, or refuses.                                                *)
(***************************************************************************)
EXTENDS Accounts

CONSTANTS Providers,    \* rows of external_auth_providers
          Subjects,     \* identities the provider knows
          Flows,        \* external_login_transactions
          Configs,      \* complete configurations
          Draft         \* an incomplete one, or that no test was recorded

ASSUME ExternalConstants ==
    /\ Draft \notin Configs
    /\ Nobody \notin Providers
    /\ Providers # {} /\ Configs # {}

VARIABLES provider,     \* the providers table
          link,         \* external_identities
          setting,      \* settings handlers between reading and saving
          flow,         \* the transactions table
          callback,     \* the callback of each transaction
          tested,       \* history: configurations a sign-in test passed
          signedIn      \* history: sessions issued for each transaction

externalVars == <<provider, link, setting, flow, callback, tested, signedIn>>
-----------------------------------------------------------------------------
Provider == [exists : BOOLEAN, removed : BOOLEAN, config : Configs \cup {Draft},
             tested : Configs \cup {Draft}, enabled : BOOLEAN]
NoProvider == [exists |-> FALSE, removed |-> FALSE, config |-> Draft,
               tested |-> Draft, enabled |-> FALSE]

Current == {p \in Providers : provider[p].exists /\ ~provider[p].removed}

Approved(row) == row.config # Draft /\ row.tested = row.config
Usable(row) == row.enabled /\ Approved(row)

Link == [provider : Providers, subject : Subjects, user : Users,
         active : BOOLEAN]

SettingKinds == {"save", "enable", "disable", "remove"}
Setting == [kind : SettingKinds \cup {"idle"}, id : Providers \cup {Nobody},
            row : Provider]
NoSetting == [kind |-> "idle", id |-> Nobody, row |-> NoProvider]

\* A transaction row: open until its callback, coded while its completion code
\* can be exchanged, gone when it was cleaned up.
Flow == [stage : {"none", "open", "consumed", "coded", "done", "gone"},
         purpose : {"login", "test"}, provider : Providers \cup {Nobody},
         config : Configs \cup {Draft}, expired : BOOLEAN,
         user : Users \cup {Nobody}]
NoFlow == [stage |-> "none", purpose |-> "login", provider |-> Nobody,
           config |-> Draft, expired |-> FALSE, user |-> Nobody]

CallbackSteps == {"idle", "load", "exchange", "link", "code", "failed",
                  "over"}
Callback == [step : CallbackSteps, row : Provider,
             user : Users \cup {Nobody}, subject : Subjects \cup {Nobody}]
NoCallback == [step |-> "idle", row |-> NoProvider, user |-> Nobody,
               subject |-> Nobody]

ExternalTypeOK ==
    /\ provider \in [Providers -> Provider]
    /\ link \subseteq Link
    /\ setting \in [Requests -> Setting]
    /\ flow \in [Flows -> Flow]
    /\ callback \in [Flows -> Callback]
    /\ tested \subseteq Providers \X Configs
    /\ signedIn \in [Flows -> Nat]

ExternalOperations == {"setting", "start", "timeout", "reset"}

\* No provider is set up yet, or one is enabled whose test passed.
ExternalInit(start) ==
    LET p == CHOOSE q \in Providers : TRUE
        c == CHOOSE d \in Configs : TRUE
        none == [q \in Providers |-> NoProvider]
    IN
    /\ provider = IF ~start.enabled THEN none
                  ELSE [none EXCEPT ![p] =
                            [exists |-> TRUE, removed |-> FALSE, config |-> c,
                             tested |-> c, enabled |-> TRUE]]
    /\ tested = IF start.enabled THEN {<<p, c>>} ELSE {}
    /\ link = {}
    /\ setting = [r \in Requests |-> NoSetting]
    /\ flow = [f \in Flows |-> NoFlow]
    /\ callback = [f \in Flows |-> NoCallback]
    /\ signedIn = [f \in Flows |-> 0]
-----------------------------------------------------------------------------
\* UNIQUE (...) WHERE removed_at IS NULL: a save that would leave a second
\* current provider fails.  What is saved is the row as the handler read it.
SaveProvider(p, row) ==
    provider' = IF row.removed \/ Current \subseteq {p}
                THEN [provider EXCEPT ![p] = row] ELSE provider

\* The current provider is read; all but save refuse when there is none.
LoadSettings(r, s, kind) ==
    /\ setting[r] = NoSetting
    /\ Permitted(s, "authSettings")
    /\ Spend("setting")
    /\ \/ \E p \in Current :
             setting' = [setting EXCEPT ![r] = [kind |-> kind, id |-> p,
                                                row |-> provider[p]]]
       \/ /\ Current = {}
          /\ kind = "save"
          /\ setting' = [setting EXCEPT ![r].kind = kind]
    /\ UNCHANGED <<account, custodian, session, epoch, reserved, request,
                   issued, founded, revoked, overwritten>>
    /\ UNCHANGED <<provider, link, flow, callback, tested, signedIn>>

\* Mutant: a tested provider stays enabled whatever is saved.
ReconfiguredEnabled(row, config) ==
    [row EXCEPT !.exists = TRUE, !.config = config]

\* Another configuration than the tested one disables the provider.
Reconfigured(row, config) ==
    IF row.tested \in {Draft, config}
    THEN [row EXCEPT !.exists = TRUE, !.config = config]
    ELSE [row EXCEPT !.config = config, !.tested = Draft, !.enabled = FALSE]

SaveSettings(r, config) ==
    /\ setting[r].kind = "save"
    /\ LET p == setting[r].id IN
       \/ /\ p # Nobody
          /\ SaveProvider(p, Reconfigured(setting[r].row, config))
       \/ /\ p = Nobody
          /\ \E q \in Providers :
                /\ ~provider[q].exists
                /\ SaveProvider(q, Reconfigured(NoProvider, config))
    /\ setting' = [setting EXCEPT ![r] = NoSetting]
    /\ UNCHANGED <<accountVars, link, flow, callback, tested, signedIn>>

SetEnabled(r) ==
    LET row == setting[r].row IN
    /\ setting[r].kind \in {"enable", "disable"}
    /\ IF setting[r].kind = "enable" /\ ~Approved(row)
       THEN UNCHANGED provider
       ELSE SaveProvider(setting[r].id,
                [row EXCEPT !.enabled = setting[r].kind = "enable"])
    /\ setting' = [setting EXCEPT ![r] = NoSetting]
    /\ UNCHANGED <<accountVars, link, flow, callback, tested, signedIn>>

\* One transaction: links are kept but inactive, the credentials are cleared.
RemoveProvider(r) ==
    LET p == setting[r].id IN
    /\ setting[r].kind = "remove"
    /\ link' = {[l EXCEPT !.active = @ /\ l.provider # p] : l \in link}
    /\ SaveProvider(p, [NoProvider EXCEPT !.exists = TRUE, !.removed = TRUE])
    /\ setting' = [setting EXCEPT ![r] = NoSetting]
    /\ UNCHANGED <<accountVars, flow, callback, tested, signedIn>>

ResetLink(s, u) ==
    /\ Permitted(s, "authSettings")
    /\ Spend("reset")
    /\ \E p \in Current :
          link' = {l \in link : ~(l.provider = p /\ l.user = u /\ l.active)}
    /\ UNCHANGED <<account, custodian, session, epoch, reserved, request,
                   issued, founded, revoked, overwritten>>
    /\ UNCHANGED <<provider, setting, flow, callback, tested, signedIn>>
-----------------------------------------------------------------------------
\* Expired and completed transactions are deleted first.
CleanedUp ==
    [f \in Flows |-> IF flow[f].stage = "done" \/ flow[f].expired
                     THEN [flow[f] EXCEPT !.stage = "gone"] ELSE flow[f]]

\* A later change of the provider is noticed by the callback, which compares
\* the fingerprint stored here.  No address can be built for an incomplete
\* configuration, so its transaction is deleted again.
StartFlow(f, p, purpose) ==
    /\ flow[f] = NoFlow
    /\ p \in Current
    /\ provider[p].config # Draft
    /\ Spend("start")
    /\ flow' = [CleanedUp EXCEPT
          ![f] = [stage |-> "open", purpose |-> purpose, provider |-> p,
                  config |-> provider[p].config, expired |-> FALSE,
                  user |-> Nobody]]
    /\ UNCHANGED <<account, custodian, session, epoch, reserved, request,
                   issued, founded, revoked, overwritten>>
    /\ UNCHANGED <<provider, link, setting, callback, tested, signedIn>>

StartLogin(f, p) == Usable(provider[p]) /\ StartFlow(f, p, "login")
StartTest(f, p, s) == Permitted(s, "authSettings") /\ StartFlow(f, p, "test")

FlowExpires(f) ==
    /\ flow[f].stage \in {"open", "consumed", "coded"}
    /\ ~flow[f].expired
    /\ Spend("timeout")
    /\ flow' = [flow EXCEPT ![f].expired = TRUE]
    /\ UNCHANGED <<account, custodian, session, epoch, reserved, request,
                   issued, founded, revoked, overwritten>>
    /\ UNCHANGED <<provider, link, setting, callback, tested, signedIn>>

\* The callback consumes the state of its transaction under a row lock.
ConsumeCallbackState(f) ==
    /\ flow[f].stage = "open"
    /\ ~flow[f].expired
    /\ flow' = [flow EXCEPT ![f].stage = "consumed"]
    /\ callback' = [callback EXCEPT ![f] = [NoCallback EXCEPT !.step = "load"]]
    /\ UNCHANGED <<accountVars, provider, link, setting, tested, signedIn>>

LoadProvider(f, cancelled) ==
    LET row == provider[flow[f].provider] IN
    /\ callback[f].step = "load"
    /\ callback' = [callback EXCEPT
          ![f].row = row,
          ![f].step =
              IF row.removed THEN "over"
              ELSE IF cancelled \/ row.config # flow[f].config THEN "failed"
              ELSE "exchange"]
    /\ UNCHANGED <<accountVars, provider, link, setting, flow, tested,
                   signedIn>>

\* The provider refuses the code, or its answer does not hold.
ExchangeFails(f) ==
    /\ callback[f].step = "exchange"
    /\ callback' = [callback EXCEPT ![f].step = "failed"]
    /\ UNCHANGED <<accountVars, provider, link, setting, flow, tested,
                   signedIn>>

\* A test ends here: the locked row is still there and still the same.
RecordSuccessfulTest(f) ==
    LET p == flow[f].provider IN
    /\ callback[f].step = "exchange"
    /\ flow[f].purpose = "test"
    /\ IF ~provider[p].removed /\ provider[p].config = flow[f].config
       THEN /\ provider' = [provider EXCEPT ![p].tested = flow[f].config]
            /\ tested' = tested \cup {<<p, flow[f].config>>}
            /\ callback' = [callback EXCEPT ![f].step = "over"]
            /\ flow' = [flow EXCEPT ![f].stage = "consumed"]
       ELSE /\ callback' = [callback EXCEPT ![f].step = "failed"]
            /\ UNCHANGED <<provider, tested, flow>>
    /\ UNCHANGED <<accountVars, link, setting, signedIn>>

ActiveLink(p, subject) ==
    {l \in link : l.provider = p /\ l.subject = subject /\ l.active}

Matches(email) == {u \in Users : Active(u) /\ account[u].email = email}

\* The account of a sign-in: the one the subject is linked to, else the only
\* one with the provider's address, which is linked now.
Authenticate(f, subject, email) ==
    LET linked == {l.user : l \in ActiveLink(flow[f].provider, subject)} IN
    /\ callback[f].step = "exchange"
    /\ flow[f].purpose = "login"
    /\ \/ /\ ~Usable(callback[f].row)
          /\ callback' = [callback EXCEPT ![f].step = "failed"]
       \/ /\ Usable(callback[f].row)
          /\ \E u \in linked :
                callback' = [callback EXCEPT
                    ![f].step = IF Active(u) THEN "code" ELSE "failed",
                    ![f].user = u, ![f].subject = subject]
       \/ /\ Usable(callback[f].row)
          /\ linked = {}
          /\ \E u \in Users :
                /\ Matches(email) = {u}
                /\ callback' = [callback EXCEPT
                       ![f].step = "link", ![f].user = u,
                       ![f].subject = subject]
       \/ /\ Usable(callback[f].row)
          /\ linked = {}
          /\ \A u \in Users : Matches(email) # {u}
          /\ callback' = [callback EXCEPT ![f].step = "failed"]
    /\ UNCHANGED <<accountVars, provider, link, setting, flow, tested,
                   signedIn>>

\* A subject has one row per provider, active or not, and an account has one
\* active row per provider.
LinkTaken(p, subject, u) ==
    \E l \in link : /\ l.provider = p
                    /\ \/ l.subject = subject
                       \/ l.user = u /\ l.active

InsertLink(f) ==
    LET p == flow[f].provider
        u == callback[f].user
        subject == callback[f].subject
    IN
    /\ callback[f].step = "link"
    /\ IF LinkTaken(p, subject, u) \/ ~Exists(u)
       THEN /\ callback' = [callback EXCEPT ![f].step = "failed"]
            /\ UNCHANGED link
       ELSE /\ link' = link \cup {[provider |-> p, subject |-> subject,
                                   user |-> u, active |-> TRUE]}
            /\ callback' = [callback EXCEPT ![f].step = "code"]
    /\ UNCHANGED <<accountVars, provider, setting, flow, tested, signedIn>>

\* The transaction is saved with the code and five more minutes; a row that
\* was cleaned up meanwhile is inserted again, one for a deleted account not.
SaveCode(f) ==
    /\ callback[f].step = "code"
    /\ flow' = IF Exists(callback[f].user)
               THEN [flow EXCEPT ![f].stage = "coded", ![f].expired = FALSE,
                                 ![f].user = callback[f].user]
               ELSE flow
    /\ callback' = [callback EXCEPT ![f].step = "over"]
    /\ UNCHANGED <<accountVars, provider, link, setting, tested, signedIn>>

\* The result code of a failure is saved; the code of a test is shown to the
\* administrator, the user of a login learns only that it failed.
SaveFailure(f) ==
    /\ callback[f].step = "failed"
    /\ flow' = [flow EXCEPT ![f].stage = "consumed"]
    /\ callback' = [callback EXCEPT ![f].step = "over"]
    /\ UNCHANGED <<accountVars, provider, link, setting, tested, signedIn>>

\* The code is exchanged under the row lock for a session of the account.
CompleteFlow(f, s) ==
    LET u == flow[f].user IN
    /\ flow[f].stage = "coded"
    /\ ~flow[f].expired
    /\ Active(u)
    /\ IssueSession(s, u, account[u].version, revoked[u])
    /\ flow' = [CleanedUp EXCEPT ![f].stage = "done"]
    /\ signedIn' = [signedIn EXCEPT ![f] = @ + 1]
    /\ UNCHANGED <<account, custodian, epoch, reserved, request, left, issued,
                   founded, revoked, overwritten>>
    /\ UNCHANGED <<provider, link, setting, callback, tested>>

\* A restart ends the handlers of this module as well.
RestartExternal ==
    /\ Crash
    /\ setting' = [r \in Requests |-> NoSetting]
    /\ callback' = [f \in Flows |->
          IF callback[f].step = "idle" THEN NoCallback
          ELSE [callback[f] EXCEPT !.step = "over"]]
    /\ UNCHANGED <<provider, link, flow, tested, signedIn>>

ExternalNext ==
    \/ \E r \in Requests :
          \/ \E s \in Sessions, kind \in SettingKinds : LoadSettings(r, s, kind)
          \/ \E config \in Configs \cup {Draft} : SaveSettings(r, config)
          \/ SetEnabled(r)
          \/ RemoveProvider(r)
    \/ \E s \in Sessions, u \in Users : ResetLink(s, u)
    \/ \E f \in Flows :
          \/ \E p \in Providers : StartLogin(f, p)
          \/ \E p \in Providers, s \in Sessions : StartTest(f, p, s)
          \/ FlowExpires(f)
          \/ ConsumeCallbackState(f)
          \/ \E cancelled \in BOOLEAN : LoadProvider(f, cancelled)
          \/ ExchangeFails(f)
          \/ RecordSuccessfulTest(f)
          \/ \E subject \in Subjects, email \in Emails :
                Authenticate(f, subject, email)
          \/ InsertLink(f)
          \/ SaveCode(f)
          \/ SaveFailure(f)
          \/ \E s \in Sessions : CompleteFlow(f, s)
    \/ RestartExternal

\* The accounts that links refer to cannot be deleted.
Linked == {l.user : l \in link}

-----------------------------------------------------------------------------
\* Whatever order settings are saved in, an enabled provider has a complete
\* configuration a sign-in test passed, and so had every transaction that got
\* a completion code when it began.
SignInsUseTestedConfiguration ==
    /\ \A p \in Providers :
           provider[p].enabled => <<p, provider[p].config>> \in tested
    /\ \A f \in Flows :
           flow[f].purpose = "login" /\ flow[f].stage \in {"coded", "done"}
               => <<flow[f].provider, flow[f].config>> \in tested

\* A transaction signs in once, whoever repeats its callback or its code, and
\* only while its subject could still claim the account it is for: an account
\* keeps one active subject per provider and a subject one account.
SignsInOnce ==
    /\ \A f \in Flows : signedIn[f] <= 1
    /\ \A l, k \in link :
           l.provider = k.provider =>
               /\ l.subject = k.subject => l.user = k.user
               /\ l.user = k.user /\ l.active /\ k.active => l = k

\* Whoever signs in from outside does it once, over what was tested.
SignInsAreSound == SignInsUseTestedConfiguration /\ SignsInOnce
=============================================================================
