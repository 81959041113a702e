---------------------------- MODULE SettingsPage ----------------------------
(***************************************************************************)
(* The settings of the external sign-in as an administrator's page has     *)
(* them (AuthenticationSettingsView.vue, provider-settings.service.ts).    *)
(* Saving disables its own button only, and so do the other actions: a     *)
(* save may overlap with one of them.                                      *)
(*                                                                         *)
(* Of the form there is the client secret, the one field that is not shown *)
(* again.  A provider is tested, and what was tested is enabled; whatever  *)
(* changes its configuration takes both back.  ExternalSignIn has what     *)
(* becomes of the sign-ins, and handlers that overlap on the server.       *)
(***************************************************************************)
EXTENDS ProtectedText

CONSTANT ClientSecrets  \* that may be typed

VARIABLE configured  \* the provider, with whether one of the users is linked

settingsVars == <<configured>>
-----------------------------------------------------------------------------
SettingsInit ==
    configured = [secret |-> Nothing, approved |-> TRUE, enabled |-> TRUE, linked |-> TRUE]

OnSettings == route = "settings" /\ screen.mounted

\* A request of the page, and which of its flags waits for the answer.
SettingsRequest(operation, flag) ==
    [Task("setting", "asked") EXCEPT
        !.got = [op |-> operation, flag |-> flag, secret |-> Nothing, removal |-> FALSE,
                 ok |-> FALSE, row |-> Nothing]]

VisitSettings ==
    /\ route = "elsewhere" /\ text.user /\ text.manages /\ UserCanAct
    /\ Spend("settings")
    /\ Become(Entered(Page, "settings"))
    /\ UNCHANGED <<settingsVars, server>>

LeaveSettings ==
    /\ route = "settings" /\ UserCanAct
    /\ Spend("leave")
    /\ Become(Left(Page))
    /\ UNCHANGED <<settingsVars, server>>

SettingsMounted ==
    /\ route = "settings" /\ ~screen.mounted
    /\ Become(WithCall([Page EXCEPT !.screen =
                           [mounted |-> TRUE, provider |-> Nothing, users |-> "none",
                            loading |-> TRUE, saving |-> FALSE, acting |-> FALSE,
                            secret |-> Nothing, removal |-> FALSE, dialog |-> "none",
                            relisted |-> FALSE, error |-> FALSE, refused |-> FALSE]],
                       SettingsRequest("read", "loading")))
    /\ UNCHANGED <<settingsVars, server, left>>
-----------------------------------------------------------------------------
(* The form *)

FormUsable == OnSettings /\ ~screen.loading /\ screen.dialog = "none"

TypeSecret(secret) ==
    /\ FormUsable /\ UserCanAct
    /\ Spend("edit")
    /\ Become([Page EXCEPT !.screen.secret = secret, !.screen.removal = FALSE])
    /\ UNCHANGED <<settingsVars, server>>

\* What was typed is cleared, or what is stored is to be removed by the next save.
ClearSecret ==
    /\ FormUsable /\ UserCanAct
    /\ \/ screen.secret # Nothing
       \/ screen.provider # Nothing /\ screen.provider.secret # Nothing /\ ~screen.removal
    /\ Spend("edit")
    /\ Become([Page EXCEPT !.screen.secret = Nothing,
                           !.screen.removal = screen.provider # Nothing
                                              /\ screen.provider.secret # Nothing])
    /\ UNCHANGED <<settingsVars, server>>

SaveForm ==
    /\ FormUsable /\ ~screen.saving /\ UserCanAct
    /\ Spend("save")
    /\ Become(WithCall([Page EXCEPT !.screen.saving = TRUE, !.screen.error = FALSE],
                       [SettingsRequest("save", "saving") EXCEPT
                           !.got.secret = screen.secret, !.got.removal = screen.removal]))
    /\ UNCHANGED <<settingsVars, server>>

\* A test leads to the provider; the other two change what is stored.
Act(operation) ==
    /\ FormUsable /\ ~screen.acting /\ screen.provider # Nothing /\ UserCanAct
    /\ operation = "enable" => ~screen.provider.enabled /\ screen.provider.approved
    /\ operation = "disable" => screen.provider.enabled
    /\ Spend("change")
    /\ Become(WithCall([Page EXCEPT !.screen.acting = TRUE],
                       SettingsRequest(operation, "acting")))
    /\ UNCHANGED <<settingsVars, server>>

\* A user of the list may be picked at any time, the removal when nothing acts.
AskConfirmation(operation) ==
    /\ FormUsable /\ screen.provider # Nothing /\ UserCanAct
    /\ operation = "remove" => ~screen.acting
    /\ operation = "reset" => screen.users = "linked"
    /\ Spend("change")
    /\ Become([Page EXCEPT !.screen.dialog = operation, !.screen.relisted = FALSE,
                           !.screen.refused = FALSE])
    /\ UNCHANGED <<settingsVars, server>>

Confirm ==
    /\ OnSettings /\ screen.dialog # "none" /\ ~screen.acting /\ UserCanAct
    /\ Spend("confirm")
    /\ Become(WithCall([Page EXCEPT !.screen.acting = TRUE, !.screen.refused = FALSE],
                       SettingsRequest(screen.dialog, "acting")))
    /\ UNCHANGED <<settingsVars, server>>

CancelConfirmation ==
    /\ OnSettings /\ screen.dialog # "none" /\ ~screen.acting
    /\ Become([Page EXCEPT !.screen.dialog = "none", !.screen.refused = FALSE])
    /\ UNCHANGED <<settingsVars, server, left>>
-----------------------------------------------------------------------------
(* The server *)

\* Another secret is another configuration, the same one sealed anew as well.
SettingsSaved(c) ==
    LET row == IF configured # Nothing THEN configured
               ELSE [secret |-> Nothing, approved |-> FALSE, enabled |-> FALSE,
                     linked |-> FALSE]
        secret == IF c.got.secret # Nothing THEN c.got.secret
                  ELSE IF c.got.removal THEN Nothing ELSE row.secret
        same == c.got.secret = Nothing /\ secret = row.secret
    IN [row EXCEPT !.secret = secret, !.approved = @ /\ same, !.enabled = @ /\ same]

SettingAccepted(c) ==
    /\ server.admits
    /\ c.got.op \in {"read", "save"} \/ configured # Nothing
    /\ c.got.op = "enable" => configured.approved

SettingStored(c) ==
    configured' = CASE c.got.op = "save" -> SettingsSaved(c)
                    [] c.got.op = "enable" -> [configured EXCEPT !.enabled = TRUE]
                    [] c.got.op = "disable" -> [configured EXCEPT !.enabled = FALSE]
                    [] c.got.op = "remove" -> Nothing
                    [] c.got.op = "reset" -> [configured EXCEPT !.linked = FALSE]
                    [] c.got.op \in {"read", "users", "test"} -> configured

SettingServed(c) ==
    /\ IsTask(c, "setting", "asked")
    /\ \/ /\ SettingAccepted(c)
          /\ SettingStored(c)
          /\ \/ /\ Become(Onward(Page, c, "answered",
                                 [c.got EXCEPT !.ok = TRUE, !.row = configured']))
                /\ UNCHANGED left
             \/ Become(Onward(Page, c, "answered", c.got)) /\ Spend("lose")
       \/ /\ ~SettingAccepted(c)
          /\ Become(Onward(Page, c, "answered", c.got))
          /\ UNCHANGED <<settingsVars, left>>
    /\ UNCHANGED server
-----------------------------------------------------------------------------
(* Answers *)

\* The form is filled with what is stored; a removed provider leaves it as it is.
FormFilled(p, row) ==
    IF row = Nothing THEN [p EXCEPT !.screen.provider = Nothing]
    ELSE [p EXCEPT !.screen.provider = row, !.screen.secret = Nothing,
                   !.screen.removal = FALSE]

FlagLowered(p, flag) ==
    CASE flag = "loading" -> [p EXCEPT !.screen.loading = FALSE]
      [] flag = "saving" -> [p EXCEPT !.screen.saving = FALSE]
      [] OTHER -> [p EXCEPT !.screen.acting = FALSE]

SettingFailed(p, c) ==
    LET q == FlagLowered(p, c.got.flag)
    IN IF c.got.op \in {"remove", "reset"} THEN [q EXCEPT !.screen.refused = TRUE]
       ELSE [q EXCEPT !.screen.error = TRUE]

\* The tab goes to the provider with all that it holds; a new one comes back.
TabLeft(p) ==
    [Left(p) EXCEPT !.text = [LockedText EXCEPT !.manages = p.text.manages,
                                                !.drawn = p.text.drawn],
                    !.presence = 0, !.calls = {}]

\* A user whose entry was read again meanwhile is still shown as it was read.
LinkReset(p) ==
    [p EXCEPT !.screen.dialog = "none",
              !.screen.users = IF @ = "linked" /\ ~p.screen.relisted THEN "unlinked" ELSE @]

ProviderRemoved(p) ==
    [FormFilled(p, Nothing) EXCEPT !.screen.dialog = "none", !.screen.users = "none",
                                !.screen.secret = Nothing, !.screen.removal = FALSE]

\* Whoever has read or saved the settings reads the users then.
SettingSucceeds(p, c) ==
    LET users == SettingsRequest("users", c.got.flag)
    IN CASE c.got.op = "read" ->
                IF c.got.row # Nothing THEN WithCall(FormFilled(p, c.got.row), users)
                ELSE FlagLowered(FormFilled(p, Nothing), c.got.flag)
         [] c.got.op = "save" -> WithCall(FormFilled(p, c.got.row), users)
         [] c.got.op = "users" ->
                FlagLowered([p EXCEPT !.screen.users = IF c.got.row.linked THEN "linked"
                                                    ELSE "unlinked",
                                   !.screen.relisted = TRUE], c.got.flag)
         [] c.got.op \in {"enable", "disable"} -> FlagLowered(FormFilled(p, c.got.row), c.got.flag)
         [] c.got.op = "remove" -> FlagLowered(ProviderRemoved(p), c.got.flag)
         [] c.got.op = "reset" -> FlagLowered(LinkReset(p), c.got.flag)
         [] OTHER -> TabLeft(p)

SettingAnswered(c) ==
    /\ IsTask(c, "setting", "answered")
    /\ LET p == WithoutCall(Page, c)
       IN Become(IF ~c.here THEN (IF c.got.op = "test" /\ c.got.ok THEN TabLeft(p) ELSE p)
                 ELSE IF c.got.ok THEN SettingSucceeds(p, c) ELSE SettingFailed(p, c))
    /\ UNCHANGED <<settingsVars, server, left>>

\* The test comes to an end, a user signs in and is linked.
OthersSignIn ==
    /\ configured # Nothing
    /\ Spend("others")
    /\ configured' \in {[configured EXCEPT !.approved = TRUE],
                        [configured EXCEPT !.linked = TRUE]} \ {configured}
    /\ UNCHANGED <<pageVars, server>>

SettingsNext ==
    \/ VisitSettings \/ LeaveSettings \/ SettingsMounted
    \/ ClearSecret \/ SaveForm \/ Confirm \/ CancelConfirmation \/ OthersSignIn
    \/ \E secret \in ClientSecrets : TypeSecret(secret)
    \/ \E operation \in {"enable", "disable", "test"} : Act(operation)
    \/ \E operation \in {"remove", "reset"} : AskConfirmation(operation)
    \/ \E c \in calls : SettingServed(c) \/ SettingAnswered(c)
-----------------------------------------------------------------------------
(* Properties *)

\* A page that awaits nothing and says of no request that it failed shows what
\* is stored, and offers to enable what may be enabled.
SettingsAreCurrent ==
    (OnSettings /\ ~screen.error /\ screen.dialog = "none"
     /\ ~\E c \in calls : c.kind = "task")
        => /\ (screen.provider # Nothing) <=> (configured # Nothing)
           /\ configured # Nothing => screen.provider.enabled = configured.enabled

LinksAreCurrent ==
    (OnSettings /\ ~screen.error /\ ~\E c \in calls : c.kind = "task")
        => (screen.users = "linked" => configured # Nothing /\ configured.linked)

\* A secret that is typed goes with a save or by the user's hand.
TypedSecretStays ==
    [][(OnSettings /\ screen.secret # Nothing /\ OnSettings' /\ screen'.secret = Nothing)
       => ClearSecret \/ screen.saving \/ screen.dialog = "remove"]_<<vars, settingsVars>>
=============================================================================
