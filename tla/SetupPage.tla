----------------------------- MODULE SetupPage -----------------------------
(***************************************************************************)
(* The first setup of an installation (SetupView.vue, setup.service.ts):   *)
(* a tab makes the keys, shows the recovery secret to be printed, and      *)
(* sends what opens with the passphrase and with the paper.  Several tabs  *)
(* may be at it; one of them sets the installation up.                     *)
(*                                                                         *)
(* A tab asks whether there is something to set up when it starts          *)
(* (main.ts), and again when the page is shown.  Answers may fail or get   *)
(* lost, and the fields stay open while one is awaited.                    *)
(***************************************************************************)
EXTENDS ProtectedText, KeyVault, TLC

CONSTANT SetupTabs  \* that have the page open

VARIABLES setups,    \* the page in each of the tabs
          installed  \* the key state of the installation

setupVars == <<setups, installed>>
-----------------------------------------------------------------------------
EmptySetup ==
    [stage |-> "none",      \* what the page shows
     awaits |-> "nothing",  \* the answer that the tab awaits
     required |-> TRUE,     \* installation.ts: the router goes nowhere else
     typed |-> NoSecret, confirmed |-> NoSecret,
     keys |-> Nothing,      \* what the tab has made
     printed |-> NoSecret,  \* history: the recovery secret that was shown
     agreed |-> NoSecret,   \* history: the passphrase that was typed twice
     copies |-> FALSE, error |-> FALSE]

SetupInit ==
    /\ setups = [t \in SetupTabs |-> EmptySetup]
    /\ installed = Nothing

ShowSetup(t, page) == setups' = [setups EXCEPT ![t] = page]

Unset == installed = Nothing
Unchanged == UNCHANGED <<installed, left>>

\* The tab starts; when it cannot ask, it takes setup to be required.
StartTab(t) ==
    /\ setups[t].stage = "none"
    /\ Spend("setup")
    /\ \/ ShowSetup(t, [setups[t] EXCEPT !.stage = "started", !.required = Unset])
       \/ ShowSetup(t, [setups[t] EXCEPT !.stage = "started"])
    /\ UNCHANGED installed

\* The router shows the page to a tab that takes setup to be required.
SetupMounted(t) ==
    /\ setups[t].stage = "started" /\ setups[t].required
    /\ ShowSetup(t, [setups[t] EXCEPT !.stage = "loading"])
    /\ Unchanged

InstallationAnswered(t) ==
    /\ setups[t].stage = "loading"
    /\ \/ /\ ShowSetup(t, [setups[t] EXCEPT !.stage = IF Unset THEN "password" ELSE "already-setup"])
          /\ UNCHANGED left
       \/ /\ Spend("fault")
          /\ ShowSetup(t, [setups[t] EXCEPT !.stage = "error", !.error = TRUE])
    /\ UNCHANGED installed
-----------------------------------------------------------------------------
(* The setup password *)

Awaiting(t, answer) == setups[t].awaits = answer

VerifyPassword(t) ==
    /\ setups[t].stage = "password" /\ Awaiting(t, "nothing")
    /\ ShowSetup(t, [setups[t] EXCEPT !.awaits = "password", !.error = FALSE])
    /\ Unchanged

\* The server refuses the password of an installation that is set up.
SetupPasswordTaken(answer) ==
    \/ answer = Unset /\ UNCHANGED left
    \/ ~answer /\ Unset /\ Spend("fault")

PasswordAnswered(t) ==
    /\ Awaiting(t, "password")
    /\ \E ok \in BOOLEAN :
           /\ SetupPasswordTaken(ok)
           /\ ShowSetup(t, [setups[t] EXCEPT !.awaits = "nothing", !.error = ~ok,
                                         !.stage = IF ok THEN "user" ELSE @])
    /\ UNCHANGED installed
-----------------------------------------------------------------------------
(* The keys *)

\* The passphrase is typed twice; either field can be changed again.
TypePassphrase(t) ==
    /\ setups[t].stage = "user" /\ setups[t].typed = NoSecret
    /\ \E p \in Passphrases :
           ShowSetup(t, [setups[t] EXCEPT !.typed = p, !.confirmed = p])
    /\ Unchanged

EditPassphrase(t) ==
    /\ setups[t].stage = "user" /\ setups[t].typed # NoSecret
    /\ Spend("edit")
    /\ \E p \in Passphrases \ {setups[t].typed} : ShowSetup(t, [setups[t] EXCEPT !.typed = p])
    /\ UNCHANGED installed

PrepareSetup(t) ==
    /\ setups[t].stage = "user" /\ Awaiting(t, "nothing")
    /\ setups[t].typed # NoSecret
    /\ ShowSetup(t, IF setups[t].typed = setups[t].confirmed
                 THEN [setups[t] EXCEPT !.awaits = "again", !.error = FALSE,
                                        !.agreed = setups[t].typed]
                 ELSE [setups[t] EXCEPT !.error = TRUE])
    /\ Unchanged

\* The keys are made from what the field holds by now.
AskedAgain(t) ==
    /\ Awaiting(t, "again")
    /\ \E ok \in BOOLEAN :
           /\ SetupPasswordTaken(ok)
           /\ ShowSetup(t, IF ok THEN [setups[t] EXCEPT !.awaits = "keys",
                                                    !.keys = [passphrase |-> setups[t].typed]]
                        ELSE [setups[t] EXCEPT !.awaits = "nothing", !.stage = "password",
                                               !.error = TRUE])
    /\ UNCHANGED installed

\* Keys that are random are those of no other tab.
KeysMade(t) ==
    /\ Awaiting(t, "keys")
    /\ LET mine == CHOOSE f \in [SetupTabs -> RootKeys \cap ContentKeys] :
                       \A u, v \in SetupTabs : u # v => f[u] # f[v]
           paper == CHOOSE f \in [SetupTabs -> RecoverySecrets] :
                       \A u, v \in SetupTabs : u # v => f[u] # f[v]
       IN ShowSetup(t, [setups[t] EXCEPT
              !.awaits = "nothing", !.stage = "recovery", !.printed = paper[t],
              !.typed = NoSecret, !.confirmed = NoSecret,
              !.keys = FirstVault(mine[t], mine[t],
                                  [passphrase |-> @.passphrase, recovery |-> paper[t]])])
    /\ Unchanged

KeysFail(t) ==
    /\ Awaiting(t, "keys")
    /\ Spend("fault")
    /\ ShowSetup(t, [setups[t] EXCEPT !.awaits = "nothing", !.keys = Nothing, !.error = TRUE])
    /\ UNCHANGED installed

\* Who leaves the page stops the derivation; what was sent is sent.
LeaveSetup(t) ==
    /\ setups[t].stage \notin {"none", "started", "closed"}
    /\ Spend("leave")
    /\ ShowSetup(t, [setups[t] EXCEPT !.stage = "closed",
                                  !.awaits = IF @ = "created" THEN @ ELSE "nothing"])
    /\ UNCHANGED installed
-----------------------------------------------------------------------------
(* The first user *)

CopiesAcknowledged(t) ==
    /\ setups[t].stage = "recovery" /\ ~setups[t].copies
    /\ ShowSetup(t, [setups[t] EXCEPT !.copies = TRUE])
    /\ Unchanged

CreateUser(t) ==
    /\ setups[t].stage = "recovery" /\ Awaiting(t, "nothing") /\ setups[t].copies
    /\ setups[t].keys # Nothing
    /\ ShowSetup(t, [setups[t] EXCEPT !.awaits = "created", !.error = FALSE])
    /\ Unchanged

\* One transaction, under a lock: the settings, the user and the key state, if
\* there are none.
Creates(t) == Unset

CreatedOver(t) ==
    ShowSetup(t, IF setups[t].stage = "closed" THEN [setups[t] EXCEPT !.awaits = "nothing"]
              ELSE [setups[t] EXCEPT !.awaits = "nothing", !.stage = "complete",
                                     !.required = FALSE, !.keys = Nothing])

CreateFailed(t) ==
    ShowSetup(t, [setups[t] EXCEPT !.awaits = "nothing", !.error = TRUE])

FirstUserAnswered(t) ==
    /\ Awaiting(t, "created")
    /\ \/ /\ Creates(t)
          /\ installed' = setups[t].keys
          /\ \/ CreatedOver(t) /\ UNCHANGED left
             \/ CreateFailed(t) /\ Spend("lose")
       \/ ~Creates(t) /\ CreateFailed(t) /\ Unchanged
       \/ Creates(t) /\ CreateFailed(t) /\ Spend("fault") /\ UNCHANGED installed

SetupNext ==
    \E t \in SetupTabs :
        \/ StartTab(t) \/ SetupMounted(t) \/ InstallationAnswered(t)
        \/ VerifyPassword(t) \/ PasswordAnswered(t)
        \/ TypePassphrase(t) \/ EditPassphrase(t) \/ PrepareSetup(t) \/ AskedAgain(t)
        \/ KeysMade(t) \/ KeysFail(t) \/ LeaveSetup(t)
        \/ CopiesAcknowledged(t) \/ CreateUser(t) \/ FirstUserAnswered(t)
-----------------------------------------------------------------------------
(* Properties *)

\* Who is told that the setup is complete holds the paper that opens the
\* installation, whoever else was setting it up; and nobody else is told so.
CompleteOpensInstallation ==
    \A t \in SetupTabs :
        setups[t].stage = "complete" =>
            /\ installed # Nothing
            /\ RecoveryOpens(installed, setups[t].printed)
            /\ \A u \in SetupTabs \ {t} : setups[u].stage # "complete"

\* The passphrase of the installation is one that was typed twice.
PassphraseWasConfirmed ==
    installed # Nothing =>
        \E t \in SetupTabs : PassphraseOpens(installed, setups[t].agreed)

\* A page that says that all is set up leads to the sign-in.
SignInIsOffered ==
    \A t \in SetupTabs :
        setups[t].stage \in {"complete", "already-setup"} => ~setups[t].required
=============================================================================
