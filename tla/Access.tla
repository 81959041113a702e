------------------------------- MODULE Access -------------------------------
(***************************************************************************)
(* Who gets in: the accounts, the sign-in through an external provider and *)
(* the key ceremonies of one installation together.  They share the        *)
(* accounts, their sessions and the guard: a ceremony holds the sessions   *)
(* of its operators away from everything else, its activation revokes      *)
(* those of everybody, a link or a ceremony keeps an account from being    *)
(* deleted, and a restart ends the handlers of all three.                  *)
(***************************************************************************)
EXTENDS ExternalSignIn, KeyCeremony

accessVars == <<accountVars, externalVars, ceremonyVars>>

AccessInit ==
    \E start \in Starts :
        AccountsInit(start) /\ ExternalInit(start) /\ KeyInit(start)

\* What rows of other tables keep an account from being deleted.
ReferredElsewhere == Linked \cup Participants

AccessNext ==
    \/ /\ AccountsNext(ReferredElsewhere)
       /\ UNCHANGED <<externalVars, ceremonyVars>>
    \/ ExternalNext /\ UNCHANGED ceremonyVars
    \/ CeremonyNext /\ UNCHANGED externalVars

AccessSpec == AccessInit /\ [][AccessNext]_accessVars

\* The values of every table and every waiting handler.
AccessTypeOK == AccountsTypeOK /\ ExternalTypeOK /\ KeyTypeOK

\* Removal decides from a list of tables whether an account is archived or
\* deleted, while handlers that began before it go on to write rows about it:
\* an account that a link, a ceremony or the epoch of a browser names is always
\* there, whoever removes it, saves over it or writes the row meanwhile.
ReferencesHold ==
    /\ \A u \in ReferredElsewhere \ {Nobody} : Exists(u)
    /\ \A s \in Sessions : epoch[s] # "none" => Exists(session[s].user)

\* Whatever is set up, changed, archived or removed, and in whatever order the
\* handlers that wait for one another's rows go on: the values of the tables are
\* of their types, setup succeeds once, the custodian of the keys has an account,
\* and so has everybody another table refers to.
TablesStayWhole == AccessTypeOK /\ InstallationStaysWhole /\ ReferencesHold
=============================================================================
