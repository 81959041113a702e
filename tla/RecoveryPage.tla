---------------------------- MODULE RecoveryPage ----------------------------
(***************************************************************************)
(* The page for key ceremonies (RecoveryView.vue) in a browser tab, and    *)
(* the ceremonies on the server as far as the page depends on them.  The   *)
(* tab's user is one operator; others start, approve, activate and abort.  *)
(*                                                                         *)
(* A handler of the page reads the key state, derives keys in a worker for *)
(* a second, and sends what it made: the page may be left, locked or ended *)
(* between any two of these.  One handler runs at a time (busy), but the   *)
(* poll for the active ceremony does not wait for it, and a handler goes   *)
(* on when its page is gone.                                               *)
(***************************************************************************)
EXTENDS ProtectedText, KeyVault

CONSTANT MaxCeremonies  \* bound: how many are started

ASSUME RecoveryConstants ==
    /\ MaxCeremonies \in Nat
    /\ 1 \in RootKeys \cap ContentKeys
    /\ Passphrases # {} /\ RecoverySecrets # {}

Ceremonies == 1 .. MaxCeremonies  \* in the order they are started

VARIABLE ceremony  \* e2ee_recovery_ceremonies

recoveryVars == <<vault, used, known, ceremony>>
-----------------------------------------------------------------------------
NoCeremony == [state |-> "none"]

Open(id) == ceremony[id].state \in {"pending", "ready"}

\* Mutant: whoever did not start a ceremony is taken for its second operator.
RoleByExclusion(row) == IF row.initiator = "tab" THEN "initiator" ELSE "approver"

\* The part the tab's session has in a ceremony.
RoleIn(row) ==
    IF row.initiator = "tab" THEN "initiator"
    ELSE IF row.approver = "tab" THEN "approver" ELSE "none"

Set(id, row) == ceremony' = [ceremony EXCEPT ![id] = row]

\* The ceremony as GET /key-ceremonies/active describes it.
ActiveCeremony ==
    IF \E id \in Ceremonies : Open(id)
    THEN LET id == CHOOSE i \in Ceremonies : Open(i)
         IN [id |-> id, situation |-> ceremony[id].situation,
             ready |-> ceremony[id].state = "ready", role |-> RoleIn(ceremony[id])]
    ELSE Nothing

RecoveryInit(start) ==
    /\ known = [passphrase |-> CHOOSE p \in Passphrases : TRUE,
                recovery |-> CHOOSE s \in RecoverySecrets : TRUE]
    /\ vault = FirstVault(1, 1, known)
    /\ used = {1}
    /\ ceremony = [id \in Ceremonies |-> NoCeremony]
-----------------------------------------------------------------------------
(* The page *)

NewPage ==
    [mounted |-> TRUE, resolved |-> FALSE, refreshing |-> FALSE, busy |-> FALSE,
     active |-> Nothing, situation |-> "none", prepared |-> Nothing, copies |-> FALSE,
     started |-> FALSE, approved |-> FALSE, activeId |-> 0]

OnPage == route = "recovery" /\ screen.mounted

\* A handler ends: on its page, the buttons work again.
Done(p, c) ==
    LET q == WithoutCall(p, c) IN IF c.here THEN [q EXCEPT !.screen.busy = FALSE] ELSE q

Rejected(p, c) == Denied(Done(p, c))

Refreshed(p) ==
    WithCall([p EXCEPT !.screen.refreshing = TRUE], Task("refresh", "asked"))

VisitRecovery ==
    /\ route = "elsewhere" /\ text.user /\ text.manages /\ UserCanAct
    /\ Spend("recovery")
    /\ Become(Entered(Page, "recovery"))
    /\ UNCHANGED server

\* The router keeps whoever takes part in a ceremony on its page.
LeaveRecovery ==
    /\ route = "recovery" /\ presence = 0
    /\ Spend("leave")
    /\ Become(Left(Page))
    /\ UNCHANGED server

RecoveryMounted ==
    /\ route = "recovery" /\ ~screen.mounted
    /\ Become(Refreshed([Page EXCEPT !.screen = NewPage]))
    /\ UNCHANGED <<server, left>>

\* Every five seconds, unless the page is busy.
RefreshDue ==
    /\ OnPage /\ screen.resolved /\ ~screen.refreshing /\ ~screen.busy
    /\ Spend("refresh")
    /\ Become(Refreshed(Page))
    /\ UNCHANGED server

RefreshServed(c) ==
    /\ IsTask(c, "refresh", "asked")
    /\ Become(IF server.admits THEN Onward(Page, c, "answered", ActiveCeremony)
              ELSE Onward(Page, c, "refused", Nothing))
    /\ UNCHANGED <<server, left>>

\* There is none any more: whatever the page did about the last one is over.
NoneActive(p) ==
    IF p.screen.active = Nothing THEN p
    ELSE [p EXCEPT !.presence = 0, !.screen.activeId = 0, !.screen.started = FALSE,
                   !.screen.approved = FALSE, !.screen.situation = "none",
                   !.screen.active = Nothing]

CeremonyShown(p, active) ==
    LET q == [p EXCEPT !.screen.active = active, !.screen.situation = active.situation]
        r == IF active.role = "none" THEN q
             ELSE [q EXCEPT !.screen.activeId = active.id, !.presence = active.id]
    IN IF active.role = "initiator" THEN [r EXCEPT !.screen.started = TRUE]
       ELSE IF active.role = "approver" THEN [r EXCEPT !.screen.approved = active.ready]
       ELSE r

RefreshAnswered(c) ==
    /\ c.kind = "task" /\ c.name = "refresh" /\ c.stage # "asked"
    /\ LET p == WithoutCall(Page, c)
           shown == IF c.stage = "refused" THEN p
                    ELSE IF c.got = Nothing THEN NoneActive(p) ELSE CeremonyShown(p, c.got)
           q == IF c.here THEN [shown EXCEPT !.screen.resolved = TRUE,
                                             !.screen.refreshing = FALSE] ELSE p
       IN Become(IF c.stage = "refused" THEN PerformLock(q, "authorization-loss") ELSE q)
    /\ UNCHANGED <<server, left>>

ChooseSituation(situation) ==
    /\ OnPage /\ screen.resolved /\ screen.situation = "none" /\ screen.active = Nothing
    /\ Spend(situation)
    /\ Become([Page EXCEPT !.screen.situation = situation])
    /\ UNCHANGED server

\* The button waits for no handler that is under way.
ChooseDifferentSituation ==
    /\ OnPage /\ screen.resolved /\ screen.situation # "none"
    /\ screen.active = Nothing /\ screen.activeId = 0 /\ ~screen.started
    /\ Become([Page EXCEPT !.screen.situation = "none", !.screen.approved = FALSE,
                           !.screen.prepared = Nothing, !.screen.copies = FALSE])
    /\ UNCHANGED <<server, left>>

InitiatorPanel ==
    /\ OnPage /\ screen.resolved /\ screen.situation # "none"
    /\ screen.active # Nothing => screen.active.role = "initiator"

ApproverPanel ==
    /\ OnPage /\ screen.resolved /\ screen.active # Nothing
    /\ \/ screen.active.role = "approver"
       \/ screen.active.role = "none" /\ ~screen.active.ready

Busy(p, call) == WithCall([p EXCEPT !.screen.busy = TRUE], call)
-----------------------------------------------------------------------------
(* Preparing and starting *)

\* The operators type what they know, and agree on what is new.
TypedNow(situation) ==
    {typed \in TypedFor(situation) :
        /\ typed.passphrase \in {known.passphrase, NoSecret}
        /\ typed.recovery \in {known.recovery, NoSecret}}

\* What is random in a candidate.
Drawn ==
    [root : {CHOOSE r \in UnusedRoots : TRUE}, content : {CHOOSE k \in ContentKeys \ used : TRUE},
     recovery : RecoverySecrets \ {known.recovery}]

HaveKeys == UnusedRoots # {} /\ ContentKeys \ used # {}

\* startRecovery, whatever was prepared for another situation, or prepareKeyCeremony.
Prepare ==
    /\ InitiatorPanel /\ ~screen.busy
    /\ screen.prepared = Nothing \/ screen.situation = "lost_passphrase"
    /\ Spend("ceremony")
    /\ \E typed \in {t \in TypedNow(screen.situation) : t.newRecovery \in
                        {NoSecret, CHOOSE s \in RecoverySecrets : TRUE}} :
           Become(Busy(Page, [Task("prepare", "asked") EXCEPT
                                 !.got = [vault |-> Nothing, situation |-> screen.situation,
                                          typed |-> typed]]))
    /\ UNCHANGED server

\* The key state, in five requests: none of them is served after an activation.
MetadataRead(c) ==
    /\ \E name \in {"prepare", "approve"} : IsTask(c, name, "asked")
    /\ Become(IF ~server.admits THEN Rejected(Page, c)
              ELSE IF ~c.here THEN WithoutCall(Page, c)
              ELSE WithCall(WithoutCall(Page, c),
                     [c EXCEPT !.stage = "deriving", !.derives = TRUE, !.got.vault = vault]))
    /\ UNCHANGED <<server, left>>

\* A lost passphrase is sent at once; another candidate is shown first.
CandidateMade(c) ==
    /\ IsTask(c, "prepare", "deriving") /\ HaveKeys
    /\ \E new \in Drawn :
           LET g == c.got
               made == [situation |-> g.situation, generation |-> g.vault.generation,
                        candidate |-> Candidate(g.vault, g.situation, g.typed, new),
                        copies |-> FALSE]
           IN Become(IF ~CanCreate(g.vault, g.situation, g.typed) THEN Done(Page, c)
                     ELSE IF g.situation = "lost_passphrase"
                     THEN WithCall(WithoutCall(Page, c),
                                   [Task("start", "asked") EXCEPT !.got = made])
                     ELSE [Done(Page, c) EXCEPT !.screen.prepared = made,
                                                !.screen.copies = FALSE])
    /\ UNCHANGED <<server, left>>

\* A secret was mistyped.
DerivationFails(c) ==
    /\ \E name \in {"prepare", "approve"} : IsTask(c, name, "deriving")
    /\ Spend("refuse")
    /\ Become(Done(Page, c))
    /\ UNCHANGED server

\* Both paper copies, once the new secret is on the screen.
AcknowledgeCopies ==
    /\ InitiatorPanel /\ screen.situation # "lost_passphrase"
    /\ screen.prepared # Nothing /\ ~screen.copies
    /\ "newRecovery" \in Asks(screen.prepared.situation)
    /\ Become([Page EXCEPT !.screen.copies = TRUE])
    /\ UNCHANGED <<server, left>>

StartPrepared ==
    /\ InitiatorPanel /\ screen.situation # "lost_passphrase"
    /\ ~screen.busy /\ screen.prepared # Nothing
    /\ "newRecovery" \in Asks(screen.situation) => screen.copies
    /\ Become(Busy(Page, [Task("start", "asked") EXCEPT
                             !.got = [screen.prepared EXCEPT !.copies = screen.copies]]))
    /\ UNCHANGED <<server, left>>

\* Under the advisory lock; an expired ceremony is aborted on the way.
Startable(generation, situation, candidate) ==
    /\ ~\E id \in Ceremonies : Open(id)
    /\ generation = vault.generation
    /\ CandidateAccepted(vault, situation, candidate)

NextId == {id \in Ceremonies : \A i \in Ceremonies : ceremony[i] = NoCeremony <=> i >= id}

Begun(id, initiator, made) ==
    Set(id, [state |-> "pending", situation |-> made.situation,
             generation |-> made.generation, candidate |-> made.candidate,
             initiator |-> initiator, approver |-> "nobody", present |-> TRUE,
             agreed |-> Nothing, copies |-> made.copies])

StartServed(c) ==
    /\ IsTask(c, "start", "asked")
    /\ LET g == c.got
       IN \/ /\ server.admits /\ Startable(g.generation, g.situation, g.candidate)
             /\ \E id \in NextId :
                    /\ Begun(id, "tab", g)
                    /\ \/ Become(Onward(Page, c, "done", [id |-> id])) /\ UNCHANGED left
                       \/ Spend("lose") /\ Become(Onward(Page, c, "failed", Nothing))
          \/ /\ ~(server.admits /\ Startable(g.generation, g.situation, g.candidate))
             /\ Become(Onward(Page, c, "failed", Nothing))
             /\ UNCHANGED <<ceremony, left>>
    /\ UNCHANGED server

\* The ceremony is the tab's even if the page that started it is gone.
StartAnswered(c) ==
    /\ c.kind = "task" /\ c.name = "start" /\ c.stage # "asked"
    /\ Become(IF c.stage = "failed" THEN Rejected(Page, c)
              ELSE LET p == [Done(Page, c) EXCEPT !.presence = c.got.id]
                   IN IF ~c.here THEN p
                      ELSE [p EXCEPT !.screen.activeId = c.got.id, !.screen.started = TRUE,
                                     !.screen.prepared = Nothing, !.screen.copies = FALSE])
    /\ UNCHANGED <<server, left>>
-----------------------------------------------------------------------------
(* Approving *)

Approve ==
    /\ ApproverPanel /\ ~screen.approved /\ ~screen.busy
    /\ Spend("ceremony")
    /\ \E typed \in TypedNow(screen.situation) :
           Become(Busy(Page, [Task("approve", "asked") EXCEPT
                                 !.got = [vault |-> Nothing, id |-> screen.active.id,
                                          typed |-> typed, situation |-> screen.situation]]))
    /\ UNCHANGED server

\* Mutant: the present state is opened, the candidate is not.
VerifiedBlindly(row, g) ==
    row.situation = g.situation /\ Opens(g.vault, g.situation, g.typed)

Verified(row, g) ==
    /\ row.situation = g.situation
    /\ row.generation = g.vault.generation
    /\ CandidateVerified(g.vault, g.situation, row.candidate, g.typed)

CandidateChecked(c) ==
    /\ IsTask(c, "approve", "deriving")
    /\ Become(IF Verified(ceremony[c.got.id], c.got)
              THEN WithCall(WithoutCall(Page, c),
                     [Task("approve", "sent") EXCEPT
                         !.got = [id |-> c.got.id, typed |-> c.got.typed]])
              ELSE Done(Page, c))
    /\ UNCHANGED <<server, left>>

ApproveServed(c) ==
    /\ IsTask(c, "approve", "sent")
    /\ LET id == c.got.id
           row == ceremony[id]
       IN IF server.admits /\ row.state = "pending" /\ row.initiator # "tab"
          THEN /\ Set(id, [row EXCEPT !.state = "ready", !.approver = "tab", !.present = TRUE,
                                      !.agreed = c.got.typed])
               /\ \/ Become(Onward(Page, c, "done", [id |-> id])) /\ UNCHANGED left
                  \/ Spend("lose") /\ Become(Onward(Page, c, "failed", Nothing))
          ELSE /\ Become(Onward(Page, c, "failed", Nothing))
               /\ UNCHANGED <<ceremony, left>>
    /\ UNCHANGED server

ApproveAnswered(c) ==
    /\ c.kind = "task" /\ c.name = "approve" /\ c.stage \in {"done", "failed"}
    /\ Become(IF c.stage = "failed" THEN Rejected(Page, c)
              ELSE LET p == [Done(Page, c) EXCEPT !.presence = c.got.id]
                   IN IF ~c.here THEN p
                      ELSE [p EXCEPT !.screen.activeId = c.got.id, !.screen.approved = TRUE])
    /\ UNCHANGED <<server, left>>
-----------------------------------------------------------------------------
(* Activating *)

Activate ==
    /\ ApproverPanel /\ screen.approved /\ ~screen.busy /\ screen.activeId # 0
    /\ Become(Busy(Page, [Task("activate", "asked") EXCEPT !.got = [id |-> screen.activeId]]))
    /\ UNCHANGED <<server, left>>

\* An operator whose session was revoked is none any more.
Eligible(row) == RoleIn(row) # "none" => server.admits

Activatable(row) ==
    row.state = "ready" /\ Eligible(row) /\ row.present /\ row.generation = vault.generation

\* The key state is replaced, everybody is signed out.
Activated(id) ==
    LET row == ceremony[id]
    IN /\ vault' = Installed(vault, row.candidate)
       /\ used' = used \cup {row.candidate.content}
       /\ known' = Remembered(row.situation, row.agreed)
       /\ Set(id, [row EXCEPT !.state = "activated"])
       /\ server' = [server EXCEPT !.generation = @ + 1, !.admits = FALSE, !.epochs = {}]

ActivateServed(c) ==
    /\ IsTask(c, "activate", "asked")
    /\ LET id == c.got.id
           row == ceremony[id]
           Answer(stage) == Become(Onward(Page, c, stage, Nothing))
       IN \/ /\ server.admits /\ RoleIn(row) # "none" /\ Activatable(row)
             /\ Activated(id)
             /\ \/ Answer("done") /\ UNCHANGED left
                \/ Spend("lose") /\ Answer("failed")
          \/ /\ ~(server.admits /\ RoleIn(row) # "none" /\ Activatable(row))
             /\ Answer(IF row.state = "activated" /\ RoleIn(row) # "none"
                       THEN "done" ELSE "failed")
             /\ UNCHANGED <<recoveryVars, server, left>>

ActivateAnswered(c) ==
    /\ c.kind = "task" /\ c.name = "activate" /\ c.stage # "asked"
    /\ Become(IF c.stage = "failed" THEN Rejected(Page, c)
              ELSE LET p == [Done(Page, c) EXCEPT !.presence = 0]
                   IN LoggedOut(IF c.here THEN [p EXCEPT !.screen.activeId = 0] ELSE p))
    /\ UNCHANGED <<server, left>>
-----------------------------------------------------------------------------
(* Presence and abortion *)

AbortServed(c) ==
    /\ c.kind = "abort"
    /\ LET row == ceremony[c.ceremony]
       IN IF server.admits /\ Open(c.ceremony) /\ RoleIn(row) # "none"
          THEN Set(c.ceremony, [row EXCEPT !.state = "over"]) ELSE UNCHANGED ceremony
    /\ Become(Denied(WithoutCall(Page, c)))
    /\ UNCHANGED <<server, left>>

\* Confirmed every ten seconds, and too old after thirty.
PresenceConfirmed ==
    /\ presence # 0 /\ server.admits /\ Open(presence)
    /\ LET row == ceremony[presence]
       IN ~row.present /\ RoleIn(row) # "none" /\ Set(presence, [row EXCEPT !.present = TRUE])
    /\ UNCHANGED <<pageVars, server, left>>

PresenceLapses(id) ==
    /\ Open(id) /\ ceremony[id].present
    /\ Spend("lapse")
    /\ Set(id, [ceremony[id] EXCEPT !.present = FALSE])
    /\ UNCHANGED <<pageVars, server>>

\* After thirty minutes.
CeremonyExpires(id) ==
    /\ Open(id)
    /\ Spend("lapse")
    /\ Set(id, [ceremony[id] EXCEPT !.state = "over"])
    /\ UNCHANGED <<pageVars, server>>
-----------------------------------------------------------------------------
(* The other operators *)

OthersStart(situation) ==
    /\ Spend(situation)
    /\ HaveKeys
    /\ \E typed \in TypedNow(situation), new \in Drawn, id \in NextId :
           LET candidate == Candidate(vault, situation, typed, new)
           IN /\ typed.newRecovery \in {NoSecret, new.recovery}
              /\ CanCreate(vault, situation, typed)
              /\ Startable(vault.generation, situation, candidate)
              /\ Begun(id, "other", [situation |-> situation, candidate |-> candidate,
                                     generation |-> vault.generation, copies |-> TRUE])
    /\ UNCHANGED <<pageVars, server>>

OthersApprove(id) ==
    /\ ceremony[id].state = "pending" /\ Eligible(ceremony[id])
    /\ Spend("mate")
    /\ \E typed \in TypedNow(ceremony[id].situation) :
           /\ CandidateVerified(vault, ceremony[id].situation, ceremony[id].candidate, typed)
           /\ Set(id, [ceremony[id] EXCEPT !.state = "ready", !.approver = "other",
                                           !.agreed = typed])
    /\ UNCHANGED <<pageVars, server>>

OthersActivate(id) ==
    /\ Activatable(ceremony[id])
    /\ "other" \in {ceremony[id].initiator, ceremony[id].approver}
    /\ Spend("mate")
    /\ Activated(id)
    /\ UNCHANGED pageVars

OthersAbort(id) ==
    /\ Open(id)
    /\ "other" \in {ceremony[id].initiator, ceremony[id].approver}
    /\ Spend("mate")
    /\ Set(id, [ceremony[id] EXCEPT !.state = "over"])
    /\ UNCHANGED <<pageVars, server>>

RecoveryPageNext ==
    \/ /\ \/ VisitRecovery \/ LeaveRecovery \/ RecoveryMounted \/ RefreshDue
          \/ \E situation \in Situations : ChooseSituation(situation)
          \/ ChooseDifferentSituation \/ Prepare \/ AcknowledgeCopies \/ StartPrepared
          \/ Approve \/ Activate
          \/ \E c \in calls :
                 \/ RefreshServed(c) \/ RefreshAnswered(c) \/ MetadataRead(c)
                 \/ CandidateMade(c) \/ DerivationFails(c) \/ StartAnswered(c)
                 \/ CandidateChecked(c) \/ ApproveAnswered(c) \/ ActivateAnswered(c)
       /\ UNCHANGED recoveryVars
    \/ /\ \/ \E c \in calls : StartServed(c) \/ ApproveServed(c) \/ AbortServed(c)
          \/ PresenceConfirmed
          \/ \E situation \in Situations : OthersStart(situation)
          \/ \E id \in Ceremonies :
                 \/ PresenceLapses(id) \/ CeremonyExpires(id)
                 \/ OthersApprove(id) \/ OthersAbort(id)
       /\ UNCHANGED vaultVars
    \/ \E c \in calls : ActivateServed(c)
    \/ \E id \in Ceremonies : OthersActivate(id)
-----------------------------------------------------------------------------
(* Properties; EverythingReadable and KnownSecretsOpen are KeyVault's *)

\* Where the page speaks of an approval, its button activates the ceremony that it
\* remembers, whichever one the last poll made it show.  That is always one its
\* user has taken part in; once it has an approver, its candidate opens with what
\* this approver typed, as long as the keys are those it was made for.  Of the
\* ceremony that is shown nothing is said here: see ApprovalIsOfShown.
ApprovedIsVerified ==
    ApproverPanel /\ screen.approved /\ screen.activeId # 0 =>
        LET row == ceremony[screen.activeId]
        IN /\ "tab" \in {row.initiator, row.approver}
           /\ row.approver # "nobody" /\ row.generation = vault.generation =>
                  CandidateVerified(vault, row.situation, row.candidate, row.agreed)

\* "Everything was validated successfully. The change is ready to activate", says
\* the page where it asks for an approval before: this user has validated the
\* ceremony that it shows.  False after a poll that finds the next ceremony, which
\* inherits the approval of the last one (MCApproval.cfg).
ApprovalIsOfShown ==
    ApproverPanel /\ screen.approved => ceremony[screen.active.id].approver = "tab"

\* A new recovery secret is only started with once both copies are confirmed.
CustodyIsAcknowledged ==
    \A id \in Ceremonies :
        ceremony[id] # NoCeremony /\ "newRecovery" \in Asks(ceremony[id].situation)
            => ceremony[id].copies

\* A tab that nobody is signed in to takes part in no ceremony.
PresenceNeedsUser == presence # 0 => text.user

\* Every situation on the page can be begun by operators who know the secrets.
EverySituationCanBegin ==
    \A situation \in Situations :
        \E typed \in TypedNow(situation) : CanCreate(vault, situation, typed)
=============================================================================
