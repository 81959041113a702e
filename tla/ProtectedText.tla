---------------------------- MODULE ProtectedText ----------------------------
(***************************************************************************)
(* One browser tab of a user: signing in and out (auth.ts), unlocking and  *)
(* locking Protected text (protected-text.ts, unlock-session.ts), the      *)
(* client epochs it registers, and what a lock does to the view that is    *)
(* open: the Meeting (core.ts, vue.ts) or another one.  MeetingWorkspace   *)
(* and the modules of the other views add what happens there.              *)
(*                                                                         *)
(* JavaScript runs a handler to its next await without interruption: an    *)
(* action is a handler, or what follows an answer.  Answers that are under *)
(* way are in "calls".  A handler is an operator from a page to a page, so *)
(* that one may call the other; Become makes its result the next state.    *)
(*                                                                         *)
(* A workspace counts generations to recognise answers that come too late. *)
(* The numbers are only compared with the present one, so each call says   *)
(* itself whether it is "current".                                         *)
(***************************************************************************)
EXTENDS Naturals, FiniteSets

CONSTANTS Edits,    \* pieces of text that are written
          Epochs,   \* client epochs, positive numbers
          Nothing,  \* no Meeting, no link, no view
          Starts    \* what an instance may begin with: whether the tab is signed
                    \* in and unlocked, and how often each thing may happen

Operations == {"login", "logout", "show", "unlock", "lock", "timeout", "remote", "poll",
               "rotate", "refuse", "lose", "visit", "leave", "retry", "edit", "save",
               "change", "complete", "fault", "drop", "others", "revoke", "rekey",
               "recovery", "refresh", "ceremony", "lapse", "mate", "lost_passphrase",
               "change_passphrase", "replace_recovery_secret", "rotate_root_key",
               "disclosed_passphrase", "disclosed_key",
               "prepare", "agenda", "drag", "manage", "minutes", "setup",
               "plan", "mentions", "resolve", "retype", "settings", "confirm"}

ASSUME PageConstants ==
    /\ Epochs \subseteq Nat \ {0} /\ Epochs # {}
    /\ \A start \in Starts : /\ DOMAIN start.left \subseteq Operations
                             /\ \A operation \in DOMAIN start.left : start.left[operation] \in Nat

VARIABLES text,     \* protected-text.ts, unlock-session.ts and the sealing sessions
          ws,       \* the Meeting workspace of the mounted view
          link,     \* the collaboration provider of the Meeting
          notices,  \* what the next workspace of the Meeting has to say
          route,    \* the view that is mounted: "elsewhere" keeps no state
          screen,   \* what a view other than the Meeting's keeps
          presence, \* recovery-session.ts: the ceremony the tab takes part in
          calls,    \* awaited answers
          server,   \* the backend, as far as the tab depends on it
          left      \* operations the instance still allows

pageVars == <<text, ws, link, notices, route, screen, presence, calls>>
vars == <<pageVars, server, left>>
-----------------------------------------------------------------------------
Page == [text |-> text, ws |-> ws, link |-> link, notices |-> notices,
         route |-> route, screen |-> screen, presence |-> presence, calls |-> calls]

Spend(operation) ==
    /\ operation \in DOMAIN left /\ left[operation] > 0
    /\ left' = [left EXCEPT ![operation] = @ - 1]

\* Nothing is shown of a Meeting whose workspace is not open.
ClosedWorkspace ==
    [phase |-> "closed", meeting |-> Nothing, closing |-> FALSE, completing |-> FALSE,
     notice |-> "none", pending |-> FALSE, writes |-> 0, collab |-> "none",
     refreshing |-> FALSE, requested |-> FALSE, aborted |-> FALSE,
     failed |-> FALSE]  \* history: the last load failed, or a later one overtook it

WithCall(p, call) == [p EXCEPT !.calls = @ \cup {call}]
WithoutCall(p, call) == [p EXCEPT !.calls = @ \ {call}]

\* A handler of a view other than the Meeting's, between two of its steps: what
\* it awaits, whether its view is still there, and what it has got so far.
Task(name, stage) ==
    [kind |-> "task", name |-> name, here |-> TRUE, derives |-> FALSE, stage |-> stage,
     got |-> Nothing]

IsTask(c, name, stage) == c.kind = "task" /\ c.name = name /\ c.stage = stage

Onward(p, c, stage, got) ==
    WithCall(WithoutCall(p, c), [c EXCEPT !.stage = stage, !.got = got])

\* Mutant: what the collaboration has not had acknowledged is forgotten.
UnsavedWrites(p) == p.ws.writes > 0

\* Changes that would be lost: a local write that is not settled, or what the
\* collaboration has not had acknowledged.
Unsaved(p) ==
    \/ p.ws.writes > 0
    \/ p.ws.collab # "none" /\ p.link # Nothing /\ p.link.unsent # {}

\* The current generation ends: who awaits an answer for it will find out.
NextGeneration(p) ==
    [p EXCEPT !.calls = {IF c.kind \in {"load", "complete"}
                         THEN [c EXCEPT !.current = FALSE] ELSE c : c \in @}]

\* The loads are aborted, the provider is stopped, its document dropped.
Dispose(p) ==
    [p EXCEPT !.ws.refreshing = FALSE, !.ws.requested = FALSE, !.ws.collab = "none",
              !.ws.aborted = TRUE, !.link = Nothing, !.calls = {c \in @ : c.kind # "load"}]

\* A load that completes a Meeting ends with its workspace.
Disposed(p) ==
    LET waiting == \E c \in p.calls : c.kind = "load" /\ c.for \in {"complete", "lostAnswer"}
    IN Dispose([NextGeneration(p) EXCEPT !.ws.completing = @ /\ ~waiting])

ForceClosed(p, reason) ==
    LET notice == IF reason = "unmount" /\ ~Unsaved(p) THEN p.ws.notice
                  ELSE IF reason = "access" THEN "access_changed"
                  ELSE IF Unsaved(p) THEN "forced_close" ELSE "security_closed"
        q == Disposed(p)
    IN IF p.ws.phase = "closed" THEN p
       ELSE [q EXCEPT !.notices = IF notice \in {"none", "integrity_failure"} THEN @
                                  ELSE notice,
                      !.ws = [ClosedWorkspace EXCEPT !.closing = TRUE, !.notice = notice,
                                                     !.completing = q.ws.completing]]

\* A view is taken away: what still waits for an answer belongs to nobody.
Unmounted(p) ==
    LET q == ForceClosed(p, "unmount")
    IN [q EXCEPT !.calls = {IF c.kind \in {"close", "change", "complete"}
                            THEN [c EXCEPT !.here = FALSE] ELSE c : c \in @}]

LoadCall(for) ==
    [kind |-> "load", for |-> for, stage |-> "asked", current |-> TRUE, got |-> Nothing]

\* A workspace starts to load.  It says what the last one left to be said.
Opened(p) ==
    WithCall([NextGeneration(p) EXCEPT
                 !.ws.phase = "opening", !.ws.meeting = Nothing, !.ws.closing = FALSE,
                 !.ws.pending = FALSE, !.ws.notice = p.notices, !.ws.failed = FALSE,
                 !.ws.aborted = FALSE,
                 !.ws.collab = IF @ = "none" THEN "none" ELSE "deaf"],
             LoadCall("open"))

Mounted(p) == Opened([p EXCEPT !.route = "meeting", !.ws = ClosedWorkspace])

\* A view that was just mounted has yet to do its first step.
Blank == [mounted |-> FALSE]

\* The ceremony is aborted: the answer is not awaited.
RecoveryAborted(p) ==
    IF p.presence = 0 THEN p
    ELSE [p EXCEPT !.presence = 0,
                   !.calls = @ \cup {[kind |-> "abort", ceremony |-> p.presence]}]

\* Mutant: the view's state outlives the view.
ScreenStays(p) ==
    [p EXCEPT !.calls = {IF c.kind = "task" THEN [c EXCEPT !.here = FALSE] ELSE c : c \in @}]

\* Handlers of the view go on, but it is not theirs any more.  That of the key
\* ceremonies stops deriving, and aborts the ceremony it takes part in.
ScreenLeft(p) ==
    LET q == [p EXCEPT !.screen = Nothing,
                       !.calls = {IF c.kind = "task" THEN [c EXCEPT !.here = FALSE] ELSE c :
                                     c \in {d \in @ : d.kind # "task" \/ ~d.derives}}]
    IN IF p.route = "recovery" /\ p.screen.mounted /\ p.screen.activeId # 0
       THEN RecoveryAborted(q) ELSE q

Left(p) ==
    [(IF p.route = "meeting" THEN Unmounted(p) ELSE ScreenLeft(p)) EXCEPT
        !.route = "elsewhere"]

Entered(p, view) ==
    IF view = "meeting" THEN Mounted(p)
    ELSE [p EXCEPT !.route = view, !.screen = Blank]

\* The router's view is keyed by the lock status: it is mounted anew whenever
\* that changes, before anything else happens in the tab.
Become(p) ==
    LET q == IF p.route # "elsewhere" /\ p.text.status # text.status
             THEN Entered(Left(p), p.route) ELSE p
    IN /\ text' = q.text
       /\ ws' = q.ws
       /\ link' = q.link
       /\ notices' = q.notices
       /\ route' = q.route
       /\ screen' = q.screen
       /\ presence' = q.presence
       /\ calls' = q.calls
-----------------------------------------------------------------------------
(* Locking *)

\* Every place that holds a key, plaintext or an epoch lets go of it.
FinishLock(p) ==
    [p EXCEPT !.link = Nothing,
              !.text.scalarEpoch = 0, !.text.documentEpoch = 0, !.text.polling = FALSE,
              !.text.status = "locked", !.text.prompt = FALSE, !.text.error = FALSE]

\* A derivation is interrupted at once; a registration that was sent is not.
AttemptAborted(p) ==
    [p EXCEPT !.calls = {IF c.kind = "register" /\ c.epoch = p.text.attempt
                         THEN [c EXCEPT !.aborted = TRUE] ELSE c :
                            c \in {d \in @ : d.kind # "derive"}}]

Revocations(epochs) == {[kind |-> "revoke", epoch |-> e] : e \in epochs}

\* A mounted view is told before anything else is done.
LifecycleClosed(p, reason) ==
    IF p.route = "meeting" THEN ForceClosed(p, reason) ELSE p

SessionLocked(p, reason) ==
    LET q == LifecycleClosed([p EXCEPT !.text.session = FALSE], reason)
    IN FinishLock([RecoveryAborted(q) EXCEPT !.text.held = {},
                            !.calls = @ \cup Revocations(p.text.held)])

\* The other tabs of the user are told as well: see RemoteLock.
PerformLock(p, reason) ==
    LET q == AttemptAborted(RecoveryAborted(p))
    IN IF q.text.session THEN SessionLocked(q, reason)
       ELSE FinishLock(LifecycleClosed(q, reason))

\* A request was refused: if it was because the session is over, the tab is locked
\* before whoever made the request hears of it.
Denied(p) == IF server.admits THEN p ELSE PerformLock(p, "authorization-loss")

\* A close that has nothing to wait for any more ends before the user does
\* something else.
UserCanAct == ~\E c \in calls : c.kind = "close" /\ (~c.here \/ ws.phase = "closed")

\* Another tab of the same user was locked.
RemoteLock ==
    /\ text.user
    /\ Spend("remote")
    /\ Become(PerformLock(Page, "remote"))
    /\ UNCHANGED server

\* 30 minutes without activity, or 12 hours.
TimeoutLock(reason) ==
    /\ text.session
    /\ Spend("timeout")
    /\ Become(SessionLocked(Page, reason))
    /\ UNCHANGED server

\* Every 30 seconds the tab asks for the key generation.
Poll ==
    /\ text.polling /\ text.session /\ presence = 0
    /\ ~\E c \in calls : c.kind = "poll"
    /\ Spend("poll")
    /\ Become(WithCall(Page, [kind |-> "poll"]))
    /\ UNCHANGED server

PollAnswered(c) ==
    /\ c.kind = "poll"
    /\ Become(LET p == WithoutCall(Page, c)
              IN IF ~server.admits \/ server.generation # text.generation
                 THEN PerformLock(p, "authorization-loss") ELSE p)
    /\ UNCHANGED <<server, left>>

RevokeAnswered(c) ==
    /\ c.kind = "revoke"
    /\ Become(Denied(WithoutCall(Page, c)))
    /\ server' = [server EXCEPT !.epochs = IF server.admits THEN @ \ {c.epoch} ELSE @]
    /\ UNCHANGED left
-----------------------------------------------------------------------------
(* Unlocking *)

ShowUnlock ==
    /\ text.user /\ text.status = "locked" /\ ~text.prompt /\ UserCanAct
    /\ text.generation # 0
    /\ Spend("show")
    /\ Become([Page EXCEPT !.text.prompt = TRUE])
    /\ UNCHANGED server

Skip ==
    /\ text.prompt /\ text.status # "unlocking"
    /\ Become([Page EXCEPT !.text.prompt = FALSE, !.text.error = FALSE])
    /\ UNCHANGED <<server, left>>

Unlock ==
    /\ text.prompt /\ text.status # "unlocking" /\ UserCanAct
    /\ Spend("unlock")
    /\ \E e \in Epochs \ text.drawn :
           /\ \A d \in Epochs \ text.drawn : e <= d
           /\ LET q == AttemptAborted(Page)
              IN Become(WithCall([q EXCEPT !.text.attempt = e, !.text.drawn = @ \cup {e},
                                           !.text.status = "unlocking",
                                           !.text.error = FALSE],
                                 [kind |-> "derive", epoch |-> e]))
    /\ UNCHANGED server

Ended(p, e) == [p EXCEPT !.text.attempt = IF @ = e THEN 0 ELSE @]

AttemptFailed(p, e, error) ==
    Ended([p EXCEPT !.text.status = "locked", !.text.error = @ \/ error], e)

\* The keys are there: an epoch is registered to seal with.
Derived(c) ==
    /\ c.kind = "derive"
    /\ Become(WithCall(WithoutCall(Page, c),
                       [kind |-> "register", epoch |-> c.epoch, aborted |-> FALSE,
                        stage |-> "sent"]))
    /\ UNCHANGED <<server, left>>

WrongPassphrase(c) ==
    /\ c.kind = "derive"
    /\ Spend("refuse")
    /\ Become(AttemptFailed(WithoutCall(Page, c), c.epoch, TRUE))
    /\ UNCHANGED server

Registered(c) ==
    /\ c.kind \in {"register", "rotate"} /\ c.stage = "sent"
    /\ \/ /\ server.admits
          /\ server' = [server EXCEPT !.epochs = @ \cup {c.epoch}]
          /\ Become(WithCall(WithoutCall(Page, c), [c EXCEPT !.stage = "accepted"]))
          /\ UNCHANGED left
       \/ /\ Spend("refuse") \/ (~server.admits /\ UNCHANGED left)
          /\ Become(WithCall(WithoutCall(Page, c), [c EXCEPT !.stage = "refused"]))
          /\ UNCHANGED server

Unlocked(p, e) ==
    Ended([p EXCEPT !.text.held = @ \cup {e}, !.text.session = TRUE,
                    !.text.scalarEpoch = e, !.text.documentEpoch = e,
                    !.text.status = "unlocked", !.text.prompt = FALSE,
                    !.text.polling = TRUE], e)

\* What an attempt does once its epoch is registered, aborted or not.
UnlockAnswered(c) ==
    /\ c.kind = "register" /\ c.stage # "sent"
    /\ Become(LET p == WithoutCall(Page, c)
              IN IF c.stage = "refused" THEN AttemptFailed(Denied(p), c.epoch, TRUE)
                 ELSE IF c.aborted THEN AttemptFailed(p, c.epoch, FALSE)
                 ELSE Unlocked(p, c.epoch))
    /\ UNCHANGED <<server, left>>

\* The provider wants a new epoch after a clock it cannot be sure of.
Rotate ==
    /\ link # Nothing /\ text.status = "unlocked" /\ text.session
    /\ Spend("rotate")
    /\ \E e \in Epochs \ text.drawn :
           /\ \A d \in Epochs \ text.drawn : e <= d
           /\ Become(WithCall([Page EXCEPT !.text.drawn = @ \cup {e}],
                              [kind |-> "rotate", epoch |-> e, stage |-> "sent"]))
    /\ UNCHANGED server

\* Mutant: nobody asks whether the tab was locked meanwhile.
RotateAnsweredLate(c) ==
    /\ c.kind = "rotate" /\ c.stage # "sent"
    /\ Become(LET p == WithoutCall(Page, c)
              IN IF c.stage = "refused" THEN Denied(p)
                 ELSE [p EXCEPT !.text.held = @ \cup {c.epoch},
                                !.text.documentEpoch = c.epoch])
    /\ UNCHANGED <<server, left>>

\* The Meeting document is sealed under the new epoch, fields under the old one.
RotateAnswered(c) ==
    /\ c.kind = "rotate" /\ c.stage # "sent"
    /\ Become(LET p == WithoutCall(Page, c)
              IN IF c.stage = "refused" THEN Denied(p)
                 ELSE IF text.status = "unlocked" /\ text.session
                 THEN [p EXCEPT !.text.held = @ \cup {c.epoch},
                                !.text.documentEpoch = c.epoch]
                 ELSE [p EXCEPT !.calls = @ \cup Revocations({c.epoch})])
    /\ UNCHANGED <<server, left>>
-----------------------------------------------------------------------------
(* Signing in and out *)

\* Whoever was there is locked out before the key state is asked for.
SignIn ==
    /\ ~text.user /\ server.admits
    /\ Spend("login")
    /\ Become(WithCall([PerformLock(Page, "identity-change") EXCEPT !.text.user = TRUE],
                       [kind |-> "keyState"]))
    /\ UNCHANGED server

KeyStateAnswered(c) ==
    /\ c.kind = "keyState"
    /\ \/ /\ server.admits
          /\ Become([WithoutCall(Page, c) EXCEPT !.text.generation = server.generation,
                                                 !.text.prompt = FALSE])
          /\ UNCHANGED left
       \/ /\ Spend("refuse") \/ (~server.admits /\ UNCHANGED left)
          /\ Become([Denied(WithoutCall(Page, c)) EXCEPT !.text.generation = 0,
                                                         !.text.prompt = FALSE])
    /\ UNCHANGED server

\* The user's views are gone with the user.
LoggedOut(p) ==
    LET q == PerformLock(p, "logout")
    IN [(IF q.route = "elsewhere" THEN q ELSE Left(q)) EXCEPT !.text.user = FALSE]

Logout ==
    /\ text.user /\ UserCanAct
    /\ Spend("logout")
    /\ Become(LoggedOut(Page))
    /\ UNCHANGED server
-----------------------------------------------------------------------------
(* What others do to the tab's rights *)

\* Its session is revoked.
SessionRevoked ==
    /\ server.admits
    /\ Spend("revoke")
    /\ server' = [server EXCEPT !.admits = FALSE]
    /\ UNCHANGED <<pageVars>>

\* A key ceremony revokes every session and every epoch.
KeysReplaced ==
    /\ server.admits
    /\ Spend("rekey")
    /\ server' = [server EXCEPT !.admits = FALSE, !.epochs = {}, !.generation = @ + 1]
    /\ UNCHANGED <<pageVars>>

LockedText ==
    [status |-> "locked", prompt |-> FALSE, error |-> FALSE, user |-> FALSE,
     manages |-> TRUE, generation |-> 0, session |-> FALSE, scalarEpoch |-> 0,
     documentEpoch |-> 0, held |-> {}, drawn |-> {}, attempt |-> 0, polling |-> FALSE]

\* A tab that was just opened, or one whose user has signed in, perhaps unlocked.
TabInit(start) ==
    /\ text = [LockedText EXCEPT
                  !.manages = start.manages, !.user = start.user,
                  !.generation = IF start.user THEN 1 ELSE 0,
                  !.session = start.unlocked, !.polling = start.unlocked,
                  !.status = IF start.unlocked THEN "unlocked" ELSE "locked",
                  !.scalarEpoch = IF start.unlocked THEN 1 ELSE 0,
                  !.documentEpoch = IF start.unlocked THEN 1 ELSE 0,
                  !.held = IF start.unlocked THEN {1} ELSE {},
                  !.drawn = IF start.unlocked THEN {1} ELSE {}]
    /\ ws = ClosedWorkspace
    /\ link = Nothing
    /\ notices = "none"
    /\ route = "elsewhere"
    /\ screen = Nothing
    /\ presence = 0
    /\ calls = {}
    /\ server = [rev |-> 0, done |-> FALSE, note |-> {}, drawn |-> {},
                 epochs |-> IF start.unlocked THEN {1} ELSE {}, generation |-> 1,
                 admits |-> TRUE]
    /\ left = start.left

ProtectedTextNext ==
    \/ RemoteLock \/ Poll \/ ShowUnlock \/ Skip \/ Unlock \/ Rotate
    \/ \E reason \in {"inactivity", "absolute"} : TimeoutLock(reason)
    \/ SignIn \/ Logout \/ SessionRevoked \/ KeysReplaced
    \/ \E c \in calls :
           \/ PollAnswered(c) \/ RevokeAnswered(c) \/ Derived(c) \/ WrongPassphrase(c)
           \/ Registered(c) \/ UnlockAnswered(c) \/ RotateAnswered(c)
           \/ KeyStateAnswered(c)
=============================================================================
