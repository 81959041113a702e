--------------------------- MODULE MeetingWorkspace ---------------------------
(***************************************************************************)
(* What one browser tab does with the Meeting it has open: the workspace   *)
(* that loads it, follows its collaboration, writes, completes and closes  *)
(* it (core.ts), the view it belongs to (vue.ts, close-prompt.ts,          *)
(* MeetingWorkspaceStatus.vue), and the adapter in between                 *)
(* (production-adapter.ts, infrastructure.ts).                             *)
(*                                                                         *)
(* The provider's own protocol is CollaborationClient; here it is what the *)
(* workspace sees of it: a link that joins, drops, has unsent edits, is    *)
(* paused, and ends.  A Meeting is the number of changes its agenda has    *)
(* had, whether it is completed, and the set of edits in its text.         *)
(***************************************************************************)
EXTENDS ProtectedText

EditablePhases == {"opening", "ready", "syncing", "temporarily_offline"}

\* What the page shows as the state of the connection.
PhaseOf(l) ==
    CASE l.state = "connecting" -> "opening"
      [] l.state = "offline" -> "temporarily_offline"
      [] l.state = "online" -> IF l.unsent # {} \/ l.paused THEN "syncing" ELSE "ready"
      [] OTHER -> "unavailable"

Live(l) == l # Nothing /\ l.state \in {"connecting", "online", "offline"}

Connecting(note) ==
    [state |-> "connecting", note |-> note, unsent |-> {}, lost |-> FALSE,
     paused |-> FALSE, told |-> FALSE]

\* The provider gives up and keeps in mind whether it had something left.
Terminated(l, state) ==
    [l EXCEPT !.state = state, !.lost = l.unsent # {}, !.unsent = {}, !.paused = FALSE,
              !.told = FALSE]

TextUnlocked(p) == p.text.status = "unlocked"

Current(c) == c.current

\* Mutant: the page is told the phase alone.
PublishedPhase(p, phase) == [p EXCEPT !.ws.phase = phase]

\* Publishing tells the page, among others, whether leaving it needs a warning.
Published(p, phase) == [p EXCEPT !.ws.phase = phase, !.ws.pending = Unsaved(p)]

Reload(p, for) == WithCall(p, LoadCall(for))

AccessLost(p) ==
    IF p.ws.phase = "closed" THEN p
    ELSE PerformLock(ForceClosed(p, "access"), "authorization-loss")

Fail(p, category) ==
    CASE category = "access" -> AccessLost(p)
      [] category = "recoverable" ->
             [Published(p, IF p.ws.meeting = Nothing THEN "unavailable"
                           ELSE "temporarily_offline") EXCEPT !.ws.failed = TRUE]
      [] category = "integrity" ->
             [Disposed(p) EXCEPT !.ws.writes = 0, !.ws.phase = "unavailable",
                                 !.ws.meeting = Nothing, !.ws.pending = FALSE,
                                 !.ws.notice = "integrity_failure"]

\* Somebody completed the Meeting: what is left is to show what was stored.
CompletedElsewhere(p, for) ==
    LET discarded == IF p.ws.collab # "none" THEN p.link.lost \/ p.link.unsent # {}
                     ELSE p.ws.writes > 0
        notice == IF discarded THEN "completed_changes_discarded" ELSE "completed_elsewhere"
    IN Reload([Disposed(p) EXCEPT !.ws.writes = 0, !.ws.closing = FALSE,
                                  !.ws.phase = "opening", !.ws.meeting = Nothing,
                                  !.ws.aborted = FALSE,
                                  !.ws.pending = FALSE, !.ws.notice = notice,
                                  !.notices = notice], for)

\* Mutant: a load that is under way is taken for an answer.
RefreshOnce(p) ==
    IF p.ws.refreshing \/ p.ws.phase = "closed" THEN p
    ELSE IF p.ws.aborted THEN Fail(p, "integrity")
    ELSE Reload([p EXCEPT !.ws.refreshing = TRUE, !.ws.requested = FALSE], "refresh")

\* Who asks while a load is under way gets one more load, not one in parallel.
\* A workspace that was given up has no loads any more.
Refresh(p) ==
    IF p.ws.refreshing \/ p.ws.phase = "closed"
    THEN [p EXCEPT !.ws.requested = TRUE]
    ELSE IF p.ws.aborted THEN Fail(p, "integrity")
    ELSE Reload([p EXCEPT !.ws.refreshing = TRUE, !.ws.requested = FALSE], "refresh")

\* The workspace's subscription to its collaboration.
OnChange(p, change) ==
    LET q == Published(p, IF p.ws.completing THEN "syncing" ELSE PhaseOf(p.link))
    IN IF p.ws.collab # "listening" THEN p
       ELSE IF p.link.state = "completed"
       THEN IF p.ws.completing THEN p ELSE CompletedElsewhere(p, "elsewhere")
       ELSE IF p.link.state = "access" THEN AccessLost(p)
       ELSE IF p.link.state = "integrity" THEN Fail(p, "integrity")
       ELSE IF change = "structure" THEN Refresh(q)
       ELSE IF change # "document" THEN q
       ELSE IF q.ws.meeting = Nothing THEN Refresh(q)
       ELSE [q EXCEPT !.ws.meeting.note = p.link.note]

\* A terminated provider also locks the tab, unless the Meeting is completed.
StatusChanged(p) ==
    LET q == OnChange(p, "state")
    IN IF p.ws.collab # "none" /\ p.link.state = "access"
       THEN PerformLock(q, "authorization-loss") ELSE q

\* The document takes over what the server has.
Merged(p) ==
    IF server.note \subseteq p.link.note THEN p
    ELSE OnChange([p EXCEPT !.link.note = @ \cup server.note], "document")
-----------------------------------------------------------------------------
(* Loading *)

\* Refreshes go on until nobody asked again; then the writes that waited for
\* them are done.
LoopEnd(p, again) ==
    IF ~p.ws.refreshing THEN p
    ELSE IF again /\ p.ws.requested /\ p.ws.phase # "closed"
    THEN Reload([p EXCEPT !.ws.requested = FALSE], "refresh")
    ELSE LET q == [p EXCEPT !.ws.refreshing = FALSE, !.ws.writes = 0]
         IN [q EXCEPT !.ws.pending = Unsaved(q)]

Shown(p, got, phase, overtaken) ==
    [Published(p, IF p.ws.completing THEN "syncing" ELSE phase) EXCEPT
        !.ws.meeting = got, !.ws.failed = overtaken]

\* A Meeting that can be edited gets a collaboration; then it is shown, unless
\* another refresh was asked for meanwhile.  The first load of a workspace is
\* shown in any case, even when a refresh has overtaken it.
Loaded(p, c) ==
    LET connects == TextUnlocked(p) /\ p.text.manages /\ ~c.got.done /\ p.ws.collab = "none"
        q == IF connects THEN [p EXCEPT !.ws.collab = "listening"] ELSE p
        shown == IF c.for = "refresh" /\ q.ws.requested THEN q
                 ELSE Shown(q, c.got, IF ~TextUnlocked(q) THEN "locked"
                                      ELSE IF q.ws.collab = "none" THEN "ready"
                                      ELSE PhaseOf(q.link),
                            c.for = "open" /\ p.ws.meeting # Nothing)
    IN IF c.got.done /\ p.ws.collab # "none"
       THEN IF p.ws.completing THEN p ELSE CompletedElsewhere(p, "elsewhere")
       ELSE IF connects /\ p.link = Nothing THEN Fail(p, "integrity")
       ELSE IF connects /\ p.link.state = "access"
       THEN AccessLost(PerformLock(q, "authorization-loss"))
       ELSE IF connects /\ p.link.state = "completed" THEN CompletedElsewhere(q, "elsewhere")
       ELSE IF connects /\ p.link.state = "integrity" THEN Fail(q, "integrity")
       ELSE shown

\* The Meeting as it was stored, after it was completed here or elsewhere.
StoredShown(p, c) ==
    IF ~c.got.done THEN Fail(p, "integrity")
    ELSE [p EXCEPT !.ws.phase = IF TextUnlocked(p) THEN "ready" ELSE "locked",
                   !.ws.meeting = c.got, !.ws.pending = FALSE,
                   !.ws.notice = IF c.for = "complete" THEN "none" ELSE @]

\* What follows the answer of a load.
Resume(p, c) ==
    LET done == [p EXCEPT !.ws.completing = @ /\ c.for \notin {"complete", "lostAnswer"}]
    IN IF ~Current(c) \/ p.ws.phase = "closed" THEN LoopEnd(p, FALSE)
       ELSE CASE c.for = "open" -> Loaded(p, c)
              [] c.for = "refresh" -> LoopEnd(Loaded(p, c), TRUE)
              [] OTHER -> StoredShown(done, c)

\* The agenda is read, then the text: from the document of the provider if
\* there is one, else from what was stored.
LoadRead(c) ==
    /\ c.kind = "load" /\ c.stage = "asked" /\ server.admits
    /\ LET p == WithoutCall(Page, c)
           live == Live(link)
           q == IF live /\ text.scalarEpoch # 0 THEN Merged(p) ELSE p
           note == IF text.scalarEpoch = 0 THEN {}
                   ELSE IF live THEN link.note \cup server.note ELSE server.note
       IN Become(IF ~Current(c) \/ q.ws.phase = p.ws.phase \/ q.ws.phase # "closed"
                 THEN WithCall(q, [c EXCEPT !.stage = "read",
                                            !.got = [rev |-> server.rev, note |-> note,
                                                     done |-> server.done,
                                                     plain |-> text.scalarEpoch # 0]])
                 ELSE q)
    /\ UNCHANGED <<server, left>>

\* The history and the Topics are decrypted as well.  Whoever may edit gets a
\* provider, unless the Meeting has one.
LoadArrives(c) ==
    /\ c.kind = "load" /\ c.stage = "read"
    /\ LET p == WithoutCall(Page, c)
           starts == text.manages /\ ~c.got.done /\ text.scalarEpoch # 0 /\ link = Nothing
       IN Become(IF starts
                 THEN WithCall([p EXCEPT !.link = Connecting(c.got.note)],
                               [c EXCEPT !.stage = "joining"])
                 ELSE Resume(p, c))
    /\ UNCHANGED <<server, left>>

\* The provider has asked for its ticket.
TicketAnswered(c) ==
    /\ c.kind = "load" /\ c.stage = "joining"
    /\ LET p == WithoutCall(Page, c)
           With(q, l) == Resume([q EXCEPT !.link = l], c)
       IN IF ~server.admits
          THEN Become(PerformLock(p, "authorization-loss")) /\ UNCHANGED left
          ELSE IF server.done /\ link # Nothing
          THEN Become(With(p, Terminated(link, "completed"))) /\ UNCHANGED left
          ELSE \/ Become(Resume(p, c)) /\ UNCHANGED left
               \/ /\ link # Nothing
                  /\ Spend("drop")
                  /\ Become(With(p, [link EXCEPT !.state = "offline"]))
    /\ UNCHANGED server

Failed(p, c, category) ==
    LET q == IF Current(c) THEN Fail(p, category) ELSE p
        done == [q EXCEPT !.ws.completing = @ /\ c.for \notin {"complete", "lostAnswer"}]
    IN IF c.for = "refresh" THEN LoopEnd(q, FALSE) ELSE done

\* The request fails, or what it returns cannot be decrypted.
LoadFails(c) ==
    /\ c.kind = "load" /\ c.stage \in {"asked", "read"}
    /\ LET p == WithoutCall(Page, c)
       IN \/ /\ Spend("fault")
             /\ \E category \in {"recoverable", "access", "integrity"} :
                    Become(Failed(p, c, category))
          \/ /\ ~server.admits /\ c.stage = "asked"
             /\ Become(Failed(PerformLock(p, "authorization-loss"),
                              [c EXCEPT !.current = FALSE], "access"))
             /\ UNCHANGED left
    /\ UNCHANGED server

\* A workspace that could not be opened can be opened again.
Retry ==
    /\ route = "meeting" /\ ws.phase = "unavailable" /\ UserCanAct
    /\ Spend("retry")
    /\ Become(Opened(Page))
    /\ UNCHANGED server

DismissNotice ==
    /\ route = "meeting" /\ ws.notice # "none" /\ UserCanAct
    /\ Become([Page EXCEPT !.notices = "none", !.ws.notice = "none"])
    /\ UNCHANGED <<server, left>>
-----------------------------------------------------------------------------
(* The collaboration *)

LinkJoins ==
    /\ link # Nothing /\ link.state \in {"connecting", "offline"}
    /\ ~server.done /\ server.admits
    /\ ~\E c \in calls : c.kind = "load" /\ c.stage = "joining"
    /\ LET p == StatusChanged(Merged([Page EXCEPT !.link.state = "online",
                                                  !.link.paused = FALSE]))
       IN Become(IF p.link = Nothing THEN p ELSE OnChange(p, "structure"))
    /\ UNCHANGED <<server, left>>

LinkDrops ==
    /\ link # Nothing /\ link.state = "online"
    /\ Spend("drop")
    /\ Become(StatusChanged([Page EXCEPT !.link.state = "offline", !.link.told = FALSE]))
    /\ UNCHANGED server

\* An edit was stored.
LinkAcknowledged ==
    /\ link # Nothing /\ link.state = "online" /\ ~server.done /\ server.admits
    /\ \E e \in link.unsent :
           /\ server' = [server EXCEPT !.note = @ \cup {e}]
           /\ Become(StatusChanged([Page EXCEPT !.link.unsent = @ \ {e}]))
    /\ UNCHANGED left

\* Edits of others arrive.
LinkReceives ==
    /\ link # Nothing /\ link.state = "online" /\ ~(server.note \subseteq link.note)
    /\ Become(Merged(Page))
    /\ UNCHANGED <<server, left>>

\* A change of the agenda is announced.
LinkTold ==
    /\ link # Nothing /\ link.state = "online" /\ link.told
    /\ Become(OnChange([Page EXCEPT !.link.told = FALSE], "structure"))
    /\ UNCHANGED <<server, left>>

\* A completion asks everybody to stop writing, and is given up.
LinkPaused ==
    /\ link # Nothing /\ link.state = "online" /\ ~server.done
    /\ IF link.paused THEN UNCHANGED left ELSE Spend("others")
    /\ Become(StatusChanged([Page EXCEPT !.link.paused = ~@]))
    /\ UNCHANGED server

\* The provider learns that the Meeting is completed, or that it may not go on.
LinkEnds ==
    /\ link # Nothing /\ link.state \in {"online", "offline"}
    /\ \/ server.done /\ Become(StatusChanged([Page EXCEPT !.link = Terminated(@, "completed")]))
       \/ /\ ~server.admits
          /\ Become(StatusChanged([Page EXCEPT !.link = Terminated(@, "access")]))
    /\ UNCHANGED <<server, left>>

LinkRejected ==
    /\ link # Nothing /\ link.state = "online"
    /\ Spend("fault")
    /\ Become(StatusChanged([Page EXCEPT !.link.state = "integrity"]))
    /\ UNCHANGED server
-----------------------------------------------------------------------------
(* Writing *)

\* Whether the page lets its user write.
Editable ==
    /\ ~ws.closing /\ ~ws.completing
    /\ ~(ws.collab # "none" /\ link.paused)
    /\ ws.phase \in EditablePhases
    /\ ws.meeting # Nothing /\ ~ws.meeting.done

Unwritten == Edits \ (server.note \cup (IF link = Nothing THEN {} ELSE link.note)
                      \cup server.drawn)

Written(p, e) ==
    LET q == [p EXCEPT !.link.note = @ \cup {e}, !.link.unsent = @ \cup {e}]
    IN OnChange(StatusChanged(q), "document")

\* An editor is bound to the provider's document.
Type(e) ==
    /\ route = "meeting" /\ Editable /\ Live(link) /\ UserCanAct
    /\ Spend("edit")
    /\ server' = [server EXCEPT !.drawn = @ \cup {e}]
    /\ Become(Written(Page, e))

\* A form writes through the workspace, which then loads the Meeting again.
UpdateText(e) ==
    /\ route = "meeting" /\ Editable /\ Live(link) /\ UserCanAct
    /\ Spend("save")
    /\ server' = [server EXCEPT !.drawn = @ \cup {e}]
    /\ Become(LET p == [Page EXCEPT !.ws.writes = @ + 1, !.ws.pending = TRUE]
              IN Refresh(Written(p, e)))

\* A change of the agenda: a request, and then a refresh.
ChangeAgenda ==
    /\ route = "meeting" /\ text.manages /\ UserCanAct
    /\ ws.meeting # Nothing /\ ~ws.meeting.done
    /\ Spend("change")
    /\ Become(WithCall(Page, [kind |-> "change", here |-> TRUE, stage |-> "asked"]))
    /\ UNCHANGED server

Announced(p) ==
    IF p.link # Nothing /\ p.link.state = "online"
    THEN [p EXCEPT !.link.told = TRUE] ELSE p

ChangeServed(c) ==
    /\ c.kind = "change" /\ c.stage = "asked"
    /\ LET p == WithoutCall(Page, c)
           Answer(stage) == WithCall(p, [c EXCEPT !.stage = stage])
       IN IF server.admits /\ ~server.done
          THEN /\ server' = [server EXCEPT !.rev = @ + 1]
               /\ \/ Become(Announced(Answer("done"))) /\ UNCHANGED left
                  \/ Spend("lose") /\ Become(Announced(Answer("failed")))
          ELSE Become(Answer("failed")) /\ UNCHANGED <<server, left>>

ChangeAnswered(c) ==
    /\ c.kind = "change" /\ c.stage # "asked"
    /\ LET p == WithoutCall(Page, c)
       IN Become(IF c.stage = "done" /\ c.here THEN Refresh(p)
                 ELSE IF ~server.admits THEN PerformLock(p, "authorization-loss") ELSE p)
    /\ UNCHANGED <<server, left>>
-----------------------------------------------------------------------------
(* Completing *)

Complete ==
    /\ route = "meeting" /\ text.manages /\ UserCanAct
    /\ ~ws.completing /\ ws.meeting # Nothing /\ ~ws.meeting.done
    /\ ws.phase # "locked"
    /\ Spend("complete")
    /\ Become(WithCall([Page EXCEPT !.ws.completing = TRUE, !.ws.phase = "syncing"],
                       [kind |-> "complete", here |-> TRUE, current |-> TRUE,
                        prev |-> ws.phase, stage |-> "asked"]))
    /\ UNCHANGED server

\* The tab must be connected, and everybody drained: see CollaborationClient.  A
\* locked tab asks for nothing.
CompleteServed(c) ==
    /\ c.kind = "complete" /\ c.stage = "asked"
    /\ LET p == WithoutCall(Page, c)
           Answer(stage) == WithCall(p, [c EXCEPT !.stage = stage])
           accepted == /\ server.admits /\ ~server.done /\ text.scalarEpoch # 0
                       /\ link # Nothing /\ link.state = "online" /\ link.unsent = {}
       IN \/ /\ accepted
             /\ server' = [server EXCEPT !.done = TRUE, !.rev = @ + 1]
             /\ \/ Become(Answer("done")) /\ UNCHANGED left
                \/ Spend("lose") /\ Become(Answer("failed"))
          \/ /\ ~accepted
             /\ Become(Answer(IF server.admits \/ text.scalarEpoch = 0 THEN "failed"
                              ELSE "refused"))
             /\ UNCHANGED <<server, left>>

\* A workspace that is gone has nothing to do with the one that took its place.
CompleteAnswered(c) ==
    /\ c.kind = "complete" /\ c.stage # "asked"
    /\ LET p == IF c.stage = "refused" THEN Denied(WithoutCall(Page, c))
                ELSE WithoutCall(Page, c)
           idle == [p EXCEPT !.ws.completing = FALSE]
           kept == [p EXCEPT !.ws.meeting.done = TRUE, !.ws.collab = "none",
                             !.link = Nothing]
       IN Become(IF ~c.here THEN p
                 ELSE IF ~Current(c) \/ c.stage = "refused" THEN idle
                 ELSE IF c.stage = "done" THEN Reload(kept, "complete")
                 ELSE IF ws.collab # "none" /\ link.state = "completed"
                 THEN CompletedElsewhere(p, "lostAnswer")
                 ELSE Published(idle, IF ws.collab = "none" THEN c.prev
                                      ELSE PhaseOf(link)))
    /\ UNCHANGED <<server, left>>
-----------------------------------------------------------------------------
(* Closing *)

Closed(p) ==
    [Disposed(p) EXCEPT !.ws = [ClosedWorkspace EXCEPT
                                   !.closing = p.ws.closing,
                                   !.completing = Disposed(p).ws.completing]]

\* Whoever waited for the workspace to close goes on.
CloseSettled(p, purposes) ==
    LET away == IF "leave" \in purposes
                THEN Left(p) ELSE p
    IN IF "lock" \in purposes THEN PerformLock(away, "explicit") ELSE away

\* A second reason to close joins the first.
CloseStarted(p, purpose) ==
    LET waiting == {c \in p.calls : c.kind = "close" /\ c.here}
        q == [p EXCEPT !.ws.closing = TRUE, !.ws.pending = Unsaved(p)]
    IN IF waiting # {}
       THEN [p EXCEPT !.calls = {IF c \in waiting
                                 THEN [c EXCEPT !.for = @ \cup {purpose}] ELSE c : c \in @}]
       ELSE IF p.ws.phase = "closed" THEN CloseSettled(p, {purpose})
       ELSE IF ~Unsaved(p) THEN CloseSettled(Closed(q), {purpose})
       ELSE WithCall(q, [kind |-> "close", for |-> {purpose}, here |-> TRUE,
                         asked |-> FALSE])

\* Every 25 ms for a second and a half; then the user is asked.
CloseWaits(c) ==
    /\ c.kind = "close"
    /\ LET p == WithoutCall(Page, c)
       IN Become(IF ~c.here \/ ws.phase = "closed" THEN CloseSettled(p, c.for)
                 ELSE IF ~c.asked /\ ~Unsaved(p) THEN CloseSettled(Closed(p), c.for)
                 ELSE WithCall(p, [c EXCEPT !.asked = TRUE]))
    /\ UNCHANGED <<server, left>>

PromptAnswered(c, discard) ==
    /\ c.kind = "close" /\ c.here /\ c.asked /\ ws.phase # "closed"
    /\ LET p == WithoutCall(Page, c)
       IN Become(IF discard
                 THEN CloseSettled(Closed([p EXCEPT !.ws.closing = TRUE]), c.for)
                 ELSE [p EXCEPT !.ws.closing = FALSE])
    /\ UNCHANGED <<server, left>>

Leave ==
    /\ route = "meeting" /\ UserCanAct
    /\ Spend("leave")
    /\ Become(CloseStarted(Page, "leave"))
    /\ UNCHANGED server

Visit ==
    /\ route = "elsewhere" /\ text.user /\ UserCanAct
    /\ Spend("visit")
    /\ Become(Mounted(Page))
    /\ UNCHANGED server

\* Only an explicit lock lets the user save first.
ExplicitLock ==
    /\ text.user /\ text.status = "unlocked" /\ UserCanAct
    /\ Spend("lock")
    /\ Become(IF route = "meeting" THEN CloseStarted(Page, "lock")
              ELSE PerformLock(Page, "explicit"))
    /\ UNCHANGED server
-----------------------------------------------------------------------------
(* The other users *)

OthersEdit(e) ==
    /\ ~server.done
    /\ Spend("others")
    /\ server' = [server EXCEPT !.note = @ \cup {e}, !.drawn = @ \cup {e}]
    /\ UNCHANGED pageVars

OthersChange ==
    /\ ~server.done
    /\ Spend("others")
    /\ server' = [server EXCEPT !.rev = @ + 1]
    /\ Become(Announced(Page))

\* Whoever is connected was drained.
OthersComplete ==
    /\ ~server.done
    /\ link # Nothing /\ link.state = "online" => link.paused /\ link.unsent = {}
    /\ Spend("others")
    /\ server' = [server EXCEPT !.done = TRUE, !.rev = @ + 1]
    /\ UNCHANGED pageVars

WorkspaceNext ==
    \/ Retry \/ DismissNotice
    \/ LinkJoins \/ LinkDrops \/ LinkAcknowledged \/ LinkReceives \/ LinkTold
    \/ LinkPaused \/ LinkEnds \/ LinkRejected
    \/ \E e \in Unwritten : Type(e) \/ UpdateText(e) \/ OthersEdit(e)
    \/ ChangeAgenda \/ Complete \/ Leave \/ Visit \/ ExplicitLock
    \/ OthersChange \/ OthersComplete
    \/ \E c \in calls :
           \/ LoadRead(c) \/ LoadArrives(c) \/ TicketAnswered(c) \/ LoadFails(c)
           \/ ChangeServed(c) \/ ChangeAnswered(c)
           \/ CompleteServed(c) \/ CompleteAnswered(c) \/ CloseWaits(c)
           \/ \E discard \in BOOLEAN : PromptAnswered(c, discard)

-----------------------------------------------------------------------------
(* Properties *)

Phases == EditablePhases \cup {"locked", "unavailable", "closed"}
Notices == {"none", "forced_close", "security_closed", "access_changed",
            "completed_elsewhere", "completed_changes_discarded"}

MeetingRecord == [rev : Nat, done : BOOLEAN, plain : BOOLEAN, note : SUBSET Edits]

\* The values the page may hold.
PageTypeOK ==
    /\ text.status \in {"locked", "unlocking", "unlocked"}
    /\ {text.scalarEpoch, text.documentEpoch, text.attempt} \subseteq Epochs \cup {0}
    /\ text.held \subseteq text.drawn /\ text.drawn \subseteq Epochs
    /\ ws.phase \in Phases
    /\ ws.meeting = Nothing \/ ws.meeting \in MeetingRecord
    /\ ws.notice \in Notices \cup {"integrity_failure"} /\ notices \in Notices
    /\ ws.writes \in Nat
    /\ ws.collab \in {"none", "listening", "deaf"}
    /\ link = Nothing \/ link.unsent \subseteq link.note
    /\ server.epochs \subseteq Epochs

\* Once a tab has no keys any more, no provider of it runs, nothing in it could
\* seal, and the Meeting it shows is one it loaded without them, however late
\* an answer, an attempt or a new epoch arrives.
LockedHoldsNothing ==
    ~text.session =>
        /\ link = Nothing
        /\ text.scalarEpoch = 0 /\ text.documentEpoch = 0
        /\ text.held = {} /\ ~text.polling
        /\ text.status # "unlocked"
        /\ ws.meeting # Nothing => ~ws.meeting.plain

\* While the keys are those of the installation, what is sealed is sealed under
\* an epoch that the server knows and that the next lock will revoke.
SealsUnderLiveEpoch ==
    server.generation = text.generation =>
        {text.scalarEpoch, text.documentEpoch} \ {0} \subseteq text.held \cap server.epochs

\* Edits that nobody has stored are not dropped in silence: whoever wrote them
\* has chosen to discard them, or is told.
Told == notices' # "none" \/ ws'.notice # "none"
Discarded == \E c \in calls \ calls' : c.kind = "close" /\ c.asked
Dropped(e) == e \notin server'.note /\ (link' = Nothing \/ (e \notin link'.unsent /\ ~link'.lost))

NoSilentLoss ==
    [][link # Nothing =>
          \A e \in link.unsent : Dropped(e) => Told \/ Discarded]_vars

\* Leaving the page asks first while an edit has not been stored, and while a save
\* is not settled, whatever drops, fails, is loaded again or completed meanwhile.
\* Not in one case: a completion that succeeds publishes that nothing is pending
\* while an earlier save of this tab still awaits its refresh; the text of that
\* save is then part of the completed Meeting which the page shows.
ShownCompleted == ws.meeting # Nothing /\ ws.meeting.done

UnsavedIsGuarded ==
    /\ ws.collab # "none" /\ link # Nothing /\ link.unsent # {} => ws.pending
    /\ ws.writes > 0 => ws.pending \/ ShownCompleted

\* A connected page at rest shows the agenda as the server has it.  Two cases are
\* exempt, until the next load: a load that failed, which takes with it the
\* refresh that was asked for meanwhile; and, after a retry, the first load, which
\* is shown in place of what a refresh has loaded since.
Resting ==
    /\ route = "meeting" /\ ws.phase = "ready" /\ ws.collab = "listening"
    /\ link.state = "online" /\ ~link.told
    /\ ~\E c \in calls : c.kind \in {"load", "change", "complete"}

QuietMeansCurrent ==
    Resting /\ ~server.done /\ ~ws.failed => ws.meeting.rev = server.rev

\* A locked tab goes on showing the agenda.
LockedStaysReadable ==
    (/\ route = "meeting" /\ text.user /\ text.status = "locked" /\ server.admits
     /\ calls = {}) => ws.phase # "closed"

\* A lock takes back every epoch that was registered for the tab.
LockedLeavesNoEpoch ==
    calls = {} /\ ~text.session /\ server.generation = text.generation
        => server.epochs = {}

\* Whoever completes a Meeting is not told that somebody else did.
CompletingIsNotElsewhere ==
    [][ws.completing /\ ws.meeting # Nothing /\ ws.meeting.done
          => ws'.notice # "completed_elsewhere"]_vars

\* A connected page at rest shows the text of its document.
ShownTextIsCurrent ==
    Resting => ws.meeting.note = link.note
=============================================================================
