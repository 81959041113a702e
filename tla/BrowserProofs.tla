--------------------------- MODULE BrowserProofs ---------------------------
(***************************************************************************)
(* A browser tab never holds more than it may, and its page for the key    *)
(* ceremonies does what KeyVault says of a ceremony, whatever else happens *)
(* in the tab: for any number of secrets, keys, epochs and ceremonies.     *)
(* The steps of its text, its workspace and that page are in TabProofs.    *)
(***************************************************************************)
EXTENDS Browser, TabProofs
-----------------------------------------------------------------------------
(* The other views: their handlers carry no epoch, and show no ceremony *)

LEMMA MappedIsSound ==
    ASSUME NEW p, NEW q, Sound(p), DOMAIN q = PageFields, q.text = p.text,
           q.route = p.route, q.screen = p.screen, q.ws = p.ws, q.link = p.link,
           \A c \in q.calls : c \in p.calls \/ Plain(c)
    PROVE  Sound(q)
<1>1. Aside(p, q)
  BY SoundIsWhole, ToldAside DEF Plain
<1>2. Workspace(q, p.text.session)
  BY WorkspaceStays DEF Sound, Plain
<1> QED
  BY <1>1, <1>2, AsideIsSound

\* A view that is not the page for key ceremonies shows what it likes.
LEMMA OtherScreenIsSound ==
    ASSUME NEW p, Sound(p), p.route # "recovery", NEW s
    PROVE  Sound([p EXCEPT !.screen = s])
<1> DEFINE q == [p EXCEPT !.screen = s]
<1>1. /\ DOMAIN q = PageFields /\ q.text = p.text /\ q.route = p.route /\ q.calls = p.calls
      /\ q.ws = p.ws /\ q.link = p.link
  BY TextOfSound DEF PageFields
<1> HIDE DEF q
<1>2. Sound(q)
  BY <1>1, ScreenIsSound
<1> QED
  BY <1>2 DEF q

LEMMA OtherTasks ==
    ASSUME NEW name, name \notin KeyNames, NEW stage
    PROVE  /\ Plain(Task(name, stage))
           /\ \A got : Plain([Task(name, stage) EXCEPT !.got = got])
  BY DEF Plain, Bare, Task, TaskFields

LEMMA OtherTaskIsSound ==
    ASSUME NEW p, Sound(p), NEW name, name \notin KeyNames, NEW stage
    PROVE  /\ Sound(WithCall(p, Task(name, stage)))
           /\ \A got : Sound(WithCall(p, [Task(name, stage) EXCEPT !.got = got]))
  BY OtherTasks, WithPlainIsSound

LEMMA OtherOnwardIsSound ==
    ASSUME NEW p, Sound(p), NEW c, DOMAIN c = TaskFields, c.kind = "task",
           c.name \notin KeyNames, NEW stage, NEW got
    PROVE  Sound(Onward(p, c, stage, got))
<1>1. KeyTask([c EXCEPT !.stage = stage, !.got = got])
  BY DEF KeyTask, KeyNames, TaskFields
<1> QED
  BY <1>1, OnwardIsSound

LEMMA ChangeToldIsSound ==
    ASSUME NEW p, Sound(p)
    PROVE  Sound(ChangeTold(p))
  BY ScreenFieldIsSound DEF ChangeTold, KeptFields

LEMMA AgendaRefreshIsSound ==
    ASSUME NEW p, Sound(p)
    PROVE  Sound(AgendaRefresh(p))
<1> DEFINE a == [p EXCEPT !.screen.refreshing = TRUE]
           b == [a EXCEPT !.screen.requested = FALSE]
<1>1. Sound(a)
  BY ScreenFieldIsSound DEF KeptFields
<1>2. [p EXCEPT !.screen.refreshing = TRUE, !.screen.requested = FALSE] = b
  OBVIOUS
<1> HIDE DEF a
<1>3. Sound(b)
  BY <1>1, ScreenFieldIsSound DEF KeptFields
<1> HIDE DEF b
<1>4. Sound(WithCall(b, Task("load", "asked")))
  BY <1>3, OtherTaskIsSound DEF KeyNames
<1>5. Sound([p EXCEPT !.screen.requested = TRUE])
  BY ScreenFieldIsSound DEF KeptFields
<1> QED
  BY <1>2, <1>4, <1>5 DEF AgendaRefresh

LEMMA RowsReplacedIsSound ==
    ASSUME NEW p, Sound(p)
    PROVE  Sound(RowsReplaced(p))
<1> DEFINE a == [p EXCEPT !.screen.minutes = p.screen.shown.minutes]
           New(c) == IF c.kind = "task" /\ c.name = "minutes"
                     THEN [c EXCEPT !.got.row = FALSE] ELSE c
           q == [a EXCEPT !.calls = {New(c) : c \in @}]
<1>1. Sound(a)
  BY ScreenFieldIsSound DEF KeptFields
<1>2. RowsReplaced(p) = q
  BY DEF RowsReplaced
<1> HIDE DEF a
<1>3. \A c \in a.calls : New(c) = c \/ Plain(New(c))
  BY <1>1, SoundIsWhole DEF Whole, Plain, Bare, TaskFields, KeyNames
<1> HIDE DEF New
<1>4. /\ DOMAIN q = PageFields /\ q.text = a.text /\ q.route = a.route /\ q.screen = a.screen
      /\ q.ws = a.ws /\ q.link = a.link
      /\ q.calls = {New(c) : c \in a.calls}
  BY <1>1, TextOfSound DEF PageFields
<1> HIDE DEF q
<1> QED
  BY <1>1, <1>2, <1>3, <1>4, MappedIsSound

\* No handler of the page for key ceremonies waits for a load of the agenda.
LEMMA AwokenIsSound ==
    ASSUME NEW p, Sound(p), NEW here, NEW ok
    PROVE  Sound(Awoken(p, here, ok))
<1> DEFINE New(c) == IF c.kind = "task" /\ c.stage = "refreshing" /\ c.here = here
                     THEN [c EXCEPT !.stage = "settled", !.got.ok = ok] ELSE c
           q == [p EXCEPT !.calls = {New(c) : c \in @}]
<1>1. ASSUME NEW c \in p.calls, c.kind = "task", c.stage = "refreshing"
      PROVE  c.name \notin KeyNames /\ DOMAIN c = TaskFields
  <2>1. KeyTask(c) /\ DOMAIN c = TaskFields
    BY <1>1 DEF Sound, Call
  <2> QED
    BY <1>1, <2>1 DEF KeyTask, KeyNames, RefreshTask, PrepareTask, ApproveTask, StartTask,
                      ActivateTask
<1>2. \A c \in p.calls : New(c) = c \/ Plain(New(c))
  BY <1>1 DEF Plain, Bare, TaskFields
<1> HIDE DEF New
<1>3. /\ DOMAIN q = PageFields /\ q.text = p.text /\ q.route = p.route /\ q.screen = p.screen
      /\ q.ws = p.ws /\ q.link = p.link
      /\ q.calls = {New(c) : c \in p.calls}
  BY TextOfSound DEF PageFields
<1> HIDE DEF q
<1>4. Sound(q)
  BY <1>2, <1>3, MappedIsSound
<1> QED
  BY <1>4 DEF Awoken, q, New

LEMMA CardWatchedIsSound ==
    ASSUME NEW p, Sound(p), NEW was, NEW card
    PROVE  Sound(CardWatched(p, was, card))
<1>1. PICK text1, choice1 :
        CardWatched(p, was, card) = [p EXCEPT !.screen.card.text = text1,
                                              !.screen.card.choice = choice1]
  BY DEF CardWatched
<1> DEFINE a == [p EXCEPT !.screen.card = [p.screen.card EXCEPT !.text = text1]]
           q == [a EXCEPT !.screen.card = [a.screen.card EXCEPT !.choice = choice1]]
<1>2. Sound(a)
  BY ScreenFieldIsSound DEF KeptFields
<1>3. a = [p EXCEPT !.screen.card.text = text1]
  OBVIOUS
<1>4. [p EXCEPT !.screen.card.text = text1, !.screen.card.choice = choice1]
      = [a EXCEPT !.screen.card.choice = choice1]
  BY <1>3
<1> HIDE DEF a
<1>5. [a EXCEPT !.screen.card.choice = choice1] = q
  OBVIOUS
<1>6. Sound(q)
  BY <1>2, ScreenFieldIsSound DEF KeptFields
<1> QED
  BY <1>1, <1>4, <1>5, <1>6

LEMMA AgendaPublishedIsSound ==
    ASSUME NEW p, Sound(p), NEW agenda
    PROVE  Sound(AgendaPublished(p, agenda))
<1> DEFINE a == [p EXCEPT !.screen.shown = agenda]
           q == [a EXCEPT !.screen.stale = FALSE]
<1>1. Sound(a)
  BY ScreenFieldIsSound DEF KeptFields
<1>2. [p EXCEPT !.screen.shown = agenda, !.screen.stale = FALSE] = q
  OBVIOUS
<1> HIDE DEF a
<1>3. Sound(q)
  BY <1>1, ScreenFieldIsSound DEF KeptFields
<1> HIDE DEF q
<1>4. Sound([q EXCEPT !.screen.drag = Nothing])
  BY <1>3, ScreenFieldIsSound DEF KeptFields
<1>5. /\ Sound(RowsReplaced([q EXCEPT !.screen.drag = Nothing]))
      /\ Sound(CardWatched(q, p.screen.shown.card, agenda.card))
  BY <1>3, <1>4, RowsReplacedIsSound, CardWatchedIsSound
<1> QED
  BY <1>2, <1>3, <1>5 DEF AgendaPublished

LEMMA LoopOverIsSound ==
    ASSUME NEW p, Sound(p), NEW ok
    PROVE  Sound(LoopOver(p, ok))
<1>1. Sound([p EXCEPT !.screen.refreshing = FALSE])
  BY ScreenFieldIsSound DEF KeptFields
<1> QED
  BY <1>1, AwokenIsSound DEF LoopOver

LEMMA AgendaViewMountedIsSound ==
    ASSUME NEW p, Sound(p), p.route # "recovery", NEW view
    PROVE  Sound(AgendaViewMounted(p, view))
<1> DEFINE a == [p EXCEPT !.screen = view]
           b == WithCall(a, Task("open", "asked"))
<1>1. Sound(a)
  BY OtherScreenIsSound
<1>2. AgendaViewMounted(p, view) = WithCall(b, Task("lists", "asked"))
  BY TextOfSound DEF AgendaViewMounted, WithCall, PageFields
<1> HIDE DEF a
<1>3. Sound(b)
  BY <1>1, OtherTaskIsSound DEF KeyNames
<1> HIDE DEF b
<1> QED
  BY <1>2, <1>3, OtherTaskIsSound DEF KeyNames


\* What an agenda's handler is, and the page without it.
LEMMA OtherHandler ==
    ASSUME TabInv, NEW c \in calls, c.kind = "task"
    PROVE  /\ DOMAIN c = TaskFields /\ Sound(Page) /\ Backend /\ Sound(WithoutCall(Page, c))
           /\ c.name \notin KeyNames => \A stage, got : Sound(Onward(Page, c, stage, got))
  BY KeyTaskOf, WithoutCallIsSound, OtherOnwardIsSound DEF TabInv

LEMMA AgendaServedKeeps ==
    ASSUME TabInv, UNCHANGED recoveryVars, NEW c \in calls, AgendaServed(c)
    PROVE  TabInv'
<1>1. c.kind = "task" /\ c.name \notin KeyNames /\ UNCHANGED server
  BY DEF AgendaServed, IsTask, KeyNames
<1>2. /\ Sound(PerformLock(Awoken(WithoutCall(Page, c), c.here, FALSE), "authorization-loss"))
      /\ Sound(Onward(Page, c, "read", planned))
  BY <1>1, OtherHandler, AwokenIsSound, PerformLockIsSound
<1> QED
  BY <1>1, <1>2, CalmStep DEF AgendaServed, TabInv

LEMMA AgendaShownKeeps ==
    ASSUME TabInv, UNCHANGED recoveryVars, NEW c \in calls, AgendaShown(c)
    PROVE  TabInv'
<1> DEFINE p == WithoutCall(Page, c)
           a == [p EXCEPT !.screen.requested = FALSE]
<1>1. c.kind = "task" /\ UNCHANGED server
  BY DEF AgendaShown, IsTask
<1>2. Sound(p)
  BY <1>1, OtherHandler
<1>3. /\ Become(Awoken(p, FALSE, TRUE)) \/ Become(ChangeTold(AgendaPublished(p, c.got)))
         \/ Become(WithCall(a, Task("load", "asked")))
         \/ Become(LoopOver(AgendaPublished(p, c.got), TRUE))
  BY DEF AgendaShown
<1> HIDE DEF p
<1>4. Sound(a)
  BY <1>2, ScreenFieldIsSound DEF KeptFields
<1> HIDE DEF a
<1>5. /\ Sound(Awoken(p, FALSE, TRUE)) /\ Sound(ChangeTold(AgendaPublished(p, c.got)))
      /\ Sound(WithCall(a, Task("load", "asked")))
      /\ Sound(LoopOver(AgendaPublished(p, c.got), TRUE))
  BY <1>2, <1>4, AwokenIsSound, AgendaPublishedIsSound, ChangeToldIsSound, LoopOverIsSound,
     OtherTaskIsSound DEF KeyNames
<1> QED
  BY <1>1, <1>3, <1>5, CalmStep DEF TabInv

LEMMA AgendaFailsKeeps ==
    ASSUME TabInv, UNCHANGED recoveryVars, NEW c \in calls, AgendaFails(c)
    PROVE  TabInv'
<1> DEFINE p == WithoutCall(Page, c)
           a == [p EXCEPT !.screen.stale = TRUE]
<1>1. c.kind = "task" /\ UNCHANGED server
  BY DEF AgendaFails, IsTask
<1>2. Sound(p)
  BY <1>1, OtherHandler
<1>3. Become(Awoken(p, FALSE, TRUE)) \/ Become(a) \/ Become(LoopOver(a, FALSE))
  BY DEF AgendaFails
<1> HIDE DEF p
<1>4. Sound(a)
  BY <1>2, ScreenFieldIsSound DEF KeptFields
<1> HIDE DEF a
<1>5. Sound(Awoken(p, FALSE, TRUE)) /\ Sound(LoopOver(a, FALSE))
  BY <1>2, <1>4, AwokenIsSound, LoopOverIsSound
<1> QED
  BY <1>1, <1>3, <1>4, <1>5, CalmStep DEF TabInv

LEMMA AgendaToldKeeps ==
    ASSUME TabInv, UNCHANGED recoveryVars, AgendaTold
    PROVE  TabInv'
<1>1. Sound([Page EXCEPT !.screen.told = FALSE])
  BY ScreenFieldIsSound DEF TabInv, KeptFields
<1> QED
  BY <1>1, AgendaRefreshIsSound, CalmStep DEF AgendaTold, TabInv

LEMMA OnOtherView ==
    ASSUME TabInv, route # "recovery"
    PROVE  \A view : Sound(AgendaViewMounted(Page, view))
  BY PageText, AgendaViewMountedIsSound DEF TabInv

LEMMA AgendaRetryKeeps ==
    ASSUME TabInv, UNCHANGED recoveryVars, AgendaRetry
    PROVE  TabInv'
<1>1. route # "recovery" /\ UNCHANGED server
  BY DEF AgendaRetry, OnAgendaView, AgendaViews
<1>2. PICK view : Become(AgendaViewMounted(Page, view))
  BY DEF AgendaRetry
<1> QED
  BY <1>1, <1>2, OnOtherView, CalmStep DEF TabInv

LEMMA OperationServedKeeps ==
    ASSUME TabInv, UNCHANGED recoveryVars, NEW c \in calls, OperationServed(c)
    PROVE  TabInv'
<1>1. c.kind = "task" /\ c.name \notin KeyNames /\ UNCHANGED server
  BY DEF OperationServed, KeyNames
<1>2. \E stage : \/ Become(Onward(Page, c, stage, c.got))
                 \/ Become(ChangeTold(Onward(Page, c, stage, c.got)))
  BY DEF OperationServed
<1> QED
  BY <1>1, <1>2, OtherHandler, ChangeToldIsSound, CalmStep

LEMMA OperationAnsweredKeeps ==
    ASSUME TabInv, UNCHANGED recoveryVars, NEW c \in calls, OperationAnswered(c)
    PROVE  TabInv'
<1> DEFINE p == WithoutCall(Page, c)
<1>1. c.kind = "task" /\ c.name \notin KeyNames /\ UNCHANGED server
  BY DEF OperationAnswered, KeyNames
<1>2. Sound(p) /\ DOMAIN c = TaskFields
  BY <1>1, OtherHandler
<1>3. PICK stage, got : \/ Become(PerformLock(Onward(p, c, stage, got), "authorization-loss"))
                        \/ Become(AgendaRefresh(Onward(p, c, stage, got)))
                        \/ Become(Onward(p, c, stage, got))
  BY DEF OperationAnswered
<1> HIDE DEF p
<1>4. Sound(Onward(p, c, stage, got))
  BY <1>1, <1>2, OtherOnwardIsSound
<1> QED
  BY <1>1, <1>3, <1>4, PerformLockIsSound, AgendaRefreshIsSound, CalmStep DEF TabInv

LEMMA OthersPlanKeeps ==
    ASSUME TabInv, UNCHANGED recoveryVars, OthersPlan
    PROVE  TabInv'
  BY ChangeToldIsSound, CalmStep DEF OthersPlan, TabInv

LEMMA PlannedAgendaKeeps ==
    ASSUME TabInv, UNCHANGED recoveryVars, PlannedAgendaNext
    PROVE  TabInv'
  BY AgendaToldKeeps, AgendaRetryKeeps, OthersPlanKeeps, AgendaServedKeeps, AgendaShownKeeps,
     AgendaFailsKeeps, OperationServedKeeps, OperationAnsweredKeeps DEF PlannedAgendaNext


LEMMA TwoFieldsAreSound ==
    ASSUME NEW p, Sound(p), NEW f, f \notin KeptFields, NEW v, NEW g, g \notin KeptFields, NEW w
    PROVE  Sound([p EXCEPT !.screen[f] = v, !.screen[g] = w])
<1> DEFINE a == [p EXCEPT !.screen[f] = v]
           q == [a EXCEPT !.screen[g] = w]
<1>1. Sound(a)
  BY ScreenFieldIsSound
<1>2. [p EXCEPT !.screen[f] = v, !.screen[g] = w] = q
  OBVIOUS
<1> HIDE DEF a
<1>3. Sound(q)
  BY <1>1, ScreenFieldIsSound
<1> QED
  BY <1>2, <1>3

LEMMA VisitAgendaKeeps ==
    ASSUME TabInv, UNCHANGED recoveryVars, VisitAgenda
    PROVE  TabInv'
  BY PageText, EnteredIsSound, CalmStep DEF VisitAgenda, TabInv

LEMMA LeaveAgendaKeeps ==
    ASSUME TabInv, UNCHANGED recoveryVars, LeaveAgenda
    PROVE  TabInv'
  BY LeftIsSound, CalmStep DEF LeaveAgenda, TabInv

LEMMA AgendaMountedKeeps ==
    ASSUME TabInv, UNCHANGED recoveryVars, AgendaMounted
    PROVE  TabInv'
<1> DEFINE p == AgendaViewMounted(Page, NewAgendaPage)
<1>1. route # "recovery" /\ UNCHANGED server
  BY DEF AgendaMounted
<1>2. Sound(p)
  BY <1>1, OnOtherView
<1>3. Become(p) \/ Become(WithCall(p, Task("edit", "asked")))
  BY DEF AgendaMounted
<1> HIDE DEF p
<1> QED
  BY <1>1, <1>2, <1>3, OtherTaskIsSound, CalmStep DEF TabInv, KeyNames

LEMMA SectionsArriveKeeps ==
    ASSUME TabInv, UNCHANGED recoveryVars, NEW c \in calls, SectionsArrive(c)
    PROVE  TabInv'
<1> DEFINE p == WithoutCall(Page, c)
           card == NewCard(p.screen.shown.card)
           a == [p EXCEPT !.screen.error = TRUE]
           b == [p EXCEPT !.screen.resolved = TRUE, !.screen.card = card]
<1>1. c.kind = "task" /\ UNCHANGED server
  BY DEF SectionsArrive, IsTask
<1>2. Sound(p)
  BY <1>1, OtherHandler
<1>3. Become(Denied(a)) \/ Become(Denied(b))
  BY DEF SectionsArrive
<1> HIDE DEF p, card
<1>4. Sound(a) /\ Sound(b)
  BY <1>2, ScreenFieldIsSound, TwoFieldsAreSound DEF KeptFields
<1> QED
  BY <1>1, <1>3, <1>4, DeniedIsSound, CalmStep DEF TabInv

LEMMA EditOpenedIsSound ==
    ASSUME NEW p, Sound(p)
    PROVE  Sound(EditOpened(p))
  BY TwoFieldsAreSound DEF EditOpened, KeptFields

LEMMA EditFirstKeeps ==
    ASSUME TabInv, UNCHANGED recoveryVars, NEW c \in calls, EditFirst(c)
    PROVE  TabInv'
<1>1. c.kind = "task" /\ UNCHANGED server
  BY DEF EditFirst, IsTask
<1>2. Become(EditOpened(WithoutCall(Page, c))) \/ Become(WithoutCall(Page, c))
  BY DEF EditFirst
<1> QED
  BY <1>1, <1>2, OtherHandler, EditOpenedIsSound, CalmStep

LEMMA AskedIsSound ==
    ASSUME NEW p, Sound(p), NEW op
    PROVE  Sound(Asked(p, op)) /\ \A for : Sound(WithCall(p, Operation(op, for)))
  BY OtherTaskIsSound DEF Asked, Operation, KeyNames

LEMMA MoveKeeps ==
    ASSUME TabInv, UNCHANGED recoveryVars, NEW t, Move(t)
    PROVE  TabInv'
<1>1. UNCHANGED server /\ \E op : Become(Asked(Page, op))
  BY DEF Move
<1> QED
  BY <1>1, AskedIsSound, CalmStep DEF TabInv

LEMMA SetTopicStatusKeeps ==
    ASSUME TabInv, UNCHANGED recoveryVars, NEW t, NEW decision, SetTopicStatus(t, decision)
    PROVE  TabInv'
<1>1. UNCHANGED server /\ \E op : Become(Asked([Page EXCEPT !.screen.error = FALSE], op))
  BY DEF SetTopicStatus
<1>2. Sound([Page EXCEPT !.screen.error = FALSE])
  BY ScreenFieldIsSound DEF TabInv, KeptFields
<1> QED
  BY <1>1, <1>2, AskedIsSound, CalmStep DEF TabInv

LEMMA ParticipantsKeep ==
    ASSUME TabInv, UNCHANGED recoveryVars, RemoveParticipant \/ AddParticipant \/ SaveMeeting
    PROVE  TabInv'
<1>1. UNCHANGED server /\ \E op : Become(Asked(Page, op))
  BY DEF RemoveParticipant, AddParticipant, SaveMeeting
<1> QED
  BY <1>1, AskedIsSound, CalmStep DEF TabInv

LEMMA AgendaDialogsKeep ==
    ASSUME TabInv, UNCHANGED recoveryVars,
           CloseAgendaDialog \/ \E dialog : OpenAgendaDialog(dialog)
    PROVE  TabInv'
<1>1. /\ UNCHANGED server
      /\ \/ Become(EditOpened(Page))
         \/ \E dialog : Become([Page EXCEPT !.screen.dialog = dialog])
  BY DEF CloseAgendaDialog, OpenAgendaDialog
<1>2. \A dialog : Sound([Page EXCEPT !.screen.dialog = dialog])
  BY ScreenFieldIsSound DEF TabInv, KeptFields
<1> QED
  BY <1>1, <1>2, EditOpenedIsSound, CalmStep DEF TabInv

LEMMA FinishMeetingKeeps ==
    ASSUME TabInv, UNCHANGED recoveryVars, FinishMeeting
    PROVE  TabInv'
<1> DEFINE p == [Page EXCEPT !.screen.finishing = TRUE, !.screen.finishError = FALSE]
<1>1. UNCHANGED server /\ \E op : Become(Asked(p, op))
  BY DEF FinishMeeting
<1>2. Sound(p)
  BY TwoFieldsAreSound DEF TabInv, KeptFields
<1> HIDE DEF p
<1> QED
  BY <1>1, <1>2, AskedIsSound, CalmStep DEF TabInv

LEMMA RequestEndsIsSound ==
    ASSUME NEW p, Sound(p), NEW op, NEW ok
    PROVE  Sound(RequestEnds(p, op, ok))
<1> DEFINE closes == CASE op.op = "details" -> "edit" [] op.op = "complete" -> "finish"
                       [] op.op = "attend" /\ op.attends -> "attend" [] OTHER -> "none"
           q == [p EXCEPT !.screen.dialog = IF ok /\ @ = closes THEN "none" ELSE @]
<1>1. Sound(q)
  BY ScreenFieldIsSound DEF KeptFields
<1> DEFINE a == [q EXCEPT !.screen.finishing = FALSE, !.screen.finishError = ~ok]
           b == [q EXCEPT !.screen.error = q.screen.error \/ ~ok]
<1>2. RequestEnds(p, op, ok) \in {a, b, q}
  <2>1. CASE op.op = "complete"
    BY <2>1 DEF RequestEnds
  <2>2. CASE op.op = "decide"
    BY <2>2 DEF RequestEnds
  <2>3. CASE op.op \notin {"complete", "decide"}
    BY <2>3 DEF RequestEnds
  <2> QED
    BY <2>1, <2>2, <2>3
<1> HIDE DEF q
<1>3. Sound(a) /\ Sound(b)
  BY <1>1, ScreenFieldIsSound, TwoFieldsAreSound DEF KeptFields
<1> QED
  BY <1>1, <1>2, <1>3

LEMMA RequestSettledKeeps ==
    ASSUME TabInv, UNCHANGED recoveryVars, NEW c \in calls, RequestSettled(c)
    PROVE  TabInv'
<1>1. c.kind = "task" /\ UNCHANGED server
  BY DEF RequestSettled, IsTask
<1>2. \/ Become(RequestEnds(WithoutCall(Page, c), c.got.op, c.got.ok))
      \/ Become(WithoutCall(Page, c))
  BY DEF RequestSettled
<1> QED
  BY <1>1, <1>2, OtherHandler, RequestEndsIsSound, CalmStep

LEMMA AgendaPageKeeps ==
    ASSUME TabInv, UNCHANGED recoveryVars, AgendaPageNext
    PROVE  TabInv'
  BY VisitAgendaKeeps, LeaveAgendaKeeps, AgendaMountedKeeps, SectionsArriveKeeps, EditFirstKeeps,
     MoveKeeps, SetTopicStatusKeeps, ParticipantsKeep, AgendaDialogsKeep, FinishMeetingKeeps,
     RequestSettledKeeps DEF AgendaPageNext


LEMMA VisitPreparationKeeps ==
    ASSUME TabInv, UNCHANGED recoveryVars, VisitPreparation
    PROVE  TabInv'
  BY PageText, EnteredIsSound, CalmStep DEF VisitPreparation, TabInv

LEMMA LeavePreparationKeeps ==
    ASSUME TabInv, UNCHANGED recoveryVars, LeavePreparation
    PROVE  TabInv'
  BY LeftIsSound, CalmStep DEF LeavePreparation, TabInv

LEMMA PreparationMountedKeeps ==
    ASSUME TabInv, UNCHANGED recoveryVars, PreparationMounted
    PROVE  TabInv'
<1>1. route # "recovery" /\ UNCHANGED server
  BY DEF PreparationMounted
<1> QED
  BY <1>1, OnOtherView, CalmStep DEF PreparationMounted, TabInv

LEMMA ListsArriveKeeps ==
    ASSUME TabInv, UNCHANGED recoveryVars, NEW c \in calls, ListsArrive(c)
    PROVE  TabInv'
<1> DEFINE p == WithoutCall(Page, c)
           due == SuggestedDue
           a == [p EXCEPT !.screen.error = TRUE]
           b == [p EXCEPT !.screen.resolved = TRUE, !.screen.due = due]
<1>1. c.kind = "task" /\ UNCHANGED server
  BY DEF ListsArrive, IsTask
<1>2. Sound(p)
  BY <1>1, OtherHandler
<1>3. Become(Denied(p)) \/ Become(Denied(a)) \/ Become(Denied(RowsReplaced(b)))
  BY DEF ListsArrive
<1> HIDE DEF p, due
<1>4. Sound(a) /\ Sound(b)
  BY <1>2, ScreenFieldIsSound, TwoFieldsAreSound DEF KeptFields
<1> HIDE DEF a, b
<1> QED
  BY <1>1, <1>2, <1>3, <1>4, RowsReplacedIsSound, DeniedIsSound, CalmStep DEF TabInv

LEMMA ToggleFutureTopicsKeeps ==
    ASSUME TabInv, UNCHANGED recoveryVars, ToggleFutureTopics
    PROVE  TabInv'
<1> DEFINE a == [Page EXCEPT !.screen.showFuture = FALSE, !.screen.future = {}]
           b == [Page EXCEPT !.screen.error = FALSE]
<1>1. UNCHANGED server /\ (Become(a) \/ Become(WithCall(b, Task("future", "asked"))))
  BY DEF ToggleFutureTopics
<1>2. Sound(a) /\ Sound(b)
  BY ScreenFieldIsSound, TwoFieldsAreSound DEF TabInv, KeptFields
<1> HIDE DEF a, b
<1> QED
  BY <1>1, <1>2, OtherTaskIsSound, CalmStep DEF TabInv, KeyNames

LEMMA FutureTopicsArriveKeeps ==
    ASSUME TabInv, UNCHANGED recoveryVars, NEW c \in calls, FutureTopicsArrive(c)
    PROVE  TabInv'
<1> DEFINE p == WithoutCall(Page, c)
           later == SuggestedLater
           a == [p EXCEPT !.screen.error = TRUE]
           b == [p EXCEPT !.screen.future = later, !.screen.showFuture = TRUE]
<1>1. c.kind = "task" /\ UNCHANGED server
  BY DEF FutureTopicsArrive, IsTask
<1>2. Sound(p)
  BY <1>1, OtherHandler
<1>3. Become(Denied(p)) \/ Become(Denied(a)) \/ Become(Denied(b))
  BY DEF FutureTopicsArrive
<1> HIDE DEF p, later
<1>4. Sound(a) /\ Sound(b)
  BY <1>2, ScreenFieldIsSound, TwoFieldsAreSound DEF KeptFields
<1> HIDE DEF a, b
<1> QED
  BY <1>1, <1>2, <1>3, <1>4, DeniedIsSound, CalmStep DEF TabInv

LEMMA WithOperationIsSound ==
    ASSUME NEW p, Sound(p), NEW op, NEW for
    PROVE  Sound(WithOperation(p, op, for))
<1> DEFINE a == [p EXCEPT !.screen.pending = TRUE, !.screen.error = FALSE]
           b == [a EXCEPT !.screen.drag = Nothing]
<1>1. Sound(a)
  BY TwoFieldsAreSound DEF KeptFields
<1>2. [p EXCEPT !.screen.pending = TRUE, !.screen.error = FALSE, !.screen.drag = Nothing] = b
  OBVIOUS
<1> HIDE DEF a
<1>3. Sound(b)
  BY <1>1, ScreenFieldIsSound DEF KeptFields
<1> HIDE DEF b
<1> QED
  BY <1>2, <1>3, AskedIsSound DEF WithOperation

LEMMA OperationSettledKeeps ==
    ASSUME TabInv, UNCHANGED recoveryVars, NEW c \in calls, OperationSettled(c)
    PROVE  TabInv'
<1> DEFINE p == WithoutCall(Page, c)
           a == [p EXCEPT !.screen.starting = FALSE, !.screen.error = TRUE]
<1>1. c.kind = "task" /\ UNCHANGED server
  BY DEF OperationSettled, IsTask
<1>2. Sound(p)
  BY <1>1, OtherHandler
<1>3. \/ Become(p) \/ Become(Entered(Left(p), "agenda")) \/ Become(a)
      \/ \E error, got : Become(WithCall([p EXCEPT !.screen.error = error],
                                         [Task("suggest", "asked") EXCEPT !.got = got]))
  BY DEF OperationSettled
<1> HIDE DEF p
<1>4. Sound(a) /\ Sound(Entered(Left(p), "agenda"))
  BY <1>2, TwoFieldsAreSound, LeftIsSound, EnteredIsSound DEF KeptFields
<1>5. \A error : Sound([p EXCEPT !.screen.error = error])
  BY <1>2, ScreenFieldIsSound DEF KeptFields
<1>6. \A error, got : Sound(WithCall([p EXCEPT !.screen.error = error],
                                     [Task("suggest", "asked") EXCEPT !.got = got]))
  BY <1>5, OtherTaskIsSound DEF KeyNames
<1> HIDE DEF a
<1> QED
  BY <1>1, <1>2, <1>3, <1>4, <1>6, CalmStep DEF TabInv

LEMMA OperationOverKeeps ==
    ASSUME TabInv, UNCHANGED recoveryVars, NEW c \in calls, OperationOver(c)
    PROVE  TabInv'
<1> DEFINE p == WithoutCall(Page, c)
<1>1. c.kind = "task" /\ UNCHANGED server
  BY DEF OperationOver, IsTask
<1>2. Sound(p)
  BY <1>1, OtherHandler
<1>3. \/ Become(Denied(p))
      \/ \E due, selected, dialog :
             Become(Denied([RowsReplaced([p EXCEPT !.screen.pending = FALSE, !.screen.due = due])
                               EXCEPT !.screen.selected = selected, !.screen.dialog = dialog]))
  BY DEF OperationOver
<1> HIDE DEF p
<1>4. ASSUME NEW due, NEW selected, NEW dialog
      PROVE  Sound([RowsReplaced([p EXCEPT !.screen.pending = FALSE, !.screen.due = due])
                        EXCEPT !.screen.selected = selected, !.screen.dialog = dialog])
  <2> DEFINE a == [p EXCEPT !.screen.pending = FALSE, !.screen.due = due]
             b == RowsReplaced(a)
  <2>1. Sound(a)
    BY <1>2, TwoFieldsAreSound DEF KeptFields
  <2> HIDE DEF a
  <2>2. Sound(b)
    BY <2>1, RowsReplacedIsSound
  <2> HIDE DEF b
  <2>3. Sound([b EXCEPT !.screen.selected = selected, !.screen.dialog = dialog])
    BY <2>2, TwoFieldsAreSound DEF KeptFields
  <2> QED
    BY <2>3 DEF a, b
<1> QED
  BY <1>1, <1>2, <1>3, <1>4, DeniedIsSound, CalmStep DEF TabInv

LEMMA OneOperationKeeps ==
    ASSUME TabInv, UNCHANGED recoveryVars, AddSelected \/ \E t : RemoveTopic(t)
    PROVE  TabInv'
<1>1. UNCHANGED server /\ \E op, for : Become(WithOperation(Page, op, for))
  BY DEF AddSelected, RemoveTopic
<1> QED
  BY <1>1, WithOperationIsSound, CalmStep DEF TabInv

LEMMA DragKeeps ==
    ASSUME TabInv, UNCHANGED recoveryVars,
           \/ CancelDrag \/ ReleaseDrag \/ \E t : ToggleSelected(t)
           \/ \E kind, t : StartDrag(kind, t)
    PROVE  TabInv'
<1>1. \A drag, selected : Sound([Page EXCEPT !.screen.drag = drag])
                          /\ Sound([Page EXCEPT !.screen.selected = selected])
  BY ScreenFieldIsSound DEF TabInv, KeptFields
<1>2. CASE ReleaseDrag
  <2> DEFINE p == [Page EXCEPT !.screen.drag = Nothing]
  <2>1. UNCHANGED server /\ Become(LetGo(p, screen.drag))
    BY <1>2 DEF ReleaseDrag
  <2>2. Sound(p)
    BY <1>1
  <2> HIDE DEF p
  <2>3. Sound(LetGo(p, screen.drag))
    BY <2>2, WithOperationIsSound DEF LetGo
  <2> QED
    BY <2>1, <2>3, CalmStep DEF TabInv
<1>3. CASE CancelDrag
  BY <1>1, <1>3, CalmStep DEF CancelDrag, TabInv
<1>4. ASSUME NEW t, ToggleSelected(t) PROVE TabInv'
  <2>1. UNCHANGED server /\ \E selected : Become([Page EXCEPT !.screen.selected = selected])
    BY <1>4 DEF ToggleSelected
  <2> QED
    BY <1>1, <2>1, CalmStep DEF TabInv
<1>5. ASSUME NEW kind, NEW t, StartDrag(kind, t) PROVE TabInv'
  BY <1>1, <1>5, CalmStep DEF StartDrag, TabInv
<1> QED
  BY <1>2, <1>3, <1>4, <1>5

LEMMA MoveDragKeeps ==
    ASSUME TabInv, UNCHANGED recoveryVars, NEW target, MoveDrag(target)
    PROVE  TabInv'
<1> DEFINE drag == [screen.drag EXCEPT !.target = target]
<1>1. Page.screen = screen
  BY PageText DEF TabInv
<1>2. [Page EXCEPT !.screen.drag.target = target] = [Page EXCEPT !.screen.drag = drag]
  BY <1>1
<1> HIDE DEF drag
<1>3. Sound([Page EXCEPT !.screen.drag = drag])
  BY ScreenFieldIsSound DEF TabInv, KeptFields
<1> QED
  BY <1>2, <1>3, CalmStep DEF MoveDrag, TabInv


LEMMA SaveDurationKeeps ==
    ASSUME TabInv, UNCHANGED recoveryVars, NEW t, NEW minutes, SaveDuration(t, minutes)
    PROVE  TabInv'
<1> DEFINE rows == [screen.minutes EXCEPT ![t] = minutes]
           p == [Page EXCEPT !.screen.minutes = rows, !.screen.error = FALSE]
<1>1. Page.screen = screen
  BY PageText DEF TabInv
<1>2. [Page EXCEPT !.screen.minutes[t] = minutes, !.screen.error = FALSE] = p
  BY <1>1
<1>3. UNCHANGED server
      /\ \E stage, got :
             Become(WithCall([Page EXCEPT !.screen.minutes[t] = minutes, !.screen.error = FALSE],
                             [Task("minutes", stage) EXCEPT !.got = got]))
  BY DEF SaveDuration
<1> HIDE DEF rows
<1>4. Sound(p)
  BY TwoFieldsAreSound DEF TabInv, KeptFields
<1> HIDE DEF p
<1> QED
  BY <1>2, <1>3, <1>4, OtherTaskIsSound, CalmStep DEF TabInv, KeyNames

LEMMA NextInLineIsSound ==
    ASSUME NEW p, Sound(p), NEW t
    PROVE  Sound(NextInLine(p, t))
<1> DEFINE New(c) == IF c.kind = "task" /\ c.name = "minutes" /\ c.got.op.topic = t
                     THEN [c EXCEPT !.got.turn = @ - 1,
                                    !.stage = IF c.got.turn = 1 THEN "asked" ELSE @] ELSE c
           q == [p EXCEPT !.calls = {New(c) : c \in @}]
<1>1. NextInLine(p, t) = q
  BY DEF NextInLine
<1>2. \A c \in p.calls : New(c) = c \/ Plain(New(c))
  BY SoundIsWhole DEF Whole, Plain, Bare, TaskFields, KeyNames
<1> HIDE DEF New
<1>3. /\ DOMAIN q = PageFields /\ q.text = p.text /\ q.route = p.route /\ q.screen = p.screen
      /\ q.ws = p.ws /\ q.link = p.link
      /\ q.calls = {New(c) : c \in p.calls}
  BY TextOfSound DEF PageFields
<1> HIDE DEF q
<1> QED
  BY <1>1, <1>2, <1>3, MappedIsSound

LEMMA DurationSettledKeeps ==
    ASSUME TabInv, UNCHANGED recoveryVars, NEW c \in calls, DurationSettled(c)
    PROVE  TabInv'
<1> DEFINE p == NextInLine(WithoutCall(Page, c), c.got.op.topic)
           t == c.got.op.topic
<1>1. c.kind = "task" /\ UNCHANGED server
  BY DEF DurationSettled, IsTask
<1>2. Sound(p)
  BY <1>1, OtherHandler, NextInLineIsSound
<1>3. \/ Become(p)
      \/ \E v : Become([p EXCEPT !.screen.error = TRUE, !.screen.minutes[t] = v])
  BY DEF DurationSettled
<1> HIDE DEF p, t
<1>4. ASSUME NEW v
      PROVE  Sound([p EXCEPT !.screen.error = TRUE, !.screen.minutes[t] = v])
  <2> DEFINE a == [p EXCEPT !.screen.error = TRUE]
             rows == [a.screen.minutes EXCEPT ![t] = v]
  <2>1. Sound(a)
    BY <1>2, ScreenFieldIsSound DEF KeptFields
  <2>2. [p EXCEPT !.screen.error = TRUE, !.screen.minutes[t] = v]
        = [a EXCEPT !.screen.minutes[t] = v]
    OBVIOUS
  <2> HIDE DEF a
  <2>3. [a EXCEPT !.screen.minutes[t] = v] = [a EXCEPT !.screen.minutes = rows]
    OBVIOUS
  <2> HIDE DEF rows
  <2>4. Sound([a EXCEPT !.screen.minutes = rows])
    BY <2>1, ScreenFieldIsSound DEF KeptFields
  <2> QED
    BY <2>2, <2>3, <2>4
<1> QED
  BY <1>1, <1>2, <1>3, <1>4, CalmStep DEF TabInv

LEMMA PreparationDialogsKeep ==
    ASSUME TabInv, UNCHANGED recoveryVars, CloseDialog \/ \E dialog : OpenDialog(dialog)
    PROVE  TabInv'
<1>1. /\ UNCHANGED server
      /\ \/ Become([Page EXCEPT !.screen.dialog = "none"])
         \/ \E v, w : Become([Page EXCEPT !.screen.dialog = v, !.screen.status = w])
  BY DEF CloseDialog, OpenDialog
<1>2. /\ Sound([Page EXCEPT !.screen.dialog = "none"])
      /\ \A v, w : Sound([Page EXCEPT !.screen.dialog = v, !.screen.status = w])
  BY ScreenFieldIsSound, TwoFieldsAreSound DEF TabInv, KeptFields
<1> QED
  BY <1>1, <1>2, CalmStep DEF TabInv

LEMMA SaveDetailsKeeps ==
    ASSUME TabInv, UNCHANGED recoveryVars, NEW status, SaveDetails(status)
    PROVE  TabInv'
<1>1. /\ UNCHANGED server
      /\ \/ Become([Page EXCEPT !.screen.dialog = "none"])
         \/ \E op, for : Become(WithOperation(Page, op, for))
  BY DEF SaveDetails
<1>2. Sound([Page EXCEPT !.screen.dialog = "none"])
  BY ScreenFieldIsSound DEF TabInv, KeptFields
<1> QED
  BY <1>1, <1>2, WithOperationIsSound, CalmStep DEF TabInv

LEMMA StartMeetingKeeps ==
    ASSUME TabInv, UNCHANGED recoveryVars, StartMeeting
    PROVE  TabInv'
<1> DEFINE p == [Page EXCEPT !.screen.starting = TRUE]
<1>1. UNCHANGED server /\ \E op, for : Become(WithCall(p, Operation(op, for)))
  BY DEF StartMeeting
<1>2. Sound(p)
  BY ScreenFieldIsSound DEF TabInv, KeptFields
<1> HIDE DEF p
<1> QED
  BY <1>1, <1>2, AskedIsSound, CalmStep DEF TabInv

LEMMA CreateAndAddKeeps ==
    ASSUME TabInv, UNCHANGED recoveryVars, CreateAndAdd
    PROVE  TabInv'
<1> DEFINE p == [Page EXCEPT !.screen.pending = TRUE, !.screen.error = FALSE]
<1>1. UNCHANGED server /\ Become(WithCall(p, Task("create", "asked")))
  BY DEF CreateAndAdd
<1>2. Sound(p)
  BY TwoFieldsAreSound DEF TabInv, KeptFields
<1> HIDE DEF p
<1> QED
  BY <1>1, <1>2, OtherTaskIsSound, CalmStep DEF TabInv, KeyNames

LEMMA CreateServedKeeps ==
    ASSUME TabInv, UNCHANGED recoveryVars, NEW c \in calls, CreateServed(c) \/ CreateRefused(c)
    PROVE  TabInv'
<1>1. /\ c.kind = "task" /\ c.name \notin KeyNames /\ UNCHANGED server
      /\ \E got : Become(Onward(Page, c, "done", got))
  BY DEF CreateServed, CreateRefused, IsTask, KeyNames
<1> QED
  BY <1>1, OtherHandler, CalmStep

LEMMA CreateAnsweredKeeps ==
    ASSUME TabInv, UNCHANGED recoveryVars, NEW c \in calls, CreateAnswered(c)
    PROVE  TabInv'
<1> DEFINE p == WithoutCall(Page, c)
<1>1. c.kind = "task" /\ UNCHANGED server
  BY DEF CreateAnswered, IsTask
<1>2. Sound(p)
  BY <1>1, OtherHandler
<1>3. \/ Become(p)
      \/ \E op, here : Become(WithCall(p, [Operation(op, "create") EXCEPT !.here = here]))
      \/ \E error, got : Become(WithCall([p EXCEPT !.screen.error = error],
                                         [Task("suggest", "asked") EXCEPT !.got = got]))
  BY DEF CreateAnswered
<1> HIDE DEF p
<1>4. \A op, here : Plain([Operation(op, "create") EXCEPT !.here = here])
  BY DEF Plain, Bare, Operation, Task, TaskFields, KeyNames
<1>5. \A op, here : Sound(WithCall(p, [Operation(op, "create") EXCEPT !.here = here]))
  BY <1>2, <1>4, WithPlainIsSound
<1>6. \A error : Sound([p EXCEPT !.screen.error = error])
  BY <1>2, ScreenFieldIsSound DEF KeptFields
<1>7. \A error, got : Sound(WithCall([p EXCEPT !.screen.error = error],
                                     [Task("suggest", "asked") EXCEPT !.got = got]))
  BY <1>6, OtherTaskIsSound DEF KeyNames
<1> QED
  BY <1>1, <1>2, <1>3, <1>5, <1>7, CalmStep DEF TabInv

LEMMA PreparationKeeps ==
    ASSUME TabInv, UNCHANGED recoveryVars, PreparationNext
    PROVE  TabInv'
  BY VisitPreparationKeeps, LeavePreparationKeeps, PreparationMountedKeeps, ListsArriveKeeps,
     ToggleFutureTopicsKeeps, FutureTopicsArriveKeeps, OperationSettledKeeps, OperationOverKeeps,
     OneOperationKeeps, DragKeeps, MoveDragKeeps, SaveDurationKeeps, DurationSettledKeeps,
     PreparationDialogsKeep, SaveDetailsKeeps, StartMeetingKeeps, CreateAndAddKeeps,
     CreateServedKeeps, CreateAnsweredKeeps DEF PreparationNext
-----------------------------------------------------------------------------
(* The fields of MembershipCard *)

\* Whatever becomes of the Topic's fields, it is in the screen's "card".
LEMMA CardFieldIsSound ==
    ASSUME NEW p, Sound(p), NEW f, NEW v
    PROVE  Sound([p EXCEPT !.screen.card[f] = v])
<1> DEFINE card == [p.screen.card EXCEPT ![f] = v]
<1>1. [p EXCEPT !.screen.card[f] = v] = [p EXCEPT !.screen.card = card]
  OBVIOUS
<1> HIDE DEF card
<1> QED
  BY <1>1, ScreenFieldIsSound DEF KeptFields

LEMMA CardPartIsSound ==
    ASSUME NEW p, Sound(p), NEW f, NEW g, NEW v
    PROVE  Sound([p EXCEPT !.screen.card[f][g] = v])
<1> DEFINE field == [p.screen.card[f] EXCEPT ![g] = v]
<1>1. [p EXCEPT !.screen.card[f][g] = v] = [p EXCEPT !.screen.card[f] = field]
  OBVIOUS
<1> HIDE DEF field
<1> QED
  BY <1>1, CardFieldIsSound


LEMMA TwoPartsAreSound ==
    ASSUME NEW p, Sound(p), NEW f, NEW g, NEW v, NEW h, NEW i, NEW w
    PROVE  Sound([p EXCEPT !.screen.card[f][g] = v, !.screen.card[h][i] = w])
<1> DEFINE a == [p EXCEPT !.screen.card[f][g] = v]
<1>1. Sound(a)
  BY CardPartIsSound
<1>2. [p EXCEPT !.screen.card[f][g] = v, !.screen.card[h][i] = w]
      = [a EXCEPT !.screen.card[h][i] = w]
  OBVIOUS
<1> HIDE DEF a
<1> QED
  BY <1>1, <1>2, CardPartIsSound

LEMMA TextDrainedIsSound ==
    ASSUME NEW p, Sound(p)
    PROVE  Sound(TextDrained(p))
<1>1. PICK text1, sent :
        \/ TextDrained(p) = p
        \/ TextDrained(p) = [p EXCEPT !.screen.card.text.queued = Nothing]
        \/ TextDrained(p) = WithCall([p EXCEPT !.screen.card.text = text1],
                                     Operation(sent, "text"))
  BY DEF TextDrained
<1> DEFINE a == [p EXCEPT !.screen.card.text.queued = Nothing]
           b == [p EXCEPT !.screen.card.text = text1]
<1>2. Sound(a) /\ Sound(b)
  BY CardFieldIsSound, CardPartIsSound
<1>3. TextDrained(p) \in {p, a, WithCall(b, Operation(sent, "text"))}
  BY <1>1
<1> HIDE DEF a, b
<1>4. Sound(WithCall(b, Operation(sent, "text")))
  BY <1>2, AskedIsSound
<1> QED
  BY <1>2, <1>3, <1>4

LEMMA TextSavedIsSound ==
    ASSUME NEW p, Sound(p)
    PROVE  Sound(TextSaved(p))
<1>1. PICK v : v = p.screen.card.text.local
  OBVIOUS
<1>2. Sound([p EXCEPT !.screen.card.text.typed = FALSE, !.screen.card.text.queued = v])
  BY TwoPartsAreSound
<1> QED
  BY <1>1, <1>2, TextDrainedIsSound DEF TextSaved

LEMMA TypeTextKeeps ==
    ASSUME TabInv, UNCHANGED recoveryVars, TypeText
    PROVE  TabInv'
<1>1. UNCHANGED server /\ \E v : Become([Page EXCEPT !.screen.card.text = v])
  BY DEF TypeText
<1>2. \A v : Sound([Page EXCEPT !.screen.card.text = v])
  BY CardFieldIsSound DEF TabInv
<1> QED
  BY <1>1, <1>2, CalmStep DEF TabInv

LEMMA TextSavedKeeps ==
    ASSUME TabInv, UNCHANGED recoveryVars, TextTimer \/ BlurText
    PROVE  TabInv'
  BY TextSavedIsSound, CalmStep DEF TextTimer, BlurText, TabInv

LEMMA RetryTextKeeps ==
    ASSUME TabInv, UNCHANGED recoveryVars, RetryText
    PROVE  TabInv'
<1>1. PICK v : v = screen.shown.card.revision
  OBVIOUS
<1>2. UNCHANGED server
      /\ Become(TextSaved([Page EXCEPT !.screen.card.text.revision = v,
                                       !.screen.card.text.retried = TRUE]))
  BY <1>1 DEF RetryText
<1>3. Sound([Page EXCEPT !.screen.card.text.revision = v, !.screen.card.text.retried = TRUE])
  BY TwoPartsAreSound DEF TabInv
<1> QED
  BY <1>2, <1>3, TextSavedIsSound, CalmStep DEF TabInv

LEMMA TextAnsweredIsSound ==
    ASSUME NEW p, Sound(p), NEW op, NEW ok
    PROVE  Sound(TextAnswered(p, op, ok))
<1>1. PICK v : \/ TextAnswered(p, op, ok) = TextDrained([p EXCEPT !.screen.card.text = v])
               \/ TextAnswered(p, op, ok) = [p EXCEPT !.screen.card.text = v]
  BY DEF TextAnswered
<1>2. Sound([p EXCEPT !.screen.card.text = v])
  BY CardFieldIsSound
<1> QED
  BY <1>1, <1>2, TextDrainedIsSound

LEMMA ChoiceSentIsSound ==
    ASSUME NEW p, Sound(p)
    PROVE  Sound(ChoiceSent(p))
<1>1. PICK v, op : ChoiceSent(p) = WithCall([p EXCEPT !.screen.card.choice = v],
                                            Operation(op, "choice"))
  BY DEF ChoiceSent
<1>2. Sound([p EXCEPT !.screen.card.choice = v])
  BY CardFieldIsSound
<1> QED
  BY <1>1, <1>2, AskedIsSound

LEMMA ChooseKeeps ==
    ASSUME TabInv, UNCHANGED recoveryVars, NEW x, Choose(x)
    PROVE  TabInv'
<1> DEFINE p == [Page EXCEPT !.screen.card.choice.value = x, !.screen.card.choice.queued = x]
<1>1. UNCHANGED server /\ Become(ChoiceDrained(p))
  BY DEF Choose
<1>2. Sound(p)
  BY TwoPartsAreSound DEF TabInv
<1> HIDE DEF p
<1>3. Sound([p EXCEPT !.screen.card.choice.moved = FALSE])
  BY <1>2, CardPartIsSound
<1>4. Sound(ChoiceDrained(p))
  BY <1>2, <1>3, ChoiceSentIsSound DEF ChoiceDrained
<1> QED
  BY <1>1, <1>4, CalmStep DEF TabInv

LEMMA ChoiceAnsweredIsSound ==
    ASSUME NEW p, Sound(p), NEW ok
    PROVE  Sound(ChoiceAnswered(p, ok))
<1>1. PICK v : \/ ChoiceAnswered(p, ok) = ChoiceSent(p)
               \/ ChoiceAnswered(p, ok) = [p EXCEPT !.screen.card.choice = v]
  BY DEF ChoiceAnswered
<1>2. Sound([p EXCEPT !.screen.card.choice = v])
  BY CardFieldIsSound
<1> QED
  BY <1>1, <1>2, ChoiceSentIsSound

LEMMA FieldSettledKeeps ==
    ASSUME TabInv, UNCHANGED recoveryVars, NEW c \in calls, FieldSettled(c)
    PROVE  TabInv'
<1> DEFINE p == WithoutCall(Page, c)
<1>1. c.kind = "task" /\ UNCHANGED server
  BY DEF FieldSettled, IsTask
<1>2. Sound(p)
  BY <1>1, OtherHandler
<1>3. Become(p) \/ Become(TextAnswered(p, c.got.op, c.got.ok)) \/ Become(ChoiceAnswered(p, c.got.ok))
  BY DEF FieldSettled
<1> HIDE DEF p
<1> QED
  BY <1>1, <1>2, <1>3, TextAnsweredIsSound, ChoiceAnsweredIsSound, CalmStep DEF TabInv

LEMMA MembershipCardKeeps ==
    ASSUME TabInv, UNCHANGED recoveryVars, MembershipCardNext
    PROVE  TabInv'
<1>1. ASSUME OthersRetype PROVE TabInv'
  BY <1>1, ChangeToldIsSound, CalmStep DEF OthersRetype, TabInv
<1> QED
  BY <1>1, FieldSettledKeeps, TypeTextKeeps, TextSavedKeeps, RetryTextKeeps, ChooseKeeps
     DEF MembershipCardNext
-----------------------------------------------------------------------------
(* The page of MentionsPage *)

LEMMA NoDialogIsSound ==
    ASSUME NEW p, Sound(p)
    PROVE  Sound(NoDialog(p))
  BY TwoFieldsAreSound DEF NoDialog, KeptFields

LEMMA LoadMentionsIsSound ==
    ASSUME NEW p, Sound(p), NEW after
    PROVE  Sound(LoadMentions(p, after))
<1> DEFINE q == [p EXCEPT !.screen.loading = TRUE, !.screen.error = FALSE]
<1>1. Sound(q)
  BY TwoFieldsAreSound DEF KeptFields
<1>2. PICK got : LoadMentions(p, after)
                 = WithCall(q, [Task("mentions", "asked") EXCEPT !.got = got])
  BY DEF LoadMentions
<1> HIDE DEF q
<1>3. Sound(WithCall(q, [Task("mentions", "asked") EXCEPT !.got = got]))
  BY <1>1, OtherTaskIsSound DEF KeyNames
<1> QED
  BY <1>2, <1>3

LEMMA MentionsMountedKeeps ==
    ASSUME TabInv, UNCHANGED recoveryVars, MentionsMounted
    PROVE  TabInv'
<1>1. PICK s : Become([Page EXCEPT !.screen = s])
               \/ Become(LoadMentions([Page EXCEPT !.screen = s], Nothing))
  BY DEF MentionsMounted
<1>2. Page.route # "recovery" /\ UNCHANGED server
  BY PageText DEF MentionsMounted, TabInv
<1>3. Sound([Page EXCEPT !.screen = s])
  BY <1>2, OtherScreenIsSound DEF TabInv
<1> QED
  BY <1>1, <1>2, <1>3, LoadMentionsIsSound, CalmStep DEF TabInv

LEMMA DeniesIsSound ==
    ASSUME NEW p, Sound(p), NEW c
    PROVE  Sound(Denies(p, c))
  BY PerformLockIsSound DEF Denies

LEMMA LoadOverIsSound ==
    ASSUME NEW p, Sound(p), NEW c
    PROVE  Sound(LoadOver(p, c))
<1>1. PICK v : v = p.screen.pending \ {c.got.after}
  OBVIOUS
<1>2. LoadOver(p, c) = [p EXCEPT !.screen.loading = FALSE, !.screen.pending = v]
  BY <1>1 DEF LoadOver
<1>3. Sound([p EXCEPT !.screen.loading = FALSE, !.screen.pending = v])
  BY TwoFieldsAreSound DEF KeptFields
<1> QED
  BY <1>2, <1>3

LEMMA MentionsServedKeeps ==
    ASSUME TabInv, UNCHANGED recoveryVars, NEW c \in calls, MentionsServed(c)
    PROVE  TabInv'
<1>1. /\ c.kind = "task" /\ c.name \notin KeyNames /\ UNCHANGED server
      /\ \/ \E got : Become(Onward(Page, c, "read", got))
         \/ Become(Denies(WithoutCall(Page, c), c))
  BY DEF MentionsServed, IsTask, KeyNames
<1> QED
  BY <1>1, OtherHandler, DeniesIsSound, CalmStep

LEMMA MentionsShownKeeps ==
    ASSUME TabInv, UNCHANGED recoveryVars, NEW c \in calls, MentionsShown(c) \/ MentionsFail(c)
    PROVE  TabInv'
<1> DEFINE p == WithoutCall(Page, c)
<1>1. c.kind = "task" /\ UNCHANGED server
  BY DEF MentionsShown, MentionsFail, IsTask
<1>2. Sound(p)
  BY <1>1, OtherHandler
<1>3. \/ Become(p) \/ \E rows : Become(LoadOver([p EXCEPT !.screen.rows = rows], c))
      \/ Become(LoadOver([p EXCEPT !.screen.error = TRUE], c))
  BY DEF MentionsShown, MentionsFail
<1> HIDE DEF p
<1>4. Sound([p EXCEPT !.screen.error = TRUE]) /\ \A rows : Sound([p EXCEPT !.screen.rows = rows])
  BY <1>2, ScreenFieldIsSound DEF KeptFields
<1> QED
  BY <1>1, <1>2, <1>3, <1>4, LoadOverIsSound, CalmStep DEF TabInv


LEMMA RetryLoadKeeps ==
    ASSUME TabInv, UNCHANGED recoveryVars, RetryLoad
    PROVE  TabInv'
  BY LoadMentionsIsSound, CalmStep DEF RetryLoad, TabInv

LEMMA CommentDialogKeeps ==
    ASSUME TabInv, UNCHANGED recoveryVars, CloseComment \/ \E m : OpenComment(m)
    PROVE  TabInv'
<1>1. CASE CloseComment
  BY <1>1, NoDialogIsSound, CalmStep DEF CloseComment, TabInv
<1>2. ASSUME NEW m, OpenComment(m) PROVE TabInv'
  <2> DEFINE a == [Page EXCEPT !.screen.selected = m, !.screen.operation = Nothing]
  <2>1. Sound(a)
    BY TwoFieldsAreSound DEF TabInv, KeptFields
  <2>2. [Page EXCEPT !.screen.selected = m, !.screen.operation = Nothing, !.screen.failed = FALSE]
        = [a EXCEPT !.screen.failed = FALSE]
    OBVIOUS
  <2> HIDE DEF a
  <2>3. Sound([a EXCEPT !.screen.failed = FALSE])
    BY <2>1, ScreenFieldIsSound DEF KeptFields
  <2> QED
    BY <1>2, <2>2, <2>3, CalmStep DEF OpenComment, TabInv
<1> QED
  BY <1>1, <1>2

LEMMA StateChangeIsSound ==
    ASSUME NEW p, Sound(p), NEW m, NEW done, NEW stage, NEW comment
    PROVE  Sound(StateChange(p, m, done, stage, comment))
<1>1. PICK v : v = p.screen.pending \cup {m}
  OBVIOUS
<1>2. PICK got : StateChange(p, m, done, stage, comment)
                 = WithCall([p EXCEPT !.screen.pending = v, !.screen.failed = FALSE],
                            [Task("state", stage) EXCEPT !.got = got])
  BY <1>1 DEF StateChange
<1>3. Sound([p EXCEPT !.screen.pending = v, !.screen.failed = FALSE])
  BY TwoFieldsAreSound DEF KeptFields
<1>4. Sound(WithCall([p EXCEPT !.screen.pending = v, !.screen.failed = FALSE],
                     [Task("state", stage) EXCEPT !.got = got]))
  BY <1>3, OtherTaskIsSound DEF KeyNames
<1> QED
  BY <1>2, <1>4

LEMMA StateAskedKeeps ==
    ASSUME TabInv, UNCHANGED recoveryVars, SubmitComment \/ \E m : ChangeState(m)
    PROVE  TabInv'
<1>1. /\ UNCHANGED server
      /\ \E m, done, stage, comment : Become(StateChange(Page, m, done, stage, comment))
  BY DEF SubmitComment, ChangeState
<1> QED
  BY <1>1, StateChangeIsSound, CalmStep DEF TabInv

LEMMA CommentSealedKeeps ==
    ASSUME TabInv, UNCHANGED recoveryVars, NEW c \in calls, CommentSealed(c)
    PROVE  TabInv'
<1> DEFINE p == WithoutCall(Page, c)
<1>1. c.kind = "task" /\ c.name \notin KeyNames /\ UNCHANGED server
  BY DEF CommentSealed, IsTask, KeyNames
<1>2. Sound(p) /\ DOMAIN c = TaskFields
  BY <1>1, OtherHandler
<1>3. \/ Become(p)
      \/ \E id, got : Become(Onward([p EXCEPT !.screen.operation = id], c, "asked", got))
  BY DEF CommentSealed
<1> HIDE DEF p
<1>4. \A id : Sound([p EXCEPT !.screen.operation = id])
  BY <1>2, ScreenFieldIsSound DEF KeptFields
<1>5. \A id, got : Sound(Onward([p EXCEPT !.screen.operation = id], c, "asked", got))
  BY <1>1, <1>2, <1>4, OtherOnwardIsSound
<1> QED
  BY <1>1, <1>2, <1>3, <1>5, CalmStep DEF TabInv

LEMMA StateServedKeeps ==
    ASSUME TabInv, UNCHANGED recoveryVars, NEW c \in calls, StateServed(c)
    PROVE  TabInv'
<1>1. /\ c.kind = "task" /\ c.name \notin KeyNames /\ UNCHANGED server
      /\ \E got : Become(Onward(Page, c, "answered", got))
  BY DEF StateServed, IsTask, KeyNames
<1> QED
  BY <1>1, OtherHandler, CalmStep

LEMMA StateAnsweredKeeps ==
    ASSUME TabInv, UNCHANGED recoveryVars, NEW c \in calls, StateAnswered(c)
    PROVE  TabInv'
<1> DEFINE p == WithoutCall(Page, c)
           m == c.got.mention
           q == [p EXCEPT !.screen.pending = @ \ {m}]
           Answered(v) == [q EXCEPT !.screen.rows[m] = v]
           a == [NoDialog(p) EXCEPT !.screen.failed = TRUE]
           b == [q EXCEPT !.screen.failed = TRUE]
<1>1. c.kind = "task" /\ UNCHANGED server
  BY DEF StateAnswered, IsTask
<1>2. Sound(p)
  BY <1>1, OtherHandler
<1>3. \/ Become(p) \/ Become(LoadMentions(a, m)) \/ Become(b) \/ Become(Denies(q, c))
      \/ \E v : Become(Answered(v)) \/ Become(NoDialog(Answered(v)))
  BY DEF StateAnswered
<1> HIDE DEF m
<1>4. Sound(q)
  <2>1. PICK v : v = p.screen.pending \ {m}
    OBVIOUS
  <2> HIDE DEF p
  <2>2. q = [p EXCEPT !.screen.pending = v]
    BY <2>1
  <2>3. Sound([p EXCEPT !.screen.pending = v])
    BY <1>2, ScreenFieldIsSound DEF KeptFields
  <2> QED
    BY <2>2, <2>3
<1> HIDE DEF p, q
<1>5. ASSUME NEW v PROVE Sound(Answered(v))
  <2> DEFINE rows == [q.screen.rows EXCEPT ![m] = v]
  <2>1. Answered(v) = [q EXCEPT !.screen.rows = rows]
    OBVIOUS
  <2> HIDE DEF rows
  <2>2. Sound([q EXCEPT !.screen.rows = rows])
    BY <1>4, ScreenFieldIsSound DEF KeptFields
  <2> QED
    BY <2>1, <2>2
<1>6. Sound(a) /\ Sound(b)
  BY <1>2, <1>4, NoDialogIsSound, ScreenFieldIsSound DEF KeptFields
<1> HIDE DEF Answered, a, b
<1> QED
  BY <1>1, <1>2, <1>3, <1>4, <1>5, <1>6, NoDialogIsSound, LoadMentionsIsSound, DeniesIsSound,
     CalmStep DEF TabInv

LEMMA MentionsKeep ==
    ASSUME TabInv, UNCHANGED recoveryVars, MentionsNext
    PROVE  TabInv'
<1>1. ASSUME VisitMentions PROVE TabInv'
  BY <1>1, PageText, EnteredIsSound, CalmStep DEF VisitMentions, TabInv
<1>2. ASSUME LeaveMentions PROVE TabInv'
  BY <1>2, LeftIsSound, CalmStep DEF LeaveMentions, TabInv
<1>3. ASSUME OthersResolve PROVE TabInv'
  <2>1. UNCHANGED pageVars /\ UNCHANGED server
    BY <1>3 DEF OthersResolve
  <2> QED
    BY <2>1, ServerStays, KeptStay DEF TabInv
<1> QED
  BY <1>1, <1>2, <1>3, MentionsMountedKeeps, RetryLoadKeeps, CommentDialogKeeps, StateAskedKeeps,
     MentionsServedKeeps, MentionsShownKeeps, CommentSealedKeeps, StateServedKeeps,
     StateAnsweredKeeps DEF MentionsNext
-----------------------------------------------------------------------------
(* The page of SettingsPage *)

LEMMA RequestIsPlain ==
    ASSUME NEW operation, NEW flag
    PROVE  /\ Plain(SettingsRequest(operation, flag))
           /\ \A secret, removal : Plain([SettingsRequest(operation, flag) EXCEPT
                                             !.got.secret = secret, !.got.removal = removal])
<1> DEFINE a(got) == [Task("setting", "asked") EXCEPT !.got = got]
<1>1. \A got : Plain(a(got))
  BY OtherTasks DEF KeyNames
<1>2. PICK got : SettingsRequest(operation, flag) = a(got)
  BY DEF SettingsRequest
<1>3. ASSUME NEW c, Plain(c), c.kind = "task", NEW secret, NEW removal
      PROVE  Plain([c EXCEPT !.got.secret = secret, !.got.removal = removal])
  BY <1>3 DEF Plain, Bare, TaskFields
<1>4. a(got).kind = "task"
  BY DEF Task
<1> QED
  BY <1>1, <1>2, <1>3, <1>4

LEMMA RequestIsSound ==
    ASSUME NEW p, Sound(p), NEW operation, NEW flag
    PROVE  /\ Sound(WithCall(p, SettingsRequest(operation, flag)))
           /\ \A secret, removal :
                  Sound(WithCall(p, [SettingsRequest(operation, flag) EXCEPT
                                        !.got.secret = secret, !.got.removal = removal]))
  BY RequestIsPlain, WithPlainIsSound

LEMMA SettingsMountedKeeps ==
    ASSUME TabInv, UNCHANGED recoveryVars, SettingsMounted
    PROVE  TabInv'
<1>1. PICK s : Become(WithCall([Page EXCEPT !.screen = s], SettingsRequest("read", "loading")))
  BY DEF SettingsMounted
<1>2. Page.route # "recovery" /\ UNCHANGED server
  BY PageText DEF SettingsMounted, TabInv
<1>3. Sound([Page EXCEPT !.screen = s])
  BY <1>2, OtherScreenIsSound DEF TabInv
<1> QED
  BY <1>1, <1>2, <1>3, RequestIsSound, CalmStep DEF TabInv

LEMMA FormKeeps ==
    ASSUME TabInv, UNCHANGED recoveryVars, ClearSecret \/ \E secret : TypeSecret(secret)
    PROVE  TabInv'
<1>1. /\ UNCHANGED server
      /\ \E v, w : Become([Page EXCEPT !.screen.secret = v, !.screen.removal = w])
  BY DEF ClearSecret, TypeSecret
<1>2. \A v, w : Sound([Page EXCEPT !.screen.secret = v, !.screen.removal = w])
  BY TwoFieldsAreSound DEF TabInv, KeptFields
<1> QED
  BY <1>1, <1>2, CalmStep DEF TabInv

LEMMA SaveFormKeeps ==
    ASSUME TabInv, UNCHANGED recoveryVars, SaveForm
    PROVE  TabInv'
<1> DEFINE p == [Page EXCEPT !.screen.saving = TRUE, !.screen.error = FALSE]
<1>1. UNCHANGED server
      /\ \E secret, removal :
             Become(WithCall(p, [SettingsRequest("save", "saving") EXCEPT
                                    !.got.secret = secret, !.got.removal = removal]))
  BY DEF SaveForm
<1>2. Sound(p)
  BY TwoFieldsAreSound DEF TabInv, KeptFields
<1> HIDE DEF p
<1> QED
  BY <1>1, <1>2, RequestIsSound, CalmStep DEF TabInv

LEMMA ActionsKeep ==
    ASSUME TabInv, UNCHANGED recoveryVars, Confirm \/ \E operation : Act(operation)
    PROVE  TabInv'
<1> DEFINE a == [Page EXCEPT !.screen.acting = TRUE]
           b == [Page EXCEPT !.screen.acting = TRUE, !.screen.refused = FALSE]
<1>1. /\ UNCHANGED server
      /\ \E operation : \/ Become(WithCall(a, SettingsRequest(operation, "acting")))
                        \/ Become(WithCall(b, SettingsRequest(operation, "acting")))
  BY DEF Confirm, Act
<1>2. Sound(a) /\ Sound(b)
  BY ScreenFieldIsSound, TwoFieldsAreSound DEF TabInv, KeptFields
<1> HIDE DEF a, b
<1> QED
  BY <1>1, <1>2, RequestIsSound, CalmStep DEF TabInv

LEMMA ConfirmationKeeps ==
    ASSUME TabInv, UNCHANGED recoveryVars,
           CancelConfirmation \/ \E operation : AskConfirmation(operation)
    PROVE  TabInv'
<1>1. CASE CancelConfirmation
  <2>1. Sound([Page EXCEPT !.screen.dialog = "none", !.screen.refused = FALSE])
    BY TwoFieldsAreSound DEF TabInv, KeptFields
  <2> QED
    BY <1>1, <2>1, CalmStep DEF CancelConfirmation, TabInv
<1>2. ASSUME NEW operation, AskConfirmation(operation) PROVE TabInv'
  <2> DEFINE a == [Page EXCEPT !.screen.dialog = operation, !.screen.relisted = FALSE]
  <2>1. Sound(a)
    BY TwoFieldsAreSound DEF TabInv, KeptFields
  <2>2. [Page EXCEPT !.screen.dialog = operation, !.screen.relisted = FALSE,
                     !.screen.refused = FALSE]
        = [a EXCEPT !.screen.refused = FALSE]
    OBVIOUS
  <2> HIDE DEF a
  <2>3. Sound([a EXCEPT !.screen.refused = FALSE])
    BY <2>1, ScreenFieldIsSound DEF KeptFields
  <2> QED
    BY <1>2, <2>2, <2>3, CalmStep DEF AskConfirmation, TabInv
<1> QED
  BY <1>1, <1>2

LEMMA SettingServedKeeps ==
    ASSUME TabInv, UNCHANGED recoveryVars, NEW c \in calls, SettingServed(c)
    PROVE  TabInv'
<1>1. /\ c.kind = "task" /\ c.name \notin KeyNames /\ UNCHANGED server
      /\ \E got : Become(Onward(Page, c, "answered", got))
  BY DEF SettingServed, IsTask, KeyNames
<1> QED
  BY <1>1, OtherHandler, CalmStep

LEMMA FormFilledIsSound ==
    ASSUME NEW p, Sound(p), NEW row
    PROVE  Sound(FormFilled(p, row))
<1> DEFINE a == [p EXCEPT !.screen.provider = row, !.screen.secret = Nothing]
           b == [a EXCEPT !.screen.removal = FALSE]
<1>1. Sound(a)
  BY TwoFieldsAreSound DEF KeptFields
<1>2. [p EXCEPT !.screen.provider = row, !.screen.secret = Nothing, !.screen.removal = FALSE] = b
  OBVIOUS
<1> HIDE DEF a
<1>3. Sound(b)
  BY <1>1, ScreenFieldIsSound DEF KeptFields
<1> HIDE DEF b
<1>4. Sound([p EXCEPT !.screen.provider = Nothing])
  BY ScreenFieldIsSound DEF KeptFields
<1> QED
  BY <1>2, <1>3, <1>4 DEF FormFilled

LEMMA FlagLoweredIsSound ==
    ASSUME NEW p, Sound(p), NEW flag
    PROVE  Sound(FlagLowered(p, flag))
<1>1. \A f \in {"loading", "saving", "acting"} : Sound([p EXCEPT !.screen[f] = FALSE])
  BY ScreenFieldIsSound DEF KeptFields
<1>2. \E f \in {"loading", "saving", "acting"} : FlagLowered(p, flag) = [p EXCEPT !.screen[f] = FALSE]
  BY DEF FlagLowered
<1> QED
  BY <1>1, <1>2

LEMMA SettingFailedIsSound ==
    ASSUME NEW p, Sound(p), NEW c
    PROVE  Sound(SettingFailed(p, c))
<1> DEFINE q == FlagLowered(p, c.got.flag)
<1>1. Sound(q)
  BY FlagLoweredIsSound
<1> HIDE DEF q
<1>2. Sound([q EXCEPT !.screen.refused = TRUE]) /\ Sound([q EXCEPT !.screen.error = TRUE])
  BY <1>1, ScreenFieldIsSound DEF KeptFields
<1> QED
  BY <1>2 DEF SettingFailed, q

\* What goes to the provider holds nothing.
LEMMA TabLeftIsSound ==
    ASSUME NEW p, Sound(p)
    PROVE  Sound(TabLeft(p))
<1> DEFINE q == Left(p)
           t == [LockedText EXCEPT !.manages = p.text.manages, !.drawn = p.text.drawn]
           r == [q EXCEPT !.text = t, !.presence = 0, !.calls = {}]
<1>1. Sound(q) /\ q.route = "elsewhere"
  BY LeftIsSound
<1>2. /\ DOMAIN t = TextFields /\ t.held = {} /\ t.scalarEpoch = 0 /\ t.documentEpoch = 0
      /\ ~t.polling /\ t.status = "locked" /\ t.generation = 0
  BY DEF LockedText, TextFields
<1>3. TabLeft(p) = r
  BY DEF TabLeft
<1> HIDE DEF q, t
<1>4. Text(t)
  BY <1>2 DEF Text
<1>5. /\ DOMAIN r = PageFields /\ r.text = t /\ r.route = "elsewhere" /\ r.calls = {}
      /\ r.ws = q.ws /\ r.link = q.link
  BY <1>1, TextOfSound DEF PageFields
<1>6. q.ws.phase = "closed"
  BY LeftWorkspace DEF Sound, q
<1>7. Workspace(q, q.text.session) /\ q.link = Nothing
  BY <1>1, <1>6 DEF Sound, Workspace
<1> HIDE DEF r
<1>8. Workspace(r, t.session)
  BY <1>5, <1>6, <1>7, ClosedForgets
<1> QED
  BY <1>3, <1>4, <1>5, <1>8 DEF Sound


LEMMA LinkResetIsSound ==
    ASSUME NEW p, Sound(p)
    PROVE  Sound(LinkReset(p))
<1>1. PICK users : LinkReset(p) = [p EXCEPT !.screen.dialog = "none", !.screen.users = users]
  BY DEF LinkReset
<1>2. Sound([p EXCEPT !.screen.dialog = "none", !.screen.users = users])
  BY TwoFieldsAreSound DEF KeptFields
<1> QED
  BY <1>1, <1>2

LEMMA ProviderRemovedIsSound ==
    ASSUME NEW p, Sound(p)
    PROVE  Sound(ProviderRemoved(p))
<1> DEFINE q == FormFilled(p, Nothing)
           a == [q EXCEPT !.screen.dialog = "none", !.screen.users = "none"]
<1>1. Sound(q)
  BY FormFilledIsSound
<1>2. ProviderRemoved(p) = [q EXCEPT !.screen.dialog = "none", !.screen.users = "none",
                                     !.screen.secret = Nothing, !.screen.removal = FALSE]
  BY DEF ProviderRemoved
<1> HIDE DEF q
<1>3. Sound(a)
  BY <1>1, TwoFieldsAreSound DEF KeptFields
<1>4. [q EXCEPT !.screen.dialog = "none", !.screen.users = "none",
                !.screen.secret = Nothing, !.screen.removal = FALSE]
      = [a EXCEPT !.screen.secret = Nothing, !.screen.removal = FALSE]
  OBVIOUS
<1> HIDE DEF a
<1>5. Sound([a EXCEPT !.screen.secret = Nothing, !.screen.removal = FALSE])
  BY <1>3, TwoFieldsAreSound DEF KeptFields
<1> QED
  BY <1>2, <1>4, <1>5

LEMMA SettingSucceedsIsSound ==
    ASSUME NEW p, Sound(p), NEW c
    PROVE  Sound(SettingSucceeds(p, c))
<1> DEFINE filled == FormFilled(p, c.got.row)
           emptied == FormFilled(p, Nothing)
           users == SettingsRequest("users", c.got.flag)
           Listed1(v) == [p EXCEPT !.screen.users = v, !.screen.relisted = TRUE]
           Lowered(q) == FlagLowered(q, c.got.flag)
<1>1. /\ Sound(filled) /\ Sound(emptied) /\ Sound(ProviderRemoved(p)) /\ Sound(LinkReset(p))
      /\ Sound(TabLeft(p))
  BY FormFilledIsSound, ProviderRemovedIsSound, LinkResetIsSound, TabLeftIsSound
<1>2. \A v : Sound(Listed1(v))
  BY TwoFieldsAreSound DEF KeptFields
<1>3. \/ SettingSucceeds(p, c) = WithCall(filled, users)
      \/ SettingSucceeds(p, c) = Lowered(emptied)
      \/ SettingSucceeds(p, c) = Lowered(filled)
      \/ \E v : SettingSucceeds(p, c) = Lowered(Listed1(v))
      \/ SettingSucceeds(p, c) = Lowered(ProviderRemoved(p))
      \/ SettingSucceeds(p, c) = Lowered(LinkReset(p))
      \/ SettingSucceeds(p, c) = TabLeft(p)
  <2>1. CASE c.got.op = "users"
    BY <2>1 DEF SettingSucceeds
  <2>2. CASE c.got.op \in {"read", "save"}
    BY <2>2 DEF SettingSucceeds
  <2>3. CASE c.got.op \in {"enable", "disable", "remove", "reset"}
    BY <2>3 DEF SettingSucceeds
  <2>4. CASE c.got.op \notin {"users", "read", "save", "enable", "disable", "remove", "reset"}
    BY <2>4 DEF SettingSucceeds
  <2> QED
    BY <2>1, <2>2, <2>3, <2>4
<1> HIDE DEF filled, emptied, Listed1
<1>4. Sound(WithCall(filled, users))
  BY <1>1, RequestIsSound
<1>5. \A q : Sound(q) => Sound(Lowered(q))
  BY FlagLoweredIsSound
<1> HIDE DEF Lowered, users
<1> QED
  BY <1>1, <1>2, <1>3, <1>4, <1>5

LEMMA SettingAnsweredKeeps ==
    ASSUME TabInv, UNCHANGED recoveryVars, NEW c \in calls, SettingAnswered(c)
    PROVE  TabInv'
<1> DEFINE p == WithoutCall(Page, c)
<1>1. c.kind = "task" /\ UNCHANGED server
  BY DEF SettingAnswered, IsTask
<1>2. Sound(p)
  BY <1>1, OtherHandler
<1>3. \/ Become(p) \/ Become(TabLeft(p)) \/ Become(SettingSucceeds(p, c))
      \/ Become(SettingFailed(p, c))
  BY DEF SettingAnswered
<1> HIDE DEF p
<1> QED
  BY <1>1, <1>2, <1>3, TabLeftIsSound, SettingSucceedsIsSound, SettingFailedIsSound, CalmStep
     DEF TabInv

LEMMA SettingsKeep ==
    ASSUME TabInv, UNCHANGED recoveryVars, SettingsNext
    PROVE  TabInv'
<1>1. ASSUME VisitSettings PROVE TabInv'
  BY <1>1, PageText, EnteredIsSound, CalmStep DEF VisitSettings, TabInv
<1>2. ASSUME LeaveSettings PROVE TabInv'
  BY <1>2, LeftIsSound, CalmStep DEF LeaveSettings, TabInv
<1>3. ASSUME OthersSignIn PROVE TabInv'
  <2>1. UNCHANGED pageVars /\ UNCHANGED server
    BY <1>3 DEF OthersSignIn
  <2> QED
    BY <2>1, ServerStays, KeptStay DEF TabInv
<1> QED
  BY <1>1, <1>2, <1>3, SettingsMountedKeeps, FormKeeps, SaveFormKeeps, ActionsKeep,
     ConfirmationKeeps, SettingServedKeeps, SettingAnsweredKeeps DEF SettingsNext
-----------------------------------------------------------------------------
(* Every step of the tab *)

LEMMA StillKeeps ==
    ASSUME TabInv, UNCHANGED recoveryVars, UNCHANGED pageVars, UNCHANGED server
    PROVE  TabInv'
  BY ServerStays, KeptStay DEF TabInv

LEMMA BrowserKeeps ==
    ASSUME RecoveryInv, [BrowserNext]_browserVars
    PROVE  RecoveryInv' /\ [VaultNext]_vaultVars
<1>1. TabInv
  BY DEF RecoveryInv
<1>2. CASE UNCHANGED recoveryVars /\ ~RecoveryPageNext
  <2>1. TabInv'
    <3>1. CASE UNCHANGED browserVars
      BY <1>1, <3>1, StillKeeps DEF browserVars, vars, recoveryVars
    <3>2. CASE BrowserNext
      BY <1>1, <1>2, <3>2, StillKeeps, ProtectedTextKeeps, WorkspaceKeeps, PlannedAgendaKeeps,
         PreparationKeeps, AgendaPageKeeps, MembershipCardKeeps, MentionsKeep, SettingsKeep
         DEF BrowserNext
    <3> QED
      BY <3>1, <3>2
  <2> QED
    BY <1>2, <2>1, TabKeeps
<1>3. CASE RecoveryPageNext
  BY <1>3, RecoveryPageKeeps
<1>4. UNCHANGED recoveryVars \/ RecoveryPageNext
  BY DEF BrowserNext, browserVars
<1> QED
  BY <1>2, <1>3, <1>4
-----------------------------------------------------------------------------
(* The invariant *)

LEMMA BrowserInitInv ==
    ASSUME BrowserInit
    PROVE  BrowserInv /\ VaultInit
<1>1. PICK start \in Starts : TabInit(start) /\ RecoveryInit(start)
  BY DEF BrowserInit
<1>2. VaultInit
  BY <1>1, RecoveryConstants DEF RecoveryInit, VaultInit, KnownSecrets
<1>3. Ceremonial
  BY <1>1 DEF RecoveryInit, Ceremonial, Row, NoCeremony
<1>4. Backend
  BY <1>1 DEF TabInit, Backend, ServerFields
<1>5. Sound(Page)
  <2>1. Text(text)
    <3>1. /\ DOMAIN text = TextFields /\ text.session = start.unlocked
          /\ text.status = (IF start.unlocked THEN "unlocked" ELSE "locked")
          /\ text.scalarEpoch = (IF start.unlocked THEN 1 ELSE 0)
          /\ text.documentEpoch = (IF start.unlocked THEN 1 ELSE 0)
          /\ text.held = (IF start.unlocked THEN {1} ELSE {})
          /\ text.drawn = (IF start.unlocked THEN {1} ELSE {})
          /\ text.generation = (IF start.user THEN 1 ELSE 0)
          /\ text.polling = start.unlocked
      BY <1>1 DEF TabInit, LockedText, TextFields
    <3>2. server.epochs = IF start.unlocked THEN {1} ELSE {}
      BY <1>1 DEF TabInit
    <3> QED
      BY <3>1, <3>2 DEF Text
  <2>2. /\ DOMAIN Page = PageFields /\ Page.text = text /\ Page.route = "elsewhere"
        /\ Page.calls = {} /\ Page.ws = ClosedWorkspace /\ Page.link = Nothing
    BY <1>1 DEF TabInit, Page, PageFields
  <2>3. Workspace(Page, text.session)
    BY <2>2 DEF Workspace, ClosedWorkspace, WorkspaceFields
  <2> QED
    BY <2>1, <2>2, <2>3 DEF Sound
<1> QED
  BY <1>2, <1>3, <1>4, <1>5, VaultInitInv DEF BrowserInv

LEMMA BrowserStepInv ==
    ASSUME BrowserInv, [BrowserNext]_browserVars
    PROVE  BrowserInv' /\ [VaultNext]_vaultVars
<1>1. BrowserInv <=> RecoveryInv
  BY DEF BrowserInv, RecoveryInv, TabInv
<1>2. BrowserInv' <=> RecoveryInv'
  BY DEF BrowserInv, RecoveryInv, TabInv
<1> QED
  BY <1>1, <1>2, BrowserKeeps

\* Whatever happens in a tab and around it (protected-text.ts, RecoveryView.vue,
\* e2ee.service.ts): the vault opens with the secrets that are known, an open
\* ceremony has a candidate that was made for the present key state or is
\* outdated, its second operator's passphrase opens it; the tab knows its own part
\* in it; and each epoch is where it may be.
THEOREM BrowserInvariant == BrowserSpec => []BrowserInv
<1>1. BrowserInit => BrowserInv
  BY BrowserInitInv
<1>2. BrowserInv /\ [BrowserNext]_browserVars => BrowserInv'
  BY BrowserStepInv
<1> QED
  BY <1>1, <1>2, PTL DEF BrowserSpec

\* A ceremony that is prepared, started, approved and activated in many steps of
\* the page (RecoveryView.vue), among others' and with whatever else the tab
\* does, changes the keys as VaultSpec says: by one step that two operators agree
\* on.
THEOREM BrowserKeepsVault == BrowserSpec => VaultSpec
<1>1. BrowserInit => VaultInit
  BY BrowserInitInv
<1>2. BrowserInv /\ [BrowserNext]_browserVars => [VaultNext]_vaultVars
  BY BrowserStepInv
<1> QED
  BY <1>1, <1>2, BrowserInvariant, PTL DEF BrowserSpec, VaultSpec

\* So no sequence of ceremonies as the page carries them out locks the
\* organization out of what it wrote (crypto.ts, activate in e2ee.service.ts).
THEOREM BrowserKeepsKeys == BrowserSpec => []KeysAreKept
  BY BrowserKeepsVault, KeysKept, PTL

\* What is sealed is sealed under an epoch that the server knows and that the
\* next lock revokes (establishScalarSession and lock in unlock-session.ts), as
\* long as the keys are those of the installation.
THEOREM SealedUnderLiveEpoch == BrowserSpec => []SealsUnderLiveEpoch
<1>1. BrowserInv => SealsUnderLiveEpoch
  BY PageText DEF BrowserInv, Backend, Sound, Text, SealsUnderLiveEpoch
<1> QED
  BY <1>1, BrowserInvariant, PTL

\* And a tab that is locked, by whatever came first of an idle timeout, a lost
\* authorization, a lock in another tab or one of its own, has nothing left to
\* seal or to show in plain text: no provider, no epoch, no Meeting that it read
\* with keys, however late a load, a ticket or a completion is answered
\* (performLock in unlock-session.ts, forceClose in core.ts).
THEOREM LockedTabHoldsNothing == BrowserSpec => []SealsWhileUnlocked
<1>1. BrowserInv => LockedHoldsNothing
  BY PageText, PageWorkspace DEF BrowserInv, Sound, Text, Reading, LockedHoldsNothing
<1>2. BrowserSpec => []SealsUnderLiveEpoch
  BY SealedUnderLiveEpoch
<1> QED
  BY <1>1, <1>2, BrowserInvariant, PTL DEF SealsWhileUnlocked

\* The ceremony that the page would activate as approved is one of its own user,
\* whatever ceremony it shows meanwhile, and an operator has opened its candidate
\* with what was typed (approve, activate and the poll in RecoveryView.vue).
THEOREM ApprovalIsVerified == BrowserSpec => []ApprovedIsVerified
<1>1. BrowserInv => ApprovedIsVerified
  <2> SUFFICES ASSUME BrowserInv, ApproverPanel, screen.approved, screen.activeId # 0
               PROVE  LET row == ceremony[screen.activeId]
                      IN /\ "tab" \in {row.initiator, row.approver}
                         /\ row.approver # "nobody" /\ row.generation = vault.generation =>
                              CandidateVerified(vault, row.situation, row.candidate, row.agreed)
    BY DEF ApprovedIsVerified
  <2>1. Sound(Page) /\ Ceremonial /\ vault.generation \in Nat
    BY DEF BrowserInv, VaultInv, VaultTypeOK, Vault
  <2> DEFINE id == screen.activeId
             row == ceremony[id]
  <2>2. Ours(id)
    BY <2>1, OnPageScreen DEF ApproverPanel
  <2>3. Started(id) /\ "tab" \in {row.initiator, row.approver}
    BY <2>2 DEF Ours
  <2>4. row.approver # "nobody" => Agreed(row, row.agreed)
    BY <2>1, <2>3 DEF Ceremonial, Row, Started
  <2>5. row.approver # "nobody" /\ row.generation = vault.generation =>
            CandidateVerified(vault, row.situation, row.candidate, row.agreed)
    BY <2>1, <2>4 DEF Agreed, Outdated
  <2> QED
    BY <2>3, <2>5
<1> QED
  BY <1>1, BrowserInvariant, PTL
-----------------------------------------------------------------------------
(* The setup of an installation, which knows nothing of the rest *)

SetupFields == {"stage", "awaits", "required", "typed", "confirmed", "keys", "printed", "agreed",
                "copies", "error"}

\* What a tab awaits belongs to the step that it shows; it sends keys that open
\* with what it has shown to be printed.
SetupSound(s) ==
    /\ DOMAIN s = SetupFields
    /\ s.awaits = "password" => s.stage = "password"
    /\ s.awaits \in {"again", "keys"} => s.stage = "user"
    /\ s.awaits = "created" => s.stage \in {"recovery", "closed"} /\ s.keys # Nothing
    /\ (s.stage = "recovery" \/ s.awaits = "created") /\ s.keys # Nothing =>
           RecoveryOpens(s.keys, s.printed)
    /\ s.stage = "complete" =>
           s.awaits = "nothing" /\ installed # Nothing /\ RecoveryOpens(installed, s.printed)

SetupInv ==
    /\ DOMAIN setups = SetupTabs
    /\ \A t \in SetupTabs : SetupSound(setups[t])
    /\ \A t, u \in SetupTabs :
           setups[t].stage = "complete" /\ setups[u].stage = "complete" => t = u

\* The rest of the setup sees one page change, and nobody told that it is complete.
LEMMA SetupShown ==
    ASSUME SetupInv, UNCHANGED installed, NEW t \in SetupTabs, NEW page, ShowSetup(t, page),
           SetupSound(page), page.stage # "complete"
    PROVE  SetupInv'
<1>1. /\ DOMAIN setups' = SetupTabs /\ setups'[t] = page
      /\ \A u \in SetupTabs \ {t} : setups'[u] = setups[u]
  BY DEF SetupInv, ShowSetup
<1>2. \A s : SetupSound(s) => SetupSound(s)'
  BY DEF SetupSound
<1>3. \A u \in SetupTabs : SetupSound(setups'[u])
  BY <1>1 DEF SetupInv
<1> QED
  BY <1>1, <1>2, <1>3 DEF SetupInv

LEMMA SetupStepInv ==
    ASSUME SetupInv, [SetupNext]_setupVars
    PROVE  SetupInv'
<1>1. CASE UNCHANGED setupVars
  BY <1>1 DEF setupVars, SetupInv, SetupSound
<1>2. ASSUME NEW t \in SetupTabs, UNCHANGED installed, NEW page, ShowSetup(t, page),
             SetupSound(setups[t]) => SetupSound(page) /\ page.stage # "complete"
      PROVE  SetupInv'
  BY <1>2, SetupShown DEF SetupInv
<1>3. ASSUME NEW t \in SetupTabs,
             \/ StartTab(t) \/ SetupMounted(t) \/ InstallationAnswered(t)
             \/ VerifyPassword(t) \/ PasswordAnswered(t)
             \/ TypePassphrase(t) \/ EditPassphrase(t) \/ PrepareSetup(t) \/ AskedAgain(t)
             \/ KeysFail(t) \/ LeaveSetup(t) \/ CopiesAcknowledged(t) \/ CreateUser(t)
      PROVE  SetupInv'
  <2> DEFINE s == setups[t]
  <2>0. UNCHANGED installed
    BY <1>3 DEF StartTab, SetupMounted, InstallationAnswered, VerifyPassword, PasswordAnswered,
                TypePassphrase, EditPassphrase, PrepareSetup, AskedAgain, KeysFail, LeaveSetup,
                CopiesAcknowledged, CreateUser, Unchanged
  <2>1. CASE StartTab(t)
    <3> DEFINE a == [s EXCEPT !.stage = "started", !.required = Unset]
               b == [s EXCEPT !.stage = "started"]
    <3>1. s.stage = "none" /\ (ShowSetup(t, a) \/ ShowSetup(t, b))
      BY <2>1 DEF StartTab, Awaiting
    <3>2. SetupSound(s) => SetupSound(a) /\ a.stage # "complete" /\ SetupSound(b) /\ b.stage # "complete"
      BY <3>1 DEF SetupSound, SetupFields
    <3> HIDE DEF a, b
    <3> QED
      BY <1>2, <2>0, <3>1, <3>2
  <2>2. CASE SetupMounted(t)
    <3> DEFINE a == [s EXCEPT !.stage = "loading"]
    <3>1. s.stage = "started" /\ ShowSetup(t, a)
      BY <2>2 DEF SetupMounted, Awaiting
    <3>2. SetupSound(s) => SetupSound(a) /\ a.stage # "complete"
      BY <3>1 DEF SetupSound, SetupFields
    <3> HIDE DEF a
    <3> QED
      BY <1>2, <2>0, <3>1, <3>2
  <2>3. CASE InstallationAnswered(t)
    <3> DEFINE a == [s EXCEPT !.stage = IF Unset THEN "password" ELSE "already-setup"]
               b == [s EXCEPT !.stage = "error", !.error = TRUE]
    <3>1. s.stage = "loading" /\ (ShowSetup(t, a) \/ ShowSetup(t, b))
      BY <2>3 DEF InstallationAnswered, Awaiting
    <3>2. SetupSound(s) => SetupSound(a) /\ a.stage # "complete" /\ SetupSound(b) /\ b.stage # "complete"
      BY <3>1 DEF SetupSound, SetupFields
    <3> HIDE DEF a, b
    <3> QED
      BY <1>2, <2>0, <3>1, <3>2
  <2>4. CASE VerifyPassword(t)
    <3> DEFINE a == [s EXCEPT !.awaits = "password", !.error = FALSE]
    <3>1. s.stage = "password" /\ s.awaits = "nothing" /\ ShowSetup(t, a)
      BY <2>4 DEF VerifyPassword, Awaiting
    <3>2. SetupSound(s) => SetupSound(a) /\ a.stage # "complete"
      BY <3>1 DEF SetupSound, SetupFields
    <3> HIDE DEF a
    <3> QED
      BY <1>2, <2>0, <3>1, <3>2
  <2>5. CASE PasswordAnswered(t)
    <3> DEFINE a(ok) == [s EXCEPT !.awaits = "nothing", !.error = ~ok, !.stage = IF ok THEN "user" ELSE @]
    <3>1. /\ s.awaits = "password"
          /\ \E ok : ShowSetup(t, a(ok))
      BY <2>5 DEF PasswordAnswered, Awaiting
    <3>2. SetupSound(s) => \A ok : SetupSound(a(ok)) /\ a(ok).stage # "complete"
      BY <3>1 DEF SetupSound, SetupFields
    <3> HIDE DEF a
    <3> QED
      BY <1>2, <2>0, <3>1, <3>2
  <2>6. CASE TypePassphrase(t)
    <3> DEFINE a(p) == [s EXCEPT !.typed = p, !.confirmed = p]
    <3>1. /\ s.stage = "user"
          /\ \E p : ShowSetup(t, a(p))
      BY <2>6 DEF TypePassphrase, Awaiting
    <3>2. SetupSound(s) => \A p : SetupSound(a(p)) /\ a(p).stage # "complete"
      BY <3>1 DEF SetupSound, SetupFields
    <3> HIDE DEF a
    <3> QED
      BY <1>2, <2>0, <3>1, <3>2
  <2>7. CASE EditPassphrase(t)
    <3> DEFINE a(p) == [s EXCEPT !.typed = p]
    <3>1. /\ s.stage = "user"
          /\ \E p : ShowSetup(t, a(p))
      BY <2>7 DEF EditPassphrase, Awaiting
    <3>2. SetupSound(s) => \A p : SetupSound(a(p)) /\ a(p).stage # "complete"
      BY <3>1 DEF SetupSound, SetupFields
    <3> HIDE DEF a
    <3> QED
      BY <1>2, <2>0, <3>1, <3>2
  <2>8. CASE PrepareSetup(t)
    <3> DEFINE a == [s EXCEPT !.awaits = "again", !.error = FALSE, !.agreed = s.typed]
               b == [s EXCEPT !.error = TRUE]
    <3>1. s.stage = "user" /\ (ShowSetup(t, a) \/ ShowSetup(t, b))
      BY <2>8 DEF PrepareSetup, Awaiting
    <3>2. SetupSound(s) => SetupSound(a) /\ a.stage # "complete" /\ SetupSound(b) /\ b.stage # "complete"
      BY <3>1 DEF SetupSound, SetupFields
    <3> HIDE DEF a, b
    <3> QED
      BY <1>2, <2>0, <3>1, <3>2
  <2>9. CASE AskedAgain(t)
    <3> DEFINE a == [s EXCEPT !.awaits = "keys", !.keys = [passphrase |-> s.typed]]
               b == [s EXCEPT !.awaits = "nothing", !.stage = "password",
                                    !.error = TRUE]
    <3>1. s.awaits = "again" /\ (ShowSetup(t, a) \/ ShowSetup(t, b))
      BY <2>9 DEF AskedAgain, Awaiting
    <3>2. SetupSound(s) => SetupSound(a) /\ a.stage # "complete" /\ SetupSound(b) /\ b.stage # "complete"
      BY <3>1 DEF SetupSound, SetupFields
    <3> HIDE DEF a, b
    <3> QED
      BY <1>2, <2>0, <3>1, <3>2
  <2>10. CASE KeysFail(t)
    <3> DEFINE a == [s EXCEPT !.awaits = "nothing", !.keys = Nothing, !.error = TRUE]
    <3>1. s.awaits = "keys" /\ ShowSetup(t, a)
      BY <2>10 DEF KeysFail, Awaiting
    <3>2. SetupSound(s) => SetupSound(a) /\ a.stage # "complete"
      BY <3>1 DEF SetupSound, SetupFields
    <3> HIDE DEF a
    <3> QED
      BY <1>2, <2>0, <3>1, <3>2
  <2>11. CASE LeaveSetup(t)
    <3> DEFINE a == [s EXCEPT !.stage = "closed", !.awaits = IF @ = "created" THEN @ ELSE "nothing"]
    <3>1. ShowSetup(t, a)
      BY <2>11 DEF LeaveSetup, Awaiting
    <3>2. SetupSound(s) => SetupSound(a) /\ a.stage # "complete"
      BY <3>1 DEF SetupSound, SetupFields
    <3> HIDE DEF a
    <3> QED
      BY <1>2, <2>0, <3>1, <3>2
  <2>12. CASE CopiesAcknowledged(t)
    <3> DEFINE a == [s EXCEPT !.copies = TRUE]
    <3>1. s.stage = "recovery" /\ ShowSetup(t, a)
      BY <2>12 DEF CopiesAcknowledged, Awaiting
    <3>2. SetupSound(s) => SetupSound(a) /\ a.stage # "complete"
      BY <3>1 DEF SetupSound, SetupFields
    <3> HIDE DEF a
    <3> QED
      BY <1>2, <2>0, <3>1, <3>2
  <2>13. CASE CreateUser(t)
    <3> DEFINE a == [s EXCEPT !.awaits = "created", !.error = FALSE]
    <3>1. s.stage = "recovery" /\ s.keys # Nothing /\ ShowSetup(t, a)
      BY <2>13 DEF CreateUser, Awaiting
    <3>2. SetupSound(s) => SetupSound(a) /\ a.stage # "complete"
      BY <3>1 DEF SetupSound, SetupFields
    <3> HIDE DEF a
    <3> QED
      BY <1>2, <2>0, <3>1, <3>2
  <2> QED
    BY <1>3, <2>1, <2>2, <2>3, <2>4, <2>5, <2>6, <2>7, <2>8, <2>9, <2>10, <2>11, <2>12, <2>13
<1>4. ASSUME NEW t \in SetupTabs, KeysMade(t) PROVE SetupInv'
  <2>1. PICK root, paper, passphrase :
          /\ UNCHANGED installed
          /\ ShowSetup(t, [setups[t] EXCEPT
                !.awaits = "nothing", !.stage = "recovery", !.printed = paper,
                !.typed = NoSecret, !.confirmed = NoSecret,
                !.keys = FirstVault(root, root, [passphrase |-> passphrase, recovery |-> paper])])
    BY <1>4 DEF KeysMade, Unchanged
  <2> DEFINE keys == FirstVault(root, root, [passphrase |-> passphrase, recovery |-> paper])
             page == [setups[t] EXCEPT
                !.awaits = "nothing", !.stage = "recovery", !.printed = paper,
                !.typed = NoSecret, !.confirmed = NoSecret, !.keys = keys]
  <2>2. RecoveryOpens(keys, paper)
    BY DEF FirstVault, RecoveryOpens
  <2> HIDE DEF keys
  <2>3. SetupSound(page) /\ page.stage # "complete"
    BY <2>2 DEF SetupInv, SetupSound, SetupFields
  <2> HIDE DEF page
  <2> QED
    BY <2>1, <2>3, SetupShown DEF page, keys
<1>5. ASSUME NEW t \in SetupTabs, FirstUserAnswered(t) PROVE SetupInv'
  <2>1. SetupSound(setups[t]) /\ setups[t].awaits = "created" /\ DOMAIN setups = SetupTabs
    BY <1>5 DEF SetupInv, FirstUserAnswered, Awaiting
  <2>2. CASE CreateFailed(t) /\ UNCHANGED installed
    <3> DEFINE page == [setups[t] EXCEPT !.awaits = "nothing", !.error = TRUE]
    <3>1. ShowSetup(t, page)
      BY <2>2 DEF CreateFailed
    <3>2. SetupSound(page) /\ page.stage # "complete"
      BY <2>1 DEF SetupSound, SetupFields
    <3> HIDE DEF page
    <3> QED
      BY <2>2, <3>1, <3>2, SetupShown
  <2>3. CASE installed = Nothing /\ installed' = setups[t].keys
    <3>1. installed' # Nothing /\ RecoveryOpens(installed', setups[t].printed)
      BY <2>1, <2>3 DEF SetupSound
    <3>2. \A u \in SetupTabs : setups[u].stage # "complete" /\ SetupSound(setups[u])
      BY <2>3 DEF SetupInv, SetupSound
    <3>3. PICK page : /\ ShowSetup(t, page)
                      /\ \/ page = [setups[t] EXCEPT !.awaits = "nothing"]
                            /\ setups[t].stage = "closed"
                         \/ page = [setups[t] EXCEPT !.awaits = "nothing", !.stage = "complete",
                                                     !.required = FALSE, !.keys = Nothing]
                         \/ page = [setups[t] EXCEPT !.awaits = "nothing", !.error = TRUE]
      BY <1>5, <2>3 DEF FirstUserAnswered, CreatedOver, CreateFailed, Creates, Unset
    <3>4. SetupSound(page)'
      BY <2>1, <3>1, <3>3 DEF SetupSound, SetupFields
    <3>5. /\ DOMAIN setups' = SetupTabs /\ setups'[t] = page
          /\ \A u \in SetupTabs \ {t} : setups'[u] = setups[u]
      BY <2>1, <3>3 DEF ShowSetup
    <3>6. \A s : SetupSound(s) /\ s.stage # "complete" => SetupSound(s)'
      BY DEF SetupSound
    <3> QED
      BY <3>2, <3>4, <3>5, <3>6 DEF SetupInv
  <2> QED
    BY <1>5, <2>2, <2>3 DEF FirstUserAnswered, Creates, Unset, Unchanged
<1> QED
  BY <1>1, <1>3, <1>4, <1>5 DEF SetupNext

\* Whoever is told that the setup is complete holds the paper that opens the
\* installation, and nobody else is told so (createFirstUser in
\* setup.service.ts, SetupView.vue), however many tabs set it up.
THEOREM SetupOpens == BrowserSpec => []CompleteOpensInstallation
<1>1. BrowserInit => SetupInv
  BY DEF BrowserInit, SetupInit, SetupInv, SetupSound, SetupFields, EmptySetup
<1>2. SetupInv /\ [BrowserNext]_browserVars => SetupInv'
  <2> SUFFICES ASSUME SetupInv, [BrowserNext]_browserVars PROVE SetupInv'
    OBVIOUS
  <2>1. [SetupNext]_setupVars
    BY DEF BrowserNext, browserVars, setupVars
  <2> QED
    BY <2>1, SetupStepInv
<1>3. SetupInv => CompleteOpensInstallation
  BY DEF SetupInv, SetupSound, CompleteOpensInstallation
<1> QED
  BY <1>1, <1>2, <1>3, PTL DEF BrowserSpec

\* What a page goes on from as done is done: an approval it would activate, a
\* setup it calls complete.
THEOREM DoneIsDone == BrowserSpec => []TakenForDoneIsDone
<1>1. ApprovedIsVerified /\ CompleteOpensInstallation => TakenForDoneIsDone
  BY DEF TakenForDoneIsDone
<1> QED
  BY <1>1, ApprovalIsVerified, SetupOpens, PTL
=============================================================================
