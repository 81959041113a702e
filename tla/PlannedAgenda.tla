--------------------------- MODULE PlannedAgenda ---------------------------
(***************************************************************************)
(* The agenda of one Meeting as two views of a tab work on it:             *)
(* PreparationPage and AgendaPage.  Both show what their workspace loads,  *)
(* ask for changes one request at a time, and load again after each        *)
(* (production-adapter.ts).  Other users change the agenda meanwhile.      *)
(*                                                                         *)
(* Of the workspace (MeetingWorkspace) this keeps the loads; of a          *)
(* structural request (Agenda) what it leaves when it is accepted.  A      *)
(* Topic stands for its appearance in the Meeting.                         *)
(***************************************************************************)
EXTENDS CardFields, Sequences, TLC
LOCAL INSTANCE SequencesExt

CONSTANTS Topics,    \* what may be put on the agenda
          Later,     \* those of them that are not due yet
          Sections,  \* of the agenda, in their order
          Minutes,   \* planned durations; 0 for none
          Leads      \* whether the user leads the Meeting

ASSUME PlanConstants ==
    /\ Later \subseteq Topics
    /\ Sections \subseteq Nat /\ 1 \in Sections
    /\ Minutes \subseteq Nat /\ 0 \in Minutes
    /\ Leads \in BOOLEAN

VARIABLES planned,    \* the Meeting and its appearances
          catalogue,  \* the Topics there are
          wanted      \* history: Topics that were added and not removed

planVars == <<planned, catalogue, wanted>>
-----------------------------------------------------------------------------
OnAgenda(items) == UNION {ToSet(items[s]) : s \in Sections}

Without(items, t) == [s \in Sections |-> SelectSeq(items[s], LAMBDA u : u # t)]

\* A Topic is put before the one that has this place among the others.
Put(items, t, target) ==
    [Without(items, t) EXCEPT ![target.section] = InsertAt(@, target.index + 1, t)]

SuggestedDue == catalogue \ (OnAgenda(planned.items) \cup Later)
SuggestedLater == (catalogue \cap Later) \ OnAgenda(planned.items)

\* Two Topics are on the agenda, one of them not due yet.
PlanInit ==
    /\ catalogue = Topics \ {CHOOSE t \in Topics \ Later : TRUE}
    /\ LET first == <<CHOOSE t \in catalogue \ Later : TRUE,
                     CHOOSE t \in catalogue \cap Later : TRUE>>
       IN planned = [status |-> "planned", attends |-> TRUE,
                     items |-> [s \in Sections |-> IF s = 1 THEN first ELSE <<>>],
                     minutes |-> [t \in Topics |-> 0], decided |-> [t \in Topics |-> "none"],
                     card |-> FirstCard]
    /\ wanted = OnAgenda(planned.items)
-----------------------------------------------------------------------------
(* The requests, as the server carries them out *)

\* What the server checks under the Meeting's lock.
Acceptable(op) ==
    /\ planned.status # "completed" \/ op.op = "text"
    /\ CASE op.op = "add" -> ToSet(op.topics) \cap OnAgenda(planned.items) = {}
         [] op.op = "insert" ->
                /\ op.topic \notin OnAgenda(planned.items)
                /\ op.target.index <= Len(planned.items[op.target.section])
         [] op.op = "order" -> OnAgenda(op.items) = OnAgenda(planned.items)
         [] op.op \in {"remove", "minutes", "decide"} -> op.topic \in OnAgenda(planned.items)
         [] op.op = "complete" -> planned.status = "in_progress"
         [] op.op = "text" -> op.revision = planned.card.revision
         [] op.op \in {"details", "attend", "choice"} -> TRUE

Appended(items, op) ==
    [s \in Sections |-> items[s] \o SelectSeq(op.topics, LAMBDA t : op.section[t] = s)]

\* Topics that leave the agenda take their duration and their decision with them.
Applied(op) ==
    CASE op.op = "add" -> [planned EXCEPT !.items = Appended(@, op)]
      [] op.op = "insert" -> [planned EXCEPT !.items = Put(@, op.topic, op.target)]
      [] op.op = "remove" -> [planned EXCEPT !.items = Without(@, op.topic),
                                             !.minutes[op.topic] = 0,
                                             !.decided[op.topic] = "none"]
      [] op.op = "order" -> [planned EXCEPT !.items = op.items]
      [] op.op = "minutes" -> [planned EXCEPT !.minutes[op.topic] = op.minutes]
      [] op.op = "decide" -> [planned EXCEPT !.decided[op.topic] = op.decision]
      [] op.op = "attend" -> [planned EXCEPT !.attends = op.attends]
      [] op.op = "details" -> [planned EXCEPT !.status = op.status]
      [] op.op = "complete" -> [planned EXCEPT !.status = "completed"]
      [] op.op = "choice" -> [planned EXCEPT !.card.choice = op.value, !.card.chosen = @ \cup {op.value}]
      [] op.op = "text" ->
             [planned EXCEPT !.card =
                 [@ EXCEPT !.text = op.value, !.revision = @ + 1, !.stored = @ \cup {op.value},
                           !.unseen = @ \cup ({planned.card.text} \ (IF op.retry THEN Entries
                                                                    ELSE op.seen))]]

CarriedOut(op) ==
    /\ planned' = Applied(op)
    /\ wanted' = CASE op.op = "add" -> wanted \cup ToSet(op.topics)
                   [] op.op = "insert" -> wanted \cup {op.topic}
                   [] op.op = "remove" -> wanted \ {op.topic}
                   [] OTHER -> wanted
    /\ UNCHANGED catalogue
-----------------------------------------------------------------------------
(* What both views do *)

AgendaViews == {"preparation", "agenda"}
OnAgendaView == route \in AgendaViews /\ screen.mounted

NewAgendaView ==
    [mounted |-> TRUE, resolved |-> FALSE, shown |-> Nothing, error |-> FALSE,
     refreshing |-> FALSE, requested |-> FALSE, told |-> FALSE,
     stale |-> FALSE]  \* history: the last load failed

\* The relay tells every connected tab of a change.
ChangeTold(p) ==
    IF p.route \in AgendaViews /\ p.screen.mounted /\ p.text.status = "unlocked"
    THEN [p EXCEPT !.screen.told = TRUE] ELSE p

\* Who asks while a load is under way gets one more load.
AgendaRefresh(p) ==
    IF p.screen.refreshing THEN [p EXCEPT !.screen.requested = TRUE]
    ELSE WithCall([p EXCEPT !.screen.refreshing = TRUE, !.screen.requested = FALSE],
                  Task("load", "asked"))

\* Durations that are being saved are put back, when that fails, in rows that
\* are shown no more.
RowsReplaced(p) ==
    [p EXCEPT !.screen.minutes = p.screen.shown.minutes,
              !.calls = {IF c.kind = "task" /\ c.name = "minutes"
                         THEN [c EXCEPT !.got.row = FALSE] ELSE c : c \in @}]

\* Mutant: a drag goes on over the new agenda.
PublishedUnderDrag(p, agenda) ==
    LET q == [p EXCEPT !.screen.shown = agenda, !.screen.stale = FALSE]
    IN IF p.route = "preparation" THEN RowsReplaced(q) ELSE q

\* The preparation ends a drag, and copies the agenda for its rows; the fields
\* of the agenda follow it.
AgendaPublished(p, agenda) ==
    LET q == [p EXCEPT !.screen.shown = agenda, !.screen.stale = FALSE]
    IN IF p.route = "preparation" THEN RowsReplaced([q EXCEPT !.screen.drag = Nothing])
       ELSE IF p.screen.card # Nothing THEN CardWatched(q, p.screen.shown.card, agenda.card)
       ELSE q

\* Whoever waited for the load goes on: see Settled in the views.
Awoken(p, here, ok) ==
    [p EXCEPT !.calls = {IF c.kind = "task" /\ c.stage = "refreshing" /\ c.here = here
                         THEN [c EXCEPT !.stage = "settled", !.got.ok = ok] ELSE c : c \in @}]

LoopOver(p, ok) == Awoken([p EXCEPT !.screen.refreshing = FALSE], TRUE, ok)

\* The first load of the workspace, and what the view itself asks for.
AgendaViewMounted(p, view) ==
    [p EXCEPT !.screen = view,
              !.calls = @ \cup {Task("open", "asked"), Task("lists", "asked")}]

AgendaServed(c) ==
    /\ \E name \in {"open", "load"} : IsTask(c, name, "asked")
    /\ Become(IF ~server.admits
              THEN PerformLock(Awoken(WithoutCall(Page, c), c.here, FALSE), "authorization-loss")
              ELSE Onward(Page, c, "read", planned))
    /\ UNCHANGED <<planVars, server, left>>

\* The provider that is started with the first load tells of changes from then
\* on, and at once that there may have been some.
AgendaShown(c) ==
    /\ \E name \in {"open", "load"} : IsTask(c, name, "read")
    /\ LET p == WithoutCall(Page, c)
       IN Become(IF ~c.here THEN Awoken(p, FALSE, TRUE)
                 ELSE IF c.name = "open" THEN ChangeTold(AgendaPublished(p, c.got))
                 ELSE IF screen.requested
                 THEN WithCall([p EXCEPT !.screen.requested = FALSE], Task("load", "asked"))
                 ELSE LoopOver(AgendaPublished(p, c.got), TRUE))
    /\ UNCHANGED <<planVars, server, left>>

AgendaFails(c) ==
    /\ \E name \in {"open", "load"} : IsTask(c, name, "asked")
    /\ Spend("fault")
    /\ LET p == WithoutCall(Page, c)
       IN Become(IF ~c.here THEN Awoken(p, FALSE, TRUE)
                 ELSE IF c.name = "open" THEN [p EXCEPT !.screen.stale = TRUE]
                 ELSE LoopOver([p EXCEPT !.screen.stale = TRUE], FALSE))
    /\ UNCHANGED <<planVars, server>>

\* A list is read when it arrives: one that is shown is soon as old as one that
\* comes late.
ListArrives(c) ==
    \/ UNCHANGED left
    \/ c.here /\ Spend("fault")

Listed(c) == c.here /\ server.admits /\ left' = left

AgendaTold ==
    /\ OnAgendaView /\ screen.told /\ text.status = "unlocked"
    /\ Become(AgendaRefresh([Page EXCEPT !.screen.told = FALSE]))
    /\ UNCHANGED <<planVars, server, left>>

\* A workspace that could not be opened is opened again, with the view's lists.
AgendaRetry ==
    /\ OnAgendaView /\ screen.stale /\ screen.shown = Nothing
    /\ ~\E c \in calls : c.kind = "task" /\ c.here /\ c.name \in {"open", "lists"}
    /\ Spend("retry")
    /\ Become(AgendaViewMounted(Page, [screen EXCEPT !.stale = FALSE, !.error = FALSE]))
    /\ UNCHANGED <<planVars, server>>

\* A request, and who waits for its answer.
Operation(op, for) ==
    [Task("operation", "asked") EXCEPT !.got = [op |-> op, for |-> for, ok |-> FALSE]]

\* What is added comes with an encrypted text.
Serves(op) ==
    server.admits /\ Acceptable(op) /\ (op.op \in {"add", "insert", "complete", "text"} => text.scalarEpoch # 0)

OperationServed(c) ==
    /\ c.kind = "task" /\ c.name \in {"operation", "minutes"} /\ c.stage = "asked"
    /\ LET Answer(stage) == Onward(Page, c, stage, c.got)
       IN \/ /\ Serves(c.got.op)
             /\ CarriedOut(c.got.op)
             /\ \/ Become(ChangeTold(Answer("done"))) /\ UNCHANGED left
                \/ Spend("lose") /\ Become(ChangeTold(Answer("failed")))
          \/ /\ IF Serves(c.got.op) THEN Spend("fault") ELSE UNCHANGED left
             /\ Become(Answer("failed"))
             /\ UNCHANGED planVars
    /\ UNCHANGED server

\* The operation ends with the load that follows it.
OperationAnswered(c) ==
    /\ c.kind = "task" /\ c.name \in {"operation", "minutes"} /\ c.stage \in {"done", "failed"}
    /\ LET p == WithoutCall(Page, c)
           ok == c.stage = "done"
       IN Become(IF ~ok /\ ~server.admits
                 THEN PerformLock(Onward(p, c, "settled", c.got), "authorization-loss")
                 ELSE IF ok /\ c.here THEN AgendaRefresh(Onward(p, c, "refreshing", c.got))
                 ELSE Onward(p, c, "settled", [c.got EXCEPT !.ok = ok]))
    /\ UNCHANGED <<planVars, server, left>>

\* What was awaited goes on before anything else happens.
Settling == \E c \in calls : c.kind = "task" /\ c.stage = "settled"

OthersRequests ==
    {[op |-> "add", topics |-> <<t>>, section |-> [u \in Topics |-> s]] :
        t \in catalogue, s \in Sections}
    \cup {[op |-> "remove", topic |-> t] : t \in catalogue}
    \cup {[op |-> "order", items |-> Put(planned.items, t, [section |-> 1, index |-> 0])] :
             t \in OnAgenda(planned.items)}
    \cup {[op |-> "details", status |-> "in_progress"], [op |-> "complete"]}

OthersPlan ==
    /\ Spend("plan")
    /\ \E op \in OthersRequests : Acceptable(op) /\ Applied(op) # planned /\ CarriedOut(op)
    /\ Become(ChangeTold(Page))
    /\ UNCHANGED server

PlannedAgendaNext ==
    \/ AgendaTold \/ AgendaRetry \/ OthersPlan
    \/ \E c \in calls :
           \/ AgendaServed(c) \/ AgendaShown(c) \/ AgendaFails(c)
           \/ OperationServed(c) \/ OperationAnswered(c)
-----------------------------------------------------------------------------
(* Properties *)

\* A view at rest shows the agenda, the decisions and the durations as the
\* server has them, unless its last load failed.
AgendaIsCurrent ==
    (/\ OnAgendaView /\ screen.resolved /\ screen.shown # Nothing /\ text.status = "unlocked"
     /\ ~screen.told /\ ~screen.stale /\ ~\E c \in calls : c.kind = "task")
        => /\ screen.shown = planned
           /\ route = "preparation" => screen.minutes = planned.minutes

\* Whatever order a view sends, and however old what it shows: a Topic that was
\* put on the agenda is there, once, until somebody removes it.
NothingFallsOut ==
    /\ OnAgenda(planned.items) = wanted
    /\ \A s \in Sections : IsInjective(planned.items[s])
    /\ \A s, r \in Sections :
           s # r => ToSet(planned.items[s]) \cap ToSet(planned.items[r]) = {}
=============================================================================
