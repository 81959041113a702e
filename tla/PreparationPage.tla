-------------------------- MODULE PreparationPage --------------------------
(***************************************************************************)
(* The view in which a Meeting is prepared (MeetingPreparationView.vue,    *)
(* usePreparationDrag.ts): Topics are dragged to and on the agenda, chosen *)
(* from suggestions, created, removed, given a duration; the details are   *)
(* edited and the Meeting is started.                                      *)
(*                                                                         *)
(* Most changes are made one at a time (pending): a request, the load that *)
(* follows it, and the suggestions.  Durations are saved next to that, one *)
(* after the other for each Topic.  A drag changes nothing until it ends.  *)
(***************************************************************************)
EXTENDS PlannedAgenda
LOCAL INSTANCE SequencesExt

OnPreparation == route = "preparation" /\ screen.mounted

NewPreparation ==
    NewAgendaView @@
    [pending |-> FALSE, due |-> {}, future |-> {}, showFuture |-> FALSE,
     selected |-> {}, drag |-> Nothing, minutes |-> [t \in Topics |-> 0],
     dialog |-> "none", status |-> "planned", starting |-> FALSE]

VisitPreparation ==
    /\ route = "elsewhere" /\ text.user /\ text.manages /\ UserCanAct
    /\ Spend("prepare")
    /\ Become(Entered(Page, "preparation"))
    /\ UNCHANGED <<planVars, server>>

LeavePreparation ==
    /\ route = "preparation"
    /\ Spend("leave")
    /\ Become(Left(Page))
    /\ UNCHANGED <<planVars, server>>

PreparationMounted ==
    /\ route = "preparation" /\ ~screen.mounted
    /\ Become(AgendaViewMounted(Page, NewPreparation))
    /\ UNCHANGED <<planVars, server, left>>
-----------------------------------------------------------------------------
(* The lists *)

\* The view needs its lists and the workspace: all of them, or it says that it
\* could not load.
ListsArrive(c) ==
    /\ IsTask(c, "lists", "asked")
    /\ route = "preparation" \/ ~c.here
    /\ c.here => ~\E d \in calls : d.kind = "task" /\ d.name = "open" /\ d.here
    /\ ListArrives(c)
    /\ LET p == WithoutCall(Page, c)
       IN Become(Denied(
                 IF ~c.here THEN p
                 ELSE IF ~Listed(c) \/ screen.shown = Nothing
                 THEN [p EXCEPT !.screen.error = TRUE]
                 ELSE RowsReplaced([p EXCEPT !.screen.resolved = TRUE,
                                             !.screen.due = SuggestedDue])))
    /\ UNCHANGED <<planVars, server>>

ToggleFutureTopics ==
    /\ OnPreparation /\ screen.shown # Nothing /\ screen.shown.status # "completed"
    /\ ~screen.pending /\ ~\E c \in calls : c.kind = "task" /\ c.name = "future" /\ c.here
    /\ Spend("manage")
    /\ Become(IF screen.showFuture
              THEN [Page EXCEPT !.screen.showFuture = FALSE, !.screen.future = {}]
              ELSE WithCall([Page EXCEPT !.screen.error = FALSE], Task("future", "asked")))
    /\ UNCHANGED <<planVars, server>>

FutureTopicsArrive(c) ==
    /\ IsTask(c, "future", "asked")
    /\ ListArrives(c)
    /\ LET p == WithoutCall(Page, c)
       IN Become(Denied(
                 IF ~c.here THEN p
                 ELSE IF ~Listed(c) THEN [p EXCEPT !.screen.error = TRUE]
                 ELSE [p EXCEPT !.screen.future = SuggestedLater, !.screen.showFuture = TRUE]))
    /\ UNCHANGED <<planVars, server>>

Suggestions == screen.due \cup screen.future

\* The rows of the view: none before its lists are there.
Rows == IF screen.resolved THEN screen.shown.items ELSE [s \in Sections |-> <<>>]
-----------------------------------------------------------------------------
(* One operation at a time *)

\* What is dragged is let go.
WithOperation(p, op, for) ==
    IF p.screen.pending THEN p
    ELSE WithCall([p EXCEPT !.screen.pending = TRUE, !.screen.error = FALSE,
                            !.screen.drag = Nothing], Operation(op, for))

\* However it ends, the suggestions are read again; operations of a view that
\* is gone end without.
OperationSettled(c) ==
    /\ IsTask(c, "operation", "settled")
    /\ c.got.for \notin {"view", "text", "choice"}
    /\ LET p == WithoutCall(Page, c)
       IN Become(IF ~c.here THEN p
                 ELSE IF c.got.for = "start"
                 THEN IF c.got.ok THEN Entered(Left(p), "agenda")
                      ELSE [p EXCEPT !.screen.starting = FALSE, !.screen.error = TRUE]
                 ELSE WithCall([p EXCEPT !.screen.error = @ \/ ~c.got.ok],
                               [Task("suggest", "asked") EXCEPT
                                   !.got = [ok |-> c.got.ok, for |-> c.got.for]]))
    /\ UNCHANGED <<planVars, server, left>>

OperationOver(c) ==
    /\ IsTask(c, "suggest", "asked")
    /\ ListArrives(c)
    /\ LET p == WithoutCall(Page, c)
           q == RowsReplaced([p EXCEPT !.screen.pending = FALSE,
                                       !.screen.due = IF Listed(c) THEN SuggestedDue ELSE @])
           closes == c.got.for = "details" \/ (c.got.ok /\ c.got.for = "create")
       IN Become(Denied(
                 IF ~c.here THEN p
                 ELSE [q EXCEPT !.screen.selected =
                                    IF c.got.ok /\ c.got.for = "selected" THEN {} ELSE @,
                                !.screen.dialog = IF closes THEN "none" ELSE @]))
    /\ UNCHANGED <<planVars, server>>

\* Controls that an operation disables.
Manages ==
    /\ OnPreparation /\ screen.resolved /\ ~screen.pending /\ UserCanAct
    /\ screen.shown.status # "completed" /\ screen.dialog = "none" /\ screen.drag = Nothing

RemoveTopic(t) ==
    /\ Manages /\ t \in OnAgenda(Rows)
    /\ Spend("manage")
    /\ Become(WithOperation(Page, [op |-> "remove", topic |-> t], "change"))
    /\ UNCHANGED <<planVars, server>>

\* Topics are collected, and added to the end of the section chosen for each.
ToggleSelected(t) ==
    /\ Manages /\ t \in Suggestions
    /\ Spend("manage")
    /\ Become([Page EXCEPT !.screen.selected = IF t \in @ THEN @ \ {t} ELSE @ \cup {t}])
    /\ UNCHANGED <<planVars, server>>

AddSelected ==
    /\ Manages /\ screen.selected \cap Suggestions # {}
    /\ Become(WithOperation(Page,
                  [op |-> "add", topics |-> SetToSeq(screen.selected \cap Suggestions),
                   section |-> [t \in Topics |-> 1]], "selected"))
    /\ UNCHANGED <<planVars, server, left>>
-----------------------------------------------------------------------------
(* Dragging *)

\* Where a Topic can be let go: before or after any of the other rows.
Targets(t) ==
    {[section |-> s, index |-> i] : s \in Sections, i \in 0 .. Cardinality(Topics)}
        \cap UNION {{[section |-> s, index |-> i] : i \in 0 .. Len(Without(Rows, t)[s])} :
                       s \in Sections}

StartDrag(kind, t) ==
    /\ Manages
    /\ t \in IF kind = "agenda" THEN OnAgenda(Rows) ELSE Suggestions
    /\ Spend("drag")
    /\ Become([Page EXCEPT !.screen.drag = [kind |-> kind, topic |-> t, target |-> Nothing]])
    /\ UNCHANGED <<planVars, server>>

\* The pointer moves over the sections, or out of them.
MoveDrag(target) ==
    /\ OnPreparation /\ screen.drag # Nothing /\ target # screen.drag.target
    /\ Become([Page EXCEPT !.screen.drag.target = target])
    /\ UNCHANGED <<planVars, server, left>>

\* Escape, a lost pointer, or a release that aims at nothing.
CancelDrag ==
    /\ OnPreparation /\ screen.drag # Nothing
    /\ Become([Page EXCEPT !.screen.drag = Nothing])
    /\ UNCHANGED <<planVars, server, left>>

\* A suggestion may have gone meanwhile; a row that is put back is no change.
LetGo(p, drag) ==
    LET moved == Put(Rows, drag.topic, drag.target)
    IN IF drag.kind = "suggestion"
       THEN IF drag.topic \notin Suggestions THEN p
            ELSE WithOperation(p, [op |-> "insert", topic |-> drag.topic,
                                   target |-> drag.target], "change")
       ELSE IF drag.topic \notin OnAgenda(Rows) \/ moved = Rows THEN p
       ELSE WithOperation(p, [op |-> "order", items |-> moved], "change")

ReleaseDrag ==
    /\ OnPreparation /\ screen.drag # Nothing /\ screen.drag.target # Nothing
    /\ Become(LetGo([Page EXCEPT !.screen.drag = Nothing], screen.drag))
    /\ UNCHANGED <<planVars, server, left>>
-----------------------------------------------------------------------------
(* Durations *)

SavesOf(t) == {c \in calls : c.kind = "task" /\ c.name = "minutes" /\ c.got.op.topic = t}

\* The row shows the choice at once; saves of a Topic wait for each other.
SaveDuration(t, minutes) ==
    /\ Manages /\ t \in OnAgenda(Rows) /\ screen.minutes[t] # minutes
    /\ Spend("minutes")
    /\ Become(WithCall([Page EXCEPT !.screen.minutes[t] = minutes, !.screen.error = FALSE],
                  [Task("minutes", IF SavesOf(t) = {} THEN "asked" ELSE "queued") EXCEPT
                      !.got = [op |-> [op |-> "minutes", topic |-> t, minutes |-> minutes],
                               turn |-> Cardinality(SavesOf(t)), row |-> TRUE, ok |-> FALSE,
                               before |-> screen.minutes[t]]]))
    /\ UNCHANGED <<planVars, server>>

NextInLine(p, t) ==
    [p EXCEPT !.calls =
        {IF c.kind = "task" /\ c.name = "minutes" /\ c.got.op.topic = t
         THEN [c EXCEPT !.got.turn = @ - 1,
                        !.stage = IF c.got.turn = 1 THEN "asked" ELSE @] ELSE c : c \in @}]

\* A choice that could not be saved is taken back, if it is still the last one.
DurationSettled(c) ==
    /\ IsTask(c, "minutes", "settled")
    /\ LET p == NextInLine(WithoutCall(Page, c), c.got.op.topic)
           t == c.got.op.topic
           last == c.got.row /\ screen.minutes[t] = c.got.op.minutes
       IN Become(IF c.got.ok \/ ~c.here THEN p
                 ELSE [p EXCEPT !.screen.error = TRUE,
                                !.screen.minutes[t] = IF last THEN c.got.before ELSE @])
    /\ UNCHANGED <<planVars, server, left>>
-----------------------------------------------------------------------------
(* Dialogs *)

OpenDialog(dialog) ==
    /\ OnPreparation /\ screen.shown # Nothing /\ UserCanAct
    /\ screen.dialog = "none" /\ screen.drag = Nothing
    /\ screen.shown.status # "completed"
    /\ dialog = "start" => screen.shown.status = "planned"
    /\ Spend("manage")
    /\ Become([Page EXCEPT !.screen.dialog = dialog, !.screen.status = screen.shown.status])
    /\ UNCHANGED <<planVars, server>>

CloseDialog ==
    /\ OnPreparation /\ screen.dialog # "none"
    /\ Become([Page EXCEPT !.screen.dialog = "none"])
    /\ UNCHANGED <<planVars, server, left>>

\* While another operation is under way the form is closed without being saved.
SaveDetails(status) ==
    /\ OnPreparation /\ screen.dialog = "details" /\ UserCanAct
    /\ Become(IF screen.pending THEN [Page EXCEPT !.screen.dialog = "none"]
              ELSE WithOperation(Page, [op |-> "details", status |-> status], "details"))
    /\ UNCHANGED <<planVars, server, left>>

StartMeeting ==
    /\ OnPreparation /\ screen.dialog = "start" /\ ~screen.starting /\ UserCanAct
    /\ Become(WithCall([Page EXCEPT !.screen.starting = TRUE],
                       Operation([op |-> "details", status |-> "in_progress"], "start")))
    /\ UNCHANGED <<planVars, server, left>>

CreateAndAdd ==
    /\ OnPreparation /\ screen.dialog = "new" /\ ~screen.pending /\ UserCanAct
    /\ Become(WithCall([Page EXCEPT !.screen.pending = TRUE, !.screen.error = FALSE],
                       Task("create", "asked")))
    /\ UNCHANGED <<planVars, server, left>>

\* The Topic is there, whatever becomes of the request that puts it on the agenda.
CreateServed(c) ==
    /\ IsTask(c, "create", "asked")
    /\ \E t \in Topics \ catalogue : server.admits /\ text.scalarEpoch # 0
    /\ LET t == CHOOSE u \in Topics \ catalogue : TRUE
       IN /\ catalogue' = catalogue \cup {t}
          /\ Become(Onward(Page, c, "done", [topic |-> t, ok |-> TRUE]))
    /\ UNCHANGED <<planned, wanted, server, left>>

CreateRefused(c) ==
    /\ IsTask(c, "create", "asked")
    /\ ~\E t \in Topics \ catalogue : server.admits /\ text.scalarEpoch # 0
    /\ Become(Onward(Page, c, "done", [ok |-> FALSE]))
    /\ UNCHANGED <<planVars, server, left>>

\* It goes on when the view is gone.
CreateAnswered(c) ==
    /\ IsTask(c, "create", "done")
    /\ LET p == WithoutCall(Page, c)
           suggest == [Task("suggest", "asked") EXCEPT
                          !.got = [ok |-> c.got.ok, for |-> "create"]]
           add == Operation([op |-> "add", topics |-> <<c.got.topic>>,
                             section |-> [t \in Topics |-> 1]], "create")
       IN Become(IF c.got.ok /\ Leads THEN WithCall(p, [add EXCEPT !.here = c.here])
                 ELSE IF ~c.here THEN p
                 ELSE WithCall([p EXCEPT !.screen.error = ~c.got.ok], suggest))
    /\ UNCHANGED <<planVars, server, left>>

PreparationNext ==
    \/ \E c \in calls : OperationSettled(c) \/ DurationSettled(c)
    \/ /\ ~Settling
       /\ \/ VisitPreparation \/ LeavePreparation \/ PreparationMounted
          \/ ToggleFutureTopics \/ AddSelected \/ CancelDrag \/ ReleaseDrag
          \/ CloseDialog \/ StartMeeting \/ CreateAndAdd
          \/ \E t \in Topics :
                 \/ RemoveTopic(t) \/ ToggleSelected(t)
                 \/ \E kind \in {"agenda", "suggestion"} : StartDrag(kind, t)
                 \/ \E minutes \in Minutes : SaveDuration(t, minutes)
          \/ /\ OnPreparation /\ screen.drag # Nothing
             /\ \E target \in Targets(screen.drag.topic) \cup {Nothing} : MoveDrag(target)
          \/ \E dialog \in {"details", "start", "new"} : OpenDialog(dialog)
          \/ \E status \in {"planned", "in_progress"} : SaveDetails(status)
          \/ \E c \in calls :
                 \/ ListsArrive(c) \/ FutureTopicsArrive(c) \/ OperationOver(c)
                 \/ CreateServed(c) \/ CreateRefused(c) \/ CreateAnswered(c)
-----------------------------------------------------------------------------
(* Properties *)

\* Where a drag aims is a place on the agenda that is shown: it is never let go
\* over an agenda that changed under it, nor while a change is under way.
DragFitsAgenda ==
    OnPreparation /\ screen.drag # Nothing =>
        /\ ~screen.pending
        /\ screen.drag.kind = "agenda" => screen.drag.topic \in OnAgenda(Rows)
        /\ screen.drag.target # Nothing =>
               screen.drag.target \in Targets(screen.drag.topic)

\* Rows show a duration that was stored, or one that is being saved.
ShownDurationIsReal ==
    OnPreparation /\ screen.resolved /\ ~screen.told /\ ~screen.stale
        /\ ~\E c \in calls : c.kind = "task"
        => screen.minutes = planned.minutes

\* A form that was submitted is sent, or its user is told.
SubmittedIsSent ==
    [][OnPreparation /\ screen.dialog = "details" /\ screen.pending /\ screen'.dialog = "none"
          => \E c \in calls : c.kind = "task" /\ c.name = "suggest" /\ c.got.for = "details"]_vars
=============================================================================
