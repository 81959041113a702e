----------------------------- MODULE AgendaPage -----------------------------
(***************************************************************************)
(* The view from which a Meeting is held (MeetingAgendaView.vue): Topics   *)
(* are moved up and down and decided, participants come and go, the        *)
(* details are edited, the Meeting is finished.                            *)
(*                                                                         *)
(* Unlike in the preparation nothing is disabled while a request is under  *)
(* way, but for the finish: requests overlap, and each is made from the    *)
(* agenda that was shown when it was asked for.                            *)
(***************************************************************************)
EXTENDS PlannedAgenda
LOCAL INSTANCE SequencesExt

OnAgendaPage == route = "agenda" /\ screen.mounted

NewAgendaPage ==
    NewAgendaView @@
    [dialog |-> "none", status |-> "planned", finishing |-> FALSE, finishError |-> FALSE,
     card |-> Nothing]

VisitAgenda ==
    /\ route = "elsewhere" /\ text.user /\ UserCanAct
    /\ Spend("agenda")
    /\ Become(Entered(Page, "agenda"))
    /\ UNCHANGED <<planVars, server>>

LeaveAgenda ==
    /\ route = "agenda"
    /\ Spend("leave")
    /\ Become(Left(Page))
    /\ UNCHANGED <<planVars, server>>

\* The link may ask for the details to be opened first.
AgendaMounted ==
    /\ route = "agenda" /\ ~screen.mounted
    /\ LET p == AgendaViewMounted(Page, NewAgendaPage)
       IN Become(p) \/ Become(WithCall(p, Task("edit", "asked")))
    /\ UNCHANGED <<planVars, server, left>>

StillOpening == \E c \in calls : c.kind = "task" /\ c.name = "open" /\ c.here

\* Sections and users: without them no Topic is shown.
SectionsArrive(c) ==
    /\ IsTask(c, "lists", "asked")
    /\ route = "agenda" /\ c.here /\ ~StillOpening
    /\ ListArrives(c)
    /\ LET p == WithoutCall(Page, c)
       IN Become(Denied(IF ~Listed(c) \/ screen.shown = Nothing
                        THEN [p EXCEPT !.screen.error = TRUE]
                        ELSE [p EXCEPT !.screen.resolved = TRUE,
                                       !.screen.card = NewCard(p.screen.shown.card)]))
    /\ UNCHANGED <<planVars, server>>

\* The form is filled with the details as they are shown, and keeps them.
EditOpened(p) ==
    IF p.screen.shown = Nothing THEN p
    ELSE [p EXCEPT !.screen.dialog = "edit", !.screen.status = p.screen.shown.status]

EditFirst(c) ==
    /\ IsTask(c, "edit", "asked")
    /\ c.here => ~StillOpening
    /\ LET p == WithoutCall(Page, c) IN Become(IF c.here THEN EditOpened(p) ELSE p)
    /\ UNCHANGED <<planVars, server, left>>
-----------------------------------------------------------------------------
(* Requests *)

\* Protected text may be locked, but for the finish.
CanEdit ==
    /\ OnAgendaPage /\ text.manages /\ UserCanAct
    /\ screen.shown # Nothing /\ screen.shown.status # "completed"

Asked(p, op) == WithCall(p, Operation(op, "view"))

Shows(t) == screen.resolved /\ screen.dialog = "none" /\ t \in OnAgenda(screen.shown.items)

\* A Topic changes places with the one above or below it in its section.
Swapped(items, s, i) == [items EXCEPT ![s][i] = items[s][i + 1], ![s][i + 1] = items[s][i]]

Move(t) ==
    /\ CanEdit /\ Shows(t)
    /\ Spend("manage")
    /\ \E s \in Sections : \E i \in 1 .. Len(screen.shown.items[s]) - 1 :
           /\ t \in {screen.shown.items[s][i], screen.shown.items[s][i + 1]}
           /\ Become(Asked(Page, [op |-> "order", items |-> Swapped(screen.shown.items, s, i)]))
    /\ UNCHANGED <<planVars, server>>

\* A decision is taken, or taken back if it is the one that is shown.
SetTopicStatus(t, decision) ==
    /\ CanEdit /\ Shows(t) /\ text.status = "unlocked"
    /\ screen.shown.status = "in_progress"
    /\ Spend("manage")
    /\ Become(Asked([Page EXCEPT !.screen.error = FALSE],
                    [op |-> "decide", topic |-> t,
                     decision |-> IF screen.shown.decided[t] = decision THEN "none"
                                  ELSE decision]))
    /\ UNCHANGED <<planVars, server>>

RemoveParticipant ==
    /\ CanEdit /\ screen.dialog = "none" /\ screen.shown.attends
    /\ Spend("manage")
    /\ Become(Asked(Page, [op |-> "attend", attends |-> FALSE]))
    /\ UNCHANGED <<planVars, server>>

OpenAgendaDialog(dialog) ==
    /\ CanEdit /\ screen.dialog = "none"
    /\ dialog = "finish" =>
           Leads /\ screen.shown.status = "in_progress" /\ text.status = "unlocked"
    /\ Spend("manage")
    /\ Become(IF dialog = "edit" THEN EditOpened(Page)
              ELSE [Page EXCEPT !.screen.dialog = dialog])
    /\ UNCHANGED <<planVars, server>>

CloseAgendaDialog ==
    /\ OnAgendaPage /\ screen.dialog # "none"
    /\ screen.dialog = "finish" => ~screen.finishing
    /\ Become([Page EXCEPT !.screen.dialog = "none"])
    /\ UNCHANGED <<planVars, server, left>>

AddParticipant ==
    /\ CanEdit /\ screen.dialog = "attend"
    /\ Spend("manage")
    /\ Become(Asked(Page, [op |-> "attend", attends |-> TRUE]))
    /\ UNCHANGED <<planVars, server>>

\* All of the form is sent, what its user left alone included.
SaveMeeting ==
    /\ CanEdit /\ screen.dialog = "edit"
    /\ Spend("manage")
    /\ \E status \in {screen.status, "planned", "in_progress"} :
           Become(Asked(Page, [op |-> "details", status |-> status]))
    /\ UNCHANGED <<planVars, server>>

\* What the workspace does to finish a Meeting is in MeetingWorkspace.
FinishMeeting ==
    /\ OnAgendaPage /\ screen.dialog = "finish" /\ ~screen.finishing /\ UserCanAct
    /\ text.status = "unlocked"
    /\ Become(Asked([Page EXCEPT !.screen.finishing = TRUE, !.screen.finishError = FALSE],
                    [op |-> "complete"]))
    /\ UNCHANGED <<planVars, server, left>>

\* Mutant: the button comes back only when all went well.
RequestEndsWell(p, op, ok) ==
    LET closes == CASE op.op = "details" -> "edit" [] op.op = "complete" -> "finish"
                    [] op.op = "attend" /\ op.attends -> "attend" [] OTHER -> "none"
        q == [p EXCEPT !.screen.dialog = IF ok /\ @ = closes THEN "none" ELSE @]
    IN CASE op.op = "complete" -> [q EXCEPT !.screen.finishing = @ /\ ~ok,
                                            !.screen.finishError = ~ok]
         [] op.op = "decide" -> [q EXCEPT !.screen.error = @ \/ ~ok]
         [] OTHER -> q

\* Dialogs close when their request was answered; a failure is only told of by
\* the decisions and the finish.
RequestEnds(p, op, ok) ==
    LET closes == CASE op.op = "details" -> "edit" [] op.op = "complete" -> "finish"
                    [] op.op = "attend" /\ op.attends -> "attend" [] OTHER -> "none"
        q == [p EXCEPT !.screen.dialog = IF ok /\ @ = closes THEN "none" ELSE @]
    IN CASE op.op = "complete" -> [q EXCEPT !.screen.finishing = FALSE,
                                            !.screen.finishError = ~ok]
         [] op.op = "decide" -> [q EXCEPT !.screen.error = @ \/ ~ok]
         [] OTHER -> q

RequestSettled(c) ==
    /\ IsTask(c, "operation", "settled")
    /\ c.got.for = "view"
    /\ LET p == WithoutCall(Page, c)
       IN Become(IF c.here THEN RequestEnds(p, c.got.op, c.got.ok) ELSE p)
    /\ UNCHANGED <<planVars, server, left>>

AgendaPageNext ==
    \/ \E c \in calls : RequestSettled(c)
    \/ /\ ~Settling
       /\ \/ VisitAgenda \/ LeaveAgenda \/ AgendaMounted
          \/ RemoveParticipant \/ CloseAgendaDialog \/ AddParticipant \/ SaveMeeting
          \/ FinishMeeting
          \/ \E t \in Topics :
                 Move(t) \/ \E decision \in {"done", "deferred"} : SetTopicStatus(t, decision)
          \/ \E dialog \in {"edit", "attend", "finish"} : OpenAgendaDialog(dialog)
          \/ \E c \in calls : SectionsArrive(c) \/ EditFirst(c)
=============================================================================
