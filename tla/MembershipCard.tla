--------------------------- MODULE MembershipCard ---------------------------
(***************************************************************************)
(* The steps of the two fields of CardFields in the agenda: typing, the    *)
(* timer, requests that are answered, retries, and others who change the   *)
(* same Topic meanwhile.                                                   *)
(***************************************************************************)
EXTENDS AgendaPage

OnCard == OnAgendaPage /\ screen.card # Nothing

CanType == OnCard /\ CanEdit /\ text.status = "unlocked" /\ screen.dialog = "none"
-----------------------------------------------------------------------------
(* The text *)

\* One request at a time; what is queued meanwhile waits for its answer.
TextDrained(p) ==
    LET f == p.screen.card.text
        sent == [op |-> "text", value |-> f.queued, revision |-> f.revision,
                 retry |-> f.retried, seen |-> f.seen]
    IN IF f.saving \/ f.queued = Nothing THEN p
       ELSE IF f.queued = f.persisted THEN [p EXCEPT !.screen.card.text.queued = Nothing]
       ELSE WithCall([p EXCEPT !.screen.card.text =
                         [f EXCEPT !.queued = Nothing, !.saving = TRUE, !.state = "saving",
                                   !.moved = FALSE, !.retried = FALSE]],
                     Operation(sent, "text"))

TextSaved(p) ==
    TextDrained([p EXCEPT !.screen.card.text.typed = FALSE,
                          !.screen.card.text.queued = p.screen.card.text.local])

TypeText ==
    /\ CanType
    /\ Spend("edit")
    /\ \E x \in Entries \ {screen.card.text.local} :
           Become([Page EXCEPT !.screen.card.text =
                      [@ EXCEPT !.local = x, !.seen = @ \cup {x}, !.state = "idle",
                                !.typed = TRUE]])
    /\ UNCHANGED <<planVars, server>>

\* After 600 ms without another key.
TextTimer ==
    /\ OnCard /\ screen.card.text.typed
    /\ Become(TextSaved(Page))
    /\ UNCHANGED <<planVars, server, left>>

BlurText ==
    /\ CanType
    /\ Spend("save")
    /\ Become(TextSaved(Page))
    /\ UNCHANGED <<planVars, server>>

\* Who retries means to overwrite what there is.
RetryText ==
    /\ CanType /\ screen.card.text.state = "error"
    /\ Spend("retry")
    /\ Become(TextSaved([Page EXCEPT !.screen.card.text.revision = screen.shown.card.revision,
                                     !.screen.card.text.retried = TRUE]))
    /\ UNCHANGED <<planVars, server>>

\* The draft goes on from what it saved, unless others have saved since.
TextAnswered(p, op, ok) ==
    LET f == p.screen.card.text
        persisted == IF f.moved THEN f.persisted ELSE op.value
        saved == [f EXCEPT !.saving = FALSE, !.state = "saved", !.persisted = persisted,
                           !.revision = IF persisted = op.value
                                        THEN p.screen.shown.card.revision ELSE @]
    IN IF ok THEN TextDrained([p EXCEPT !.screen.card.text = saved])
       ELSE [p EXCEPT !.screen.card.text =
                [f EXCEPT !.saving = FALSE, !.state = "error", !.queued = Nothing]]
-----------------------------------------------------------------------------
(* The choice *)

\* A choice that is queued is sent when the one before has been answered.
ChoiceSent(p) ==
    WithCall([p EXCEPT !.screen.card.choice =
                 [@ EXCEPT !.queued = Nothing, !.saving = TRUE, !.state = "saving"]],
             Operation([op |-> "choice", value |-> p.screen.card.choice.queued], "choice"))

ChoiceDrained(p) ==
    IF p.screen.card.choice.saving THEN p
    ELSE ChoiceSent([p EXCEPT !.screen.card.choice.moved = FALSE])

Choose(x) ==
    /\ CanType
    /\ Spend("change")
    /\ Become(ChoiceDrained([Page EXCEPT !.screen.card.choice.value = x,
                                         !.screen.card.choice.queued = x]))
    /\ UNCHANGED <<planVars, server>>

\* After the last of them the field shows the Topic's choice if that has changed.
ChoiceAnswered(p, ok) ==
    LET f == p.screen.card.choice
    IN IF ~ok THEN [p EXCEPT !.screen.card.choice =
                       [f EXCEPT !.saving = FALSE, !.state = "error", !.queued = Nothing]]
       ELSE IF f.queued # Nothing THEN ChoiceSent(p)
       ELSE [p EXCEPT !.screen.card.choice =
                [f EXCEPT !.saving = FALSE, !.state = "saved",
                          !.value = IF f.moved THEN p.screen.shown.card.choice ELSE @]]
-----------------------------------------------------------------------------
FieldSettled(c) ==
    /\ IsTask(c, "operation", "settled")
    /\ c.got.for \in {"text", "choice"}
    /\ LET p == WithoutCall(Page, c)
       IN Become(IF ~c.here THEN p
                 ELSE IF c.got.for = "text" THEN TextAnswered(p, c.got.op, c.got.ok)
                 ELSE ChoiceAnswered(p, c.got.ok))
    /\ UNCHANGED <<planVars, server, left>>

OthersRetype ==
    /\ Spend("retype")
    /\ \E x \in Entries :
           planned' \in {[planned EXCEPT !.card.text = x, !.card.revision = @ + 1],
                         [planned EXCEPT !.card.choice = x]} \ {planned}
    /\ Become(ChangeTold(Page))
    /\ UNCHANGED <<catalogue, wanted, server>>

MembershipCardNext ==
    \/ \E c \in calls : FieldSettled(c)
    \/ /\ ~Settling
       /\ \/ TypeText \/ TextTimer \/ BlurText \/ RetryText \/ OthersRetype
          \/ \E x \in Entries : Choose(x)
-----------------------------------------------------------------------------
(* Properties *)

\* While the card is on the page, what was typed or chosen is stored, is about to
\* be, or is said not to be; and, at any time, what others have stored is not
\* overwritten by who has not seen it, unless they were told and retried.
FieldsAreKept ==
    /\ planned.card.unseen = {}
    /\ OnCard =>
        LET f == screen.card.text
            g == screen.card.choice
        IN /\ (~f.typed /\ ~f.saving /\ f.state # "error") =>
                  f.local = f.persisted \/ f.local \in planned.card.stored
           /\ (~g.saving /\ g.state # "error") =>
                  g.value = screen.shown.card.choice \/ g.value \in planned.card.chosen

\* A field that is at rest shows what the agenda has that is shown.
FieldsAreCurrent ==
    (OnCard /\ ~Settling /\ ~screen.card.choice.saving /\ screen.card.choice.state # "error")
        => screen.card.choice.value = screen.shown.card.choice

TextIsCurrent ==
    (OnCard /\ ~Settling /\ ~screen.card.text.saving /\ ~screen.card.text.typed
     /\ screen.card.text.state # "error")
        => screen.card.text.local = screen.shown.card.text
=============================================================================
