----------------------------- MODULE CardFields -----------------------------
(***************************************************************************)
(* The fields of a membership Topic in the agenda that save themselves: a  *)
(* text (MembershipInlineText.vue) and a choice (drainSelection in         *)
(* NewMembershipTopicAppearance.vue).  Each has one request under way at   *)
(* most, and a queue of one.  MembershipCard has the steps.                *)
(*                                                                         *)
(* The text is sent with the revision that its draft began with, and the   *)
(* server refuses it when there is a newer one.                            *)
(***************************************************************************)
EXTENDS ProtectedText

CONSTANT Entries  \* what the fields may hold

\* The Topic's two fields in the database.
FirstCard ==
    LET entry == CHOOSE x \in Entries : TRUE
    IN [text |-> entry, revision |-> 1, choice |-> entry,
        stored |-> {}, chosen |-> {},  \* history: what this tab stored
        unseen |-> {}]                 \* history: what it overwrote unseen

NewCard(card) ==
    [text |-> [local |-> card.text, persisted |-> card.text, revision |-> card.revision,
               state |-> "idle", typed |-> FALSE, queued |-> Nothing, saving |-> FALSE,
               moved |-> FALSE, retried |-> FALSE,
               seen |-> {card.text}],  \* history: what the field has shown
     choice |-> [value |-> card.choice, state |-> "idle", queued |-> Nothing,
                 saving |-> FALSE, moved |-> FALSE]]

\* Mutant: a draft takes over the revision of what it has not shown.
TextWatchedAnyhow(field, card) ==
    LET fresh == ~field.saving /\ field.local = field.persisted
    IN [field EXCEPT !.local = IF fresh THEN card.text ELSE @,
                    !.seen = IF fresh THEN @ \cup {card.text} ELSE @,
                    !.revision = card.revision, !.persisted = card.text, !.moved = TRUE]

\* The Topic was loaded again: an untouched field follows it, a draft stays, and
\* stays with the revision it began with.
TextWatched(field, card) ==
    LET fresh == ~field.saving /\ field.local = field.persisted
    IN [field EXCEPT !.local = IF fresh THEN card.text ELSE @,
                    !.seen = IF fresh THEN @ \cup {card.text} ELSE @,
                    !.revision = IF fresh THEN card.revision ELSE @,
                    !.persisted = card.text, !.moved = TRUE]

ChoiceWatched(choice, card) ==
    LET busy == choice.saving \/ choice.state = "error" \/ choice.queued # Nothing
    IN [choice EXCEPT !.moved = TRUE, !.value = IF busy THEN @ ELSE card.choice]

\* Only what changes is noticed.
CardWatched(p, was, card) ==
    [p EXCEPT !.screen.card.text = IF <<was.text, was.revision>> = <<card.text, card.revision>>
                                   THEN @ ELSE TextWatched(@, card),
              !.screen.card.choice = IF was.choice = card.choice THEN @
                                     ELSE ChoiceWatched(@, card)]
=============================================================================
