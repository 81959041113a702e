------------------------------ MODULE MCAgenda -------------------------------
(***************************************************************************)
(* Small instances of Agenda for TLC: Meetings 1 to 3, Topic 1 recurring   *)
(* every second date, the others mostly not, sections s1 and s2.           *)
(***************************************************************************)
EXTENDS Agenda, TLC

CONSTANTS a, b, s1, s2

Only(kinds) == [operation \in Operations |->
                   IF operation \in DOMAIN kinds THEN kinds[operation] ELSE 0]

Planning(date) == [status |-> "planned", date |-> date]
NoMeeting == [status |-> "none", date |-> 0]
Recurring == [type |-> "recurring", status |-> "open", first |-> 0, section |-> s1, place |-> 0]
Generic == [Recurring EXCEPT !.type = "generic"]
At(id, s, position, source) ==
    [id |-> id, section |-> s, position |-> position, source |-> source, edited |-> FALSE,
     decision |-> "none"]

None == [p \in {} |-> 0]

\* Two Meetings are planned; Topic 1 is scheduled in the first, Topic 2 was added.
Scheduled(kinds) ==
    [meeting |-> 1 :> Planning(1) @@ 2 :> Planning(2) @@ 3 :> NoMeeting,
     topic |-> 1 :> Recurring @@ 2 :> Generic @@ 3 :> Generic,
     agenda |-> 1 :> (1 :> At(1, s1, 2, "recurrence") @@ 2 :> At(2, s1, 1, "manual"))
                @@ 2 :> None @@ 3 :> None,
     skips |-> {}, section |-> s1 :> 1 @@ s2 :> 2, ids |-> 2,
     loaded |-> {1, 2}, left |-> Only(kinds)]

\* A third Meeting was created; the browser that did it never scheduled Topic 1 there.
Behind(kinds) ==
    [Scheduled(kinds) EXCEPT
        !.meeting[3] = Planning(3),
        !.agenda[1] = 3 :> At(3, s1, 3, "manual") @@ @,
        !.ids = 3, !.loaded = {1, 2, 3}]

\* Three Meetings, and two recurring Topics that are due in the first and the third.
Series(kinds) ==
    [Scheduled(kinds) EXCEPT
        !.meeting[3] = Planning(3),
        !.topic[2] = [Recurring EXCEPT !.place = 1],
        !.agenda = 1 :> (1 :> At(1, s1, 2, "recurrence") @@ 2 :> At(2, s1, 1, "recurrence"))
                   @@ 2 :> None
                   @@ 3 :> (1 :> At(3, s1, 2, "recurrence") @@ 2 :> At(4, s1, 1, "recurrence")),
        !.ids = 4, !.loaded = {1, 2, 3}]

\* One Meeting and one section, which is not the only possible one.
Alone(kinds) ==
    [Scheduled(kinds) EXCEPT !.meeting[2] = NoMeeting, !.section[s2] = 0, !.loaded = {1}]

\* The first Meeting has begun.
Begun(kinds) == [Scheduled(kinds) EXCEPT !.meeting[1].status = "in_progress"]

MCStarts == {
    Scheduled([create |-> 1, remove |-> 1]),
    Scheduled([create |-> 1, topic |-> 1]),
    Scheduled([update |-> 1, remove |-> 1, restore |-> 1]),
    Scheduled([update |-> 1, note |-> 1, lose |-> 1, open |-> 1]),
    Scheduled([update |-> 1, topic |-> 1]),
    Series([update |-> 1, note |-> 1]),
    Scheduled([add |-> 1, remove |-> 1, reorder |-> 1, repeat |-> 1]),
    Scheduled([batch |-> 1, remove |-> 1, section |-> 1]),
    Behind([remove |-> 3]),
    Alone([add |-> 1, section |-> 2]),
    Begun([complete |-> 1, decide |-> 1, topic |-> 1]),
    Begun([complete |-> 1, add |-> 1, remove |-> 1, write |-> 1])}

\* Somebody prepares a Meeting whose date is changed.
MCTextStarts == {Scheduled([update |-> 1, write |-> 1])}

\* A Topic is made recurring on the page of Topics, where no Meeting is open.
MCScheduleStarts == {[Scheduled([topic |-> 1]) EXCEPT !.topic[3].first = 2, !.loaded = {}]}

Symmetric == Permutations(Browsers)
=============================================================================
