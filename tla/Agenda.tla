------------------------------- MODULE Agenda -------------------------------
(***************************************************************************)
(* The agendas of Meetings: appearances of Topics in sections, in order    *)
(* (meetings.service.ts), the schedule of recurring Topics                 *)
(* (recurrence.service.ts), the Topics themselves as far as an agenda      *)
(* depends on them (topics.service.ts), the list of sections               *)
(* (agenda-sections.service.ts), and the browser, which reconciles         *)
(* recurring Topics request by request after everything that may have      *)
(* changed their schedule (domain.ts).                                     *)
(*                                                                         *)
(* A request is a transaction at READ COMMITTED: it locks rows one after   *)
(* the other, reads, and commits later.  What it read without a lock may   *)
(* have changed by then; locks that wait for each other are broken by      *)
(* PostgreSQL.  Protected text, the Meeting document and the barrier of a  *)
(* completion are in other modules.                                        *)
(***************************************************************************)
EXTENDS Integers, FiniteSets, Sequences, SequencesExt

CONSTANTS Browsers,
          Meetings,     \* identifiers, numbers: they break ties of the order
          Topics,       \* numbers, too: completions lock them in order
          Sections,
          NoSection,    \* a default section that was deleted
          Dates,        \* dates a Meeting may get
          Interval,     \* of every recurring Topic
          Starts        \* what the database may hold at the start, and the bounds:
                        \* how often each operation is performed from there

Operations == {"create", "update", "complete", "add", "batch", "remove", "reorder",
               "decide", "restore", "topic", "write", "note", "section", "open",
               "lose", "repeat"}

MeetingRow == [status : {"none", "planned", "in_progress", "completed"}, date : Nat]

TopicRow == [type : {"generic", "recurring"}, status : {"open", "done", "deferred"},
             first : Nat, section : Sections \cup {NoSection}, place : Nat]

\* An appearance, when n identifiers were drawn.
Row(n) == [id : 1..n, section : Sections, position : Nat \ {0},
           source : {"manual", "recurrence"}, edited : BOOLEAN,
           decision : {"none", "done", "deferred"}]

\* The agenda of each Meeting: a row for some of the Topics.
AreAgendas(ag, n) ==
    /\ DOMAIN ag = Meetings
    /\ \A m \in Meetings : DOMAIN ag[m] \subseteq Topics /\ ag[m] \in [DOMAIN ag[m] -> Row(n)]

InSection(rows, s) == {p \in DOMAIN rows : rows[p].section = s}
Ids(rows) == {rows[p].id : p \in DOMAIN rows}

Consecutive(positions, n) == positions = 1..n

\* 1, 2, ... in every section.
Numbered(rows) == \A s \in Sections :
    Consecutive({rows[p].position : p \in InSection(rows, s)}, Cardinality(InSection(rows, s)))

NumberedSections(positions) ==
    LET all == {s \in Sections : positions[s] # 0}
    IN Consecutive({positions[s] : s \in all}, Cardinality(all))

\* No appearance is on two agendas, or twice on one.
Unique(ag) == \A m, n \in Meetings : \A p \in DOMAIN ag[m], q \in DOMAIN ag[n] :
    ag[m][p].id = ag[n][q].id => m = n /\ p = q

\* What a skipped date has was added by hand.
ByHandWhere(dates, ag) == \A skip \in dates :
    skip[1] \in DOMAIN ag[skip[2]] => ag[skip[2]][skip[1]].source = "manual"

\* What a database may hold: numbered agendas of Meetings that exist.
Legal(start) ==
    /\ start.meeting \in [Meetings -> MeetingRow] /\ start.topic \in [Topics -> TopicRow]
    /\ start.ids \in Nat /\ AreAgendas(start.agenda, start.ids)
    /\ start.section \in [Sections -> Nat] /\ NumberedSections(start.section)
    /\ start.skips \subseteq Topics \X Meetings /\ ByHandWhere(start.skips, start.agenda)
    /\ Unique(start.agenda)
    /\ \A m \in Meetings :
          /\ Numbered(start.agenda[m])
          /\ start.meeting[m].status = "none" => DOMAIN start.agenda[m] = {}
    /\ start.loaded \subseteq Meetings
    /\ start.left \in [Operations -> Nat]

ASSUME AgendaConstants ==
    /\ Meetings \subseteq Nat \ {0} /\ Topics \subseteq Nat /\ Dates \subseteq Nat
    /\ IsFiniteSet(Meetings) /\ IsFiniteSet(Topics) /\ IsFiniteSet(Sections)
    /\ Interval \in Nat \ {0}
    /\ NoSection \notin Sections
    /\ \A start \in Starts : Legal(start)

VARIABLES meeting,  \* the table meetings
          topic,    \* the table topics
          agenda,   \* the table meeting_topics, by Meeting and Topic
          skips,    \* the table skipped_recurrences
          section,  \* the table agenda_sections: positions of those that exist
          mutations,\* meeting_document_mutations: appearances that were added
          tx,       \* the request of each browser that is under way
          job,      \* what each browser does after it
          loaded,   \* Meetings whose document each browser holds
          ids,      \* identifiers that were drawn
          typed,    \* history: appearances whose text somebody has written
          calm,     \* history: nobody has committed since the browser's plan
          left      \* operations the instance still allows

database == <<meeting, topic, agenda, skips, section, mutations>>
vars == <<database, tx, job, loaded, ids, typed, calm, left>>
-----------------------------------------------------------------------------
Allowed(operation) == left[operation] > 0
Spend(operation) == Allowed(operation) /\ left' = [left EXCEPT ![operation] = @ - 1]

Nothing == [x \in {} |-> 0]

\* What f holds and, beyond that, what g does.
Over(f, g) == [x \in DOMAIN f \cup DOMAIN g |-> IF x \in DOMAIN f THEN f[x] ELSE g[x]]

NoOutput == [meeting |-> Nothing, topic |-> Nothing, agenda |-> Nothing,
             section |-> Nothing, skip |-> {}, unskip |-> {}, added |-> {}]

\* A request that wants locks, with the arguments of its operation.
Request(op, m, arg, locks) ==
    [op |-> op, meeting |-> m, arg |-> arg, want |-> locks, held |-> {},
     ready |-> FALSE, seen |-> Nothing, out |-> NoOutput]

NoTx == Request("none", 0, Nothing, <<>>)
Idle == [step |-> "idle", after |-> "none", topic |-> 0, todo |-> {},
         moves |-> <<>>, removals |-> <<>>]

Existing == {m \in Meetings : meeting[m].status # "none"}
Listed == {s \in Sections : section[s] # 0}

\* lockedMutableMeeting.
Mutable(m) == m \in Existing /\ meeting[m].status # "completed"

Init ==
    /\ \E start \in Starts :
          /\ meeting = start.meeting
          /\ topic = start.topic
          /\ agenda = start.agenda
          /\ skips = start.skips
          /\ section = start.section
          /\ ids = start.ids
          /\ loaded = [b \in Browsers |-> start.loaded]
          /\ left = start.left
    /\ mutations = {}
    /\ tx = [b \in Browsers |-> NoTx]
    /\ job = [b \in Browsers |-> Idle]
    /\ typed = {}
    /\ calm = [b \in Browsers |-> FALSE]
-----------------------------------------------------------------------------
(* Agendas: operators on the rows of one Meeting, and on the table, ag, as a *)
(* transaction sees it                                                       *)

Present(ag, id) == \E m \in Meetings, p \in Topics : p \in DOMAIN ag[m] /\ ag[m][p].id = id
Place(ag, id) == CHOOSE place \in Meetings \X Topics :
                    place[2] \in DOMAIN ag[place[1]] /\ ag[place[1]][place[2]].id = id

\* How many of S come before x, and all of S one after the other.
Rank(S, x, before(_, _)) == Cardinality({y \in S : before(y, x)})
InOrder(S, before(_, _)) ==
    [i \in 1..Cardinality(S) |-> CHOOSE x \in S : Rank(S, x, before) = i - 1]

Without(rows, p) == [q \in DOMAIN rows \ {p} |-> rows[q]]

\* Mutant: positions keep the gap.
NormalizedNot(rows, s) == rows

\* normalizeSectionPositions: 1, 2, ... in their order.
Normalized(rows, s) ==
    LET before(q, p) == \/ rows[q].position < rows[p].position
                        \/ rows[q].position = rows[p].position /\ rows[q].id < rows[p].id
    IN [p \in DOMAIN rows |->
          IF rows[p].section # s THEN rows[p]
          ELSE [rows[p] EXCEPT !.position = Rank(InSection(rows, s), p, before) + 1]]

Removed(rows, p) ==
    IF p \notin DOMAIN rows THEN rows ELSE Normalized(Without(rows, p), rows[p].section)

\* The appearances from a position on make room for a new one.
Inserted(rows, p, row) ==
    [q \in DOMAIN rows \cup {p} |->
        IF q = p THEN row
        ELSE IF rows[q].section = row.section /\ rows[q].position >= row.position
             THEN [rows[q] EXCEPT !.position = @ + 1]
             ELSE rows[q]]
-----------------------------------------------------------------------------
(* The schedule of a recurring Topic *)

Before(m, n) == \/ meeting[m].date < meeting[n].date
                \/ meeting[m].date = meeting[n].date /\ m < n

DueAfter(m) == meeting[m].date + Interval

\* Mutant: appearances are moved out of Meetings that have begun.
MovableAnywhere(ag, m, p) ==
    p \in DOMAIN ag[m] /\ ag[m][p].source = "recurrence" /\ ~ag[m][p].edited

\* What the reconciliation may touch.
Movable(ag, m, p) ==
    /\ p \in DOMAIN ag[m]
    /\ ag[m][p].source = "recurrence"
    /\ ~ag[m][p].edited
    /\ meeting[m].status = "planned"
Fixed(ag, m, p) == p \in DOMAIN ag[m] /\ ~Movable(ag, m, p)

\* A Meeting gets the Topic if it is due when the walk comes to it.
Desires(ag, m, p, due) ==
    /\ ~Fixed(ag, m, p)
    /\ meeting[m].status = "planned" /\ meeting[m].date >= due /\ <<p, m>> \notin skips

\* The walk through all Meetings by date: when the Topic t is due as each is reached.
\* An appearance that stays moves the due date on, and so does one that is desired.
Due(ag, p, t) ==
    LET due[m \in Existing] ==
          LET earlier == {n \in Existing : Before(n, m) /\ (Fixed(ag, n, p) \/ Desires(ag, n, p, due[n]))}
          IN IF earlier = {} THEN t.first
             ELSE DueAfter(CHOOSE n \in earlier : \A o \in earlier : o = n \/ Before(o, n))
    IN due

\* An appearance that stays is too early for the walk.
Conflicts(ag, p, due) == \E m \in Existing :
    \/ /\ Fixed(ag, m, p) /\ ag[m][p].source = "recurrence"
       /\ meeting[m].status = "planned" /\ meeting[m].date < due[m]
    \/ /\ Desires(ag, m, p, due[m])
       /\ \E n \in Existing : Before(m, n) /\ Fixed(ag, n, p) /\ meeting[n].date < DueAfter(m)

\* Mutant: the appearance that is there counts among the others.
TargetCountingItself(ag, p, t, m) ==
    LET end == Cardinality(InSection(ag[m], t.section)) + 1
    IN IF t.place = 0 \/ t.place > end THEN end ELSE t.place

\* The position the Topic gets in a Meeting, and whether it is there.
Target(ag, p, t, m) ==
    LET end == Cardinality(InSection(ag[m], t.section) \ {p}) + 1
    IN IF t.place = 0 \/ t.place > end THEN end ELSE t.place
Stable(ag, p, t, m) ==
    p \in DOMAIN ag[m] /\ ag[m][p].section = t.section /\ ag[m][p].position = Target(ag, p, t, m)

EmptyPlan == [valid |-> TRUE, moves |-> <<>>, removals |-> <<>>]

Removals(ag, p, meetings) ==
    LET order == InOrder(meetings, Before)
    IN [i \in 1..Cardinality(meetings) |-> [meeting |-> order[i], id |-> ag[order[i]][p].id]]

\* Each Meeting without its appearance takes its own misplaced one, else the first
\* one that is not needed where it is, else a new one (source 0).
Assigned(ag, p, t, wanted, spare) ==
    LET order == InOrder(wanted, Before)
        from[i \in 1..Cardinality(wanted)] ==
            LET free == spare \ {from[k] : k \in 1..i - 1}
            IN IF order[i] \in free THEN order[i]
               ELSE IF free = {} THEN 0 ELSE InOrder(free, Before)[1]
    IN [i \in 1..Cardinality(wanted) |->
          [meeting |-> order[i], section |-> t.section, position |-> Target(ag, p, t, order[i]),
           source |-> IF from[i] \in spare THEN ag[from[i]][p].id ELSE 0]]

\* buildPlan.  Movable appearances that no Meeting has taken are removed.
PlanOf(ag, p, t) ==
    LET movable == {m \in Existing : Movable(ag, m, p)}
        due == Due(ag, p, t)
        desired == {m \in Existing : Desires(ag, m, p, due[m])}
        stable == {m \in desired : Stable(ag, p, t, m)}
        moves == Assigned(ag, p, t, desired \ stable, movable \ stable)
        taken == {moves[i].source : i \in DOMAIN moves}
    IN IF t.status # "open" THEN [EmptyPlan EXCEPT !.removals = Removals(ag, p, movable)]
       ELSE IF Conflicts(ag, p, due) \/ (desired # {} /\ t.section = NoSection)
       THEN [EmptyPlan EXCEPT !.valid = FALSE]
       ELSE [valid |-> TRUE, moves |-> moves,
             removals |-> Removals(ag, p, {m \in movable \ stable : ag[m][p].id \notin taken})]

Plan(p) == PlanOf(agenda, p, topic[p])
-----------------------------------------------------------------------------
(* Transactions *)

Lock(kind, key) == <<kind, key>>

\* A tx works on what it has written and, beyond that, on what is committed.
AgendaOf(b) == Over(tx[b].out.agenda, agenda)
TopicOf(b, p) == Over(tx[b].out.topic, topic)[p]

\* Deleting a section takes it from the Topics it was the default of.
Orphaned(t, sections) ==
    IF t.section \in DOMAIN sections /\ sections[t.section] = 0
    THEN [t EXCEPT !.section = NoSection] ELSE t

\* The rows a request that is ready writes beyond those it has locked: appearances,
\* and Topics that lose their default section.
ChangedRows(b) ==
    LET out == tx[b].out
        differs(m, p) == ~(p \in DOMAIN out.agenda[m] /\ out.agenda[m][p] = agenda[m][p])
    IN UNION {{Lock("row", agenda[m][p].id) : p \in {p \in DOMAIN agenda[m] : differs(m, p)}} :
                 m \in DOMAIN out.agenda}
       \cup (IF out.section = Nothing THEN {}
             ELSE {Lock("topic", p) : p \in {p \in Topics : Orphaned(topic[p], out.section) # topic[p]}})

\* Whom a request waits for: the holder of the next lock, or of a row it writes.
WaitsFor(b, d) ==
    /\ b # d
    /\ \/ tx[b].want # <<>> /\ Head(tx[b].want) \in tx[d].held
       \/ tx[b].want = <<>> /\ tx[b].ready /\ ChangedRows(b) \cap tx[d].held # {}

Waiting(b) == \E d \in Browsers : WaitsFor(b, d)

Failed(b) ==
    /\ tx' = [tx EXCEPT ![b] = NoTx]
    /\ job' = [job EXCEPT ![b] = Idle]

\* The deadlock detector of PostgreSQL, or the lock_timeout of a completion.
Abandon(b) ==
    /\ \/ \E d \in Browsers : WaitsFor(b, d) /\ WaitsFor(d, b)
       \/ Waiting(b) /\ tx[b].op = "complete"
    /\ Failed(b)
    /\ UNCHANGED <<database, loaded, ids, typed, calm, left>>

\* The locks addTopicWithinTransaction takes for one item, in its order.
LocksOf(item, m) ==
    IF item.source = 0 THEN <<Lock("meeting", m), Lock("topic", item.topic)>>
    ELSE <<Lock("meeting", m), Lock("topic", item.topic), Lock("row", item.source)>>

\* After the last of them: the source is read, and its Meeting is locked as well.
SourceOf(b) ==
    LET id == Head(tx[b].arg.items).source
    IN IF id = 0 \/ ~Present(agenda, id) THEN Nothing
       ELSE LET place == Place(agenda, id)
            IN [meeting |-> place[1], topic |-> place[2], row |-> agenda[place[1]][place[2]]]

SourceLocks(source) == IF source = Nothing THEN <<>> ELSE <<Lock("meeting", source.meeting)>>

Adding(b) == tx[b].op = "add"
Replayed(b) == Adding(b) /\ Head(tx[b].arg.items).id \in mutations

\* The next lock.  A repeated addition needs no more than that of its Meeting.
Acquire(b) ==
    LET lock == Head(tx[b].want)
        rest == Tail(tx[b].want)
        source == SourceOf(b)
        last == Adding(b) /\ rest = <<>> /\ tx[b].seen = Nothing
    IN /\ tx[b].want # <<>>
       /\ ~Waiting(b)
       /\ tx' = [tx EXCEPT ![b].held = @ \cup {lock},
                           ![b].want = IF Replayed(b) THEN <<>>
                                       ELSE IF last THEN SourceLocks(source) ELSE rest,
                           ![b].seen = IF last /\ ~Replayed(b) THEN source ELSE @]
       /\ UNCHANGED <<database, job, loaded, ids, typed, calm, left>>

\* The outcome of the work between the locks and the commit.
Refused(b) == Failed(b)
Writes(b, out) == tx' = [tx EXCEPT ![b].ready = TRUE, ![b].out = out] /\ UNCHANGED job
WritesAgenda(b, m, rows) == Writes(b, [tx[b].out EXCEPT !.agenda = Over([n \in {m} |-> rows], @)])

Item(id, p, s, position, kind, source) ==
    [id |-> id, topic |-> p, section |-> s, position |-> position, kind |-> kind, source |-> source]

Addition(m, items) ==
    Request("add", m, [items |-> items, all |-> items], LocksOf(Head(items), m))

\* Mutant: the browser's plan is taken at its word.
PlannedByBrowser(ag, p, t, m, item) == TRUE

\* The position the item of a recurring Topic gets from the plan as it is now, or
\* that it has not got one any more.
Planned(ag, p, t, m, item) ==
    /\ t.type = "recurring"
    /\ \E plan \in {PlanOf(ag, p, t)} : \E move \in ToSet(plan.moves) :
          /\ move.meeting = m
          /\ move.section = item.section
          /\ move.position = item.position
          /\ move.source = item.source

\* Whether the source of a move may still be moved.
SourceAllowed(seen, p) ==
    /\ seen # Nothing
    /\ seen.topic = p
    /\ seen.row.source = "recurrence"
    /\ ~seen.row.edited
    /\ meeting[seen.meeting].status = "planned"

WorkAdd(b) ==
    LET t == tx[b]
        m == t.meeting
        item == Head(t.arg.items)
        rest == Tail(t.arg.items)
        p == item.topic
        record == [TopicOf(b, p) EXCEPT !.status = IF @ = "deferred" THEN "open" ELSE @]
        ag == AgendaOf(b)
        bare == IF t.seen = Nothing THEN ag
                ELSE [ag EXCEPT ![t.seen.meeting] = Removed(@, p)]
        size == Cardinality(InSection(bare[m], item.section))
        position == IF item.position = 0 THEN size + 1 ELSE item.position
        row == [id |-> item.id, section |-> item.section, position |-> position,
                source |-> item.kind, edited |-> FALSE, decision |-> "none"]
        changed == {m} \cup (IF t.seen = Nothing THEN {} ELSE {t.seen.meeting})
        after == [bare EXCEPT ![m] = Inserted(@, p, row)]
        allowed ==
            /\ Mutable(m)
            /\ item.section \in Listed
            /\ p \in DOMAIN ag[m] => t.seen # Nothing /\ ag[m][p].id = t.seen.row.id
            /\ item.source # 0 => SourceAllowed(t.seen, p)
            /\ item.kind = "recurrence" => Planned(ag, p, record, m, item)
            /\ Consecutive({bare[m][q].position : q \in InSection(bare[m], item.section)}, size)
            /\ position \in 1..size + 1
        out == [t.out EXCEPT !.agenda = Over([n \in changed |-> after[n]], @),
                             !.topic = Over([q \in {p} |-> record], @),
                             !.added = @ \cup {item.id}]
        accepted == IF Replayed(b) THEN item.id \in Ids(agenda[m]) ELSE allowed
        made == IF Replayed(b) THEN t.out ELSE out
    IN /\ t.op = "add"
       /\ IF ~accepted THEN Refused(b)
          ELSE IF rest = <<>> THEN Writes(b, made)
          ELSE /\ tx' = [tx EXCEPT ![b].out = made, ![b].arg.items = rest, ![b].seen = Nothing,
                                   ![b].want = LocksOf(Head(rest), m)]
               /\ UNCHANGED job

\* The agenda must be exactly the one that was ordered.
WorkReorder(b) ==
    LET m == tx[b].meeting
        order == tx[b].arg.order
        ordered(s) == {id \in DOMAIN order : order[id].section = s}
        placed == [p \in DOMAIN agenda[m] |-> Over(order[agenda[m][p].id], agenda[m][p])]
    IN /\ tx[b].op = "reorder"
       /\ IF /\ Mutable(m)
             /\ DOMAIN order = Ids(agenda[m])
             /\ \A id \in DOMAIN order : order[id].section \in Listed
             /\ \A s \in Listed : Consecutive({order[id].position : id \in ordered(s)},
                                              Cardinality(ordered(s)))
          THEN WritesAgenda(b, m, placed)
          ELSE Refused(b)

Found(b) == tx[b].arg.id \in Ids(agenda[tx[b].meeting])
FoundTopic(b) == Place(agenda, tx[b].arg.id)[2]

\* What a user removes is skipped from then on, if it was scheduled.
WorkRemove(b) ==
    LET m == tx[b].meeting
        p == FoundTopic(b)
        scheduled == agenda[m][p].source = "recurrence"
        out == [tx[b].out EXCEPT !.agenda = Over([n \in {m} |-> Removed(agenda[m], p)], @),
                                 !.skip = IF scheduled THEN {<<p, m>>} ELSE {}]
    IN /\ tx[b].op = "remove"
       /\ IF Mutable(m) /\ Found(b) THEN Writes(b, out) ELSE Refused(b)

\* What the reconciliation removes must still be superfluous.
WorkRemoveReconciled(b) ==
    LET m == tx[b].meeting
        p == FoundTopic(b)
        row == agenda[m][p]
        plan == Plan(p)
    IN /\ tx[b].op = "reconcile"
       /\ IF /\ Mutable(m) /\ Found(b)
             /\ row.source = "recurrence" /\ ~row.edited
             /\ topic[p].type = "recurring"
             /\ plan.valid
             /\ [meeting |-> m, id |-> row.id] \in ToSet(plan.removals)
          THEN WritesAgenda(b, m, Removed(agenda[m], p))
          ELSE Refused(b)

\* updateTopic of an appearance, and an update of the document that names one.
WorkAppearance(b) ==
    LET m == tx[b].meeting
        p == FoundTopic(b)
    IN /\ tx[b].op \in {"decide", "note"}
       /\ IF Mutable(m) /\ Found(b)
          THEN WritesAgenda(b, m,
                 IF tx[b].op = "note" THEN [agenda[m] EXCEPT ![p].edited = TRUE]
                 ELSE [agenda[m] EXCEPT ![p].decision = tx[b].arg.decision])
          ELSE Refused(b)

WorkMeeting(b) ==
    LET m == tx[b].meeting
    IN /\ tx[b].op \in {"create", "update"}
       /\ IF tx[b].op = "update" /\ ~Mutable(m) THEN Refused(b)
          ELSE Writes(b, [tx[b].out EXCEPT
                 !.meeting = [n \in {m} |-> Over(tx[b].arg.values, meeting[m])]])

WorkRestore(b) ==
    LET skip == <<tx[b].arg.topic, tx[b].meeting>>
    IN /\ tx[b].op = "restore"
       /\ IF Mutable(tx[b].meeting) /\ skip \in skips
          THEN Writes(b, [tx[b].out EXCEPT !.unskip = {skip}])
          ELSE Refused(b)

\* A Topic keeps its type once it has been on an agenda.
TypeFree(p) == \A m \in Meetings : p \notin DOMAIN agenda[m]

WorkTopic(b) ==
    LET p == tx[b].arg.topic
        record == Over(tx[b].arg.values, topic[p])
    IN /\ tx[b].op = "topic"
       /\ IF /\ record.type # topic[p].type => TypeFree(p)
             /\ record.type = "recurring" =>
                   record.section # NoSection /\ PlanOf(agenda, p, record).valid
          THEN Writes(b, [tx[b].out EXCEPT !.topic = [q \in {p} |-> record]])
          ELSE Refused(b)

\* The decisions are applied to the Topics in one transaction with the status.
WorkComplete(b) ==
    LET m == tx[b].meeting
        decided == {p \in DOMAIN agenda[m] : agenda[m][p].decision # "none"}
    IN /\ tx[b].op = "complete"
       /\ IF meeting[m].status = "in_progress" /\ Ids(agenda[m]) = tx[b].arg.shown
          THEN Writes(b, [tx[b].out EXCEPT
                 !.meeting = [n \in {m} |-> [meeting[m] EXCEPT !.status = "completed"]],
                 !.topic = [p \in decided |-> [topic[p] EXCEPT !.status = agenda[m][p].decision]]])
          ELSE Refused(b)

\* Sections change under a lock of their table.  A new one goes to the end.
WorkSection(b) ==
    LET s == tx[b].arg.section
        change == tx[b].arg.change
        order == tx[b].arg.order
        kept == Listed \ {s}
        before(x, y) == section[x] < section[y]
        writes(positions) == Writes(b, [tx[b].out EXCEPT !.section = positions])
    IN /\ tx[b].op = "section"
       /\ \/ /\ change = "create"
             /\ \E new \in Sections \ Listed :
                   writes([section EXCEPT ![new] = Cardinality(Listed) + 1])
          \/ /\ change = "delete" /\ s \in Listed
             /\ writes([x \in Sections |-> IF x \in kept THEN Rank(kept, x, before) + 1 ELSE 0])
          \/ /\ change = "reorder" /\ DOMAIN order = Listed
             /\ writes([x \in Sections |-> IF x \in Listed THEN order[x] ELSE 0])
          \/ /\ \/ change = "delete" /\ s \notin Listed
                \/ change = "reorder" /\ DOMAIN order # Listed
             /\ Refused(b)

Work(b) ==
    /\ tx[b].op # "none" /\ tx[b].want = <<>> /\ ~tx[b].ready
    /\ \/ WorkAdd(b) \/ WorkReorder(b) \/ WorkRemove(b) \/ WorkRemoveReconciled(b)
       \/ WorkAppearance(b) \/ WorkMeeting(b) \/ WorkRestore(b) \/ WorkTopic(b)
       \/ WorkComplete(b) \/ WorkSection(b)
    /\ UNCHANGED <<database, loaded, ids, typed, calm, left>>
-----------------------------------------------------------------------------
\* The constraints the database checks itself: an identifier is used once, an
\* appearance is in a section that exists, such a section stays.
Consistent(b) ==
    LET out == tx[b].out
    IN /\ tx[b].op = "create" => meeting[tx[b].meeting].status = "none"
       /\ \A m \in DOMAIN out.agenda : \A p \in DOMAIN out.agenda[m] :
             out.agenda[m][p].section \in Listed
       /\ out.section # Nothing =>
             \A m \in Meetings, p \in Topics :
                p \in DOMAIN agenda[m] => out.section[agenda[m][p].section] # 0

\* The browser goes on after a request that succeeded: with the list of recurring
\* Topics, with the rest of its plan, or it is done.
Continued(j) ==
    CASE j.after = "all" /\ j.step = "asked" -> [j EXCEPT !.step = "list"]
      [] j.after = "topic" /\ j.step = "asked" -> [j EXCEPT !.step = "plan"]
      [] j.step = "carrying" -> [j EXCEPT !.step = "next"]
      [] OTHER -> Idle

\* COMMIT.  The answer may get lost; an addition may reach the server twice.
Commit(b) ==
    LET out == tx[b].out
    IN /\ tx[b].op # "none" /\ tx[b].want = <<>> /\ tx[b].ready
       /\ ~Waiting(b)
       /\ IF ~Consistent(b)
          THEN Failed(b) /\ UNCHANGED <<database, calm, left>>
          ELSE /\ meeting' = Over(out.meeting, meeting)
               /\ topic' = [p \in Topics |-> Orphaned(TopicOf(b, p), out.section)]
               /\ agenda' = AgendaOf(b)
               /\ skips' = (skips \cup out.skip) \ out.unskip
               /\ section' = Over(out.section, section)
               /\ mutations' = mutations \cup out.added
               /\ calm' = [d \in Browsers |-> calm[d] /\ d = b]
               /\ \/ /\ tx' = [tx EXCEPT ![b] = NoTx]
                     /\ job' = [job EXCEPT ![b] = Continued(@)]
                     /\ UNCHANGED left
                  \/ Failed(b) /\ Spend("lose")
                  \/ /\ tx[b].op = "add"
                     /\ tx' = [tx EXCEPT ![b] = Addition(tx[b].meeting, tx[b].arg.all)]
                     /\ UNCHANGED job
                     /\ Spend("repeat")
       /\ UNCHANGED <<loaded, ids, typed>>
-----------------------------------------------------------------------------
(* The browser: what its user asks for *)

\* A request with fresh identifiers, and one without.
AsksAnew(b, operation, request, after) ==
    /\ job[b] = Idle
    /\ Spend(operation)
    /\ tx' = [tx EXCEPT ![b] = request]
    /\ job' = [job EXCEPT ![b] = after]
    /\ calm' = [calm EXCEPT ![b] = FALSE]
    /\ UNCHANGED <<database, typed>>
Asks(b, operation, request, after) ==
    AsksAnew(b, operation, request, after) /\ UNCHANGED <<loaded, ids>>

Then(after) == [Idle EXCEPT !.step = "asked", !.after = after]
ThenReconcile(p) == [Then("topic") EXCEPT !.topic = p, !.todo = {p}]

\* Most requests lock the Meeting they name.
OnMeeting(op, m, arg) == Request(op, m, arg, <<Lock("meeting", m)>>)

\* createMeeting makes the document in the browser.
CreateMeeting(b) ==
    \E m \in Meetings, date \in Dates :
       /\ meeting[m].status = "none"
       /\ \A d \in Browsers : tx[d].op = "create" => tx[d].meeting # m
       /\ AsksAnew(b, "create",
                   Request("create", m, [values |-> [status |-> "planned", date |-> date]], <<>>),
                   Then("all"))
       /\ loaded' = [loaded EXCEPT ![b] = @ \cup {m}]
       /\ UNCHANGED ids

\* A Meeting is begun, or its details are saved as the form has them.
UpdateMeeting(b) ==
    \E m \in loaded[b], values \in [status : {"in_progress"}]
                              \cup [status : {"planned", "in_progress"}, date : Dates] :
       /\ Asks(b, "update", OnMeeting("update", m, [values |-> values]),
               Then("all"))

\* A suggestion: a Topic that is neither on the agenda nor skipped.
Suggested(m) == {p \in Topics : p \notin DOMAIN agenda[m] /\ <<p, m>> \notin skips
                                /\ topic[p].status \in {"open", "deferred"}}

AddTopic(b) ==
    \E m \in loaded[b] : \E p \in Suggested(m), s \in Sections, position \in {0, 1} :
       /\ s \in Listed
       /\ ids' = ids + 1
       /\ AsksAnew(b, "add", Addition(m, <<Item(ids + 1, p, s, position, "manual", 0)>>), Then("none"))
       /\ UNCHANGED loaded

\* Several Topics with one update of the document: at the end, as they were chosen,
\* or before what is there, those a new Meeting takes over.
AddTopics(b) ==
    \E m \in loaded[b] : \E p, q \in Suggested(m), s \in Sections, first \in BOOLEAN :
       /\ p # q /\ s \in Listed
       /\ ids' = ids + 2
       /\ AsksAnew(b, "batch",
                   Addition(m, <<Item(ids + 1, p, s, IF first THEN 1 ELSE 0, "manual", 0),
                                 Item(ids + 2, q, s, IF first THEN 2 ELSE 0, "manual", 0)>>),
                   Then("none"))
       /\ UNCHANGED loaded

RemoveTopic(b) ==
    \E m \in loaded[b] : \E id \in Ids(agenda[m]) :
       Asks(b, "remove", OnMeeting("remove", m, [id |-> id]), Then("all"))

DecideTopic(b) ==
    \E m \in loaded[b], decision \in {"none", "done", "deferred"} : \E id \in Ids(agenda[m]) :
       Asks(b, "decide", OnMeeting("decide", m, [id |-> id, decision |-> decision]), Then("none"))

\* An item is dragged to another place; every position is sent.
Dragged(m, p, s, position) ==
    LET moved == Inserted(Removed(agenda[m], p), p,
                          [agenda[m][p] EXCEPT !.section = s, !.position = position])
    IN [id \in Ids(agenda[m]) |->
          LET q == Place(agenda, id)[2]
          IN [section |-> moved[q].section, position |-> moved[q].position]]

ReorderTopics(b) ==
    \E m \in loaded[b] : \E p \in DOMAIN agenda[m], s \in Listed :
       \E position \in 1..Cardinality(InSection(agenda[m], s) \ {p}) + 1 :
          Asks(b, "reorder", OnMeeting("reorder", m, [order |-> Dragged(m, p, s, position)]),
               Then("none"))

RestoreRecurrence(b) ==
    \E skip \in skips :
       Asks(b, "restore", OnMeeting("restore", skip[2], [topic |-> skip[1]]),
            ThenReconcile(skip[1]))

\* A Topic is edited: its type, its status or the place it is scheduled at.
UpdateTopic(b) ==
    \E p \in Topics, values \in [type : {"generic", "recurring"}] \cup [status : {"open", "done"}]
                                \cup [place : {0, 1}] :
       /\ Asks(b, "topic", Request("topic", 0, [topic |-> p, values |-> values],
                                   <<Lock("topic", p)>>),
               ThenReconcile(p))

\* The appearances are locked with their Topics, in the order of these.
CompleteMeeting(b) ==
    \E m \in loaded[b] :
       LET order == InOrder(DOMAIN agenda[m], <)
       IN /\ meeting[m].status = "in_progress"
          /\ Asks(b, "complete",
                  Request("complete", m, [shown |-> Ids(agenda[m])],
                          <<Lock("meeting", m)>> \o [i \in DOMAIN order |-> Lock("topic", order[i])]),
                  Then("all"))

SectionOrders(all) == {f \in [all -> 1..Cardinality(all)] : \A x, y \in all : x # y => f[x] # f[y]}

\* The client sends what it wants of a section; a new one gets its identifier there.
ChangeSections(b) ==
    LET creating == {d \in Browsers : tx[d].op = "section" /\ tx[d].arg.change = "create"}
        ask(change, s, order) ==
            Asks(b, "section", Request("section", 0,
                   [change |-> change, section |-> s, order |-> order],
                   <<Lock("sections", 0)>>), Then("none"))
    IN \/ \E s \in Listed : ask("delete", s, Nothing)
       \/ Cardinality(creating) < Cardinality(Sections \ Listed) /\ ask("create", NoSection, Nothing)
       \/ \E order \in SectionOrders(Listed) : ask("reorder", NoSection, order)

\* A client that names the appearance its update belongs to.
AnnotateTopic(b) ==
    \E m \in Meetings : \E id \in Ids(agenda[m]) :
       Asks(b, "note", OnMeeting("note", m, [id |-> id]), Then("none"))

\* Somebody writes the preparation text of an appearance: the provider of this
\* browser sends the update without naming the appearance.
WriteText(b) ==
    \E m \in loaded[b] : \E p \in DOMAIN agenda[m] :
       /\ meeting[m].status = "planned"
       /\ Spend("write")
       /\ typed' = typed \cup {agenda[m][p].id}
       /\ UNCHANGED <<database, tx, job, loaded, ids, calm>>

\* The page of a Meeting is opened or left; its document is held as long.
OpenMeeting(b) ==
    \E m \in Existing :
       /\ Spend("open")
       /\ loaded' = [loaded EXCEPT ![b] = IF m \in @ THEN @ \ {m} ELSE @ \cup {m}]
       /\ UNCHANGED <<database, tx, job, ids, typed, calm>>
-----------------------------------------------------------------------------
(* The browser: reconciling recurring Topics *)

Goes(b, j) == job' = [job EXCEPT ![b] = j]

ListTopics(b) ==
    LET recurring == {p \in Topics : topic[p].type = "recurring"}
    IN /\ job[b].step = "list"
       /\ Goes(b, IF recurring = {} THEN Idle ELSE [job[b] EXCEPT !.todo = recurring, !.step = "plan"])
       /\ UNCHANGED <<database, tx, loaded, ids, typed, calm, left>>

\* The plan of the next Topic, or an error that ends everything.
FetchPlan(b) ==
    /\ job[b].step = "plan"
    /\ \E p \in job[b].todo :
          LET plan == Plan(p)
          IN Goes(b, IF topic[p].type # "recurring" \/ ~plan.valid THEN Idle
                     ELSE [job[b] EXCEPT !.step = "next", !.topic = p, !.todo = @ \ {p},
                                         !.moves = plan.moves, !.removals = plan.removals])
    /\ calm' = [calm EXCEPT ![b] = TRUE]
    /\ UNCHANGED <<database, tx, loaded, ids, typed, left>>

\* The next request of the plan.  The text of a new appearance is written into the
\* document of its Meeting, which the browser must hold.
NextMove(b) ==
    LET j == job[b]
        move == Head(j.moves)
    IN /\ j.step = "next" /\ j.moves # <<>>
       /\ IF move.meeting \notin loaded[b]
          THEN Goes(b, Idle) /\ UNCHANGED <<tx, ids>>
          ELSE /\ ids' = ids + 1
               /\ tx' = [tx EXCEPT ![b] =
                    Addition(move.meeting, <<Item(ids + 1, j.topic, move.section, move.position,
                                                  "recurrence", move.source)>>)]
               /\ Goes(b, [j EXCEPT !.step = "carrying", !.moves = Tail(@)])
       /\ UNCHANGED <<database, loaded, typed, calm, left>>

NextRemoval(b) ==
    LET j == job[b]
        removal == Head(j.removals)
    IN /\ j.step = "next" /\ j.moves = <<>> /\ j.removals # <<>>
       /\ tx' = [tx EXCEPT ![b] = OnMeeting("reconcile", removal.meeting, [id |-> removal.id])]
       /\ Goes(b, [j EXCEPT !.step = "carrying", !.removals = Tail(@)])
       /\ UNCHANGED <<database, loaded, ids, typed, calm, left>>

NextTopic(b) ==
    LET j == job[b]
    IN /\ j.step = "next" /\ j.moves = <<>> /\ j.removals = <<>>
       /\ Goes(b, IF j.todo = {} THEN Idle ELSE [j EXCEPT !.step = "plan"])
       /\ UNCHANGED <<database, tx, loaded, ids, typed, calm, left>>
-----------------------------------------------------------------------------
Ask(b) ==
    \/ CreateMeeting(b) \/ UpdateMeeting(b) \/ CompleteMeeting(b)
    \/ AddTopic(b) \/ AddTopics(b) \/ RemoveTopic(b) \/ ReorderTopics(b) \/ DecideTopic(b)
    \/ RestoreRecurrence(b) \/ UpdateTopic(b) \/ ChangeSections(b) \/ AnnotateTopic(b)

Reconcile(b) ==
    \/ ListTopics(b) \/ FetchPlan(b) \/ NextMove(b) \/ NextRemoval(b) \/ NextTopic(b)

Serve(b) == Acquire(b) \/ Work(b) \/ Commit(b) \/ Abandon(b)

Next == \E b \in Browsers : Ask(b) \/ WriteText(b) \/ OpenMeeting(b) \/ Reconcile(b) \/ Serve(b)

Spec == Init /\ [][Next]_vars
-----------------------------------------------------------------------------
(* Properties *)

\* No appearance is on two agendas; only Meetings that exist have one.
AgendaTypeOK ==
    /\ AreAgendas(agenda, ids) /\ Unique(agenda)
    /\ \A m \in Meetings : DOMAIN agenda[m] # {} => m \in Existing
    /\ mutations \subseteq 1..ids

\* The display numbers come from the positions: in every section of every Meeting,
\* and among the sections, they are 1, 2, ... whatever overlapped.
PositionsAreConsecutive == (\A m \in Meetings : Numbered(agenda[m])) /\ NumberedSections(section)

\* An agenda is a numbered list of its own appearances.
AgendasAreWhole == AgendaTypeOK /\ PositionsAreConsecutive

\* What somebody has decided to skip stays off the schedule until it is restored,
\* however old the plan is a browser carries out.
SkippedStaysSkipped == ByHandWhere(skips, agenda)

\* An appearance of a set disappears only when a user removes it.
OnlyRemovedByHand(kept(_, _)) ==
    \A m \in Meetings : \A p \in DOMAIN agenda[m] :
        kept(m, p) /\ agenda[m][p].id \notin Ids(agenda'[m]) =>
            \E b \in Browsers : tx[b].op = "remove" /\ tx[b].arg.id = agenda[m][p].id

\* The reconciliation touches nothing that was added by hand, has been edited or
\* belongs to a Meeting that is not planned any more.
PreservedAppearancesStay ==
    [][OnlyRemovedByHand(LAMBDA m, p :
          \/ agenda[m][p].source = "manual" \/ agenda[m][p].edited
          \/ meeting[m].status # "planned")]_vars

\* What a completed Meeting showed stays as it was.
Final(m) == meeting[m].status = "completed" => agenda'[m] = agenda[m] /\ meeting'[m] = meeting[m]

\* Its decisions reach the Topics when it is completed.
Decided(m) ==
    meeting'[m].status = "completed" /\ meeting[m].status # "completed" =>
       \A p \in DOMAIN agenda[m] :
          topic'[p].status = IF agenda[m][p].decision = "none" THEN topic[p].status
                             ELSE agenda[m][p].decision

\* What a completed Meeting showed is not changed by anything that was under way
\* when it was completed; and its decisions reach the Topics in that very step.
CompletionIsFinal == [][\A m \in Meetings : Final(m) /\ Decided(m)]_vars

\* What people have settled, by their hand or by completing, stays settled.
SettledStays == PreservedAppearancesStay /\ CompletionIsFinal

\* What is left of a plan nobody has disturbed is the plan: its steps do not stand
\* in each other's way, and in the end there is nothing to do.
PlanIsCarriedOut ==
    \A b \in Browsers : calm[b] /\ job[b].step = "next" =>
        LET plan == Plan(job[b].topic)
        IN plan.valid /\ plan.moves = job[b].moves /\ plan.removals = job[b].removals

\* Nobody's text is thrown away by the reconciliation.
WrittenTextStays ==
    [][OnlyRemovedByHand(LAMBDA m, p : agenda[m][p].id \in typed)]_vars

\* When nobody has anything under way, every recurring Topic is on the agendas it
\* is due on.
QuietMeansScheduled ==
    (\A b \in Browsers : job[b] = Idle) =>
        \A p \in Topics : topic[p].type = "recurring" => Plan(p).moves = <<>>
=============================================================================
