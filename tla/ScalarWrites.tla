---------------------------- MODULE ScalarWrites ----------------------------
(***************************************************************************)
(* Tasks, Topics and Topic updates: records whose protected fields the     *)
(* browser seals one by one (scalar-session.ts, task-scalars.ts,           *)
(* topic-scalars.ts) and the backend commits with a revision of their own  *)
(* (e2ee-scalar.service.ts, tasks.service.ts, topics.service.ts), from the *)
(* forms of TasksView, TopicsView, TopicDetailView and TopicEditDialog.    *)
(*                                                                         *)
(* A save is a job: it takes counters and keys, waits for the cipher,      *)
(* waits for the server (which checks a request under the lock of the row  *)
(* and commits it later) and waits for the answer, while its browser may   *)
(* lock, unlock again and mount the view anew.                             *)
(*                                                                         *)
(* An envelope is a record of what its header binds and the value it       *)
(* seals.  Authors keep their role here; Accounts is about losing it.      *)
(***************************************************************************)
EXTENDS Naturals, FiniteSets, Sequences, SequencesExt

CONSTANTS Browsers,     \* each with a user of its own
          Tasks, Topics, Updates,   \* identifiers of records
          Stored,       \* records that exist at the start
          Values,       \* what users type
          TooLarge,     \* values no padding bucket holds
          First,        \* the value stored at the start
          Locked, Unavailable,      \* the two placeholders
          Slots,        \* jobs of one browser that may overlap
          Budgets       \* bounds: how often each operation is performed

Records == Tasks \cup Topics \cup Updates
Placeholders == {Locked, Unavailable}
Operations == {"unlock", "lock", "rotate", "task", "topic", "type", "save", "create",
               "complete", "load", "lose", "repeat", "oversized"}

ASSUME ScalarConstants ==
    /\ Tasks \cap Topics = {} /\ Updates \cap (Tasks \cup Topics) = {}
    /\ Stored \subseteq Records
    /\ TooLarge \subseteq Values
    /\ First \in Values \ TooLarge
    /\ Placeholders \cap Values = {}
    /\ Budgets \subseteq [Operations -> Nat]

VARIABLES ock,      \* the content key of e2ee_key_state, counted
          epochs,   \* e2ee_client_epochs, by browser and unlocking
          admitted, \* browsers whose application session is not revoked
          row,      \* the tables tasks, topics and topic_updates
          writes,   \* e2ee_scalar_writes
          session,  \* the scalarSession of each browser
          screen,   \* what the mounted view of each browser holds
          job,      \* the saves that are under way
          loads,    \* answers to the view's queries that are under way
          sealed,   \* history: every envelope that left the cipher
          restarted,\* history: where a counter was deleted that was in use
          left      \* operations the instance still allows

serverVars == <<ock, epochs, admitted, row, writes>>
history == <<sealed, restarted>>
vars == <<serverVars, session, screen, job, loads, history, left>>
-----------------------------------------------------------------------------
\* The two membership fields of a Topic are one here.
FieldOrder(id) ==
    CASE id \in Tasks -> <<"title", "description">>
      [] id \in Topics -> <<"name", "membership">>
      [] id \in Updates -> <<"text">>
Fields(id) == ToSet(FieldOrder(id))
Allowed(operation) == left[operation] > 0
Spend(operation) == Allowed(operation) /\ left' = [left EXCEPT ![operation] = @ - 1]
\* Of an operation that enters a value.
SpendOn(operation, v) ==
    /\ Allowed(operation)
    /\ v \in TooLarge => Allowed("oversized")
    /\ left' = [left EXCEPT ![operation] = @ - 1,
                            !["oversized"] = IF v \in TooLarge THEN @ - 1 ELSE @]

NoFields == [f \in {} |-> 0]
Cell(envelope, revision) == [envelope |-> envelope, revision |-> revision]
NoRow == [exists |-> FALSE, status |-> "open", completed |-> FALSE, cell |-> NoFields]

Envelope(b, n, generation, id, f, counter, value, signed) ==
    [browser |-> b, epoch |-> n, ock |-> generation, record |-> id, field |-> f,
     counter |-> counter, value |-> value, signed |-> signed]

\* What was stored under the first content key, before the browsers came.
Founding(id, f) == Envelope("founder", 1, 1, id, f, 1, First, TRUE)
FoundingRow(id) ==
    [exists |-> TRUE, status |-> "open", completed |-> FALSE,
     cell |-> [f \in Fields(id) |-> Cell(Founding(id, f), 1)]]

NoJob == [step |-> "idle"]
JobStep(b, k, step) == job[b][k].step = step
NoForm == [record |-> "none"]
\* TopicEditDialog before its first Topic.
NoDraft == [topic |-> "none"]
NoScreen == [rows |-> NoFields, form |-> NoForm, draft |-> NoDraft, visible |-> FALSE]
\* The answer to a query of a session that is revoked.
Unauthorized == NoFields

Init ==
    /\ ock = 1
    /\ epochs = {}
    /\ admitted = Browsers
    /\ row = [id \in Records |-> IF id \in Stored THEN FoundingRow(id) ELSE NoRow]
    /\ writes = UNION {{Cell(Founding(id, f), 1) : f \in Fields(id)} : id \in Stored}
    /\ session = [b \in Browsers |-> [epoch |-> 0, unlocked |-> 0, ock |-> 0, counters |-> NoFields]]
    /\ screen = [b \in Browsers |-> NoScreen]
    /\ job = [b \in Browsers |-> [k \in Slots |-> NoJob]]
    /\ loads = [b \in Browsers |-> {}]
    /\ sealed = {}
    /\ restarted = {}
    /\ left \in Budgets
-----------------------------------------------------------------------------
(* The session of a browser and the view that is mounted anew with it *)

IsUnlocked(b) == session[b].epoch # 0
NewestEpoch(b) == [browser |-> b, n |-> session[b].epoch]

\* What a query that is sent now will be answered.
Asked(b) == IF b \in admitted THEN row ELSE Unauthorized

\* Mutant: the view stays as it is.
StaysMounted(b, answers, ended) == UNCHANGED <<screen, loads, job>>

\* The router's view is keyed by the status of the protected text: a form that
\* is open, a query and the view of a job under way are gone.
Remounted(b, answers, ended) ==
    /\ screen' = [screen EXCEPT ![b] = NoScreen]
    /\ loads' = [loads EXCEPT ![b] = answers]
    /\ job' = [job EXCEPT ![b] = [k \in Slots |->
                  IF k \in ended \/ @[k] = NoJob THEN NoJob ELSE [@[k] EXCEPT !.attached = FALSE]]]

\* A login if the session was revoked, the passphrase, a fresh epoch and every
\* content key up to the current one.
Unlock(b) ==
    LET n == session[b].unlocked + 1
    IN /\ ~IsUnlocked(b)
       /\ Spend("unlock")
       /\ session' = [session EXCEPT ![b] = [epoch |-> n, unlocked |-> n, ock |-> ock,
                                             counters |-> NoFields]]
       /\ epochs' = epochs \cup {[browser |-> b, n |-> n]}
       /\ admitted' = admitted \cup {b}
       /\ Remounted(b, {row}, {})
       /\ UNCHANGED <<ock, row, writes, history>>

Cleared(b) == [session EXCEPT ![b].epoch = 0, ![b].counters = NoFields]

\* The keys are zeroed; the request that revokes the epoch may get lost.
Lock(b) ==
    /\ IsUnlocked(b)
    /\ Spend("lock")
    /\ session' = Cleared(b)
    /\ epochs' \in {epochs, epochs \ {NewestEpoch(b)}}
    /\ Remounted(b, {Asked(b)}, {})
    /\ UNCHANGED <<ock, admitted, row, writes, history>>

\* Two operators activate a new content key (KeyCeremony): every application
\* session is revoked, and the epochs are, unless they have a week of grace.
Rotate ==
    /\ Spend("rotate")
    /\ ock' = ock + 1
    /\ admitted' = {}
    /\ epochs' \in {epochs, {}}
    /\ UNCHANGED <<row, writes, session, screen, job, loads, history>>
-----------------------------------------------------------------------------
(* Reading *)

\* ScalarSession.decrypt: with the current or a historical key.
Readable(b, envelope) == envelope.ock <= session[b].ock

Shown(b, id, cells, f) ==
    IF ~IsUnlocked(b) THEN Locked
    ELSE IF Readable(b, cells[f].envelope) THEN cells[f].envelope.value ELSE Unavailable

\* unprotectTask shows each field that it can read; unprotectTopic all or none.
Unprotect(b, id, r) ==
    LET cells == r.cell
        whole == \A f \in Fields(id) : Readable(b, cells[f].envelope)
    IN [value |-> [f \in Fields(id) |->
                      IF id \in Topics /\ IsUnlocked(b) /\ ~whole THEN Unavailable
                      ELSE Shown(b, id, cells, f)],
        revision |-> [f \in Fields(id) |-> cells[f].revision],
        status |-> r.status]

\* The values a form works on: the fields and the status.
Formed(copy) == [f \in DOMAIN copy.value \cup {"status"} |->
                    IF f = "status" THEN copy.status ELSE copy.value[f]]

\* Mutant: the revisions follow the Topic, the text of the form does not.
SyncRevisionsOnly(draft, id, copy, visible) ==
    LET known == draft # NoDraft /\ draft.topic = id
        next == Formed(copy)
    IN [topic |-> id, base |-> next,
        value |-> IF visible /\ known THEN draft.value ELSE next,
        expected |-> copy.revision,
        touched |-> IF visible /\ known THEN draft.touched ELSE {}]

\* syncTopicDraft: a field the user has changed keeps its value and the revision
\* it was changed from, every other one follows the Topic.
SyncDraft(draft, id, copy, visible) ==
    LET known == draft # NoDraft /\ draft.topic = id
        next == Formed(copy)
        kept(f) == visible /\ known /\ draft.value[f] # draft.base[f]
    IN [topic |-> id, base |-> next,
        value |-> [f \in DOMAIN next |-> IF kept(f) THEN draft.value[f] ELSE next[f]],
        expected |-> [f \in Fields(id) |->
                         IF kept(f) THEN draft.expected[f] ELSE copy.revision[f]],
        touched |-> {f \in DOMAIN next : kept(f) /\ f \in draft.touched}]

\* A query of the view: what it will be answered is read now, and arrives when
\* it arrives; queries overtake each other.
Load(b) ==
    /\ Spend("load")
    /\ loads' = [loads EXCEPT ![b] = @ \cup {Asked(b)}]
    /\ UNCHANGED <<serverVars, session, screen, job, history>>

\* The page of a Topic that was not found keeps what it shows.
LoadArrives(b) ==
    \E answer \in loads[b] \ {Unauthorized} :
       LET ids == {id \in Records : answer[id].exists}
           rows == [id \in ids |-> Unprotect(b, id, answer[id])]
           draft == screen[b].draft
           found == draft # NoDraft => draft.topic \in ids
       IN /\ screen' =
                IF ~found THEN screen
                ELSE [screen EXCEPT ![b].rows = rows,
                        ![b].draft = IF draft = NoDraft THEN draft
                                     ELSE SyncDraft(draft, draft.topic, rows[draft.topic],
                                                    screen[b].visible)]
          /\ loads' = [loads EXCEPT ![b] = @ \ {answer}]
          /\ UNCHANGED <<serverVars, session, job, history, left>>
-----------------------------------------------------------------------------
(* Sealing *)

Counter(b, id, f) ==
    LET counters == session[b].counters
    IN IF <<id, f>> \in DOMAIN counters THEN counters[<<id, f>>] ELSE 0

\* What a counter counts the envelopes of.
Place(b, n, id, f) == [browser |-> b, epoch |-> n, record |-> id, field |-> f]

WithCounters(s, id, next) ==
    LET places == {<<id, f>> : f \in DOMAIN next}
    IN [s EXCEPT !.counters = [x \in places \cup DOMAIN s.counters |->
                                  IF x \in places THEN next[x[2]] ELSE s.counters[x]]]

Answered(j, answer) == [j EXCEPT !.step = "answered", !.answer = answer, !.under = {}]

\* A create seals its fields at once, an update one after the other.
Beginning(j) ==
    IF j.rest = <<>> THEN {} ELSE IF j.op = "create" THEN ToSet(j.rest) ELSE {Head(j.rest)}
\* What is sealed after that.
Remaining(j) == IF j.op = "create" THEN <<>> ELSE Tail(j.rest)

\* Mutant: the counter is stored when the cipher is done, not when it is read.
CountedLater(s, j) == s

\* ScalarSession.encrypt counts before it awaits anything.
Counted(s, j) ==
    WithCounters(s, j.record, [f \in Beginning(j) |->
        1 + IF <<j.record, f>> \in DOMAIN s.counters THEN s.counters[<<j.record, f>>] ELSE 0])

\* Keys and counters of the next envelopes are taken, or the request is sent, or
\* the session is locked and the save fails.
Continued(b, s, j) ==
    IF j.rest = <<>> THEN [j EXCEPT !.step = "sent"]
    ELSE IF s.epoch = 0 THEN Answered(j, "refused")
    ELSE [j EXCEPT !.rest = Remaining(j),
                   !.under = {[field |-> f, epoch |-> s.epoch, ock |-> s.ock,
                               counter |-> Counter(b, j.record, f) + 1] : f \in Beginning(j)}]

\* A job goes on with its next envelopes.
Proceed(b, k, s, j) ==
    /\ job' = [job EXCEPT ![b][k] = Continued(b, s, j)]
    /\ session' = [session EXCEPT ![b] = IF s.epoch = 0 THEN s ELSE Counted(s, j)]

\* The cipher is done.  A value that is too large has failed, and takes the
\* counter of its field with it; a session that was locked meanwhile has left
\* zeroes where the signing key was.
Seal(b, k) ==
    LET j == job[b][k]
        s == session[b]
        large == {u.field : u \in {u \in j.under : j.patch[u.field] \in TooLarge}}
        made == {Envelope(b, u.epoch, u.ock, j.record, u.field, u.counter, j.patch[u.field],
                          s.epoch = u.epoch) : u \in {u \in j.under : u.field \notin large}}
        held == ToSet(FieldOrder(j.record)) \cap
                (DOMAIN j.envelopes \cup {e.field : e \in made})
    IN /\ JobStep(b, k, "sealing")
       /\ sealed' = sealed \cup made
       /\ restarted' = IF s.epoch = 0 THEN restarted
                       ELSE restarted \cup {Place(b, s.epoch, j.record, f) : f \in large}
       /\ IF large # {}
          THEN /\ job' = [job EXCEPT ![b][k] = Answered(j, "refused")]
               /\ session' = [session EXCEPT ![b] =
                                 IF s.epoch = 0 THEN s
                                 ELSE WithCounters(s, j.record, [f \in large |-> 0])]
          ELSE Proceed(b, k, s,
                  [j EXCEPT !.under = {},
                            !.envelopes = [f \in held |->
                                IF f \in DOMAIN @ THEN @[f]
                                ELSE CHOOSE e \in made : e.field = f]])
       /\ UNCHANGED <<serverVars, screen, loads, left>>
-----------------------------------------------------------------------------
(* The forms *)

CanEdit(b) == IsUnlocked(b)

OpenTask(b, id) ==
    /\ CanEdit(b)
    /\ id \in DOMAIN screen[b].rows
    /\ screen[b].form = NoForm
    /\ Spend("task")
    /\ screen' = [screen EXCEPT ![b].form =
                    [record |-> id, value |-> Formed(screen[b].rows[id]), touched |-> {}]]
    /\ UNCHANGED <<serverVars, session, job, loads, history>>

TypeTask(b, f, v) ==
    LET form == screen[b].form
    IN /\ form # NoForm
       /\ f \in DOMAIN form.value
       /\ SpendOn("type", v)
       /\ screen' = [screen EXCEPT ![b].form.value[f] = v, ![b].form.touched = @ \cup {f}]
       /\ UNCHANGED <<serverVars, session, job, loads, history>>

OpenTopic(b, id) ==
    /\ CanEdit(b)
    /\ id \in DOMAIN screen[b].rows
    /\ ~screen[b].visible
    /\ Spend("topic")
    /\ screen' = [screen EXCEPT ![b].visible = TRUE,
                    ![b].draft = SyncDraft(@, id, screen[b].rows[id], TRUE)]
    /\ UNCHANGED <<serverVars, session, job, loads, history>>

TypeTopic(b, f, v) ==
    /\ screen[b].visible
    /\ f \in DOMAIN screen[b].draft.value
    /\ SpendOn("type", v)
    /\ screen' = [screen EXCEPT ![b].draft.value[f] = v, ![b].draft.touched = @ \cup {f}]
    /\ UNCHANGED <<serverVars, session, job, loads, history>>

\* The dialog goes; its draft falls back to the Topic the view shows.
ClosedTopic(s) ==
    [s EXCEPT !.visible = FALSE,
              !.draft = SyncDraft(@, s.draft.topic, s.rows[s.draft.topic], FALSE)]

Saving(b) == {k \in Slots : job[b][k] # NoJob /\ job[b][k].attached}

CancelTopic(b) ==
    /\ screen[b].visible
    /\ Saving(b) = {}
    /\ screen' = [screen EXCEPT ![b] = ClosedTopic(@)]
    /\ UNCHANGED <<serverVars, session, job, loads, history, left>>

\* A save begins: its first envelopes go to the cipher at once.
Start(b, k, op, id, patch, order, status, expected, touched) ==
    /\ job[b][k] = NoJob
    /\ Proceed(b, k, session[b],
          [step |-> "sealing", op |-> op, record |-> id, attached |-> TRUE, patch |-> patch,
           rest |-> order, under |-> {}, envelopes |-> NoFields, status |-> status,
           expected |-> expected, touched |-> touched, answer |-> "none", read |-> NoRow])

OnlyFields(id, value) == [f \in Fields(id) |-> value[f]]

\* Every field is sent, whether it was touched or not.
SaveTask(b, k) ==
    LET form == screen[b].form
    IN /\ form # NoForm
       /\ Spend("save")
       /\ Start(b, k, "update", form.record, OnlyFields(form.record, form.value),
                FieldOrder(form.record), form.value["status"], NoFields, form.touched)
       /\ UNCHANGED <<serverVars, screen, loads, history>>

\* The one button that is there while the text is locked: it seals nothing.
CompleteTask(b, k, id) ==
    /\ id \in DOMAIN screen[b].rows
    /\ screen[b].rows[id].status # "done"
    /\ Spend("complete")
    /\ Start(b, k, "update", id, NoFields, <<>>, "done", NoFields, {"status"})
    /\ UNCHANGED <<serverVars, screen, loads, history>>

SaveTopic(b, k) ==
    LET draft == screen[b].draft
    IN /\ screen[b].visible
       /\ Saving(b) = {}
       /\ Spend("save")
       /\ Start(b, k, "update", draft.topic, OnlyFields(draft.topic, draft.value),
                FieldOrder(draft.topic), draft.value["status"], draft.expected, draft.touched)
       /\ UNCHANGED <<serverVars, screen, loads, history>>

\* createTask, createTopic and addTopicUpdate: a fresh identifier each time.
Create(b, k, id, v) ==
    /\ CanEdit(b)
    /\ ~row[id].exists
    /\ \A d \in Browsers, s \in Slots : job[d][s] # NoJob => job[d][s].record # id
    /\ SpendOn("create", v)
    /\ Start(b, k, "create", id, [f \in Fields(id) |-> v], FieldOrder(id), "open",
             NoFields, Fields(id))
    /\ UNCHANGED <<serverVars, screen, loads, history>>
-----------------------------------------------------------------------------
(* The server *)

SamePlace(x, y) ==
    x.browser = y.browser /\ x.epoch = y.epoch /\ x.record = y.record
    /\ x.field = y.field /\ x.counter = y.counter

\* validateWrite, of one envelope.
Acceptable(e) ==
    /\ [browser |-> e.browser, n |-> e.epoch] \in epochs
    /\ e.ock = ock
    /\ e.signed
    /\ \A w \in writes : SamePlace(w.envelope, e) => w.envelope = e
Duplicate(e) == \E w \in writes : w.envelope = e

\* The cells an accepted request replaces: not those it has replaced before.
Fresh(j) == {f \in DOMAIN j.envelopes : ~Duplicate(j.envelopes[f])}

\* The check of TOPIC_FIELDS_CHANGED, with its exception for the same bytes.
AsExpected(j, cells) ==
    \A f \in DOMAIN j.expected \cap DOMAIN j.envelopes :
        \/ j.expected[f] = cells[f].revision
        \/ j.envelopes[f] = cells[f].envelope

\* Mutant: a row is read without its lock.
RowUnlocked(id) == TRUE

\* Whether nobody has the row of a record locked: FOR UPDATE waits.
RowFree(id) ==
    \A d \in Browsers, s \in Slots :
        JobStep(d, s, "checked") => job[d][s].record # id

\* The request is admitted, reads the row and is checked against it.  sameCreate-
\* Structure compares what a repeated create cannot change here.
Check(b, k) ==
    LET j == job[b][k]
        r == row[j.record]
        accepted == \A f \in DOMAIN j.envelopes : Acceptable(j.envelopes[f])
        outcome ==
            CASE b \notin admitted -> Answered(j, "unauthorized")
              [] b \in admitted /\ ~accepted -> Answered(j, "refused")
              [] b \in admitted /\ accepted /\ j.op = "create" /\ r.exists ->
                    Answered(j, IF Fresh(j) = {} THEN "ok" ELSE "refused")
              [] b \in admitted /\ accepted /\ j.op = "update" /\ ~AsExpected(j, r.cell) ->
                    Answered(j, "changed")
              [] OTHER -> [j EXCEPT !.step = "checked", !.read = r]
    IN /\ JobStep(b, k, "sent")
       /\ j.op = "update" => RowFree(j.record)
       /\ job' = [job EXCEPT ![b][k] = outcome]
       /\ UNCHANGED <<serverVars, session, screen, loads, history, left>>

\* What save writes over the row that was read.
Written(j) ==
    LET revision(f) == IF j.read.exists THEN j.read.cell[f].revision + 1 ELSE 1
        cell(f) == IF f \in Fresh(j) THEN Cell(j.envelopes[f], revision(f)) ELSE j.read.cell[f]
    IN [exists |-> TRUE,
        status |-> j.status,
        completed |-> IF j.op = "create" \/ j.record \notin Tasks THEN j.read.completed
                      ELSE j.status = "done",
        cell |-> [f \in Fields(j.record) |-> cell(f)]]

\* COMMIT.  The answer may get lost, and the request may come a second time.
Commit(b, k) ==
    LET j == job[b][k]
        r == Written(j)
        inserted == j.op = "create" => ~row[j.record].exists
    IN /\ JobStep(b, k, "checked")
       /\ IF inserted
          THEN /\ row' = [row EXCEPT ![j.record] = r]
               /\ writes' = writes \cup {r.cell[f] : f \in Fresh(j)}
          ELSE UNCHANGED <<row, writes>>
       /\ \/ /\ job' = [job EXCEPT ![b][k] = Answered(j, IF inserted THEN "ok" ELSE "refused")]
             /\ UNCHANGED left
          \/ job' = [job EXCEPT ![b][k] = Answered(j, "refused")] /\ Spend("lose")
          \/ job' = [job EXCEPT ![b][k].step = "sent"] /\ Spend("repeat")
       /\ UNCHANGED <<ock, epochs, admitted, session, screen, loads, history>>
-----------------------------------------------------------------------------
(* The answer *)

Finish(b, k) == job' = [job EXCEPT ![b][k] = NoJob]

\* The latest Topic is requested after a refused save.
MayReadLatest(j) == j.answer = "changed" /\ j.attached

\* 401 anywhere locks the browser and sends it to the login.
AuthorizationLost(b) ==
    /\ \/ \E k \in Slots :
             /\ JobStep(b, k, "answered")
             /\ \/ job[b][k].answer = "unauthorized"
                \/ MayReadLatest(job[b][k]) /\ b \notin admitted
             /\ Remounted(b, {}, {k})
       \/ Unauthorized \in loads[b] /\ Remounted(b, {}, {})
    /\ session' = Cleared(b)
    /\ UNCHANGED <<serverVars, history, left>>

\* Whether the view of a save is still there, and the dialog of a Topic shows that
\* Topic.
StillShown(b, j) ==
    /\ j.attached
    /\ j.op = "update" /\ j.record \in Topics =>
          screen[b].draft # NoDraft /\ screen[b].draft.topic = j.record

Saved(b, k) ==
    LET j == job[b][k]
        s == screen[b]
    IN /\ JobStep(b, k, "answered")
       /\ j.answer = "ok"
       /\ Finish(b, k)
       /\ IF ~StillShown(b, j) THEN UNCHANGED <<screen, loads>>
          ELSE /\ screen' = [screen EXCEPT ![b] =
                     IF j.patch = NoFields \/ j.op = "create" THEN s
                     ELSE IF j.record \in Topics THEN ClosedTopic(s) ELSE [s EXCEPT !.form = NoForm]]
               /\ loads' = [loads EXCEPT ![b] = @ \cup {Asked(b)}]
       /\ UNCHANGED <<serverVars, session, history, left>>

\* The form stays, with an error.
SaveFailed(b, k) ==
    /\ JobStep(b, k, "answered")
    /\ \/ job[b][k].answer = "refused"
       \/ job[b][k].answer = "changed" /\ ~MayReadLatest(job[b][k])
    /\ Finish(b, k)
    /\ UNCHANGED <<serverVars, session, screen, loads, history, left>>

\* TOPIC_FIELDS_CHANGED: the latest Topic is requested ...
ReadLatest(b, k) ==
    /\ JobStep(b, k, "answered")
    /\ MayReadLatest(job[b][k])
    /\ b \in admitted
    /\ job' = [job EXCEPT ![b][k].step = "latest", ![b][k].read = row[job[b][k].record]]
    /\ UNCHANGED <<serverVars, session, screen, loads, history, left>>

\* ... and merged: untouched fields follow it, and the next save replaces it.
MergeLatest(b, k) ==
    LET j == job[b][k]
        copy == Unprotect(b, j.record, j.read)
        s == screen[b]
    IN /\ JobStep(b, k, "latest")
       /\ screen' = IF ~StillShown(b, j) THEN screen
                    ELSE [screen EXCEPT ![b].draft =
                            [SyncDraft(@, j.record, copy, s.visible) EXCEPT
                                !.expected = copy.revision]]
       /\ Finish(b, k)
       /\ UNCHANGED <<serverVars, session, loads, history, left>>
-----------------------------------------------------------------------------
FormStep(b) ==
    \/ \E id \in Tasks : OpenTask(b, id)
    \/ \E f \in {"title", "description"}, v \in Values : TypeTask(b, f, v)
    \/ \E id \in Topics : OpenTopic(b, id)
    \/ \E f \in {"name", "membership"}, v \in Values : TypeTopic(b, f, v)
    \/ CancelTopic(b)

SaveStep(b, k) ==
    \/ SaveTask(b, k)
    \/ SaveTopic(b, k)
    \/ \E id \in Tasks : CompleteTask(b, k, id)
    \/ \E id \in Records, v \in Values : Create(b, k, id, v)
    \/ Seal(b, k)
    \/ Check(b, k) \/ Commit(b, k)
    \/ Saved(b, k) \/ SaveFailed(b, k)
    \/ ReadLatest(b, k) \/ MergeLatest(b, k)

Next ==
    \/ \E b \in Browsers :
          \/ Unlock(b) \/ Lock(b) \/ AuthorizationLost(b)
          \/ Load(b) \/ LoadArrives(b)
          \/ FormStep(b)
          \/ \E k \in Slots : SaveStep(b, k)
    \/ Rotate

Spec == Init /\ [][Next]_vars
-----------------------------------------------------------------------------
(* Properties *)

EnvelopeType ==
    [browser : Browsers \cup {"founder"}, epoch : Nat, ock : 1..ock, record : Records,
     field : {"title", "description", "name", "membership", "text"}, counter : Nat \ {0},
     value : (Values \ TooLarge) \cup Placeholders, signed : BOOLEAN]

\* Rows have the fields of their kind, and what they hold was sealed for exactly
\* that place.
ScalarTypeOK ==
    /\ ock \in Nat \ {0}
    /\ sealed \subseteq EnvelopeType
    /\ left \in [Operations -> Nat]
    /\ \A id \in Records : row[id].exists =>
          /\ DOMAIN row[id].cell = Fields(id)
          /\ \A f \in Fields(id) :
                LET e == row[id].cell[f].envelope
                IN e \in EnvelopeType /\ e.record = id /\ e.field = f /\ e.signed

\* The nonce of a scalar is the prefix of the client epoch and a counter per
\* field: whatever saves overlap, are refused, lost or locked out in between, a
\* counter seals one value, as long as no encryption of that field has failed in
\* that epoch.  A failed one deletes the counter, also while others are under way
\* or after the session it began in is gone: CounterNeverRepeats is false then.
CounterSealsOneValue ==
    \A x, y \in sealed :
       SamePlace(x, y) => x = y \/ Place(x.browser, x.epoch, x.record, x.field) \in restarted

\* What the format promises: the counter of a key is never used twice.
CounterNeverRepeats == \A x, y \in sealed : SamePlace(x, y) => x = y

\* The commit revision of a field counts the envelopes that were accepted for it,
\* and the row holds the last of them; an envelope that arrives again changes
\* neither.
RevisionsAreExact ==
    \A id \in Records : row[id].exists => \A f \in Fields(id) :
       LET accepted == {w \in writes : w.envelope.record = id /\ w.envelope.field = f}
       IN /\ row[id].cell[f] \in accepted
          /\ {w.revision : w \in accepted} = 1..Cardinality(accepted)
          /\ row[id].cell[f].revision = Cardinality(accepted)

\* A Topic is saved as a whole, yet a field its user has not touched is never
\* changed by the save: if somebody else has changed it meanwhile, the save is
\* refused and the form merged first.
UntouchedFieldsSurvive ==
    [][\A id \in Topics : row[id].exists => \A f \in Fields(id) :
          row'[id].cell[f].envelope.value # row[id].cell[f].envelope.value =>
             \E b \in Browsers, k \in Slots :
                /\ job[b][k] # NoJob /\ job[b][k].record = id
                /\ job[b][k].step = "checked" /\ job'[b][k] # job[b][k]
                /\ f \in job[b][k].touched]_vars

\* A placeholder stands for text the browser cannot read; it is never sealed in
\* its place.
NoPlaceholderIsSaved == \A e \in sealed : e.value \notin Placeholders
=============================================================================
