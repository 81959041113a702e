------------------------- MODULE ScalarWritesProofs -------------------------
(***************************************************************************)
(* Revisions of protected fields are exact for any number of browsers,     *)
(* records, values and saves that overlap.                                 *)
(*                                                                         *)
(* A request is checked against a row it has locked and written later: the *)
(* invariant says that what it has read is still there (GoodJob), as only  *)
(* one request at a time has a row for update (OneWriter).  A creation     *)
(* locks nothing; it seals all the fields of its record, and of those that *)
(* are checked one finds no row when it commits.                           *)
(***************************************************************************)
EXTENDS ScalarWrites, FiniteSetTheorems, TLAPS

JobFields == {"step", "op", "record", "attached", "patch", "rest", "under", "envelopes",
              "status", "expected", "touched", "answer", "read"}

\* What every save is made of, in a database with these rows.
WholeJob(j, rows) ==
    /\ DOMAIN j = JobFields
    /\ j.record \in Records
    /\ j.op \in {"update", "create"}
    /\ j.rest \in Seq(Fields(j.record))
    /\ \A u \in j.under : u.field \in Fields(j.record)
    /\ DOMAIN j.envelopes \subseteq Fields(j.record)
    /\ \A f \in DOMAIN j.envelopes :
          j.envelopes[f].record = j.record /\ j.envelopes[f].field = f
    /\ j.op = "update" => rows[j.record].exists = TRUE
    /\ j.answer = "changed" \/ j.step = "latest" => j.op = "update" /\ DOMAIN j.expected # {}

\* A creation seals all its fields at once and sends all of them.
SealsAll(j) ==
    j.op = "create" =>
        /\ j.step = "sealing" =>
              j.rest = <<>> /\ Fields(j.record) \subseteq {u.field : u \in j.under}
        /\ j.step \in {"sent", "checked"} => Fields(j.record) \subseteq DOMAIN j.envelopes

\* What a request has read is what it will write over.
ReadIsCurrent(j, rows) ==
    j.step = "checked" =>
        IF j.op = "update" THEN j.read = rows[j.record] ELSE j.read.exists = FALSE

GoodJob(j, rows) == WholeJob(j, rows) /\ SealsAll(j) /\ ReadIsCurrent(j, rows)

\* The save has the row of its record for update.
Holds(j, id) == j.step = "checked" /\ j.op = "update" /\ j.record = id

OneWriter ==
    \A b, d \in Browsers, k, s \in Slots, id \in Records :
        Holds(job[b][k], id) /\ Holds(job[d][s], id) => b = d /\ k = s

JobsInv ==
    /\ job = [b \in Browsers |-> [k \in Slots |-> job[b][k]]]
    /\ \A b \in Browsers, k \in Slots : job[b][k] = NoJob \/ GoodJob(job[b][k], row)
    /\ OneWriter

\* Forms are of records that were stored, and no record is taken away.
GoodScreen(s, rows) ==
    /\ DOMAIN s = {"rows", "form", "draft", "visible"}
    /\ \A id \in DOMAIN s.rows : id \in Records /\ rows[id].exists = TRUE
    /\ s.form = NoForm \/ /\ DOMAIN s.form = {"record", "value", "touched"}
                          /\ s.form.record \in Records
                          /\ rows[s.form.record].exists = TRUE
    /\ s.visible = TRUE => /\ DOMAIN s.draft = {"topic", "base", "value", "expected", "touched"}
                           /\ s.draft.topic \in Records
                           /\ rows[s.draft.topic].exists = TRUE

ScreensInv ==
    /\ screen = [b \in Browsers |-> screen[b]]
    /\ \A b \in Browsers : GoodScreen(screen[b], row)
    /\ loads = [b \in Browsers |-> loads[b]]
    /\ \A b \in Browsers : \A answer \in loads[b] \ {Unauthorized} : \A id \in Records :
          answer[id].exists = TRUE => row[id].exists = TRUE

Accepted(id, f, W) == {w \in W : w.envelope.record = id /\ w.envelope.field = f}

ExactField(id, f, r, W) ==
    /\ IsFiniteSet(Accepted(id, f, W))
    /\ r.cell[f] \in Accepted(id, f, W)
    /\ {w.revision : w \in Accepted(id, f, W)} = 1..Cardinality(Accepted(id, f, W))
    /\ r.cell[f].revision = Cardinality(Accepted(id, f, W))

TablesInv ==
    /\ row = [id \in Records |-> row[id]]
    /\ \A id \in Records : row[id].exists \in BOOLEAN
    /\ \A w \in writes : w.envelope.record \in Records /\ row[w.envelope.record].exists = TRUE
    /\ \A id \in Records : row[id].exists = TRUE =>
          \A f \in Fields(id) : ExactField(id, f, row[id], writes)

RevisionInv == JobsInv /\ ScreensInv /\ TablesInv

-----------------------------------------------------------------------------
(* Fields and envelopes *)

\* The fields of a record are listed in the order in which they are sealed.
LEMMA FieldsAreListed ==
    ASSUME NEW id \in Records
    PROVE  /\ FieldOrder(id) \in Seq(Fields(id))
           /\ FieldOrder(id) # <<>>
           /\ Fields(id) = ToSet(FieldOrder(id))
           /\ "status" \notin Fields(id)
<1> DEFINE names == {"title", "description", "name", "membership", "text"}
<1>1. FieldOrder(id) \in {<<"title", "description">>, <<"name", "membership">>, <<"text">>}
  BY DEF FieldOrder, Records
<1>a. <<"title", "description">> \in Seq(names) /\ <<"title", "description">> # <<>>
  OBVIOUS
<1>b. <<"name", "membership">> \in Seq(names) /\ <<"name", "membership">> # <<>>
  OBVIOUS
<1>c. <<"text">> \in Seq(names) /\ <<"text">> # <<>>
  OBVIOUS
<1>2. FieldOrder(id) \in Seq(names) /\ FieldOrder(id) # <<>>
  BY <1>1, <1>a, <1>b, <1>c
<1>3. \A i \in 1..Len(FieldOrder(id)) : FieldOrder(id)[i] \in Fields(id)
  BY <1>2 DEF Fields, ToSet
<1>4. Fields(id) \subseteq names
  BY <1>2 DEF Fields, ToSet
<1> QED  BY <1>2, <1>3, <1>4 DEF Fields

\* What is sealed next, and what is left, are among what was left before.
LEMMA NextFields ==
    ASSUME NEW S, NEW j, j.rest \in Seq(S), j.rest # <<>>
    PROVE  Beginning(j) \subseteq S /\ Remaining(j) \in Seq(S)
  BY DEF Beginning, Remaining, ToSet

\* A save that goes on after its cipher is again a good one.
LEMMA GoodContinued ==
    ASSUME NEW b \in Browsers, NEW s, NEW j, NEW rows,
           WholeJob(j, rows), j.step = "sealing", j.under = {},
           j.op = "create" => IF j.rest = <<>> THEN Fields(j.record) \subseteq DOMAIN j.envelopes
                              ELSE Fields(j.record) \subseteq ToSet(j.rest)
    PROVE  GoodJob(Continued(b, s, j), rows) /\ Continued(b, s, j).step # "checked"
<1>1. CASE j.rest = <<>>
  BY <1>1 DEF Continued, GoodJob, WholeJob, SealsAll, ReadIsCurrent, JobFields
<1>2. CASE j.rest # <<>> /\ s.epoch = 0
  BY <1>2 DEF Continued, Answered, GoodJob, WholeJob, SealsAll, ReadIsCurrent, JobFields
<1>3. CASE j.rest # <<>> /\ s.epoch # 0
  <2> DEFINE c == Continued(b, s, j)
             item(f) == [field |-> f, epoch |-> s.epoch, ock |-> s.ock,
                         counter |-> Counter(b, j.record, f) + 1]
             taken == {item(f) : f \in Beginning(j)}
  <2>1. c = [j EXCEPT !.rest = Remaining(j), !.under = taken]
    BY <1>3 DEF Continued
  <2>2. /\ DOMAIN c = JobFields /\ c.record = j.record /\ c.op = j.op /\ c.rest = Remaining(j)
        /\ c.under = taken /\ c.envelopes = j.envelopes /\ c.answer = j.answer /\ c.step = "sealing"
        /\ c.expected = j.expected
    BY <2>1 DEF WholeJob, JobFields
  <2>3. Beginning(j) \subseteq Fields(j.record) /\ Remaining(j) \in Seq(Fields(j.record))
    BY <1>3, NextFields DEF WholeJob
  <2>4. \A f : item(f).field = f
    OBVIOUS
  <2> HIDE DEF item
  <2>5. (\A u \in taken : u.field \in Beginning(j)) /\ Beginning(j) \subseteq {u.field : u \in taken}
    BY <2>4
  <2> HIDE DEF taken, c
  <2>6. WholeJob(c, rows)
    BY <2>2, <2>3, <2>5 DEF WholeJob
  <2>7. SealsAll(c)
    BY <1>3, <2>2, <2>5 DEF SealsAll, Beginning, Remaining
  <2>8. GoodJob(c, rows) /\ c.step # "checked"
    BY <2>2, <2>6, <2>7 DEF GoodJob, ReadIsCurrent
  <2> QED  BY <2>8 DEF c
<1> QED  BY <1>1, <1>2, <1>3

\* An answer ends a save.
LEMMA GoodAnswered ==
    ASSUME NEW j, NEW rows, NEW answer, GoodJob(j, rows),
           answer = "changed" => j.op = "update" /\ DOMAIN j.expected # {}
    PROVE  GoodJob(Answered(j, answer), rows) /\ Answered(j, answer).step = "answered"
  BY DEF GoodJob, WholeJob, SealsAll, ReadIsCurrent, Answered, JobFields

\* Envelopes of a record.
LEMMA EnvelopePlace ==
    ASSUME NEW b, NEW n, NEW o, NEW id, NEW f, NEW c, NEW v, NEW g
    PROVE  Envelope(b, n, o, id, f, c, v, g).record = id /\ Envelope(b, n, o, id, f, c, v, g).field = f
  BY DEF Envelope
-----------------------------------------------------------------------------
(* Steps of the saves *)

\* One save goes on; if it takes its row for update, nobody has had it.
LEMMA OneJobMovesOn ==
    ASSUME JobsInv, NEW b \in Browsers, NEW k \in Slots, NEW j,
           job' = [job EXCEPT ![b][k] = j],
           \A d \in Browsers, s \in Slots :
               ~(d = b /\ s = k) => job[d][s] = NoJob \/ GoodJob(job[d][s], row'),
           j = NoJob \/ GoodJob(j, row'),
           j.step = "checked" /\ j.op = "update" =>
               \A d \in Browsers, s \in Slots : ~Holds(job[d][s], j.record)
    PROVE  JobsInv'
<1>1. job' = [d \in Browsers |-> [s \in Slots |-> IF d = b /\ s = k THEN j ELSE job[d][s]]]
  BY DEF JobsInv
<1>2. \A d \in Browsers, s \in Slots :
          job'[d][s] = IF d = b /\ s = k THEN j ELSE job[d][s]
  BY <1>1
<1>3. job' = [d \in Browsers |-> [s \in Slots |-> job'[d][s]]]
  BY <1>1, <1>2
<1>4. \A d \in Browsers, s \in Slots : job'[d][s] = NoJob \/ GoodJob(job'[d][s], row')
  BY <1>2
<1>5. OneWriter'
  <2> SUFFICES ASSUME NEW d \in Browsers, NEW e \in Browsers, NEW s \in Slots, NEW t \in Slots,
                      NEW id \in Records, Holds(job'[d][s], id), Holds(job'[e][t], id)
               PROVE  d = e /\ s = t
    BY DEF OneWriter
  <2>1. CASE d = b /\ s = k /\ ~(e = b /\ t = k)
    BY <2>1, <1>2 DEF Holds
  <2>2. CASE e = b /\ t = k /\ ~(d = b /\ s = k)
    BY <2>2, <1>2 DEF Holds
  <2>3. CASE ~(d = b /\ s = k) /\ ~(e = b /\ t = k)
    BY <2>3, <1>2 DEF JobsInv, OneWriter
  <2> QED  BY <2>1, <2>2, <2>3
<1> QED  BY <1>3, <1>4, <1>5 DEF JobsInv

\* ... and the tables stay as they are.
LEMMA OneJobMoves ==
    ASSUME JobsInv, NEW b \in Browsers, NEW k \in Slots, NEW j,
           job' = [job EXCEPT ![b][k] = j], row' = row,
           j = NoJob \/ GoodJob(j, row),
           j.step = "checked" /\ j.op = "update" =>
               \A d \in Browsers, s \in Slots : ~Holds(job[d][s], j.record)
    PROVE  JobsInv'
<1>1. \A d \in Browsers, s \in Slots : job[d][s] = NoJob \/ GoodJob(job[d][s], row)
  BY DEF JobsInv
<1> QED  BY <1>1, OneJobMovesOn

\* The view a save belongs to is gone, the save is not.
LEMMA Detached ==
    ASSUME NEW j, NEW rows, GoodJob(j, rows)
    PROVE  /\ GoodJob([j EXCEPT !.attached = FALSE], rows)
           /\ \A id : Holds([j EXCEPT !.attached = FALSE], id) => Holds(j, id)
  BY DEF GoodJob, WholeJob, SealsAll, ReadIsCurrent, JobFields, Holds

\* The saves of a browser outlive its view, or end with their answer.
LEMMA JobsDetach ==
    ASSUME JobsInv, row' = row, NEW b \in Browsers, NEW S \in SUBSET Slots,
           job' = [job EXCEPT ![b] = [k \in Slots |->
                      IF k \in S \/ @[k] = NoJob THEN NoJob ELSE [@[k] EXCEPT !.attached = FALSE]]]
    PROVE  JobsInv'
<1> DEFINE new(d, k) == IF d # b THEN job[d][k]
                        ELSE IF k \in S \/ job[d][k] = NoJob THEN NoJob
                        ELSE [job[d][k] EXCEPT !.attached = FALSE]
<1>1. job' = [d \in Browsers |-> [k \in Slots |-> new(d, k)]]
  BY DEF JobsInv
<1> HIDE DEF new
<1>2. \A d \in Browsers, k \in Slots : job'[d][k] = new(d, k)
  BY <1>1
<1>3. job' = [d \in Browsers |-> [k \in Slots |-> job'[d][k]]]
  BY <1>1, <1>2
<1>4. \A d \in Browsers, k \in Slots :
          /\ new(d, k) = NoJob \/ GoodJob(new(d, k), row)
          /\ \A id : Holds(new(d, k), id) => Holds(job[d][k], id)
  <2> TAKE d \in Browsers, k \in Slots
  <2>1. CASE job[d][k] = NoJob
    BY <2>1 DEF new
  <2>2. CASE job[d][k] # NoJob
    <3>1. GoodJob(job[d][k], row)
      BY <2>2 DEF JobsInv
    <3>2. \A id : ~Holds(NoJob, id)
      BY DEF Holds, NoJob
    <3> QED  BY <3>1, <3>2, Detached DEF new
  <2> QED  BY <2>1, <2>2
<1>5. \A d \in Browsers, k \in Slots : job'[d][k] = NoJob \/ GoodJob(job'[d][k], row)
  BY <1>2, <1>4
<1>6. OneWriter'
  <2>1. \A d \in Browsers, k \in Slots, id \in Records : Holds(job'[d][k], id) => Holds(job[d][k], id)
    BY <1>2, <1>4
  <2> SUFFICES ASSUME NEW d \in Browsers, NEW e \in Browsers, NEW s \in Slots, NEW t \in Slots,
                      NEW id \in Records, Holds(job'[d][s], id), Holds(job'[e][t], id)
               PROVE  d = e /\ s = t
    BY DEF OneWriter
  <2>2. Holds(job[d][s], id) /\ Holds(job[e][t], id)
    BY <2>1
  <2> QED  BY <2>2 DEF JobsInv, OneWriter
<1> QED  BY <1>3, <1>5, <1>6 DEF JobsInv

\* A save begins with the first counters it takes.
LEMMA StartKeepsJobs ==
    ASSUME JobsInv, row' = row, NEW b \in Browsers, NEW k \in Slots, NEW op \in {"update", "create"},
           NEW id \in Records, NEW patch, NEW order \in Seq(Fields(id)), NEW state,
           NEW expected, NEW touched,
           op = "update" => row[id].exists = TRUE,
           op = "create" => order = FieldOrder(id),
           Start(b, k, op, id, patch, order, state, expected, touched)
    PROVE  JobsInv'
<1> DEFINE j == [step |-> "sealing", op |-> op, record |-> id, attached |-> TRUE, patch |-> patch,
                 rest |-> order, under |-> {}, envelopes |-> NoFields, status |-> state,
                 expected |-> expected, touched |-> touched, answer |-> "none", read |-> NoRow]
<1>1. WholeJob(j, row)
  BY DEF WholeJob, JobFields, NoFields
<1>2. op = "create" => j.rest # <<>> /\ Fields(id) = ToSet(j.rest)
  BY FieldsAreListed
<1>3. /\ GoodJob(Continued(b, session[b], j), row)
      /\ Continued(b, session[b], j).step # "checked"
  <2>1. j.step = "sealing" /\ j.under = {} /\ j.record = id /\ j.op = op
    OBVIOUS
  <2> HIDE DEF j
  <2> QED  BY <1>1, <1>2, <2>1, GoodContinued
<1>4. job' = [job EXCEPT ![b][k] = Continued(b, session[b], j)]
  BY DEF Start, Proceed
<1> HIDE DEF j
<1> QED  BY <1>3, <1>4, OneJobMoves

\* A save that waits for the cipher, or for the server, is one.
LEMMA JobUnderWay ==
    ASSUME JobsInv, NEW b \in Browsers, NEW k \in Slots, job[b][k].step # "idle"
    PROVE  job[b][k] # NoJob /\ GoodJob(job[b][k], row)
  BY DEF JobsInv, NoJob

\* The cipher is done: what it made belongs to the record.
LEMMA SealKeepsJobs ==
    ASSUME JobsInv, NEW b \in Browsers, NEW k \in Slots, Seal(b, k)
    PROVE  JobsInv'
<1> DEFINE j == job[b][k]
           s == session[b]
           large == {u.field : u \in {u \in j.under : j.patch[u.field] \in TooLarge}}
           sealedOf(u) == Envelope(b, u.epoch, u.ock, j.record, u.field, u.counter,
                                   j.patch[u.field], s.epoch = u.epoch)
           made == {sealedOf(u) : u \in {u \in j.under : u.field \notin large}}
           held == ToSet(FieldOrder(j.record)) \cap
                   (DOMAIN j.envelopes \cup {e.field : e \in made})
           envelopes == [f \in held |-> IF f \in DOMAIN j.envelopes THEN j.envelopes[f]
                                        ELSE CHOOSE e \in made : e.field = f]
           next == [j EXCEPT !.under = {}, !.envelopes = envelopes]
<1>1. j.step = "sealing" /\ row' = row
  BY DEF Seal, JobStep, serverVars
<1>2. GoodJob(j, row)
  BY <1>1, JobUnderWay
<1>3. CASE large # {}
  <2>1. job' = [job EXCEPT ![b][k] = Answered(j, "refused")]
    BY <1>3 DEF Seal
  <2>2. GoodJob(Answered(j, "refused"), row) /\ Answered(j, "refused").step = "answered"
    BY <1>2, GoodAnswered
  <2> HIDE DEF j
  <2> QED  BY <1>1, <2>1, <2>2, OneJobMoves
<1>4. CASE large = {}
  <2>1. job' = [job EXCEPT ![b][k] = Continued(b, s, next)]
    BY <1>4 DEF Seal, Proceed
  <2>2. /\ DOMAIN next = JobFields /\ next.record = j.record /\ next.op = j.op
        /\ next.rest = j.rest /\ next.under = {} /\ next.envelopes = envelopes
        /\ next.answer = j.answer /\ next.step = "sealing" /\ next.expected = j.expected
    BY <1>1, <1>2 DEF GoodJob, WholeJob, JobFields
  <2>3. \A u : sealedOf(u).record = j.record /\ sealedOf(u).field = u.field
    BY EnvelopePlace
  <2> HIDE DEF sealedOf, next, large
  <2>4. \A e \in made : e.record = j.record
    BY <2>3
  <2>5. {e.field : e \in made} = {u.field : u \in j.under}
    BY <1>4, <2>3
  <2>6. ToSet(FieldOrder(j.record)) = Fields(j.record)
    BY <1>2, FieldsAreListed DEF GoodJob, WholeJob
  <2> HIDE DEF made
  <2>7. \A f \in held : envelopes[f].record = j.record /\ envelopes[f].field = f
    BY <1>2, <2>4 DEF GoodJob, WholeJob
  <2>8. DOMAIN envelopes = held /\ held \subseteq Fields(j.record)
    BY <2>6
  <2>9. j.op = "create" => j.rest = <<>> /\ Fields(j.record) \subseteq held
    BY <1>1, <1>2, <2>5, <2>6 DEF GoodJob, SealsAll
  <2> HIDE DEF envelopes, held, j
  <2>10. WholeJob(next, row)
    BY <1>2, <2>2, <2>7, <2>8 DEF GoodJob, WholeJob
  <2>11. GoodJob(Continued(b, s, next), row) /\ Continued(b, s, next).step # "checked"
    BY <2>2, <2>8, <2>9, <2>10, GoodContinued
  <2> QED  BY <1>1, <2>1, <2>11, OneJobMoves
<1> QED  BY <1>3, <1>4

\* The request finds the row as it will overwrite it, and has it alone.
LEMMA CheckKeepsJobs ==
    ASSUME JobsInv, TablesInv, NEW b \in Browsers, NEW k \in Slots, Check(b, k)
    PROVE  JobsInv'
<1> DEFINE j == job[b][k]
           r == row[j.record]
           checked == [j EXCEPT !.step = "checked", !.read = r]
<1>1. j.step = "sent" /\ row' = row
  BY DEF Check, JobStep, serverVars
<1>2. GoodJob(j, row)
  BY <1>1, JobUnderWay
<1>3. CASE \E answer : /\ job' = [job EXCEPT ![b][k] = Answered(j, answer)]
                       /\ answer = "changed" => j.op = "update" /\ DOMAIN j.expected # {}
  <2> PICK answer : /\ job' = [job EXCEPT ![b][k] = Answered(j, answer)]
                    /\ answer = "changed" => j.op = "update" /\ DOMAIN j.expected # {}
    BY <1>3
  <2>1. GoodJob(Answered(j, answer), row) /\ Answered(j, answer).step = "answered"
    BY <1>2, GoodAnswered
  <2> HIDE DEF j
  <2> QED  BY <1>1, <2>1, OneJobMoves
<1>4. CASE /\ job' = [job EXCEPT ![b][k] = checked]
           /\ j.op = "create" => r.exists = FALSE
           /\ j.op = "update" => RowFree(j.record)
  <2>1. /\ DOMAIN checked = JobFields /\ checked.record = j.record /\ checked.op = j.op
        /\ checked.rest = j.rest /\ checked.under = j.under /\ checked.envelopes = j.envelopes
        /\ checked.answer = j.answer /\ checked.step = "checked" /\ checked.read = r
        /\ checked.expected = j.expected
    BY <1>2 DEF GoodJob, WholeJob, JobFields
  <2> HIDE DEF checked
  <2>2. GoodJob(checked, row)
    BY <1>1, <1>2, <1>4, <2>1 DEF GoodJob, WholeJob, SealsAll, ReadIsCurrent
  <2>3. j.op = "update" => \A d \in Browsers, s \in Slots : ~Holds(job[d][s], j.record)
    BY <1>4 DEF RowFree, JobStep, Holds
  <2> HIDE DEF j
  <2> QED  BY <1>1, <1>4, <2>1, <2>2, <2>3, OneJobMoves
<1>5. j.op \in {"update", "create"} /\ j.record \in Records
  BY <1>2 DEF GoodJob, WholeJob
<1>6. r.exists \in BOOLEAN
  BY <1>5 DEF TablesInv
<1> DEFINE accepted == \A f \in DOMAIN j.envelopes : Acceptable(j.envelopes[f])
<1>7. \/ job' = [job EXCEPT ![b][k] = Answered(j, "unauthorized")]
      \/ job' = [job EXCEPT ![b][k] = Answered(j, "refused")]
      \/ job' = [job EXCEPT ![b][k] = Answered(j, "ok")]
      \/ /\ job' = [job EXCEPT ![b][k] = Answered(j, "changed")]
         /\ j.op = "update" /\ DOMAIN j.expected # {}
      \/ /\ job' = [job EXCEPT ![b][k] = checked]
         /\ j.op = "create" => r.exists = FALSE
         /\ j.op = "update" => RowFree(j.record)
  BY <1>5, <1>6 DEF Check, AsExpected
<1> HIDE DEF checked
<1>8. \/ \E answer : /\ job' = [job EXCEPT ![b][k] = Answered(j, answer)]
                     /\ answer = "changed" => j.op = "update" /\ DOMAIN j.expected # {}
      \/ /\ job' = [job EXCEPT ![b][k] = checked]
         /\ j.op = "create" => r.exists = FALSE
         /\ j.op = "update" => RowFree(j.record)
  <2> HIDE DEF j, r
  <2> QED  BY <1>7
<1> QED  BY <1>3, <1>4, <1>8
-----------------------------------------------------------------------------
(* COMMIT *)

\* One more envelope is accepted for a field.
LEMMA OneMoreRevision ==
    ASSUME NEW A, NEW c, IsFiniteSet(A), c \notin A, c.revision = Cardinality(A) + 1,
           {w.revision : w \in A} = 1..Cardinality(A)
    PROVE  /\ IsFiniteSet(A \cup {c})
           /\ Cardinality(A \cup {c}) = Cardinality(A) + 1
           /\ {w.revision : w \in A \cup {c}} = 1..Cardinality(A \cup {c})
<1>1. IsFiniteSet(A \cup {c}) /\ Cardinality(A \cup {c}) = Cardinality(A) + 1
  BY FS_AddElement
<1>2. {w.revision : w \in A \cup {c}} = {w.revision : w \in A} \cup {c.revision}
  OBVIOUS
<1>3. Cardinality(A) \in Nat
  BY FS_CardinalityType
<1>4. \A n \in Nat : (1..n) \cup {n + 1} = 1..(n + 1)
  OBVIOUS
<1> QED  BY <1>1, <1>2, <1>3, <1>4

\* What a commit writes, field by field.
LEMMA WrittenCells ==
    ASSUME NEW j, NEW f \in Fields(j.record)
    PROVE  /\ f \in Fresh(j) =>
                 /\ Written(j).cell[f].envelope = j.envelopes[f]
                 /\ j.read.exists = TRUE => Written(j).cell[f].revision = j.read.cell[f].revision + 1
                 /\ j.read.exists = FALSE => Written(j).cell[f].revision = 1
           /\ f \notin Fresh(j) => Written(j).cell[f] = j.read.cell[f]
<1> DEFINE revision == IF j.read.exists THEN j.read.cell[f].revision + 1 ELSE 1
<1>1. Written(j).cell[f] = IF f \in Fresh(j) THEN Cell(j.envelopes[f], revision) ELSE j.read.cell[f]
  BY DEF Written
<1> QED  BY <1>1 DEF Cell

\* The envelopes of a commit are new ones of its record, one for a field.
LEMMA AcceptedByCommit ==
    ASSUME NEW j, NEW rows, GoodJob(j, rows),
           NEW W, W = writes \cup {Written(j).cell[f] : f \in Fresh(j)}
    PROVE  /\ \A id \in Records : \A f : id # j.record => Accepted(id, f, W) = Accepted(id, f, writes)
           /\ \A f \in Fields(j.record) :
                 /\ f \notin Fresh(j) => Accepted(j.record, f, W) = Accepted(j.record, f, writes)
                 /\ f \in Fresh(j) =>
                       /\ Accepted(j.record, f, W)
                             = Accepted(j.record, f, writes) \cup {Written(j).cell[f]}
                       /\ Written(j).cell[f] \notin Accepted(j.record, f, writes)
           /\ \A w \in W \ writes : w.envelope.record = j.record
<1>1. Fresh(j) \subseteq DOMAIN j.envelopes /\ DOMAIN j.envelopes \subseteq Fields(j.record)
  BY DEF Fresh, GoodJob, WholeJob
<1>a. \A f \in Fresh(j) : Written(j).cell[f].envelope = j.envelopes[f]
  BY <1>1, WrittenCells
<1>2. \A f \in Fresh(j) : /\ Written(j).cell[f].envelope = j.envelopes[f]
                         /\ j.envelopes[f].record = j.record
                         /\ j.envelopes[f].field = f
  BY <1>1, <1>a DEF GoodJob, WholeJob
<1>3. \A f \in Fresh(j) : Written(j).cell[f] \notin writes
  BY <1>2 DEF Fresh, Duplicate
<1> QED  BY <1>2, <1>3 DEF Accepted

\* Revisions count on when a record is written, or begin when it is made.
LEMMA CommitKeepsRevisions ==
    ASSUME TablesInv, NEW j, GoodJob(j, row), j.step = "checked",
           j.op = "create" => row[j.record].exists = FALSE,
           row' = [row EXCEPT ![j.record] = Written(j)],
           writes' = writes \cup {Written(j).cell[f] : f \in Fresh(j)}
    PROVE  TablesInv'
<1> DEFINE id == j.record
           r == Written(j)
<1>1. id \in Records /\ j.op \in {"update", "create"}
  BY DEF GoodJob, WholeJob
<1>2. /\ row' = [x \in Records |-> row'[x]]
      /\ row'[id] = r /\ \A x \in Records \ {id} : row'[x] = row[x]
  BY <1>1 DEF TablesInv
<1>3. r.exists = TRUE
  BY DEF Written
<1>4. \A w \in writes' : w.envelope.record \in Records /\ row'[w.envelope.record].exists = TRUE
  <2> TAKE w \in writes'
  <2>a. w \notin writes => w.envelope.record = id
    BY AcceptedByCommit
  <2>1. w.envelope.record \in Records
        /\ (w.envelope.record = id \/ row[w.envelope.record].exists = TRUE)
    BY <1>1, <2>a DEF TablesInv
  <2> QED  BY <2>1, <1>2, <1>3
<1>5. ASSUME NEW x \in Records \ {id}, row'[x].exists = TRUE, NEW f \in Fields(x)
      PROVE  ExactField(x, f, row'[x], writes')
  <2>1. ExactField(x, f, row[x], writes)
    BY <1>2, <1>5 DEF TablesInv
  <2>2. Accepted(x, f, writes') = Accepted(x, f, writes)
    BY AcceptedByCommit
  <2> QED  BY <1>2, <2>1, <2>2 DEF ExactField
<1>6. ASSUME NEW f \in Fields(id) PROVE ExactField(id, f, r, writes')
  <2> DEFINE A == Accepted(id, f, writes)
             c == r.cell[f]
  <2>a. ASSUME IsFiniteSet(A), {w.revision : w \in A} = 1..Cardinality(A),
               c.revision = Cardinality(A) + 1, c \notin A,
               Accepted(id, f, writes') = A \cup {c}
        PROVE  ExactField(id, f, r, writes')
    <3> HIDE DEF A, c
    <3>1. /\ IsFiniteSet(A \cup {c})
          /\ Cardinality(A \cup {c}) = Cardinality(A) + 1
          /\ {w.revision : w \in A \cup {c}} = 1..Cardinality(A \cup {c})
      BY <2>a, OneMoreRevision
    <3>2. c = r.cell[f]
      BY DEF c
    <3> QED  BY <2>a, <3>1, <3>2 DEF ExactField
  <2>1. CASE j.op = "update"
    <3>1. j.read = row[id] /\ row[id].exists = TRUE /\ ExactField(id, f, row[id], writes)
      BY <1>1, <2>1 DEF GoodJob, WholeJob, ReadIsCurrent, TablesInv
    <3>a. j.read.exists = TRUE /\ j.read.cell[f] = row[id].cell[f]
      BY <3>1
    <3>2. CASE f \in Fresh(j)
      <4>1. /\ IsFiniteSet(A) /\ {w.revision : w \in A} = 1..Cardinality(A)
            /\ row[id].cell[f].revision = Cardinality(A)
        BY <3>1 DEF ExactField
      <4>2. Accepted(id, f, writes') = A \cup {c} /\ c \notin A
        BY <3>2, AcceptedByCommit
      <4>3. c.revision = row[id].cell[f].revision + 1
        <5>1. c.revision = j.read.cell[f].revision + 1
          BY <3>a, <3>2, WrittenCells
        <5> QED  BY <5>1, <3>a
      <4> QED  BY <2>a, <4>1, <4>2, <4>3
    <3>3. CASE f \notin Fresh(j)
      <4>1. c = row[id].cell[f]
        <5>1. c = j.read.cell[f]
          BY <3>3, WrittenCells
        <5> QED  BY <5>1, <3>a
      <4>2. Accepted(id, f, writes') = A
        BY <3>3, AcceptedByCommit
      <4> QED  BY <3>1, <4>1, <4>2 DEF ExactField
    <3> QED  BY <3>2, <3>3
  <2>2. CASE j.op = "create"
    <3>1. \A w \in writes : w.envelope.record # id
      BY <2>2 DEF TablesInv
    <3>2. Fields(id) \subseteq DOMAIN j.envelopes /\ j.read.exists = FALSE
      BY <2>2 DEF GoodJob, SealsAll, ReadIsCurrent
    <3>3. f \in Fresh(j)
      BY <3>1, <3>2 DEF Fresh, Duplicate, GoodJob, WholeJob
    <3>4. A = {} /\ IsFiniteSet(A) /\ Cardinality(A) = 0
      BY <3>1, FS_EmptySet DEF Accepted
    <3>5. c.revision = 1
      BY <3>2, <3>3, WrittenCells
    <3>6. Accepted(id, f, writes') = A \cup {c} /\ c \notin A
      BY <3>3, AcceptedByCommit
    <3>7. {w.revision : w \in A} = 1..Cardinality(A)
      BY <3>4
    <3>8. c.revision = Cardinality(A) + 1
      BY <3>4, <3>5
    <3> QED  BY <2>a, <3>4, <3>6, <3>7, <3>8
  <2> QED  BY <1>1, <2>1, <2>2
<1>7. \A x \in Records : row'[x].exists \in BOOLEAN
  BY <1>2, <1>3 DEF TablesInv
<1>8. \A x \in Records : row'[x].exists = TRUE => \A f \in Fields(x) : ExactField(x, f, row'[x], writes')
  BY <1>2, <1>5, <1>6
<1> QED  BY <1>2, <1>4, <1>7, <1>8 DEF TablesInv

\* A commit replaces the row it has read, or makes one where there was none.
LEMMA CommitWrites ==
    ASSUME JobsInv, TablesInv, NEW b \in Browsers, NEW k \in Slots, Commit(b, k)
    PROVE  \/ row' = row /\ writes' = writes
           \/ /\ job[b][k].op = "create" => row[job[b][k].record].exists = FALSE
              /\ row' = [row EXCEPT ![job[b][k].record] = Written(job[b][k])]
              /\ writes' = writes \cup {Written(job[b][k]).cell[f] : f \in Fresh(job[b][k])}
<1>1. GoodJob(job[b][k], row)
  BY JobUnderWay DEF Commit, JobStep
<1>2. row[job[b][k].record].exists \in BOOLEAN
  BY <1>1 DEF TablesInv, GoodJob, WholeJob
<1> QED  BY <1>2 DEF Commit

\* A commit writes over the row it was checked against, and counts.
LEMMA CommitKeepsTables ==
    ASSUME JobsInv, TablesInv, NEW b \in Browsers, NEW k \in Slots, Commit(b, k)
    PROVE  TablesInv'
<1>1. CASE row' = row /\ writes' = writes
  BY <1>1 DEF TablesInv
<1>2. CASE row' # row \/ writes' # writes
  <2> DEFINE j == job[b][k]
  <2>1. GoodJob(j, row) /\ j.step = "checked"
    BY JobUnderWay DEF Commit, JobStep
  <2>2. /\ j.op = "create" => row[j.record].exists = FALSE
        /\ row' = [row EXCEPT ![j.record] = Written(j)]
        /\ writes' = writes \cup {Written(j).cell[f] : f \in Fresh(j)}
    BY <1>2, CommitWrites
  <2> HIDE DEF j
  <2> QED  BY <2>1, <2>2, CommitKeepsRevisions
<1> QED  BY <1>1, <1>2

\* No record is taken away, and a row that a request has read and holds is not
\* changed by another one.
LEMMA CommitKeepsRows ==
    ASSUME JobsInv, TablesInv, NEW b \in Browsers, NEW k \in Slots, Commit(b, k)
    PROVE  /\ \A id \in Records : row[id].exists = TRUE => row'[id].exists = TRUE
           /\ \A d \in Browsers, s \in Slots :
                 ~(d = b /\ s = k) => job[d][s] = NoJob \/ GoodJob(job[d][s], row')
<1> DEFINE j == job[b][k]
<1>1. GoodJob(j, row) /\ j.step = "checked"
  BY JobUnderWay DEF Commit, JobStep
<1>2. j.record \in Records /\ j.op \in {"update", "create"}
  BY <1>1 DEF GoodJob, WholeJob
<1>3. \/ row' = row
      \/ /\ j.op = "create" => row[j.record].exists = FALSE
         /\ row' = [row EXCEPT ![j.record] = Written(j)]
  BY CommitWrites
<1>4. \A id \in Records : id # j.record => row'[id] = row[id]
  BY <1>3 DEF TablesInv
<1>5. \A id \in Records : row[id].exists = TRUE => row'[id].exists = TRUE
  BY <1>2, <1>3 DEF TablesInv, Written
<1>6. ASSUME NEW d \in Browsers, NEW s \in Slots, ~(d = b /\ s = k), job[d][s] # NoJob
      PROVE  GoodJob(job[d][s], row')
  <2> DEFINE x == job[d][s]
  <2>1. GoodJob(x, row)
    BY <1>6 DEF JobsInv
  <2>2. WholeJob(x, row')
    BY <1>5, <2>1 DEF GoodJob, WholeJob
  <2>3. ReadIsCurrent(x, row')
    <3>1. CASE x.step = "checked" /\ x.op = "update"
      <4>1. x.read = row[x.record] /\ row[x.record].exists = TRUE /\ x.record \in Records
        BY <2>1, <3>1 DEF GoodJob, WholeJob, ReadIsCurrent
      <4>2. CASE x.record = j.record
        <5>1. j.op = "create"
          BY <1>1, <1>2, <1>6, <3>1, <4>1, <4>2 DEF JobsInv, OneWriter, Holds
        <5> QED  BY <5>1, <1>3, <4>1, <4>2, <3>1 DEF ReadIsCurrent
      <4>3. CASE x.record # j.record
        BY <1>4, <4>1, <4>3, <3>1 DEF ReadIsCurrent
      <4> QED  BY <4>2, <4>3
    <3>2. CASE ~(x.step = "checked" /\ x.op = "update")
      BY <2>1, <3>2 DEF GoodJob, ReadIsCurrent
    <3> QED  BY <3>1, <3>2
  <2> QED  BY <2>1, <2>2, <2>3 DEF GoodJob
<1> QED  BY <1>5, <1>6

\* A commit changes the row under no save that is checked: for updates it is locked, and
\* a creation finds one that was inserted meanwhile.
LEMMA CommitKeepsJobs ==
    ASSUME JobsInv, TablesInv, NEW b \in Browsers, NEW k \in Slots, Commit(b, k)
    PROVE  JobsInv'
<1> DEFINE j == job[b][k]
           again == [j EXCEPT !.step = "sent"]
<1>1. GoodJob(j, row) /\ j.step = "checked"
  BY JobUnderWay DEF Commit, JobStep
<1>2. \A id \in Records : row[id].exists = TRUE => row'[id].exists = TRUE
  BY CommitKeepsRows
<1>3. /\ WholeJob(j, row') /\ SealsAll(j)
      /\ DOMAIN again = JobFields
  BY <1>1, <1>2 DEF GoodJob, WholeJob, JobFields
<1>4. /\ GoodJob(again, row') /\ again.step = "sent"
      /\ \A answer : answer # "changed" => /\ GoodJob(Answered(j, answer), row')
                                          /\ Answered(j, answer).step = "answered"
  BY <1>1, <1>3 DEF GoodJob, WholeJob, SealsAll, ReadIsCurrent, Answered, JobFields
<1>5. \/ job' = [job EXCEPT ![b][k] = again]
      \/ job' = [job EXCEPT ![b][k] = Answered(j, "ok")]
      \/ job' = [job EXCEPT ![b][k] = Answered(j, "refused")]
  BY DEF Commit
<1>6. \A d \in Browsers, s \in Slots :
          ~(d = b /\ s = k) => job[d][s] = NoJob \/ GoodJob(job[d][s], row')
  BY CommitKeepsRows
<1> HIDE DEF j, again
<1>7. \A x : job' = [job EXCEPT ![b][k] = x] /\ GoodJob(x, row') /\ x.step # "checked" => JobsInv'
  BY <1>6, OneJobMovesOn
<1> QED  BY <1>4, <1>5, <1>7
-----------------------------------------------------------------------------
(* Views *)

\* One view changes; what it will be answered is what was stored once.
LEMMA OneScreenChanges ==
    ASSUME ScreensInv, row' = row, NEW b \in Browsers, NEW s, GoodScreen(s, row),
           NEW S, S \subseteq loads[b] \cup {row, Unauthorized},
           screen' = [screen EXCEPT ![b] = s], loads' = [loads EXCEPT ![b] = S]
    PROVE  ScreensInv'
<1>1. screen' = [d \in Browsers |-> IF d = b THEN s ELSE screen[d]]
  BY DEF ScreensInv
<1>2. loads' = [d \in Browsers |-> IF d = b THEN S ELSE loads[d]]
  BY DEF ScreensInv
<1>3. screen' = [d \in Browsers |-> screen'[d]] /\ loads' = [d \in Browsers |-> loads'[d]]
  BY <1>1, <1>2
<1>4. \A d \in Browsers : GoodScreen(screen'[d], row)
  BY <1>1 DEF ScreensInv
<1>5. \A d \in Browsers : \A answer \in loads'[d] \ {Unauthorized} : \A id \in Records :
          answer[id].exists = TRUE => row[id].exists = TRUE
  BY <1>2 DEF ScreensInv
<1> QED  BY <1>3, <1>4, <1>5 DEF ScreensInv

\* A view and its answers change together.
LEMMA ScreenChanges ==
    ASSUME ScreensInv, row' = row, NEW b \in Browsers,
           screen' = [d \in Browsers |-> screen'[d]], GoodScreen(screen'[b], row),
           \A d \in Browsers \ {b} : screen'[d] = screen[d],
           NEW S, S \subseteq loads[b] \cup {row, Unauthorized}, loads' = [loads EXCEPT ![b] = S]
    PROVE  ScreensInv'
<1>1. screen' = [screen EXCEPT ![b] = screen'[b]]
  BY DEF ScreensInv
<1> QED  BY <1>1, OneScreenChanges

\* A form of one browser changes.
LEMMA OneFormChanges ==
    ASSUME ScreensInv, row' = row, NEW b \in Browsers, NEW s, GoodScreen(s, row),
           screen' = [screen EXCEPT ![b] = s], loads' = loads
    PROVE  ScreensInv'
<1>1. loads' = [loads EXCEPT ![b] = loads[b]]
  BY DEF ScreensInv
<1> QED  BY <1>1, OneScreenChanges

\* A record that is shown stays stored.
LEMMA ScreensOutlive ==
    ASSUME ScreensInv, screen' = screen, loads' = loads,
           \A id \in Records : row[id].exists = TRUE => row'[id].exists = TRUE
    PROVE  ScreensInv'
<1>1. \A b \in Browsers : GoodScreen(screen[b], row')
  BY DEF ScreensInv, GoodScreen
<1> QED  BY <1>1 DEF ScreensInv

\* A view that is mounted anew shows nothing.
LEMMA EmptyScreenIsGood == GoodScreen(NoScreen, row)
  BY DEF GoodScreen, NoScreen, NoFields

\* Views are mounted anew.
LEMMA RemountKeepsScreens ==
    ASSUME ScreensInv, row' = row, NEW b \in Browsers,
           screen' = [screen EXCEPT ![b] = NoScreen],
           NEW answers, answers \subseteq {row, Unauthorized},
           loads' = [loads EXCEPT ![b] = answers]
    PROVE  ScreensInv'
  BY EmptyScreenIsGood, OneScreenChanges

\* A draft that follows its Topic.
LEMMA SyncedDraft ==
    ASSUME NEW draft, NEW id, NEW copy, NEW visible
    PROVE  /\ DOMAIN SyncDraft(draft, id, copy, visible)
                = {"topic", "base", "value", "expected", "touched"}
           /\ SyncDraft(draft, id, copy, visible).topic = id
  BY DEF SyncDraft

\* Queries bring records that are stored; a form that is open stays with its own.
LEMMA ArrivalKeepsScreens ==
    ASSUME ScreensInv, TablesInv, NEW b \in Browsers, LoadArrives(b)
    PROVE  ScreensInv'
<1>0. GoodScreen(screen[b], row) /\ row' = row
  BY DEF ScreensInv, LoadArrives, serverVars
<1>1. PICK answer \in loads[b] \ {Unauthorized} :
        LET ids == {id \in Records : answer[id].exists}
            rows == [id \in ids |-> Unprotect(b, id, answer[id])]
            draft == screen[b].draft
        IN /\ \/ screen' = screen
              \/ screen' = [screen EXCEPT ![b].rows = rows,
                     ![b].draft = IF draft = NoDraft THEN draft
                                  ELSE SyncDraft(draft, draft.topic, rows[draft.topic],
                                                 screen[b].visible)]
           /\ loads' = [loads EXCEPT ![b] = @ \ {answer}]
  BY DEF LoadArrives
<1> DEFINE ids == {id \in Records : answer[id].exists}
           rows == [id \in ids |-> Unprotect(b, id, answer[id])]
           draft == screen[b].draft
           synced == IF draft = NoDraft THEN draft
                     ELSE SyncDraft(draft, draft.topic, rows[draft.topic], screen[b].visible)
           s == [screen[b] EXCEPT !.rows = rows, !.draft = synced]
<1>2. DOMAIN rows = ids /\ \A id \in ids : id \in Records /\ row[id].exists = TRUE
  BY DEF ScreensInv
<1>3. \/ draft = NoDraft /\ synced = draft
      \/ DOMAIN synced = {"topic", "base", "value", "expected", "touched"} /\ synced.topic = draft.topic
  BY SyncedDraft
<1>4. screen' = screen \/ screen' = [screen EXCEPT ![b].rows = rows, ![b].draft = synced]
  BY <1>1
<1>9. loads' = [loads EXCEPT ![b] = loads[b] \ {answer}]
  BY <1>1
<1>10. CASE screen' = screen
  BY <1>0, <1>9, <1>10, ScreenChanges DEF ScreensInv
<1> SUFFICES ASSUME screen' # screen PROVE ScreensInv'
  BY <1>10
<1>11. screen' = [screen EXCEPT ![b].rows = rows, ![b].draft = synced]
  BY <1>4
<1> HIDE DEF rows, synced
<1>5. GoodScreen(screen[b], row)
  BY DEF ScreensInv
<1>6. /\ DOMAIN screen'[b] = {"rows", "form", "draft", "visible"}
      /\ screen'[b].rows = rows /\ screen'[b].draft = synced
      /\ screen'[b].form = screen[b].form /\ screen'[b].visible = screen[b].visible
  BY <1>11, <1>5 DEF ScreensInv, GoodScreen
<1>7. GoodScreen(screen'[b], row)
  BY <1>2, <1>3, <1>5, <1>6 DEF GoodScreen
<1>8. /\ screen' = [d \in Browsers |-> screen'[d]]
      /\ \A d \in Browsers \ {b} : screen'[d] = screen[d]
  BY <1>11 DEF ScreensInv
<1> QED  BY <1>0, <1>7, <1>8, <1>9, ScreenChanges

\* Forms are opened for what is shown, typed into, and closed.
LEMMA FormsKeepScreens ==
    ASSUME ScreensInv, NEW b \in Browsers, FormStep(b)
    PROVE  ScreensInv'
<1>1. GoodScreen(screen[b], row)
  BY DEF ScreensInv
<1>2. row' = row /\ loads' = loads
  BY DEF FormStep, OpenTask, TypeTask, OpenTopic, TypeTopic, CancelTopic, serverVars
<1>3. ASSUME NEW id \in Tasks, OpenTask(b, id) PROVE ScreensInv'
  <2> DEFINE s == [screen[b] EXCEPT !.form =
                      [record |-> id, value |-> Formed(screen[b].rows[id]), touched |-> {}]]
  <2>1. id \in DOMAIN screen[b].rows /\ screen' = [screen EXCEPT ![b] = s]
    BY <1>3 DEF OpenTask
  <2>2. GoodScreen(s, row)
    BY <1>1, <2>1 DEF GoodScreen
  <2> HIDE DEF s
  <2> QED  BY <1>2, <2>1, <2>2, OneFormChanges
<1>8. loads' = [loads EXCEPT ![b] = loads[b]] /\ loads[b] \subseteq loads[b] \cup {row, Unauthorized}
  BY <1>2 DEF ScreensInv
<1>4. ASSUME NEW f, NEW v, TypeTask(b, f, v) PROVE ScreensInv'
  <2>1. /\ screen' = [d \in Browsers |-> screen'[d]]
        /\ \A d \in Browsers \ {b} : screen'[d] = screen[d]
    BY <1>4 DEF TypeTask, ScreensInv
  <2>2. /\ DOMAIN screen'[b] = DOMAIN screen[b]
        /\ screen'[b].rows = screen[b].rows /\ screen'[b].visible = screen[b].visible
        /\ screen'[b].draft = screen[b].draft
        /\ DOMAIN screen'[b].form = DOMAIN screen[b].form
        /\ screen'[b].form.record = screen[b].form.record
    BY <1>4, <1>1 DEF TypeTask, ScreensInv, GoodScreen
  <2>3. GoodScreen(screen'[b], row)
    BY <1>1, <1>4, <2>2 DEF GoodScreen, TypeTask
  <2> QED  BY <1>2, <1>8, <2>1, <2>3, ScreenChanges
<1>5. ASSUME NEW id \in Topics, OpenTopic(b, id) PROVE ScreensInv'
  <2> DEFINE draft == SyncDraft(screen[b].draft, id, screen[b].rows[id], TRUE)
             s == [screen[b] EXCEPT !.visible = TRUE, !.draft = draft]
  <2>1. id \in DOMAIN screen[b].rows /\ screen' = [screen EXCEPT ![b] = s]
    BY <1>5 DEF OpenTopic
  <2>2. DOMAIN draft = {"topic", "base", "value", "expected", "touched"} /\ draft.topic = id
    BY DEF SyncDraft
  <2> HIDE DEF draft
  <2>3. GoodScreen(s, row)
    BY <1>1, <2>1, <2>2 DEF GoodScreen
  <2> HIDE DEF s
  <2> QED  BY <1>2, <2>1, <2>3, OneFormChanges
<1>6. ASSUME NEW f, NEW v, TypeTopic(b, f, v) PROVE ScreensInv'
  <2>1. /\ screen' = [d \in Browsers |-> screen'[d]]
        /\ \A d \in Browsers \ {b} : screen'[d] = screen[d]
    BY <1>6 DEF TypeTopic, ScreensInv
  <2>2. /\ DOMAIN screen'[b] = DOMAIN screen[b]
        /\ screen'[b].rows = screen[b].rows /\ screen'[b].visible = screen[b].visible
        /\ screen'[b].form = screen[b].form
        /\ screen[b].visible = TRUE => DOMAIN screen'[b].draft = DOMAIN screen[b].draft
        /\ screen[b].visible = TRUE => screen'[b].draft.topic = screen[b].draft.topic
    BY <1>6, <1>1 DEF TypeTopic, ScreensInv, GoodScreen
  <2>3. GoodScreen(screen'[b], row)
    BY <1>1, <1>6, <2>2 DEF GoodScreen, TypeTopic
  <2> QED  BY <1>2, <1>8, <2>1, <2>3, ScreenChanges
<1>7. ASSUME CancelTopic(b) PROVE ScreensInv'
  <2>1. screen' = [screen EXCEPT ![b] = ClosedTopic(screen[b])]
    BY <1>7 DEF CancelTopic
  <2>2. GoodScreen(ClosedTopic(screen[b]), row)
    BY <1>1 DEF GoodScreen, ClosedTopic
  <2> QED  BY <1>2, <2>1, <2>2, OneFormChanges
<1> QED  BY <1>3, <1>4, <1>5, <1>6, <1>7 DEF FormStep
-----------------------------------------------------------------------------
(* Every step *)

\* A lock, an unlock or a refused session: the views are gone, the saves detached.
LEMMA RemountKeepsInv ==
    ASSUME RevisionInv, NEW b \in Browsers, NEW answers, answers \subseteq {row, Unauthorized},
           NEW ended \in SUBSET Slots, Remounted(b, answers, ended), row' = row, writes' = writes
    PROVE  RevisionInv'
<1>1. TablesInv'
  BY DEF RevisionInv, TablesInv
<1>2. ScreensInv'
  BY RemountKeepsScreens DEF RevisionInv, Remounted
<1>3. JobsInv'
  BY JobsDetach DEF RevisionInv, Remounted
<1> QED  BY <1>1, <1>2, <1>3 DEF RevisionInv

\* The three ways to a view that is mounted anew.
LEMMA ViewsMountedAnew ==
    ASSUME NEW b, Unlock(b) \/ Lock(b) \/ AuthorizationLost(b)
    PROVE  \E answers : \E ended \in SUBSET Slots :
              answers \subseteq {row, Unauthorized} /\ Remounted(b, answers, ended)
<1> DEFINE none == {}
<1>1. none \subseteq {row, Unauthorized} /\ none \in SUBSET Slots
  OBVIOUS
<1>2. Asked(b) \in {row, Unauthorized}
  BY DEF Asked
<1>3. CASE Unlock(b) \/ Lock(b)
  <2>1. Remounted(b, {row}, none) \/ Remounted(b, {Asked(b)}, none)
    BY <1>3 DEF Unlock, Lock
  <2> HIDE DEF none
  <2> QED  BY <1>1, <1>2, <2>1
<1>4. CASE AuthorizationLost(b)
  <2>1. Remounted(b, none, none) \/ \E k \in Slots : Remounted(b, none, {k})
    BY <1>4 DEF AuthorizationLost
  <2> HIDE DEF none
  <2> QED  BY <1>1, <2>1
<1> QED  BY <1>3, <1>4

\* Whatever a user does to a form leaves saves and tables alone.
LEMMA ViewKeepsInv ==
    ASSUME RevisionInv, NEW b \in Browsers, Load(b) \/ LoadArrives(b) \/ FormStep(b) \/ Rotate
    PROVE  RevisionInv'
<1>1. row' = row /\ writes' = writes /\ job' = job
  BY DEF Load, LoadArrives, FormStep, OpenTask, TypeTask, OpenTopic, TypeTopic, CancelTopic,
         Rotate, serverVars
<1>2. TablesInv' /\ JobsInv'
  BY <1>1 DEF RevisionInv, TablesInv, JobsInv, OneWriter
<1>3. ScreensInv'
  <2>1. CASE Load(b)
    <3>1. GoodScreen(screen[b], row)
      BY DEF RevisionInv, ScreensInv
    <3>2. screen' = [screen EXCEPT ![b] = screen[b]]
      BY <2>1 DEF Load, RevisionInv, ScreensInv
    <3>3. /\ loads' = [loads EXCEPT ![b] = loads[b] \cup {Asked(b)}]
          /\ Asked(b) \in {row, Unauthorized}
      BY <2>1 DEF Load, Asked
    <3> QED  BY <1>1, <3>1, <3>2, <3>3, OneScreenChanges DEF RevisionInv
  <2>2. CASE LoadArrives(b)
    BY <2>2, ArrivalKeepsScreens DEF RevisionInv
  <2>3. CASE FormStep(b)
    BY <2>3, FormsKeepScreens DEF RevisionInv
  <2>4. CASE Rotate
    BY <2>4, <1>1 DEF Rotate, RevisionInv, ScreensInv
  <2> QED  BY <2>1, <2>2, <2>3, <2>4
<1> QED  BY <1>2, <1>3 DEF RevisionInv

\* Saves begin for records that are stored, creations with all fields.
LEMMA StartKeepsInv ==
    ASSUME RevisionInv, NEW b \in Browsers, NEW k \in Slots,
           \/ SaveTask(b, k) \/ SaveTopic(b, k)
           \/ \E id \in Tasks : CompleteTask(b, k, id)
           \/ \E id \in Records, v \in Values : Create(b, k, id, v)
    PROVE  RevisionInv'
<1>1. /\ row' = row /\ writes' = writes /\ screen' = screen /\ loads' = loads
  BY DEF SaveTask, SaveTopic, CompleteTask, Create, serverVars
<1>2. TablesInv' /\ ScreensInv'
  BY <1>1 DEF RevisionInv, TablesInv, ScreensInv
<1>3. GoodScreen(screen[b], row)
  BY DEF RevisionInv, ScreensInv
<1>4. JobsInv'
  <2>1. CASE SaveTask(b, k)
    <3> DEFINE form == screen[b].form
    <3>1. form.record \in Records /\ row[form.record].exists = TRUE
      BY <1>3, <2>1 DEF GoodScreen, SaveTask
    <3>2. FieldOrder(form.record) \in Seq(Fields(form.record))
      BY <3>1, FieldsAreListed
    <3>3. Start(b, k, "update", form.record, OnlyFields(form.record, form.value),
                FieldOrder(form.record), form.value["status"], NoFields, form.touched)
      BY <2>1 DEF SaveTask
    <3> HIDE DEF form
    <3> QED  BY <1>1, <3>1, <3>2, <3>3, StartKeepsJobs DEF RevisionInv
  <2>2. CASE SaveTopic(b, k)
    <3> DEFINE draft == screen[b].draft
    <3>1. draft.topic \in Records /\ row[draft.topic].exists = TRUE
      BY <1>3, <2>2 DEF GoodScreen, SaveTopic
    <3>2. FieldOrder(draft.topic) \in Seq(Fields(draft.topic))
      BY <3>1, FieldsAreListed
    <3>3. Start(b, k, "update", draft.topic, OnlyFields(draft.topic, draft.value),
                FieldOrder(draft.topic), draft.value["status"], draft.expected, draft.touched)
      BY <2>2 DEF SaveTopic
    <3> HIDE DEF draft
    <3> QED  BY <1>1, <3>1, <3>2, <3>3, StartKeepsJobs DEF RevisionInv
  <2>3. ASSUME NEW id \in Tasks, CompleteTask(b, k, id) PROVE JobsInv'
    <3>1. id \in Records /\ row[id].exists = TRUE
      BY <1>3, <2>3 DEF GoodScreen, CompleteTask
    <3>2. <<>> \in Seq(Fields(id))
      OBVIOUS
    <3>3. Start(b, k, "update", id, NoFields, <<>>, "done", NoFields, {"status"})
      BY <2>3 DEF CompleteTask
    <3> QED  BY <1>1, <3>1, <3>2, <3>3, StartKeepsJobs DEF RevisionInv
  <2>4. ASSUME NEW id \in Records, NEW v \in Values, Create(b, k, id, v) PROVE JobsInv'
    <3>1. FieldOrder(id) \in Seq(Fields(id))
      BY FieldsAreListed
    <3>2. Start(b, k, "create", id, [f \in Fields(id) |-> v], FieldOrder(id), "open",
                NoFields, Fields(id))
      BY <2>4 DEF Create
    <3> QED  BY <1>1, <3>1, <3>2, StartKeepsJobs DEF RevisionInv
  <2> QED  BY <2>1, <2>2, <2>3, <2>4
<1> QED  BY <1>2, <1>4 DEF RevisionInv

\* The answers: a save is over, or asks for the latest Topic.
LEMMA AnswerKeepsInv ==
    ASSUME RevisionInv, NEW b \in Browsers, NEW k \in Slots,
           Saved(b, k) \/ SaveFailed(b, k) \/ ReadLatest(b, k) \/ MergeLatest(b, k)
    PROVE  RevisionInv'
<1> DEFINE j == job[b][k]
<1>1. row' = row /\ writes' = writes
  BY DEF Saved, SaveFailed, ReadLatest, MergeLatest, serverVars
<1>2. TablesInv'
  BY <1>1 DEF RevisionInv, TablesInv
<1>3. GoodJob(j, row)
  BY JobUnderWay DEF Saved, SaveFailed, ReadLatest, MergeLatest, JobStep, RevisionInv
<1>4. GoodScreen(screen[b], row)
  BY DEF RevisionInv, ScreensInv
<1>5. JobsInv'
  <2>1. CASE Saved(b, k) \/ SaveFailed(b, k) \/ MergeLatest(b, k)
    <3>1. job' = [job EXCEPT ![b][k] = NoJob]
      BY <2>1 DEF Saved, SaveFailed, MergeLatest, Finish
    <3>2. NoJob.step # "checked"
      BY DEF NoJob
    <3> QED  BY <1>1, <3>1, <3>2, OneJobMoves DEF RevisionInv
  <2>2. CASE ReadLatest(b, k)
    <3> DEFINE latest == [j EXCEPT !.step = "latest", !.read = row[j.record]]
    <3>1. j.answer = "changed" /\ job' = [job EXCEPT ![b][k] = latest]
      BY <2>2 DEF ReadLatest, MayReadLatest, RevisionInv, JobsInv
    <3>2. GoodJob(latest, row) /\ latest.step # "checked"
      BY <1>3, <3>1 DEF GoodJob, WholeJob, SealsAll, ReadIsCurrent, JobFields
    <3> HIDE DEF latest
    <3> QED  BY <1>1, <3>1, <3>2, OneJobMoves DEF RevisionInv
  <2> QED  BY <2>1, <2>2
<1>6. ScreensInv'
  <2>1. CASE Saved(b, k)
    <3> DEFINE s == IF ~StillShown(b, j) \/ j.patch = NoFields \/ j.op = "create" THEN screen[b]
                    ELSE IF j.record \in Topics THEN ClosedTopic(screen[b])
                    ELSE [screen[b] EXCEPT !.form = NoForm]
               S == IF StillShown(b, j) THEN loads[b] \cup {Asked(b)} ELSE loads[b]
    <3>1. screen' = [screen EXCEPT ![b] = s] /\ loads' = [loads EXCEPT ![b] = S]
      BY <2>1 DEF Saved, RevisionInv, ScreensInv
    <3>2. GoodScreen(s, row)
      BY <1>4 DEF GoodScreen, ClosedTopic
    <3>3. S \subseteq loads[b] \cup {row, Unauthorized}
      BY DEF Asked
    <3> HIDE DEF s, S
    <3> QED  BY <1>1, <3>1, <3>2, <3>3, OneScreenChanges DEF RevisionInv
  <2>2. CASE SaveFailed(b, k) \/ ReadLatest(b, k)
    BY <2>2, <1>1 DEF SaveFailed, ReadLatest, RevisionInv, ScreensInv
  <2>3. CASE MergeLatest(b, k)
    <3> DEFINE copy == Unprotect(b, j.record, j.read)
               draft == [SyncDraft(screen[b].draft, j.record, copy, screen[b].visible) EXCEPT
                            !.expected = copy.revision]
               s == IF StillShown(b, j) THEN [screen[b] EXCEPT !.draft = draft] ELSE screen[b]
    <3>1. screen' = [screen EXCEPT ![b] = s] /\ loads' = loads
      BY <2>3 DEF MergeLatest, RevisionInv, ScreensInv
    <3>2. j.record \in Records /\ row[j.record].exists = TRUE
      BY <1>3, <2>3 DEF GoodJob, WholeJob, MergeLatest, JobStep
    <3>3. /\ DOMAIN draft = {"topic", "base", "value", "expected", "touched"}
          /\ draft.topic = j.record
      BY SyncedDraft
    <3> HIDE DEF draft
    <3>4. GoodScreen(s, row)
      BY <1>4, <3>2, <3>3 DEF GoodScreen
    <3> HIDE DEF s
    <3> QED  BY <1>1, <3>1, <3>4, OneFormChanges DEF RevisionInv
  <2> QED  BY <2>1, <2>2, <2>3
<1> QED  BY <1>2, <1>5, <1>6 DEF RevisionInv

\* The server's steps and the cipher's.
LEMMA WorkKeepsInv ==
    ASSUME RevisionInv, NEW b \in Browsers, NEW k \in Slots,
           Seal(b, k) \/ Check(b, k) \/ Commit(b, k)
    PROVE  RevisionInv'
<1>1. CASE Seal(b, k) \/ Check(b, k)
  <2>1. row' = row /\ writes' = writes /\ screen' = screen /\ loads' = loads
    BY <1>1 DEF Seal, Check, serverVars
  <2>2. JobsInv'
    BY <1>1, SealKeepsJobs, CheckKeepsJobs DEF RevisionInv
  <2> QED  BY <2>1, <2>2 DEF RevisionInv, TablesInv, ScreensInv
<1>2. CASE Commit(b, k)
  <2>1. screen' = screen /\ loads' = loads
    BY <1>2 DEF Commit
  <2>2. JobsInv' /\ TablesInv'
    BY <1>2, CommitKeepsJobs, CommitKeepsTables DEF RevisionInv
  <2>3. \A id \in Records : row[id].exists = TRUE => row'[id].exists = TRUE
    BY <1>2, CommitKeepsRows DEF RevisionInv
  <2>4. ScreensInv'
    BY <2>1, <2>3, ScreensOutlive DEF RevisionInv
  <2> QED  BY <2>2, <2>4 DEF RevisionInv
<1> QED  BY <1>1, <1>2

\* Every step keeps the invariant.
LEMMA NextKeepsInv ==
    ASSUME RevisionInv, [Next]_vars
    PROVE  RevisionInv'
<1>1. ASSUME NEW b \in Browsers, Unlock(b) \/ Lock(b) \/ AuthorizationLost(b)
      PROVE  RevisionInv'
  <2>1. row' = row /\ writes' = writes
    BY <1>1 DEF Unlock, Lock, AuthorizationLost, serverVars
  <2>2. PICK answers : \E ended \in SUBSET Slots :
          answers \subseteq {row, Unauthorized} /\ Remounted(b, answers, ended)
    BY <1>1, ViewsMountedAnew
  <2> QED  BY <2>1, <2>2, RemountKeepsInv
<1>2. ASSUME NEW b \in Browsers, Load(b) \/ LoadArrives(b) \/ FormStep(b) PROVE RevisionInv'
  BY <1>2, ViewKeepsInv
<1>3. ASSUME NEW b \in Browsers, NEW k \in Slots, SaveStep(b, k) PROVE RevisionInv'
  BY <1>3, StartKeepsInv, WorkKeepsInv, AnswerKeepsInv DEF SaveStep
<1>4. CASE Rotate
  BY <1>4 DEF Rotate, RevisionInv, TablesInv, JobsInv, OneWriter, ScreensInv
<1>5. CASE UNCHANGED vars
  BY <1>5 DEF vars, serverVars, RevisionInv, TablesInv, JobsInv, OneWriter, ScreensInv
<1> QED  BY <1>1, <1>2, <1>3, <1>4, <1>5 DEF Next

\* Before anything is saved every field has the envelope it was founded with.
LEMMA InitEstablishesInv == Init => RevisionInv
<1> SUFFICES ASSUME Init PROVE RevisionInv
  OBVIOUS
<1>1. JobsInv
  <2>1. job = [b \in Browsers |-> [k \in Slots |-> NoJob]] /\ NoJob.step # "checked"
    BY DEF Init, NoJob
  <2>2. \A b \in Browsers, k \in Slots : job[b][k] = NoJob
    BY <2>1
  <2> HIDE DEF NoJob
  <2>3. OneWriter
    BY <2>1, <2>2 DEF OneWriter, Holds
  <2> QED  BY <2>1, <2>2, <2>3 DEF JobsInv
<1>2. ScreensInv
  BY EmptyScreenIsGood DEF Init, ScreensInv
<1>3. TablesInv
  <2>1. \A id \in Records : row[id] = IF id \in Stored THEN FoundingRow(id) ELSE NoRow
    BY DEF Init
  <2>a. /\ NoRow.exists = FALSE
        /\ \A id : FoundingRow(id).exists = TRUE
        /\ \A id : FoundingRow(id).cell = [f \in Fields(id) |-> Cell(Founding(id, f), 1)]
    BY DEF FoundingRow, NoRow
  <2>2. \A id \in Records : row[id].exists = IF id \in Stored THEN TRUE ELSE FALSE
    BY <2>1, <2>a
  <2>3. \A w : w \in writes <=> \E id \in Stored : \E f \in Fields(id) : w = Cell(Founding(id, f), 1)
    BY DEF Init
  <2>4. \A id, f : /\ Cell(Founding(id, f), 1).envelope.record = id
                  /\ Cell(Founding(id, f), 1).envelope.field = f
                  /\ Cell(Founding(id, f), 1).revision = 1
    BY DEF Cell, Founding, Envelope
  <2>5. \A w \in writes : w.envelope.record \in Records /\ row[w.envelope.record].exists = TRUE
    <3> TAKE w \in writes
    <3> PICK id \in Stored : \E f \in Fields(id) : w = Cell(Founding(id, f), 1)
      BY <2>3
    <3>1. w.envelope.record = id
      BY <2>4
    <3>2. id \in Records
      BY ScalarConstants DEF ScalarConstants
    <3> QED  BY <2>2, <3>1, <3>2
  <2>6. ASSUME NEW id \in Records, row[id].exists = TRUE, NEW f \in Fields(id)
        PROVE  ExactField(id, f, row[id], writes)
    <3> DEFINE c == Cell(Founding(id, f), 1)
    <3>1. id \in Stored
      BY <2>2, <2>6
    <3>2. row[id].cell[f] = c
      <4>1. row[id].cell = FoundingRow(id).cell
        BY <2>1, <3>1
      <4>2. FoundingRow(id).cell = [g \in Fields(id) |-> Cell(Founding(id, g), 1)]
        BY <2>a
      <4> QED  BY <4>1, <4>2
    <3>3. Accepted(id, f, writes) = {c}
      BY <2>3, <2>4, <3>1 DEF Accepted
    <3>4. c.revision = 1
      BY <2>4
    <3> HIDE DEF c
    <3>5. IsFiniteSet({c}) /\ Cardinality({c}) = 1
      BY FS_Singleton
    <3>6. {w.revision : w \in {c}} = 1..1
      BY <3>4
    <3> QED  BY <3>2, <3>3, <3>4, <3>5, <3>6 DEF ExactField
  <2>7. row = [id \in Records |-> row[id]]
    BY DEF Init
  <2>8. \A id \in Records : row[id].exists \in BOOLEAN
    BY <2>2
  <2> QED  BY <2>5, <2>6, <2>7, <2>8 DEF TablesInv
<1> QED  BY <1>1, <1>2, <1>3 DEF RevisionInv

\* Saves that are checked hold their row or found none, forms are of records that
\* exist, and revisions count what was accepted: an invariant of every step.
THEOREM RevisionInvariance == Spec => []RevisionInv
BY InitEstablishesInv, NextKeepsInv, PTL DEF Spec

\* However many saves overlap, are lost, repeated or refused: revisions count the
\* envelopes that were accepted, and the row holds the last of them.
THEOREM RevisionsHold == Spec => []RevisionsAreExact
<1>1. RevisionInv => RevisionsAreExact
  <2> SUFFICES ASSUME RevisionInv, NEW id \in Records, row[id].exists, NEW f \in Fields(id)
               PROVE  LET accepted == {w \in writes : w.envelope.record = id /\ w.envelope.field = f}
                      IN /\ row[id].cell[f] \in accepted
                         /\ {w.revision : w \in accepted} = 1..Cardinality(accepted)
                         /\ row[id].cell[f].revision = Cardinality(accepted)
    BY DEF RevisionsAreExact
  <2>1. row[id].exists = TRUE
    OBVIOUS
  <2>2. ExactField(id, f, row[id], writes)
    BY <2>1 DEF RevisionInv, TablesInv
  <2> QED  BY <2>2 DEF ExactField, Accepted
<1> QED  BY <1>1, RevisionInvariance, PTL
-----------------------------------------------------------------------------
(* Counters *)

UnderWay(j) == IF j = NoJob THEN {} ELSE j.under

CounterOf(s, id, f) == IF <<id, f>> \in DOMAIN s.counters THEN s.counters[<<id, f>>] ELSE 0

\* A counter of an epoch that the session has passed: it is not given out again.
Taken(s, n, id, f, counter) ==
    /\ n \in Nat \ {0} /\ n <= s.unlocked
    /\ counter \in Nat
    /\ n = s.epoch => counter <= CounterOf(s, id, f)

GoodSession(s) ==
    /\ DOMAIN s = {"epoch", "unlocked", "ock", "counters"}
    /\ s.unlocked \in Nat
    /\ s.epoch \in {0, s.unlocked}
    /\ \A id, f : CounterOf(s, id, f) \in Nat

\* No encryption of the field has failed in the epoch.
Kept(b, n, id, f) == Place(b, n, id, f) \notin restarted

SealedTaken ==
    \A e \in sealed :
        /\ e.browser \in Browsers
        /\ Kept(e.browser, e.epoch, e.record, e.field) =>
              Taken(session[e.browser], e.epoch, e.record, e.field, e.counter)

\* What is being sealed uses a counter that nothing else has used.
UnderWayAlone ==
    \A b \in Browsers, k \in Slots : \A u \in UnderWay(job[b][k]) :
      Kept(b, u.epoch, job[b][k].record, u.field) =>
        /\ Taken(session[b], u.epoch, job[b][k].record, u.field, u.counter)
        /\ \A e \in sealed : ~(/\ e.browser = b /\ e.epoch = u.epoch
                                /\ e.record = job[b][k].record
                                /\ e.field = u.field /\ e.counter = u.counter)
        /\ \A l \in Slots : \A v \in UnderWay(job[b][l]) :
              /\ job[b][l].record = job[b][k].record
              /\ v.epoch = u.epoch /\ v.field = u.field /\ v.counter = u.counter
              => l = k /\ v = u

NonceInv ==
    /\ session = [b \in Browsers |-> session[b]]
    /\ \A b \in Browsers : GoodSession(session[b])
    /\ SealedTaken
    /\ UnderWayAlone
    /\ CounterSealsOneValue

\* Counters are raised for the fields that are sealed next.
LEMMA CountedCounters ==
    ASSUME NEW s, NEW j, GoodSession(s)
    PROVE  /\ GoodSession(Counted(s, j))
           /\ Counted(s, j).epoch = s.epoch /\ Counted(s, j).unlocked = s.unlocked
           /\ \A id, f : CounterOf(Counted(s, j), id, f)
                           = IF id = j.record /\ f \in Beginning(j) THEN CounterOf(s, id, f) + 1
                             ELSE CounterOf(s, id, f)
<1> DEFINE next == [f \in Beginning(j) |->
                       1 + IF <<j.record, f>> \in DOMAIN s.counters
                           THEN s.counters[<<j.record, f>>] ELSE 0]
           places == {<<j.record, f>> : f \in DOMAIN next}
           counters == [x \in places \cup DOMAIN s.counters |->
                           IF x \in places THEN next[x[2]] ELSE s.counters[x]]
           c == Counted(s, j)
<1>1. c = [s EXCEPT !.counters = counters]
  BY DEF Counted, WithCounters
<1>2. /\ DOMAIN c = {"epoch", "unlocked", "ock", "counters"} /\ c.counters = counters
      /\ c.epoch = s.epoch /\ c.unlocked = s.unlocked
  BY <1>1 DEF GoodSession
<1>3. \A f \in Beginning(j) : next[f] = CounterOf(s, j.record, f) + 1
  BY DEF CounterOf, GoodSession
<1>4. DOMAIN next = Beginning(j)
  OBVIOUS
<1> HIDE DEF next
<1>5. \A id, f : <<id, f>> \in places <=> id = j.record /\ f \in Beginning(j)
  BY <1>4
<1>6. \A id, f : <<id, f>>[2] = f
  OBVIOUS
<1> HIDE DEF places, c
<1>7. ASSUME NEW id, NEW f
      PROVE  CounterOf(c, id, f) = IF id = j.record /\ f \in Beginning(j) THEN CounterOf(s, id, f) + 1
                                   ELSE CounterOf(s, id, f)
  BY <1>2, <1>3, <1>5, <1>6 DEF CounterOf
<1>8. GoodSession(c)
  BY <1>2, <1>7 DEF GoodSession
<1> QED  BY <1>2, <1>7, <1>8 DEF c

\* A session that stays, is locked or is opened for a fresh epoch.
SessionMoves(s, t) ==
    \/ t = s
    \/ GoodSession(t) /\ t.unlocked = s.unlocked /\ t.epoch = 0
    \/ GoodSession(t) /\ t.unlocked = s.unlocked + 1 /\ t.epoch = t.unlocked

\* A counter that was taken stays taken.
LEMMA TakenStays ==
    ASSUME NEW s, NEW t, GoodSession(s), SessionMoves(s, t)
    PROVE  /\ GoodSession(t)
           /\ \A n, id, f, counter : Taken(s, n, id, f, counter) => Taken(t, n, id, f, counter)
  BY DEF GoodSession, SessionMoves, Taken

\* Steps that seal nothing and begin nothing.
LEMMA NothingIsSealed ==
    ASSUME NonceInv, sealed' = sealed, restarted' = restarted,
           session' = [b \in Browsers |-> session'[b]],
           \A b \in Browsers : SessionMoves(session[b], session'[b]),
           \A b \in Browsers, k \in Slots :
               /\ UnderWay(job'[b][k]) \subseteq UnderWay(job[b][k])
               /\ UnderWay(job'[b][k]) # {} => job'[b][k].record = job[b][k].record
    PROVE  NonceInv'
<1>1. \A b \in Browsers :
        /\ GoodSession(session'[b])
        /\ \A n, id, f, counter :
              Taken(session[b], n, id, f, counter) => Taken(session'[b], n, id, f, counter)
  BY TakenStays DEF NonceInv
<1>2. SealedTaken'
  BY <1>1 DEF NonceInv, SealedTaken, Kept
<1>3. UnderWayAlone'
  <2> SUFFICES ASSUME NEW b \in Browsers, NEW k \in Slots, NEW u \in UnderWay(job'[b][k]),
                      Kept(b, u.epoch, job'[b][k].record, u.field)
               PROVE  /\ Taken(session'[b], u.epoch, job'[b][k].record, u.field, u.counter)
                      /\ \A e \in sealed' :
                            ~(/\ e.browser = b /\ e.epoch = u.epoch
                              /\ e.record = job'[b][k].record
                              /\ e.field = u.field /\ e.counter = u.counter)
                      /\ \A l \in Slots : \A v \in UnderWay(job'[b][l]) :
                            /\ job'[b][l].record = job'[b][k].record
                            /\ v.epoch = u.epoch /\ v.field = u.field /\ v.counter = u.counter
                            => l = k /\ v = u
    BY DEF UnderWayAlone, Kept
  <2>1. u \in UnderWay(job[b][k]) /\ job'[b][k].record = job[b][k].record
    OBVIOUS
  <2>2. /\ Taken(session[b], u.epoch, job[b][k].record, u.field, u.counter)
        /\ \A e \in sealed : ~(/\ e.browser = b /\ e.epoch = u.epoch
                                /\ e.record = job[b][k].record
                                /\ e.field = u.field /\ e.counter = u.counter)
        /\ \A l \in Slots : \A v \in UnderWay(job[b][l]) :
              /\ job[b][l].record = job[b][k].record
              /\ v.epoch = u.epoch /\ v.field = u.field /\ v.counter = u.counter
              => l = k /\ v = u
    BY <2>1 DEF NonceInv, UnderWayAlone
  <2>3. ASSUME NEW l \in Slots, NEW v \in UnderWay(job'[b][l]),
               job'[b][l].record = job'[b][k].record,
               v.epoch = u.epoch, v.field = u.field, v.counter = u.counter
        PROVE  l = k /\ v = u
    <3>1. v \in UnderWay(job[b][l]) /\ job'[b][l].record = job[b][l].record
      OBVIOUS
    <3> QED  BY <3>1, <2>1, <2>2, <2>3
  <2> QED  BY <1>1, <2>1, <2>2, <2>3
<1>4. CounterSealsOneValue'
  BY DEF NonceInv, CounterSealsOneValue
<1> QED  BY <1>1, <1>2, <1>3, <1>4 DEF NonceInv

\* The cipher makes envelopes of what was under way, and the next ones begin with
\* the counters of their fields raised; other counters stay or are deleted.
CipherStep(b, k, j, t, F, made, record) ==
    /\ \A d \in Browsers, l \in Slots :
          job'[d][l] = IF d = b /\ l = k THEN j ELSE job[d][l]
    /\ session' = [session EXCEPT ![b] = t]
    /\ sealed' = sealed \cup made
    /\ GoodSession(t) /\ t.epoch = session[b].epoch /\ t.unlocked = session[b].unlocked
    /\ restarted \subseteq restarted'
    /\ \A id, f : IF id = record /\ f \in F
                  THEN CounterOf(t, id, f) = CounterOf(session[b], id, f) + 1
                  ELSE \/ CounterOf(t, id, f) = CounterOf(session[b], id, f)
                       \/ Place(b, t.epoch, id, f) \in restarted'
    /\ \A u \in UnderWay(j) :
          /\ j.record = record /\ u.field \in F /\ t.epoch # 0 /\ u.epoch = t.epoch
          /\ u.counter = CounterOf(t, record, u.field)
    /\ \A u, v \in UnderWay(j) : u.field = v.field => u = v
    /\ \A e \in made : \E u \in UnderWay(job[b][k]) :
          /\ e.browser = b /\ e.epoch = u.epoch /\ e.record = job[b][k].record
          /\ e.field = u.field /\ e.counter = u.counter
    /\ \A x, y \in made : SamePlace(x, y) => x = y \/ ~Kept(x.browser, x.epoch, x.record, x.field)

\* What a step of the cipher needs to keep: it takes the next counters, and seals what
\* was under way.
LEMMA CipherMoves ==
    ASSUME NonceInv, NEW b \in Browsers, NEW k \in Slots, NEW j, NEW t, NEW F, NEW made, NEW record,
           CipherStep(b, k, j, t, F, made, record)
    PROVE  NonceInv'
<1> USE DEF CipherStep
<1> DEFINE s == session[b]
           Clear(d, n, id, f) == Place(d, n, id, f) \notin restarted'
<1>0. GoodSession(s) /\ \A d, n, id, f : Clear(d, n, id, f) => Kept(d, n, id, f)
  BY DEF NonceInv, Kept
<1>1. /\ session' = [d \in Browsers |-> session'[d]]
      /\ session'[b] = t /\ \A d \in Browsers \ {b} : session'[d] = session[d]
  BY DEF NonceInv
<1>2. \A d \in Browsers : GoodSession(session'[d])
  BY <1>1 DEF NonceInv
<1>3. \A n, id, f, counter : Clear(b, n, id, f) /\ Taken(s, n, id, f, counter)
                               => Taken(t, n, id, f, counter)
  <2> SUFFICES ASSUME NEW n, NEW id, NEW f, NEW counter, Clear(b, n, id, f),
                      Taken(s, n, id, f, counter)
               PROVE  Taken(t, n, id, f, counter)
    OBVIOUS
  <2>1. /\ CounterOf(s, id, f) \in Nat /\ CounterOf(t, id, f) \in Nat
        /\ n = s.epoch => CounterOf(t, id, f) >= CounterOf(s, id, f)
    BY <1>0 DEF GoodSession
  <2> QED  BY <2>1 DEF Taken
<1>4. \A d \in Browsers : \A n, id, f, counter :
          Clear(d, n, id, f) /\ Taken(session[d], n, id, f, counter)
             => Taken(session'[d], n, id, f, counter)
  BY <1>1, <1>3
<1>5. \A e \in made :
        /\ e.browser = b
        /\ Clear(b, e.epoch, e.record, e.field) =>
              /\ Taken(s, e.epoch, e.record, e.field, e.counter)
              /\ \A x \in sealed : ~SamePlace(e, x) /\ ~SamePlace(x, e)
  BY <1>0 DEF NonceInv, UnderWayAlone, SamePlace
<1>6. SealedTaken'
  <2> HIDE DEF Clear
  <2>1. \A e \in sealed' :
          /\ e.browser \in Browsers
          /\ Clear(e.browser, e.epoch, e.record, e.field) =>
                Taken(session'[e.browser], e.epoch, e.record, e.field, e.counter)
    BY <1>0, <1>4, <1>5 DEF NonceInv, SealedTaken
  <2> QED  BY <2>1 DEF SealedTaken, Kept, Clear
<1>7. CounterSealsOneValue'
  <2> SUFFICES ASSUME NEW x \in sealed', NEW y \in sealed', SamePlace(x, y),
                      Clear(x.browser, x.epoch, x.record, x.field)
               PROVE  x = y
    BY DEF CounterSealsOneValue
  <2>1. Place(x.browser, x.epoch, x.record, x.field) \notin restarted
    OBVIOUS
  <2>2. /\ y.browser = x.browser /\ y.epoch = x.epoch
        /\ y.record = x.record /\ y.field = x.field
    BY DEF SamePlace
  <2>3. CASE x \in sealed /\ y \in sealed
    BY <2>1, <2>3 DEF NonceInv, CounterSealsOneValue
  <2>4. CASE x \in made /\ y \in made
    BY <2>1, <2>4 DEF Kept
  <2>5. CASE x \in made /\ y \in sealed
    BY <1>5, <2>5
  <2>6. CASE x \in sealed /\ y \in made
    BY <1>5, <2>2, <2>6
  <2> QED  BY <2>3, <2>4, <2>5, <2>6

\* A counter that is begun now is above all that were taken.
<1>8. ASSUME NEW u \in UnderWay(j), NEW n, NEW f, NEW counter, Taken(s, n, record, f, counter),
             n = u.epoch, f = u.field
      PROVE  counter # u.counter
  <2>1. /\ CounterOf(s, record, f) \in Nat /\ u.counter = CounterOf(s, record, f) + 1
        /\ n = s.epoch
    BY <1>0, <1>8 DEF GoodSession
  <2>2. counter \in Nat /\ counter <= CounterOf(s, record, f)
    BY <2>1, <1>8 DEF Taken
  <2> QED  BY <2>1, <2>2
<1>9. \A u \in UnderWay(j) : Taken(t, u.epoch, record, u.field, u.counter)
  <2> TAKE u \in UnderWay(j)
  <2>1. CounterOf(t, record, u.field) \in Nat
    BY DEF GoodSession
  <2> QED  BY <2>1 DEF Taken, GoodSession
<1> HIDE DEF Clear
<1>10. UnderWayAlone'
  <2>1. ASSUME NEW u \in UnderWay(j), Clear(b, u.epoch, j.record, u.field)
        PROVE  /\ Taken(t, u.epoch, j.record, u.field, u.counter)
               /\ \A e \in sealed' : ~(/\ e.browser = b /\ e.epoch = u.epoch /\ e.record = j.record
                                        /\ e.field = u.field /\ e.counter = u.counter)
               /\ \A l \in Slots : l # k => \A v \in UnderWay(job[b][l]) :
                     ~(/\ job[b][l].record = j.record /\ v.epoch = u.epoch
                       /\ v.field = u.field /\ v.counter = u.counter)
    <3>1. j.record = record
      OBVIOUS
    <3>2. \A e \in sealed' :
              e.browser = b /\ Clear(b, e.epoch, e.record, e.field)
                 => Taken(s, e.epoch, e.record, e.field, e.counter)
      BY <1>0, <1>5 DEF NonceInv, SealedTaken
    <3>3. \A l \in Slots : \A v \in UnderWay(job[b][l]) :
              Clear(b, v.epoch, job[b][l].record, v.field)
                 => Taken(s, v.epoch, job[b][l].record, v.field, v.counter)
      BY <1>0 DEF NonceInv, UnderWayAlone
    <3> QED  BY <1>8, <1>9, <2>1, <3>1, <3>2, <3>3
  <2>2. ASSUME NEW d \in Browsers, NEW l \in Slots, ~(d = b /\ l = k),
               NEW u \in UnderWay(job[d][l]), Clear(d, u.epoch, job[d][l].record, u.field)
        PROVE  /\ Taken(session'[d], u.epoch, job[d][l].record, u.field, u.counter)
               /\ \A e \in sealed' : ~(/\ e.browser = d /\ e.epoch = u.epoch
                                        /\ e.record = job[d][l].record
                                        /\ e.field = u.field /\ e.counter = u.counter)
    <3>0. Kept(d, u.epoch, job[d][l].record, u.field)
      BY <1>0, <2>2
    <3>1. Taken(session[d], u.epoch, job[d][l].record, u.field, u.counter)
      BY <3>0 DEF NonceInv, UnderWayAlone
    <3>2. \A e \in sealed : ~(/\ e.browser = d /\ e.epoch = u.epoch
                              /\ e.record = job[d][l].record
                              /\ e.field = u.field /\ e.counter = u.counter)
      BY <3>0 DEF NonceInv, UnderWayAlone
    <3>3. ASSUME NEW e \in made, e.browser = d, e.epoch = u.epoch, e.record = job[d][l].record,
                 e.field = u.field, e.counter = u.counter
          PROVE  FALSE
      <4>1. PICK v \in UnderWay(job[b][k]) :
              /\ e.browser = b /\ e.epoch = v.epoch /\ e.record = job[b][k].record
              /\ e.field = v.field /\ e.counter = v.counter
        OBVIOUS
      <4> QED  BY <4>1, <2>2, <3>0, <3>3 DEF NonceInv, UnderWayAlone
    <3> QED  BY <1>4, <2>2, <3>1, <3>2, <3>3
  <2>3. ASSUME NEW d \in Browsers, NEW l \in Slots, NEW m \in Slots,
               NEW u \in UnderWay(job'[d][l]), NEW v \in UnderWay(job'[d][m]),
               Clear(d, u.epoch, job'[d][l].record, u.field),
               job'[d][m].record = job'[d][l].record,
               v.epoch = u.epoch, v.field = u.field, v.counter = u.counter
        PROVE  m = l /\ v = u
    <3>1. CASE d = b /\ l = k
      BY <3>1, <2>1, <2>3
    <3>2. CASE d = b /\ m = k /\ l # k
      BY <3>2, <2>1, <2>3
    <3>3. CASE ~(d = b /\ l = k) /\ ~(d = b /\ m = k)
      <4>1. Kept(d, u.epoch, job[d][l].record, u.field)
        BY <1>0, <3>3, <2>3
      <4> QED  BY <4>1, <3>3, <2>3 DEF NonceInv, UnderWayAlone
    <3> QED  BY <3>1, <3>2, <3>3
  <2>4. ASSUME NEW d \in Browsers, NEW l \in Slots, NEW u \in UnderWay(job'[d][l]),
               Clear(d, u.epoch, job'[d][l].record, u.field)
        PROVE  /\ Taken(session'[d], u.epoch, job'[d][l].record, u.field, u.counter)
               /\ \A e \in sealed' : ~(/\ e.browser = d /\ e.epoch = u.epoch
                                        /\ e.record = job'[d][l].record
                                        /\ e.field = u.field /\ e.counter = u.counter)
    <3>1. CASE d = b /\ l = k
      BY <3>1, <1>1, <2>1, <2>4
    <3>2. CASE ~(d = b /\ l = k)
      BY <3>2, <2>2, <2>4
    <3> QED  BY <3>1, <3>2
  <2>5. \A d, n, id, f : Kept(d, n, id, f)' <=> Clear(d, n, id, f)
    BY DEF Kept, Clear
  <2> HIDE DEF CipherStep, s
  <2> QED  BY <2>3, <2>4, <2>5 DEF UnderWayAlone
<1> QED  BY <1>1, <1>2, <1>6, <1>7, <1>10 DEF NonceInv

\* A save that goes on takes the next counter of each field it seals.
LEMMA ProceedKeepsNonces ==
    ASSUME JobsInv, NonceInv, NEW b \in Browsers, NEW k \in Slots, NEW j, NEW made,
           DOMAIN j = JobFields, j.under = {}, Proceed(b, k, session[b], j),
           sealed' = sealed \cup made, restarted \subseteq restarted',
           \A e \in made : \E u \in UnderWay(job[b][k]) :
               /\ e.browser = b /\ e.epoch = u.epoch /\ e.record = job[b][k].record
               /\ e.field = u.field /\ e.counter = u.counter,
           \A x, y \in made :
               SamePlace(x, y) => x = y \/ ~Kept(x.browser, x.epoch, x.record, x.field)
    PROVE  NonceInv'
<1> DEFINE s == session[b]
           c == Continued(b, s, j)
           t == IF s.epoch = 0 THEN s ELSE Counted(s, j)
           F == IF s.epoch = 0 THEN {} ELSE Beginning(j)
<1>1. GoodSession(s)
  BY DEF NonceInv
<1>2. /\ GoodSession(t) /\ t.epoch = s.epoch /\ t.unlocked = s.unlocked
      /\ \A id, f : CounterOf(t, id, f) = IF id = j.record /\ f \in F THEN CounterOf(s, id, f) + 1
                                           ELSE CounterOf(s, id, f)
  BY <1>1, CountedCounters
<1>3. job' = [job EXCEPT ![b][k] = c] /\ session' = [session EXCEPT ![b] = t]
  BY DEF Proceed
<1>4. \A d \in Browsers, l \in Slots : job'[d][l] = IF d = b /\ l = k THEN c ELSE job[d][l]
  <2>1. job = [d \in Browsers |-> [l \in Slots |-> job[d][l]]]
    BY DEF JobsInv
  <2> HIDE DEF c
  <2> QED  BY <1>3, <2>1
<1>5. \/ c.under = {}
      \/ /\ s.epoch # 0 /\ c.record = j.record
         /\ c.under = {[field |-> f, epoch |-> s.epoch, ock |-> s.ock,
                        counter |-> Counter(b, j.record, f) + 1] : f \in Beginning(j)}
  BY DEF Continued, Answered, JobFields
<1>6. \A f : Counter(b, j.record, f) = CounterOf(s, j.record, f)
  BY DEF Counter, CounterOf
<1>7. UnderWay(c) \subseteq c.under
  BY DEF UnderWay
<1>8. /\ \A u \in UnderWay(c) :
            /\ c.record = j.record /\ u.field \in F /\ t.epoch # 0 /\ u.epoch = t.epoch
            /\ u.counter = CounterOf(t, j.record, u.field)
      /\ \A u, v \in UnderWay(c) : u.field = v.field => u = v
  <2>1. CASE c.under = {}
    BY <1>7, <2>1
  <2>2. CASE c.under # {}
    <3> DEFINE item(f) == [field |-> f, epoch |-> s.epoch, ock |-> s.ock,
                           counter |-> Counter(b, j.record, f) + 1]
    <3>1. /\ s.epoch # 0 /\ c.record = j.record
          /\ c.under = {item(f) : f \in Beginning(j)}
      BY <1>5, <2>2
    <3>2. \A f : item(f).field = f /\ item(f).epoch = s.epoch
                 /\ item(f).counter = Counter(b, j.record, f) + 1
      OBVIOUS
    <3> HIDE DEF item, c, t
    <3>3. \A u \in c.under : \E f \in Beginning(j) : u = item(f)
      BY <3>1
    <3> QED  BY <1>2, <1>6, <1>7, <3>1, <3>2, <3>3
  <2> QED  BY <2>1, <2>2
<1>9. s = session[b]
  OBVIOUS
<1> DEFINE record == j.record
<1>10. /\ \A id, f : IF id = record /\ f \in F
                     THEN CounterOf(t, id, f) = CounterOf(session[b], id, f) + 1
                     ELSE CounterOf(t, id, f) = CounterOf(session[b], id, f)
       /\ \A u \in UnderWay(c) :
             /\ c.record = record /\ u.field \in F /\ t.epoch # 0 /\ u.epoch = t.epoch
             /\ u.counter = CounterOf(t, record, u.field)
       /\ \A u, v \in UnderWay(c) : u.field = v.field => u = v
       /\ GoodSession(t) /\ t.epoch = session[b].epoch /\ t.unlocked = session[b].unlocked
  BY <1>2, <1>8, <1>9
<1>11. session' = [session EXCEPT ![b] = t]
  BY <1>3
<1> HIDE DEF c, t, F, s, record
<1>12. CipherStep(b, k, c, t, F, made, record)
  BY <1>4, <1>10, <1>11 DEF CipherStep
<1> QED  BY <1>12, CipherMoves

\* Counters that are deleted: those of a failed encryption.
LEMMA DeletedCounters ==
    ASSUME NEW s, GoodSession(s), NEW id, NEW large
    PROVE  LET t == WithCounters(s, id, [f \in large |-> 0])
           IN /\ GoodSession(t) /\ t.epoch = s.epoch /\ t.unlocked = s.unlocked
              /\ \A x, f : CounterOf(t, x, f) = IF x = id /\ f \in large THEN 0 ELSE CounterOf(s, x, f)
<1> DEFINE next == [f \in large |-> 0]
           places == {<<id, f>> : f \in DOMAIN next}
           counters == [x \in places \cup DOMAIN s.counters |->
                           IF x \in places THEN next[x[2]] ELSE s.counters[x]]
           t == WithCounters(s, id, next)
<1>1. t = [s EXCEPT !.counters = counters]
  BY DEF WithCounters
<1>2. /\ DOMAIN t = {"epoch", "unlocked", "ock", "counters"} /\ t.counters = counters
      /\ t.epoch = s.epoch /\ t.unlocked = s.unlocked
  BY <1>1 DEF GoodSession
<1>3. DOMAIN next = large /\ \A f \in large : next[f] = 0
  OBVIOUS
<1> HIDE DEF next
<1>4. \A x, f : <<x, f>> \in places <=> x = id /\ f \in large
  BY <1>3
<1>5. \A x, f : <<x, f>>[2] = f
  OBVIOUS
<1> HIDE DEF places, t
<1>6. ASSUME NEW x, NEW f
      PROVE  CounterOf(t, x, f) = IF x = id /\ f \in large THEN 0 ELSE CounterOf(s, x, f)
  BY <1>2, <1>3, <1>4, <1>5 DEF CounterOf
<1>7. GoodSession(t)
  BY <1>2, <1>6 DEF GoodSession
<1> QED  BY <1>2, <1>6, <1>7 DEF t, next

\* The cipher is done, or has failed and takes its counters with it.
LEMMA SealKeepsNonces ==
    ASSUME JobsInv, NonceInv, NEW b \in Browsers, NEW k \in Slots, Seal(b, k)
    PROVE  NonceInv'
<1> DEFINE j == job[b][k]
           s == session[b]
           large == {u.field : u \in {u \in j.under : j.patch[u.field] \in TooLarge}}
           sealedOf(u) == Envelope(b, u.epoch, u.ock, j.record, u.field, u.counter,
                                   j.patch[u.field], s.epoch = u.epoch)
           made == {sealedOf(u) : u \in {u \in j.under : u.field \notin large}}
           held == ToSet(FieldOrder(j.record)) \cap
                   (DOMAIN j.envelopes \cup {e.field : e \in made})
           next == [j EXCEPT !.under = {},
                             !.envelopes = [f \in held |->
                                 IF f \in DOMAIN j.envelopes THEN j.envelopes[f]
                                 ELSE CHOOSE e \in made : e.field = f]]
<1>1. /\ sealed' = sealed \cup made
      /\ restarted' = IF s.epoch = 0 THEN restarted
                      ELSE restarted \cup {Place(b, s.epoch, j.record, f) : f \in large}
  BY DEF Seal
<1>2. /\ large # {} => /\ job' = [job EXCEPT ![b][k] = Answered(j, "refused")]
                       /\ session' = [session EXCEPT ![b] =
                                         IF s.epoch = 0 THEN s
                                         ELSE WithCounters(s, j.record, [f \in large |-> 0])]
      /\ large = {} => Proceed(b, k, s, next)
  BY DEF Seal
<1>3. j # NoJob /\ DOMAIN j = JobFields
  BY JobUnderWay DEF Seal, JobStep, GoodJob, WholeJob
<1>4. DOMAIN next = JobFields /\ next.under = {}
  BY <1>3 DEF JobFields
<1>5. \A u : /\ sealedOf(u).browser = b /\ sealedOf(u).epoch = u.epoch
             /\ sealedOf(u).record = j.record /\ sealedOf(u).field = u.field
             /\ sealedOf(u).counter = u.counter
  BY DEF Envelope
<1>6. UnderWay(j) = j.under
  BY <1>3 DEF UnderWay
<1> HIDE DEF sealedOf, next, large
<1>7. \A e \in made : \E u \in UnderWay(j) :
          /\ e = sealedOf(u)
          /\ e.browser = b /\ e.epoch = u.epoch /\ e.record = j.record
          /\ e.field = u.field /\ e.counter = u.counter
  BY <1>5, <1>6
<1>8. ASSUME NEW x \in made, NEW y \in made, SamePlace(x, y), Kept(b, x.epoch, j.record, x.field)
      PROVE  x = y
  <2>1. PICK u \in UnderWay(j) : /\ x = sealedOf(u) /\ x.epoch = u.epoch
                                 /\ x.field = u.field /\ x.counter = u.counter
    BY <1>7
  <2>2. PICK v \in UnderWay(j) : /\ y = sealedOf(v) /\ y.epoch = v.epoch
                                 /\ y.field = v.field /\ y.counter = v.counter
    BY <1>7
  <2>3. u = v
    BY <1>8, <2>1, <2>2 DEF NonceInv, UnderWayAlone, SamePlace
  <2> QED  BY <2>1, <2>2, <2>3
<1>9. /\ \A e \in made : \E u \in UnderWay(job[b][k]) :
             /\ e.browser = b /\ e.epoch = u.epoch /\ e.record = job[b][k].record
             /\ e.field = u.field /\ e.counter = u.counter
      /\ \A x, y \in made :
             SamePlace(x, y) => x = y \/ ~Kept(x.browser, x.epoch, x.record, x.field)
      /\ restarted \subseteq restarted'
  BY <1>1, <1>7, <1>8
<1>10. CASE large = {}
  <2> HIDE DEF made
  <2>1. Proceed(b, k, session[b], next) /\ sealed' = sealed \cup made
    BY <1>1, <1>2, <1>10
  <2> HIDE DEF j, s
  <2> QED  BY <1>4, <1>9, <2>1, ProceedKeepsNonces
<1>11. CASE large # {}
  <2> DEFINE t == IF s.epoch = 0 THEN s ELSE WithCounters(s, j.record, [f \in large |-> 0])
             c == Answered(j, "refused")
             F == {}
  <2>1. GoodSession(s)
    BY DEF NonceInv
  <2>2. /\ GoodSession(t) /\ t.epoch = s.epoch /\ t.unlocked = s.unlocked
        /\ \A x, f : CounterOf(t, x, f) = IF s.epoch # 0 /\ x = j.record /\ f \in large THEN 0
                                           ELSE CounterOf(s, x, f)
    BY <2>1, DeletedCounters
  <2>3. job' = [job EXCEPT ![b][k] = c] /\ session' = [session EXCEPT ![b] = t]
    BY <1>2, <1>11
  <2>4. UnderWay(c) = {}
    BY <1>3 DEF UnderWay, Answered, JobFields
  <2> HIDE DEF c, t
  <2>5. \A d \in Browsers, l \in Slots : job'[d][l] = IF d = b /\ l = k THEN c ELSE job[d][l]
    <3>1. job = [d \in Browsers |-> [l \in Slots |-> job[d][l]]]
      BY DEF JobsInv
    <3> QED  BY <2>3, <3>1
  <2>6. \A id, f : \/ CounterOf(t, id, f) = CounterOf(s, id, f)
                   \/ Place(b, t.epoch, id, f) \in restarted'
    BY <1>1, <2>2
  <2> HIDE DEF made, j
  <2>7. CipherStep(b, k, c, t, F, made, j.record)
    BY <1>1, <1>9, <2>2, <2>3, <2>4, <2>5, <2>6 DEF CipherStep, j
  <2> QED  BY <2>7, CipherMoves
<1> QED  BY <1>10, <1>11

\* A save takes its first counters.
LEMMA StartKeepsNonces ==
    ASSUME JobsInv, NonceInv, sealed' = sealed, restarted' = restarted,
           NEW b \in Browsers, NEW k \in Slots,
           NEW op, NEW id, NEW patch, NEW order, NEW state, NEW expected, NEW touched,
           Start(b, k, op, id, patch, order, state, expected, touched)
    PROVE  NonceInv'
<1> DEFINE j == [step |-> "sealing", op |-> op, record |-> id, attached |-> TRUE, patch |-> patch,
                 rest |-> order, under |-> {}, envelopes |-> NoFields, status |-> state,
                 expected |-> expected, touched |-> touched, answer |-> "none", read |-> NoRow]
           made == {}
<1>1. Proceed(b, k, session[b], j) /\ DOMAIN j = JobFields /\ j.under = {}
  BY DEF Start, JobFields
<1>2. sealed' = sealed \cup made
  OBVIOUS
<1>3. /\ \A e \in made : \E u \in UnderWay(job[b][k]) :
             /\ e.browser = b /\ e.epoch = u.epoch /\ e.record = job[b][k].record
             /\ e.field = u.field /\ e.counter = u.counter
      /\ \A x, y \in made :
             SamePlace(x, y) => x = y \/ ~Kept(x.browser, x.epoch, x.record, x.field)
      /\ restarted \subseteq restarted'
  OBVIOUS
<1> HIDE DEF j, made
<1> QED  BY <1>1, <1>2, <1>3, ProceedKeepsNonces

\* Steps after which what is under way is still so, or given up.
LEMMA DetachKeepsNonces ==
    ASSUME JobsInv, NonceInv, sealed' = sealed, restarted' = restarted, session' = [d \in Browsers |-> session'[d]],
           \A d \in Browsers : SessionMoves(session[d], session'[d]),
           NEW b \in Browsers, NEW S,
           job' = [job EXCEPT ![b] = [k \in Slots |->
                      IF k \in S \/ @[k] = NoJob THEN NoJob ELSE [@[k] EXCEPT !.attached = FALSE]]]
    PROVE  NonceInv'
<1> DEFINE new(d, k) == IF d # b THEN job[d][k]
                        ELSE IF k \in S \/ job[d][k] = NoJob THEN NoJob
                        ELSE [job[d][k] EXCEPT !.attached = FALSE]
<1>1. job' = [d \in Browsers |-> [k \in Slots |-> new(d, k)]]
  BY DEF JobsInv
<1> HIDE DEF new
<1>2. \A d \in Browsers, k \in Slots : job'[d][k] = new(d, k)
  BY <1>1
<1>3. ASSUME NEW d \in Browsers, NEW k \in Slots
      PROVE  /\ UnderWay(new(d, k)) \subseteq UnderWay(job[d][k])
             /\ UnderWay(new(d, k)) # {} => new(d, k).record = job[d][k].record
  <2>1. CASE new(d, k) = job[d][k]
    BY <2>1
  <2>2. CASE new(d, k) = NoJob
    BY <2>2 DEF UnderWay
  <2>3. CASE job[d][k] # NoJob /\ new(d, k) = [job[d][k] EXCEPT !.attached = FALSE]
    <3>1. DOMAIN job[d][k] = JobFields
      BY <2>3 DEF JobsInv, GoodJob, WholeJob
    <3>2. new(d, k).under = job[d][k].under /\ new(d, k).record = job[d][k].record
      BY <2>3, <3>1 DEF JobFields
    <3> QED  BY <2>3, <3>2 DEF UnderWay
  <2> QED  BY <2>1, <2>2, <2>3 DEF new
<1> QED  BY <1>2, <1>3, NothingIsSealed

\* A save that takes no counter moves on.
LEMMA OneJobKeepsNonces ==
    ASSUME JobsInv, NonceInv, sealed' = sealed, restarted' = restarted, session' = session,
           NEW b \in Browsers, NEW k \in Slots, NEW j, job' = [job EXCEPT ![b][k] = j],
           \/ UnderWay(j) = {}
           \/ UnderWay(j) \subseteq UnderWay(job[b][k]) /\ j.record = job[b][k].record
    PROVE  NonceInv'
<1>1. job' = [d \in Browsers |-> [s \in Slots |-> IF d = b /\ s = k THEN j ELSE job[d][s]]]
  BY DEF JobsInv
<1>2. \A d \in Browsers, s \in Slots :
          job'[d][s] = IF d = b /\ s = k THEN j ELSE job[d][s]
  BY <1>1
<1>3. \A d \in Browsers, s \in Slots :
        /\ UnderWay(job'[d][s]) \subseteq UnderWay(job[d][s])
        /\ UnderWay(job'[d][s]) # {} => job'[d][s].record = job[d][s].record
  BY <1>2
<1>4. session' = [d \in Browsers |-> session'[d]] /\ \A d \in Browsers : SessionMoves(session[d], session'[d])
  BY DEF NonceInv, SessionMoves
<1> QED  BY <1>3, <1>4, NothingIsSealed

\* A request and its answer leave what is under way alone.
LEMMA SameJobIsSealed ==
    ASSUME JobsInv, NonceInv, sealed' = sealed, restarted' = restarted, session' = session, NEW b \in Browsers,
           NEW k \in Slots, job[b][k] # NoJob, NEW next, job' = [job EXCEPT ![b][k] = next],
           \/ next = NoJob
           \/ \E answer : next = Answered(job[b][k], answer)
           \/ \E step, read : next = [job[b][k] EXCEPT !.step = step, !.read = read]
    PROVE  NonceInv'
<1> DEFINE j == job[b][k]
<1>1. DOMAIN j = JobFields
  BY DEF JobsInv, GoodJob, WholeJob
<1>3. UnderWay(NoJob) = {}
  BY DEF UnderWay
<1>4. ASSUME NEW answer PROVE UnderWay(Answered(j, answer)) = {}
  <2>1. Answered(j, answer).under = {}
    BY <1>1 DEF Answered, JobFields
  <2> QED  BY <2>1 DEF UnderWay
<1>5. ASSUME NEW step, NEW read, next = [j EXCEPT !.step = step, !.read = read]
      PROVE  UnderWay(next) \subseteq UnderWay(j) /\ next.record = j.record
  <2>1. next.under = j.under /\ next.record = j.record
    BY <1>1, <1>5 DEF JobFields
  <2> QED  BY <2>1 DEF UnderWay
<1> QED  BY <1>3, <1>4, <1>5, OneJobKeepsNonces

\* The server checks, commits and answers.
LEMMA AnswerKeepsNonces ==
    ASSUME JobsInv, NonceInv, NEW b \in Browsers, NEW k \in Slots,
           \/ Check(b, k) \/ Commit(b, k) \/ Saved(b, k) \/ SaveFailed(b, k)
           \/ ReadLatest(b, k) \/ MergeLatest(b, k)
    PROVE  NonceInv'
<1> DEFINE j == job[b][k]
<1>1. sealed' = sealed /\ restarted' = restarted /\ session' = session /\ j.step # "idle"
  BY DEF Check, Commit, Saved, SaveFailed, ReadLatest, MergeLatest, serverVars, history, JobStep
<1>2. j # NoJob /\ DOMAIN j = JobFields
  BY <1>1, JobUnderWay DEF GoodJob, WholeJob
<1>3. job = [d \in Browsers |-> [s \in Slots |-> job[d][s]]]
  BY DEF JobsInv
<1>4. CASE Check(b, k)
  <2> DEFINE same == row[j.record]
             checked == [j EXCEPT !.step = "checked", !.read = same]
  <2>1. PICK next : /\ job' = [job EXCEPT ![b][k] = next]
                    /\ (\E answer : next = Answered(j, answer)) \/ next = checked
    BY <1>4 DEF Check
  <2>2. \/ \E answer : next = Answered(job[b][k], answer)
        \/ \E step, read : next = [job[b][k] EXCEPT !.step = step, !.read = read]
    BY <2>1
  <2> QED  BY <1>1, <1>2, <2>1, <2>2, SameJobIsSealed
<1>5. CASE Commit(b, k)
  <2> DEFINE again == [j EXCEPT !.step = "sent"]
             kept == j.read
  <2>1. PICK next : /\ job' = [job EXCEPT ![b][k] = next]
                    /\ (\E answer : next = Answered(j, answer)) \/ next = again
    BY <1>3, <1>5 DEF Commit
  <2>2. again = [j EXCEPT !.step = "sent", !.read = kept]
    BY <1>2 DEF JobFields
  <2>3. \/ \E answer : next = Answered(job[b][k], answer)
        \/ \E step, read : next = [job[b][k] EXCEPT !.step = step, !.read = read]
    BY <2>1, <2>2
  <2> QED  BY <1>1, <1>2, <2>1, <2>3, SameJobIsSealed
<1>6. CASE Saved(b, k) \/ SaveFailed(b, k) \/ MergeLatest(b, k)
  <2> DEFINE next == NoJob
  <2>1. job' = [job EXCEPT ![b][k] = next]
    BY <1>6 DEF Saved, SaveFailed, MergeLatest, Finish
  <2>2. next = NoJob
    OBVIOUS
  <2> HIDE DEF next
  <2> QED  BY <1>1, <1>2, <2>1, <2>2, SameJobIsSealed
<1>7. CASE ReadLatest(b, k)
  <2> DEFINE same == row[j.record]
             latest == [j EXCEPT !.step = "latest", !.read = same]
  <2>1. job' = [job EXCEPT ![b][k] = latest]
    BY <1>3, <1>7 DEF ReadLatest
  <2>2. \E step, read : latest = [job[b][k] EXCEPT !.step = step, !.read = read]
    OBVIOUS
  <2> QED  BY <1>1, <1>2, <2>1, <2>2, SameJobIsSealed
<1> QED  BY <1>4, <1>5, <1>6, <1>7

\* Locked, unlocked again or sent away: what is under way keeps its counters.
LEMMA RemountKeepsNonces ==
    ASSUME JobsInv, NonceInv, NEW b \in Browsers,
           Unlock(b) \/ Lock(b) \/ AuthorizationLost(b)
    PROVE  NonceInv'
<1> DEFINE s == session[b]
<1>1. GoodSession(s) /\ session = [d \in Browsers |-> session[d]]
  BY DEF NonceInv
<1>2. PICK t : session' = [session EXCEPT ![b] = t] /\ SessionMoves(s, t)
  <2>1. CASE Unlock(b)
    <3> DEFINE n == s.unlocked + 1
               t == [epoch |-> n, unlocked |-> n, ock |-> ock, counters |-> NoFields]
    <3>1. session' = [session EXCEPT ![b] = t]
      BY <2>1 DEF Unlock
    <3>2. \A id, f : CounterOf(t, id, f) = 0
      BY DEF CounterOf, NoFields
    <3>3. GoodSession(t) /\ t.unlocked = s.unlocked + 1 /\ t.epoch = t.unlocked
      BY <1>1, <3>2 DEF GoodSession
    <3> QED  BY <3>1, <3>3 DEF SessionMoves
  <2>2. CASE Lock(b) \/ AuthorizationLost(b)
    <3> DEFINE t == [s EXCEPT !.epoch = 0, !.counters = NoFields]
    <3>1. session' = [session EXCEPT ![b] = t]
      BY <1>1, <2>2 DEF Lock, AuthorizationLost, Cleared
    <3>2. /\ DOMAIN t = {"epoch", "unlocked", "ock", "counters"}
          /\ t.epoch = 0 /\ t.unlocked = s.unlocked /\ t.counters = NoFields
      BY <1>1 DEF GoodSession
    <3>3. \A id, f : CounterOf(t, id, f) = 0
      BY <3>2 DEF CounterOf, NoFields
    <3>4. GoodSession(t)
      BY <1>1, <3>2, <3>3 DEF GoodSession
    <3> QED  BY <3>1, <3>2, <3>4 DEF SessionMoves
  <2> QED  BY <2>1, <2>2
<1>3. /\ session' = [d \in Browsers |-> session'[d]]
      /\ \A d \in Browsers : SessionMoves(session[d], session'[d])
  BY <1>1, <1>2 DEF SessionMoves
<1>4. sealed' = sealed /\ restarted' = restarted
  BY DEF Unlock, Lock, AuthorizationLost, history
<1>5. PICK answers, ended : Remounted(b, answers, ended)
  BY ViewsMountedAnew
<1> QED  BY <1>3, <1>4, <1>5, DetachKeepsNonces DEF Remounted

\* Every save begins with counters nobody has taken.
LEMMA BeginKeepsNonces ==
    ASSUME JobsInv, NonceInv, NEW b \in Browsers, NEW k \in Slots,
           \/ SaveTask(b, k) \/ SaveTopic(b, k)
           \/ \E id \in Tasks : CompleteTask(b, k, id)
           \/ \E id \in Records, v \in Values : Create(b, k, id, v)
    PROVE  NonceInv'
<1>1. sealed' = sealed /\ restarted' = restarted
  BY DEF SaveTask, SaveTopic, CompleteTask, Create, history
<1>2. PICK op, id, patch, order, status, expected, touched :
          Start(b, k, op, id, patch, order, status, expected, touched)
  BY DEF SaveTask, SaveTopic, CompleteTask, Create
<1> QED  BY <1>1, <1>2, StartKeepsNonces

\* Every step keeps the invariant.
LEMMA NextKeepsNonces ==
    ASSUME JobsInv, NonceInv, [Next]_vars
    PROVE  NonceInv'
<1>1. ASSUME session' = session, sealed' = sealed, restarted' = restarted, job' = job PROVE NonceInv'
  BY <1>1 DEF NonceInv, SealedTaken, UnderWayAlone, CounterSealsOneValue, Kept
<1>2. ASSUME NEW b \in Browsers, Unlock(b) \/ Lock(b) \/ AuthorizationLost(b) PROVE NonceInv'
  BY <1>2, RemountKeepsNonces
<1>3. ASSUME NEW b \in Browsers, Load(b) \/ LoadArrives(b) \/ FormStep(b) PROVE NonceInv'
  BY <1>1, <1>3 DEF Load, LoadArrives, FormStep, OpenTask, TypeTask, OpenTopic, TypeTopic,
                    CancelTopic, history
<1>4. ASSUME NEW b \in Browsers, NEW k \in Slots, SaveStep(b, k) PROVE NonceInv'
  BY <1>4, BeginKeepsNonces, SealKeepsNonces, AnswerKeepsNonces DEF SaveStep
<1>5. CASE Rotate
  BY <1>1, <1>5 DEF Rotate, history
<1>6. CASE UNCHANGED vars
  BY <1>1, <1>6 DEF vars, history
<1> QED  BY <1>2, <1>3, <1>4, <1>5, <1>6 DEF Next

\* Nothing is sealed at first.
LEMMA InitEstablishesNonces == Init => NonceInv
<1> SUFFICES ASSUME Init PROVE NonceInv
  OBVIOUS
<1> DEFINE s == [epoch |-> 0, unlocked |-> 0, ock |-> 0, counters |-> NoFields]
<1>1. \A id, f : CounterOf(s, id, f) = 0
  BY DEF CounterOf, NoFields
<1>2. GoodSession(s)
  BY <1>1 DEF GoodSession
<1>3. \A b \in Browsers : session[b] = s
  BY DEF Init
<1>4. \A b \in Browsers, k \in Slots : UnderWay(job[b][k]) = {}
  BY DEF Init, UnderWay
<1>5. sealed = {} /\ session = [b \in Browsers |-> session[b]]
  BY DEF Init
<1> QED  BY <1>2, <1>3, <1>4, <1>5 DEF NonceInv, SealedTaken, UnderWayAlone, CounterSealsOneValue

\* The counters of a session as an invariant: where none was deleted, a counter
\* that was used is below what its session gives out next, or under way alone.
THEOREM NonceInvariance == Spec => []NonceInv
<1>1. RevisionInv /\ NonceInv /\ [Next]_vars => NonceInv'
  BY NextKeepsNonces DEF RevisionInv
<1> QED  BY <1>1, InitEstablishesNonces, RevisionInvariance, PTL DEF Spec

\* Whatever saves overlap, are refused, lost or locked out in between, the counter
\* of a field seals one value, unless an encryption of that very field has failed
\* in that very epoch: the failures of one field never reset another's counter.
THEOREM CountersHold == Spec => []CounterSealsOneValue
<1>1. NonceInv => CounterSealsOneValue
  BY DEF NonceInv
<1> QED  BY <1>1, NonceInvariance, PTL

-----------------------------------------------------------------------------
(***************************************************************************)
(* What the forms hold is what was read or typed, for any number of        *)
(* browsers, records, values and saves that overlap: no placeholder is     *)
(* sealed and no save changes a field its user has left alone.             *)
(*                                                                         *)
(* A browser that is unlocked and still admitted has the newest content    *)
(* key (KeysInv), and one whose session was revoked is answered 401: so an *)
(* answer that is shown in an unlocked session can be read (Legible), and  *)
(* what is in a form was stored as the revision the save will expect       *)
(* (GoodDraft, GoodSave).  Revisions name what was stored (WritesInv).     *)
(***************************************************************************)
(* What the views show and the forms hold *)

Clean(v) == v \notin Placeholders

\* A row whose text a session with the keys up to n can read.
Legible(id, r, W, n) ==
    r.exists = TRUE => \A f \in Fields(id) :
       r.cell[f] \in Accepted(id, f, W) /\ r.cell[f].envelope.ock <= n

\* The text v was stored as revision n of a field.
StoredAs(id, f, n, v, W) == \E w \in Accepted(id, f, W) : w.revision = n /\ w.envelope.value = v

GoodCopy(id, copy, W) ==
    /\ DOMAIN copy.value = Fields(id) /\ DOMAIN copy.revision = Fields(id)
    /\ \A f \in Fields(id) : StoredAs(id, f, copy.revision[f], copy.value[f], W)

GoodForm(form) ==
    /\ form.record \in Tasks /\ Fields(form.record) \subseteq DOMAIN form.value
    /\ \A f \in Fields(form.record) : Clean(form.value[f])

\* What the user has not touched is the text that was stored as the revision which
\* the save will expect.
GoodDraft(draft, W) ==
    /\ DOMAIN draft = {"topic", "base", "value", "expected", "touched"}
    /\ draft.topic \in Topics
    /\ DOMAIN draft.value = Fields(draft.topic) \cup {"status"}
    /\ DOMAIN draft.expected = Fields(draft.topic)
    /\ \A f \in Fields(draft.topic) : Clean(draft.value[f])
    /\ \A f \in Fields(draft.topic) \ draft.touched :
          /\ draft.value[f] = draft.base[f]
          /\ StoredAs(draft.topic, f, draft.expected[f], draft.value[f], W)

\* Of a view with the answers that are on their way and its session.
GoodView(s, answers, c, W) ==
    /\ s.form # NoForm \/ s.visible = TRUE => c.epoch # 0
    /\ c.epoch # 0 =>
          /\ \A id \in DOMAIN s.rows : GoodCopy(id, s.rows[id], W)
          /\ s.form # NoForm => GoodForm(s.form)
          /\ s.draft # NoDraft => s.draft.topic \in DOMAIN s.rows /\ GoodDraft(s.draft, W)
          /\ \A answer \in answers \ {Unauthorized} : \A id \in Records :
                Legible(id, answer[id], W, c.ock)

\* Of a save that its session c has under way, while the content key is n.
GoodSave(j, c, W, n) ==
    /\ j.rest # <<>> \/ j.under # {} => \A f \in Fields(j.record) : Clean(j.patch[f])
    /\ \A u \in j.under : u.ock \in 0..n
    /\ \A f \in DOMAIN j.envelopes :
          j.envelopes[f].ock \in 0..n /\ Clean(j.envelopes[f].value) /\ j.envelopes[f].value = j.patch[f]
    /\ j.op = "update" /\ j.record \in Topics => \A f \in Fields(j.record) \ j.touched :
          f \in DOMAIN j.expected /\ StoredAs(j.record, f, j.expected[f], j.patch[f], W)
    /\ DOMAIN j.expected # {} => j.record \in Topics
    /\ j.op = "update" /\ j.step = "checked" => AsExpected(j, j.read.cell)
    /\ j.step = "latest" /\ j.attached = TRUE /\ c.epoch # 0 =>
          j.read.exists = TRUE /\ Legible(j.record, j.read, W, c.ock)

KeysInv ==
    /\ ock \in Nat
    /\ session = [b \in Browsers |-> session[b]]
    /\ \A b \in Browsers : /\ DOMAIN session[b] = {"epoch", "unlocked", "ock", "counters"}
                           /\ session[b].ock \in 0..ock
                           /\ b \in admitted /\ session[b].epoch # 0 => session[b].ock = ock

WritesInv ==
    /\ \A w \in writes : w.envelope.ock \in 0..ock /\ Clean(w.envelope.value)
    /\ \A v, w \in writes :
          /\ v.envelope.record = w.envelope.record
          /\ v.envelope.field = w.envelope.field
          /\ v.revision = w.revision
          => v = w

ViewsInv == \A b \in Browsers : GoodView(screen[b], loads[b], session[b], writes)

SavesInv ==
    \A b \in Browsers, k \in Slots :
        job[b][k] = NoJob \/ GoodSave(job[b][k], session[b], writes, ock)

FormsInv == KeysInv /\ WritesInv /\ ViewsInv /\ SavesInv /\ NoPlaceholderIsSaved
-----------------------------------------------------------------------------
\* What was stored stays known.
LEMMA KnownStaysKnown ==
    ASSUME NEW W, NEW V, W \subseteq V
    PROVE  /\ \A id, f, n, v : StoredAs(id, f, n, v, W) => StoredAs(id, f, n, v, V)
           /\ \A id, r, n : Legible(id, r, W, n) => Legible(id, r, V, n)
           /\ \A id, copy : GoodCopy(id, copy, W) => GoodCopy(id, copy, V)
           /\ \A draft : GoodDraft(draft, W) => GoodDraft(draft, V)
<1>1. \A id, f : Accepted(id, f, W) \subseteq Accepted(id, f, V)
  BY DEF Accepted
<1>2. \A id, f, n, v : StoredAs(id, f, n, v, W) => StoredAs(id, f, n, v, V)
  BY <1>1 DEF StoredAs
<1>3. \A id, r, n : Legible(id, r, W, n) => Legible(id, r, V, n)
  BY <1>1 DEF Legible
<1>4. \A id, copy : GoodCopy(id, copy, W) => GoodCopy(id, copy, V)
  BY <1>2 DEF GoodCopy
<1>5. \A draft : GoodDraft(draft, W) => GoodDraft(draft, V)
  BY <1>2 DEF GoodDraft
<1> QED  BY <1>2, <1>3, <1>4, <1>5

\* Views and saves of sessions with the same keys.
LEMMA KnownKeepsViews ==
    ASSUME NEW W, NEW V, W \subseteq V, NEW c, NEW d, d.epoch = c.epoch, d.ock = c.ock
    PROVE  /\ \A s, answers : GoodView(s, answers, c, W) => GoodView(s, answers, d, V)
           /\ \A j, n : GoodSave(j, c, W, n) => GoodSave(j, d, V, n)
<1>1. \A s, answers : GoodView(s, answers, c, W) => GoodView(s, answers, d, V)
  BY KnownStaysKnown DEF GoodView
<1>2. \A j, n : GoodSave(j, c, W, n) => GoodSave(j, d, V, n)
  BY KnownStaysKnown DEF GoodSave
<1> QED  BY <1>1, <1>2

\* A browser that has the keys shows what is stored.
LEMMA UnprotectedCopy ==
    ASSUME NEW b, NEW id, NEW r, NEW W, IsUnlocked(b), r.exists = TRUE,
           Legible(id, r, W, session[b].ock)
    PROVE  GoodCopy(id, Unprotect(b, id, r), W)
<1> DEFINE copy == Unprotect(b, id, r)
<1>1. \A f \in Fields(id) : Readable(b, r.cell[f].envelope)
  BY DEF Legible, Readable
<1>2. /\ DOMAIN copy.value = Fields(id) /\ DOMAIN copy.revision = Fields(id)
      /\ \A f \in Fields(id) : /\ copy.value[f] = r.cell[f].envelope.value
                               /\ copy.revision[f] = r.cell[f].revision
  BY <1>1 DEF Unprotect, Shown
<1> HIDE DEF copy
<1>3. GoodCopy(id, copy, W)
  BY <1>2 DEF GoodCopy, StoredAs, Legible
<1> QED  BY <1>3 DEF copy

\* A draft that follows a Topic stays good: a field its user has changed keeps the
\* revision it was changed from.
LEMMA SyncedDraftIsGood ==
    ASSUME NEW draft, NEW id \in Topics, NEW copy, NEW visible, NEW W, GoodCopy(id, copy, W),
           \A w \in W : Clean(w.envelope.value), draft # NoDraft => GoodDraft(draft, W)
    PROVE  /\ GoodDraft(SyncDraft(draft, id, copy, visible), W)
           /\ GoodDraft([SyncDraft(draft, id, copy, visible) EXCEPT !.expected = copy.revision], W)
<1> DEFINE next == Formed(copy)
           known == draft # NoDraft /\ draft.topic = id
           kept(f) == visible /\ known /\ draft.value[f] # draft.base[f]
           d == SyncDraft(draft, id, copy, visible)
<1>1. /\ DOMAIN d = {"topic", "base", "value", "expected", "touched"} /\ d.topic = id
      /\ d.base = next /\ DOMAIN d.value = DOMAIN next /\ DOMAIN d.expected = Fields(id)
      /\ \A f \in DOMAIN next : d.value[f] = IF kept(f) THEN draft.value[f] ELSE next[f]
      /\ \A f \in Fields(id) : d.expected[f] = IF kept(f) THEN draft.expected[f] ELSE copy.revision[f]
      /\ d.touched = {f \in DOMAIN next : kept(f) /\ f \in draft.touched}
  BY DEF SyncDraft
<1>2. /\ DOMAIN next = Fields(id) \cup {"status"}
      /\ \A f \in Fields(id) : next[f] = copy.value[f]
  BY FieldsAreListed DEF Formed, GoodCopy, Records
<1>3. \A f \in Fields(id) : /\ StoredAs(id, f, copy.revision[f], next[f], W)
                            /\ Clean(next[f])
  BY <1>2 DEF GoodCopy, StoredAs, Accepted
<1>4. \A f \in Fields(id) : kept(f) => /\ Clean(draft.value[f])
                                       /\ f \in draft.touched
  BY DEF GoodDraft
<1> HIDE DEF next, kept, d
<1>5. \A f \in Fields(id) : Clean(d.value[f])
  BY <1>1, <1>2, <1>3, <1>4
<1>6. \A f \in Fields(id) \ d.touched : /\ d.value[f] = d.base[f] /\ d.value[f] = next[f]
                                        /\ d.expected[f] = copy.revision[f]
  BY <1>1, <1>2, <1>4
<1>7. GoodDraft(d, W)
  BY <1>1, <1>2, <1>3, <1>5, <1>6 DEF GoodDraft
<1>8. GoodDraft([d EXCEPT !.expected = copy.revision], W)
  <2> DEFINE e == [d EXCEPT !.expected = copy.revision]
  <2>1. /\ DOMAIN e = {"topic", "base", "value", "expected", "touched"} /\ e.topic = id
        /\ e.base = d.base /\ e.value = d.value /\ e.touched = d.touched
        /\ e.expected = copy.revision
    BY <1>1
  <2> HIDE DEF e
  <2>2. GoodDraft(e, W)
    BY <2>1, <1>1, <1>2, <1>3, <1>5, <1>6 DEF GoodDraft, GoodCopy
  <2> QED  BY <2>2 DEF e
<1> QED  BY <1>7, <1>8 DEF d
-----------------------------------------------------------------------------
(* What steps change *)

SameKeys == \A b \in Browsers : session'[b].epoch = session[b].epoch /\ session'[b].ock = session[b].ock

\* One view changes.
LEMMA OneViewMoves ==
    ASSUME ViewsInv, NEW b \in Browsers, writes \subseteq writes',
           \A d \in Browsers \ {b} : /\ screen'[d] = screen[d] /\ loads'[d] = loads[d]
                                     /\ session'[d].epoch = session[d].epoch
                                     /\ session'[d].ock = session[d].ock,
           GoodView(screen'[b], loads'[b], session'[b], writes')
    PROVE  ViewsInv'
<1>1. \A d \in Browsers \ {b} : GoodView(screen'[d], loads'[d], session'[d], writes')
  BY KnownKeepsViews DEF ViewsInv
<1> QED  BY <1>1 DEF ViewsInv

\* No view changes.
LEMMA SameViews ==
    ASSUME ViewsInv, writes \subseteq writes', screen' = screen, loads' = loads, SameKeys
    PROVE  ViewsInv'
<1>1. \A d \in Browsers : GoodView(screen[d], loads[d], session'[d], writes')
  BY KnownKeepsViews DEF ViewsInv, SameKeys
<1> QED  BY <1>1 DEF ViewsInv

\* One save moves on.
LEMMA OneSaveMoves ==
    ASSUME JobsInv, SavesInv, NEW b \in Browsers, NEW k \in Slots, NEW j,
           job' = [job EXCEPT ![b][k] = j], writes \subseteq writes', ock' = ock, SameKeys,
           j = NoJob \/ GoodSave(j, session'[b], writes', ock)
    PROVE  SavesInv'
<1>1. job' = [d \in Browsers |-> [s \in Slots |-> IF d = b /\ s = k THEN j ELSE job[d][s]]]
  BY DEF JobsInv
<1>2. \A d \in Browsers, s \in Slots :
          job'[d][s] = IF d = b /\ s = k THEN j ELSE job[d][s]
  BY <1>1
<1>3. \A d \in Browsers, s \in Slots :
          job[d][s] = NoJob \/ GoodSave(job[d][s], session'[d], writes', ock)
  BY KnownKeepsViews DEF SavesInv, SameKeys
<1> QED  BY <1>2, <1>3 DEF SavesInv

\* No save moves on.
LEMMA SameSaves ==
    ASSUME SavesInv, job' = job, writes \subseteq writes', ock' = ock, SameKeys
    PROVE  SavesInv'
<1>3. \A d \in Browsers, s \in Slots :
          job[d][s] = NoJob \/ GoodSave(job[d][s], session'[d], writes', ock)
  BY KnownKeepsViews DEF SavesInv, SameKeys
<1> QED  BY <1>3 DEF SavesInv

\* No session and no key changes.
LEMMA SameSession ==
    ASSUME KeysInv, session' = session, ock' = ock, admitted' = admitted
    PROVE  KeysInv' /\ SameKeys
  BY DEF KeysInv, SameKeys

\* A save goes on with the counters of its next fields taken.
LEMMA ProceedKeepsForms ==
    ASSUME JobsInv, KeysInv, WritesInv, ViewsInv, SavesInv, NEW b \in Browsers, NEW k \in Slots,
           NEW j, DOMAIN j = JobFields, j.record \in Records, j.rest \in Seq(Fields(j.record)),
           j.step = "sealing", j.under = {}, GoodSave(j, session[b], writes, ock),
           Proceed(b, k, session[b], j), UNCHANGED <<serverVars, screen, loads>>,
           NoPlaceholderIsSaved'
    PROVE  FormsInv'
<1> DEFINE s == session[b]
           t == IF s.epoch = 0 THEN s ELSE Counted(s, j)
           c == Continued(b, s, j)
<1>0. /\ ock' = ock /\ admitted' = admitted /\ writes' = writes /\ screen' = screen /\ loads' = loads
      /\ s.ock \in 0..ock
  BY DEF serverVars, KeysInv
<1>1. session' = [session EXCEPT ![b] = t] /\ job' = [job EXCEPT ![b][k] = c]
  BY DEF Proceed
<1>2. /\ DOMAIN t = {"epoch", "unlocked", "ock", "counters"}
      /\ t.epoch = s.epoch /\ t.ock = s.ock
  BY DEF KeysInv, Counted, WithCounters
<1> HIDE DEF t
<1>3. KeysInv' /\ SameKeys
  BY <1>0, <1>1, <1>2 DEF KeysInv, SameKeys
<1>4. GoodSave(c, s, writes, ock)
  <2>1. CASE j.rest = <<>>
    <3>1. c = [j EXCEPT !.step = "sent"]
      BY <2>1 DEF Continued
    <3>2. /\ c.rest = j.rest /\ c.under = j.under /\ c.record = j.record /\ c.patch = j.patch
          /\ c.envelopes = j.envelopes /\ c.op = j.op /\ c.touched = j.touched
          /\ c.expected = j.expected /\ c.step = "sent"
      BY <3>1 DEF JobFields
    <3> QED  BY <3>2 DEF GoodSave
  <2>2. CASE j.rest # <<>> /\ s.epoch = 0
    <3>1. c = Answered(j, "refused")
      BY <2>2 DEF Continued
    <3>2. /\ c.rest = j.rest /\ c.under = {} /\ c.record = j.record /\ c.patch = j.patch
          /\ c.envelopes = j.envelopes /\ c.op = j.op /\ c.touched = j.touched
          /\ c.expected = j.expected /\ c.step = "answered"
      BY <3>1 DEF JobFields, Answered
    <3> QED  BY <3>2 DEF GoodSave
  <2>3. CASE j.rest # <<>> /\ s.epoch # 0
    <3> DEFINE item(f) == [field |-> f, epoch |-> s.epoch, ock |-> s.ock,
                           counter |-> Counter(b, j.record, f) + 1]
    <3>1. c = [j EXCEPT !.rest = Remaining(j), !.under = {item(f) : f \in Beginning(j)}]
      BY <2>3 DEF Continued
    <3>2. /\ c.under = {item(f) : f \in Beginning(j)} /\ c.record = j.record /\ c.patch = j.patch
          /\ c.envelopes = j.envelopes /\ c.op = j.op /\ c.touched = j.touched
          /\ c.expected = j.expected /\ c.step = "sealing"
      BY <3>1 DEF JobFields
    <3>3. \A u \in c.under : u.ock \in 0..ock
      BY <1>0, <3>2
    <3> HIDE DEF c
    <3> QED  BY <2>3, <3>2, <3>3 DEF GoodSave
  <2> QED  BY <2>1, <2>2, <2>3
<1> HIDE DEF c
<1>5. session'[b] = t
  BY <1>1 DEF KeysInv
<1>6. GoodSave(c, t, writes, ock)
  BY <1>2, <1>4, KnownKeepsViews
<1>7. SavesInv' /\ ViewsInv'
  BY <1>0, <1>1, <1>3, <1>5, <1>6, OneSaveMoves, SameViews
<1>8. WritesInv'
  BY <1>0 DEF WritesInv
<1> QED  BY <1>3, <1>7, <1>8 DEF FormsInv

\* A save begins with what its form holds.
LEMMA StartKeepsForms ==
    ASSUME JobsInv, FormsInv, NEW b \in Browsers, NEW k \in Slots, NEW op, NEW id \in Records,
           NEW patch, NEW order \in Seq(Fields(id)), NEW state, NEW expected, NEW touched,
           Start(b, k, op, id, patch, order, state, expected, touched),
           UNCHANGED <<serverVars, screen, loads, sealed>>,
           order # <<>> => \A f \in Fields(id) : Clean(patch[f]),
           DOMAIN expected # {} => id \in Topics,
           op = "update" /\ id \in Topics => \A f \in Fields(id) \ touched :
              f \in DOMAIN expected /\ StoredAs(id, f, expected[f], patch[f], writes)
    PROVE  FormsInv'
<1> DEFINE j == [step |-> "sealing", op |-> op, record |-> id, attached |-> TRUE, patch |-> patch,
                 rest |-> order, under |-> {}, envelopes |-> NoFields, status |-> state,
                 expected |-> expected, touched |-> touched, answer |-> "none", read |-> NoRow]
<1>1. Proceed(b, k, session[b], j)
  BY DEF Start
<1>2. /\ DOMAIN j = JobFields /\ j.record = id /\ j.rest = order /\ j.step = "sealing"
      /\ j.under = {} /\ j.op = op /\ j.patch = patch /\ j.touched = touched
      /\ j.expected = expected /\ DOMAIN j.envelopes = {}
  BY DEF JobFields, NoFields
<1> HIDE DEF j
<1>3. GoodSave(j, session[b], writes, ock)
  BY <1>2 DEF GoodSave
<1>4. NoPlaceholderIsSaved'
  BY DEF FormsInv, NoPlaceholderIsSaved
<1> QED  BY <1>1, <1>2, <1>3, <1>4, ProceedKeepsForms DEF FormsInv

\* Every save begins with what was read or typed.
LEMMA BeginKeepsForms ==
    ASSUME RevisionInv, FormsInv, NEW b \in Browsers, NEW k \in Slots,
           \/ SaveTask(b, k) \/ SaveTopic(b, k)
           \/ \E id \in Tasks : CompleteTask(b, k, id)
           \/ \E id \in Records, v \in Values : Create(b, k, id, v)
    PROVE  FormsInv'
<1>0. JobsInv /\ GoodScreen(screen[b], row) /\ GoodView(screen[b], loads[b], session[b], writes)
  BY DEF RevisionInv, ScreensInv, FormsInv, ViewsInv
<1>1. UNCHANGED <<serverVars, screen, loads, sealed>>
  BY DEF history, SaveTask, SaveTopic, CompleteTask, Create
<1>6. DOMAIN NoFields = {}
  BY DEF NoFields
<1>2. CASE SaveTask(b, k)
  <2> DEFINE form == screen[b].form
             patch == OnlyFields(form.record, form.value)
             id == form.record
             order == FieldOrder(id)
  <2>1. form # NoForm /\ GoodForm(form)
    BY <1>0, <1>2 DEF SaveTask, GoodView
  <2>2. id \in Records /\ id \notin Topics
    BY <2>1, ScalarConstants DEF GoodForm, Records, ScalarConstants
  <2>3. \A f \in Fields(id) : Clean(patch[f])
    BY <2>1 DEF GoodForm, OnlyFields
  <2>4. order \in Seq(Fields(id))
    BY <2>2, FieldsAreListed
  <2>5. Start(b, k, "update", id, patch, order, form.value["status"], NoFields, form.touched)
    BY <1>2 DEF SaveTask
  <2> HIDE DEF form, patch, id, order
  <2> QED  BY <1>0, <1>1, <2>2, <2>3, <2>4, <2>5, <1>6, StartKeepsForms
<1>3. CASE SaveTopic(b, k)
  <2> DEFINE draft == screen[b].draft
             id == draft.topic
             patch == OnlyFields(id, draft.value)
             order == FieldOrder(id)
  <2>1. id \in Records /\ draft # NoDraft
    BY <1>0, <1>3 DEF SaveTopic, GoodScreen, NoDraft
  <2>2. GoodDraft(draft, writes)
    BY <1>0, <1>3, <2>1 DEF SaveTopic, GoodView
  <2>3. \A f \in Fields(id) : Clean(patch[f])
    BY <2>2 DEF GoodDraft, OnlyFields
  <2>4. order \in Seq(Fields(id))
    BY <2>1, FieldsAreListed
  <2>7. id \in Topics
    BY <2>2 DEF GoodDraft
  <2>5. Start(b, k, "update", id, patch, order, draft.value["status"], draft.expected, draft.touched)
    BY <1>3 DEF SaveTopic
  <2>6. \A f \in Fields(id) \ draft.touched :
            f \in DOMAIN draft.expected /\ StoredAs(id, f, draft.expected[f], patch[f], writes)
    BY <2>2 DEF GoodDraft, OnlyFields
  <2> HIDE DEF draft, patch, id, order
  <2> QED  BY <1>0, <1>1, <2>1, <2>3, <2>4, <2>5, <2>6, <2>7, StartKeepsForms
<1>4. ASSUME NEW id \in Tasks, CompleteTask(b, k, id) PROVE FormsInv'
  <2> DEFINE order == <<>>
             touched == {"status"}
  <2>1. id \in Records /\ id \notin Topics
    BY ScalarConstants DEF Records, ScalarConstants
  <2>2. order \in Seq(Fields(id)) /\ order = <<>>
    OBVIOUS
  <2>3. Start(b, k, "update", id, NoFields, order, "done", NoFields, touched)
    BY <1>4 DEF CompleteTask
  <2> HIDE DEF order, touched
  <2> QED  BY <1>0, <1>1, <2>1, <2>2, <2>3, <1>6, StartKeepsForms
<1>5. ASSUME NEW id \in Records, NEW v \in Values, Create(b, k, id, v) PROVE FormsInv'
  <2> DEFINE patch == [f \in Fields(id) |-> v]
             order == FieldOrder(id)
             touched == Fields(id)
  <2>1. \A f \in Fields(id) : Clean(patch[f])
    BY ScalarConstants DEF Clean, ScalarConstants
  <2>2. order \in Seq(Fields(id))
    BY FieldsAreListed
  <2>3. Start(b, k, "create", id, patch, order, "open", NoFields, touched)
    BY <1>5 DEF Create
  <2> HIDE DEF patch, order, touched
  <2> QED  BY <1>0, <1>1, <2>1, <2>2, <2>3, <1>6, StartKeepsForms
<1> QED  BY <1>2, <1>3, <1>4, <1>5

\* The cipher seals what was typed or read, never a placeholder.
LEMMA SealKeepsForms ==
    ASSUME JobsInv, FormsInv, NEW b \in Browsers, NEW k \in Slots, Seal(b, k)
    PROVE  FormsInv'
<1> DEFINE j == job[b][k]
           s == session[b]
           large == {u.field : u \in {u \in j.under : j.patch[u.field] \in TooLarge}}
           sealedOf(u) == Envelope(b, u.epoch, u.ock, j.record, u.field, u.counter,
                                   j.patch[u.field], s.epoch = u.epoch)
           made == {sealedOf(u) : u \in {u \in j.under : u.field \notin large}}
           held == ToSet(FieldOrder(j.record)) \cap
                   (DOMAIN j.envelopes \cup {e.field : e \in made})
           envelopes == [f \in held |-> IF f \in DOMAIN j.envelopes THEN j.envelopes[f]
                                        ELSE CHOOSE e \in made : e.field = f]
           next == [j EXCEPT !.under = {}, !.envelopes = envelopes]
<1>1. /\ j.step = "sealing" /\ sealed' = sealed \cup made
      /\ UNCHANGED <<serverVars, screen, loads>>
  BY DEF Seal, JobStep
<1>2. j # NoJob /\ GoodJob(j, row) /\ GoodSave(j, s, writes, ock)
  BY <1>1, JobUnderWay DEF FormsInv, SavesInv
<1>3. /\ DOMAIN j = JobFields /\ j.record \in Records /\ j.rest \in Seq(Fields(j.record))
      /\ \A u \in j.under : u.field \in Fields(j.record)
  BY <1>2 DEF GoodJob, WholeJob
<1>4. \A u : /\ sealedOf(u).ock = u.ock /\ sealedOf(u).field = u.field
             /\ sealedOf(u).value = j.patch[u.field]
  BY DEF Envelope
<1> HIDE DEF sealedOf
<1>5. \A e \in made : \E u \in j.under : e = sealedOf(u)
  OBVIOUS
<1>6. \A e \in made : /\ e.ock \in 0..ock /\ Clean(e.value) /\ e.value = j.patch[e.field]
                      /\ e.field \in Fields(j.record)
  BY <1>2, <1>3, <1>4, <1>5 DEF GoodSave
<1> HIDE DEF made
<1>7. NoPlaceholderIsSaved'
  BY <1>1, <1>6 DEF FormsInv, NoPlaceholderIsSaved, Clean
<1>8. CASE large # {}
  <2> DEFINE c == Answered(j, "refused")
             t == IF s.epoch = 0 THEN s ELSE WithCounters(s, j.record, [f \in large |-> 0])
  <2>1. job' = [job EXCEPT ![b][k] = c] /\ session' = [session EXCEPT ![b] = t]
    BY <1>8 DEF Seal
  <2>2. /\ DOMAIN t = {"epoch", "unlocked", "ock", "counters"}
        /\ t.epoch = s.epoch /\ t.ock = s.ock
    BY DEF FormsInv, KeysInv, WithCounters
  <2>3. /\ c.rest = j.rest /\ c.under = {} /\ c.record = j.record /\ c.patch = j.patch
        /\ c.envelopes = j.envelopes /\ c.op = j.op /\ c.touched = j.touched
        /\ c.expected = j.expected /\ c.step = "answered"
    BY <1>3 DEF JobFields, Answered
  <2> HIDE DEF c, t
  <2>4. KeysInv' /\ SameKeys
    BY <1>1, <2>1, <2>2 DEF FormsInv, KeysInv, SameKeys, serverVars
  <2>5. GoodSave(c, session'[b], writes, ock)
    <3>1. GoodSave(c, s, writes, ock)
      BY <1>2, <2>3 DEF GoodSave
    <3>2. session'[b] = t
      BY <2>1 DEF FormsInv, KeysInv
    <3> QED  BY <2>2, <3>1, <3>2, KnownKeepsViews
  <2>6. writes' = writes /\ ock' = ock /\ screen' = screen /\ loads' = loads
    BY <1>1 DEF serverVars
  <2>7. SavesInv'
    BY <2>1, <2>4, <2>5, <2>6, OneSaveMoves DEF FormsInv
  <2>8. ViewsInv' /\ WritesInv'
    BY <2>4, <2>6, SameViews DEF FormsInv, WritesInv
  <2> QED  BY <1>7, <2>4, <2>7, <2>8 DEF FormsInv
<1>9. CASE large = {}
  <2>1. Proceed(b, k, session[b], next)
    BY <1>9 DEF Seal, made, sealedOf
  <2>2. /\ DOMAIN next = JobFields /\ next.record = j.record /\ next.op = j.op
        /\ next.rest = j.rest /\ next.under = {} /\ next.envelopes = envelopes
        /\ next.patch = j.patch /\ next.expected = j.expected /\ next.touched = j.touched
        /\ next.step = "sealing"
    BY <1>1, <1>3 DEF JobFields
  <2> HIDE DEF next
  <2>3. ASSUME NEW f \in DOMAIN envelopes
        PROVE  /\ envelopes[f].ock \in 0..ock /\ Clean(envelopes[f].value)
               /\ envelopes[f].value = j.patch[f]
    <3>1. CASE f \in DOMAIN j.envelopes
      BY <1>2, <3>1 DEF GoodSave
    <3>2. CASE f \notin DOMAIN j.envelopes
      <4>1. \E e \in made : e.field = f
        BY <3>2
      <4>2. envelopes[f] \in made /\ envelopes[f].field = f
        BY <3>2, <4>1
      <4> QED  BY <1>6, <4>2
    <3> QED  BY <3>1, <3>2
  <2> HIDE DEF envelopes
  <2>4. GoodSave(next, session[b], writes, ock)
    BY <1>2, <2>2, <2>3 DEF GoodSave
  <2> HIDE DEF j
  <2> QED  BY <1>1, <1>3, <1>7, <2>1, <2>2, <2>4, ProceedKeepsForms DEF FormsInv
<1> QED  BY <1>8, <1>9

\* The server checks a request against the revisions its browser expects.
LEMMA CheckKeepsForms ==
    ASSUME JobsInv, FormsInv, NEW b \in Browsers, NEW k \in Slots, Check(b, k)
    PROVE  FormsInv'
<1> DEFINE j == job[b][k]
           r == row[j.record]
           checked == [j EXCEPT !.step = "checked", !.read = r]
<1>1. /\ j.step = "sent" /\ UNCHANGED <<serverVars, screen, loads>>
      /\ session' = session /\ sealed' = sealed
  BY DEF history, Check, JobStep
<1>2. j # NoJob /\ GoodJob(j, row) /\ GoodSave(j, session[b], writes, ock)
  BY <1>1, JobUnderWay DEF FormsInv, SavesInv
<1>3. DOMAIN j = JobFields
  BY <1>2 DEF GoodJob, WholeJob
<1>4. KeysInv' /\ SameKeys
  BY <1>1, SameSession DEF FormsInv, serverVars
<1>5. writes' = writes /\ ock' = ock /\ screen' = screen /\ loads' = loads
  BY <1>1 DEF serverVars
<1>6. SavesInv'
  <2>1. PICK c : /\ job' = [job EXCEPT ![b][k] = c]
                 /\ \/ \E answer : c = Answered(j, answer)
                    \/ c = checked /\ (j.op = "update" => AsExpected(j, r.cell))
    BY DEF Check
  <2>5. checked = [j EXCEPT !.step = "checked", !.read = r]
    OBVIOUS
  <2> HIDE DEF j, r, checked
  <2>2. ASSUME NEW answer, c = Answered(j, answer) PROVE GoodSave(c, session[b], writes, ock)
    <3>1. /\ c.rest = j.rest /\ c.under = {} /\ c.record = j.record /\ c.patch = j.patch
          /\ c.envelopes = j.envelopes /\ c.op = j.op /\ c.touched = j.touched
          /\ c.expected = j.expected /\ c.step = "answered"
      BY <1>3, <2>2 DEF JobFields, Answered
    <3> QED  BY <1>2, <3>1 DEF GoodSave
  <2>3. ASSUME c = checked, j.op = "update" => AsExpected(j, r.cell)
        PROVE  GoodSave(c, session[b], writes, ock)
    <3>1. /\ c.rest = j.rest /\ c.under = j.under /\ c.record = j.record /\ c.patch = j.patch
          /\ c.envelopes = j.envelopes /\ c.op = j.op /\ c.touched = j.touched
          /\ c.expected = j.expected /\ c.step = "checked" /\ c.read = r
      BY <1>3, <2>3, <2>5 DEF JobFields
    <3>2. c.op = "update" => AsExpected(c, c.read.cell)
      BY <2>3, <3>1 DEF AsExpected
    <3> QED  BY <1>2, <3>1, <3>2 DEF GoodSave
  <2>6. GoodSave(c, session[b], writes, ock)
    BY <2>1, <2>2, <2>3
  <2>4. GoodSave(c, session'[b], writes, ock)
    BY <1>1, <2>6
  <2> QED  BY <1>4, <1>5, <2>1, <2>4, OneSaveMoves DEF FormsInv
<1>7. ViewsInv' /\ WritesInv' /\ NoPlaceholderIsSaved'
  BY <1>1, <1>4, <1>5, SameViews DEF FormsInv, WritesInv, NoPlaceholderIsSaved
<1> QED  BY <1>4, <1>6, <1>7 DEF FormsInv

\* A save that is answered has nothing under way.
LEMMA AnsweredSave ==
    ASSUME NEW j, NEW c, NEW W, NEW n, DOMAIN j = JobFields, GoodSave(j, c, W, n)
    PROVE  \A answer : GoodSave(Answered(j, answer), c, W, n)
<1> SUFFICES ASSUME NEW answer PROVE GoodSave(Answered(j, answer), c, W, n)
  OBVIOUS
<1> DEFINE a == Answered(j, answer)
<1>1. /\ a.rest = j.rest /\ a.under = {} /\ a.record = j.record /\ a.patch = j.patch
      /\ a.envelopes = j.envelopes /\ a.op = j.op /\ a.touched = j.touched
      /\ a.expected = j.expected /\ a.step = "answered"
  BY DEF JobFields, Answered
<1> HIDE DEF a
<1>2. GoodSave(a, c, W, n)
  BY <1>1 DEF GoodSave
<1> QED  BY <1>2 DEF a

\* What a commit adds has a revision of its own and text of its own.
LEMMA CommitKeepsWrites ==
    ASSUME JobsInv, TablesInv, FormsInv, NEW b \in Browsers, NEW k \in Slots, Commit(b, k)
    PROVE  WritesInv' /\ writes \subseteq writes'
<1> DEFINE j == job[b][k]
           id == j.record
<1>1. /\ j.step = "checked" /\ ock' = ock
  BY DEF Commit, JobStep
<1>2. j # NoJob /\ GoodJob(j, row) /\ GoodSave(j, session[b], writes, ock)
  BY <1>1, JobUnderWay DEF FormsInv, SavesInv
<1>3. CASE writes' = writes
  BY <1>1, <1>3 DEF FormsInv, WritesInv
<1>4. CASE writes' # writes
  <2>1. /\ j.op = "create" => row[id].exists = FALSE
        /\ writes' = writes \cup {Written(j).cell[f] : f \in Fresh(j)}
    BY <1>4, CommitWrites
  <2> HIDE DEF j
  <2>2. id \in Records /\ j.op \in {"update", "create"}
        /\ Fresh(j) \subseteq DOMAIN j.envelopes /\ DOMAIN j.envelopes \subseteq Fields(id)
    BY <1>2 DEF GoodJob, WholeJob, Fresh
  <2>3. \A f \in Fresh(j) : /\ Written(j).cell[f].envelope = j.envelopes[f]
                            /\ j.envelopes[f].record = id /\ j.envelopes[f].field = f
                            /\ j.envelopes[f].ock \in 0..ock /\ Clean(j.envelopes[f].value)
    <3>1. \A f \in Fresh(j) : Written(j).cell[f].envelope = j.envelopes[f]
      BY <2>2, WrittenCells
    <3> QED  BY <1>2, <2>2, <3>1 DEF GoodJob, WholeJob, GoodSave
  <2>4. ASSUME NEW f \in Fresh(j), NEW w \in writes, w.envelope.record = id, w.envelope.field = f
        PROVE  w.revision # Written(j).cell[f].revision
    <3>1. j.op = "update"
      BY <2>1, <2>2, <2>4 DEF TablesInv
    <3>2. j.read = row[id] /\ row[id].exists = TRUE
      BY <1>1, <1>2, <3>1 DEF GoodJob, WholeJob, ReadIsCurrent
    <3>3. Written(j).cell[f].revision = row[id].cell[f].revision + 1
      <4>1. j.read.exists = TRUE /\ j.read.cell[f] = row[id].cell[f] /\ f \in Fields(id)
        BY <2>2, <3>2
      <4>2. Written(j).cell[f].revision = j.read.cell[f].revision + 1
        BY <4>1, WrittenCells
      <4> QED  BY <4>1, <4>2
    <3>4. ExactField(id, f, row[id], writes)
      BY <2>2, <3>2 DEF TablesInv
    <3>5. w \in Accepted(id, f, writes)
      BY <2>4 DEF Accepted
    <3>6. w.revision \in 1..Cardinality(Accepted(id, f, writes))
      BY <3>4, <3>5 DEF ExactField
    <3>7. Cardinality(Accepted(id, f, writes)) \in Nat
      BY <3>4, FS_CardinalityType DEF ExactField
    <3>8. row[id].cell[f].revision = Cardinality(Accepted(id, f, writes))
      BY <3>4 DEF ExactField
    <3> QED  BY <3>3, <3>6, <3>7, <3>8
  <2>5. \A w \in writes' : w.envelope.ock \in 0..ock /\ Clean(w.envelope.value)
    BY <2>1, <2>3 DEF FormsInv, WritesInv
  <2>6. ASSUME NEW v \in writes', NEW w \in writes', v.envelope.record = w.envelope.record,
               v.envelope.field = w.envelope.field, v.revision = w.revision
        PROVE  v = w
    <3>1. CASE v \in writes /\ w \in writes
      BY <2>6, <3>1 DEF FormsInv, WritesInv
    <3>2. CASE v \notin writes /\ w \in writes
      <4>1. PICK f \in Fresh(j) : v = Written(j).cell[f]
        BY <2>1, <3>2
      <4> QED  BY <2>3, <2>4, <2>6, <3>2, <4>1
    <3>3. CASE v \in writes /\ w \notin writes
      <4>1. PICK f \in Fresh(j) : w = Written(j).cell[f]
        BY <2>1, <3>3
      <4> QED  BY <2>3, <2>4, <2>6, <3>3, <4>1
    <3>4. CASE v \notin writes /\ w \notin writes
      <4>1. PICK f \in Fresh(j) : v = Written(j).cell[f]
        BY <2>1, <3>4
      <4>2. PICK g \in Fresh(j) : w = Written(j).cell[g]
        BY <2>1, <3>4
      <4>3. f = g
        BY <2>3, <2>6, <4>1, <4>2
      <4> QED  BY <4>1, <4>2, <4>3
    <3> QED  BY <3>1, <3>2, <3>3, <3>4
  <2> QED  BY <1>1, <2>1, <2>5, <2>6 DEF WritesInv
<1> QED  BY <1>3, <1>4

\* A request is committed, and maybe repeated.
LEMMA CommitKeepsForms ==
    ASSUME JobsInv, TablesInv, FormsInv, NEW b \in Browsers, NEW k \in Slots, Commit(b, k)
    PROVE  FormsInv'
<1> DEFINE j == job[b][k]
           again == [j EXCEPT !.step = "sent"]
<1>1. /\ j.step = "checked"
      /\ ock' = ock /\ admitted' = admitted /\ session' = session /\ screen' = screen
      /\ loads' = loads /\ sealed' = sealed
  BY DEF history, Commit, JobStep
<1>2. j # NoJob /\ GoodJob(j, row) /\ GoodSave(j, session[b], writes, ock)
  BY <1>1, JobUnderWay DEF FormsInv, SavesInv
<1>3. DOMAIN j = JobFields
  BY <1>2 DEF GoodJob, WholeJob
<1>4. WritesInv' /\ writes \subseteq writes'
  BY CommitKeepsWrites
<1>5. KeysInv' /\ SameKeys
  BY <1>1, SameSession DEF FormsInv
<1>6. PICK c : /\ job' = [job EXCEPT ![b][k] = c]
               /\ c = again \/ \E answer : c = Answered(j, answer)
  <2>1. \/ job' = [job EXCEPT ![b][k] = again]
        \/ \E answer : job' = [job EXCEPT ![b][k] = Answered(j, answer)]
    BY DEF Commit, JobsInv
  <2> HIDE DEF j, again
  <2> QED  BY <2>1
<1>7. GoodSave(again, session[b], writes, ock)
  <2>1. /\ again.rest = j.rest /\ again.under = j.under /\ again.record = j.record
        /\ again.patch = j.patch /\ again.envelopes = j.envelopes /\ again.op = j.op
        /\ again.touched = j.touched /\ again.expected = j.expected /\ again.step = "sent"
    BY <1>3 DEF JobFields
  <2> HIDE DEF again
  <2> QED  BY <1>2, <2>1 DEF GoodSave
<1> HIDE DEF j, again
<1>8. GoodSave(c, session[b], writes, ock)
  BY <1>2, <1>3, <1>6, <1>7, AnsweredSave
<1>9. GoodSave(c, session'[b], writes', ock)
  BY <1>1, <1>4, <1>8, KnownKeepsViews
<1>10. SavesInv'
  BY <1>1, <1>4, <1>5, <1>6, <1>9, OneSaveMoves DEF FormsInv
<1>11. ViewsInv'
  BY <1>1, <1>4, <1>5, SameViews DEF FormsInv
<1>12. NoPlaceholderIsSaved'
  BY <1>1 DEF FormsInv, NoPlaceholderIsSaved
<1> QED  BY <1>4, <1>5, <1>10, <1>11, <1>12 DEF FormsInv

\* What is stored can be read with the newest key.
LEMMA StoredIsLegible ==
    ASSUME TablesInv, KeysInv, WritesInv
    PROVE  \A id \in Records : Legible(id, row[id], writes, ock)
<1> SUFFICES ASSUME NEW id \in Records, row[id].exists = TRUE, NEW f \in Fields(id)
             PROVE  /\ row[id].cell[f] \in Accepted(id, f, writes)
                    /\ row[id].cell[f].envelope.ock <= ock
  BY DEF Legible
<1>1. row[id].cell[f] \in Accepted(id, f, writes)
  BY DEF TablesInv, ExactField
<1>2. row[id].cell[f].envelope.ock \in 0..ock /\ ock \in Nat
  BY <1>1 DEF WritesInv, Accepted, KeysInv
<1> QED  BY <1>1, <1>2

\* A view that is mounted anew has nothing to show yet.
LEMMA EmptyView ==
    ASSUME NEW answers, NEW c, NEW W, \A answer \in answers \ {Unauthorized} : \A id \in Records :
              c.epoch # 0 => Legible(id, answer[id], W, c.ock)
    PROVE  GoodView(NoScreen, answers, c, W)
<1>1. /\ NoScreen.form = NoForm /\ NoScreen.visible = FALSE /\ DOMAIN NoScreen.rows = {}
      /\ NoScreen.draft = NoDraft
  BY DEF NoScreen, NoFields
<1> QED  BY <1>1 DEF GoodView

\* A browser that unlocks gets the newest key, and one that is locked keeps no form.
LEMMA MountKeepsForms ==
    ASSUME RevisionInv, FormsInv, NEW b \in Browsers, Unlock(b) \/ Lock(b) \/ AuthorizationLost(b)
    PROVE  FormsInv'
<1>0. GoodView(screen[b], loads[b], session[b], writes) /\ TablesInv /\ JobsInv /\ ScreensInv
  BY DEF RevisionInv, FormsInv, ViewsInv
<1>1. /\ ock' = ock /\ writes' = writes /\ row' = row /\ sealed' = sealed
      /\ admitted' \subseteq admitted \cup {b}
  BY DEF history, Unlock, Lock, AuthorizationLost, serverVars
<1>2. PICK t : /\ session' = [session EXCEPT ![b] = t]
               /\ DOMAIN t = {"epoch", "unlocked", "ock", "counters"}
               /\ \/ t.epoch = 0 /\ t.ock = session[b].ock
                  \/ Unlock(b) /\ t.ock = ock
  <2>1. CASE Unlock(b)
    <3> DEFINE t == [epoch |-> session[b].unlocked + 1, unlocked |-> session[b].unlocked + 1,
                     ock |-> ock, counters |-> NoFields]
    <3>1. session' = [session EXCEPT ![b] = t]
      BY <2>1 DEF Unlock
    <3>2. DOMAIN t = {"epoch", "unlocked", "ock", "counters"} /\ t.ock = ock
      OBVIOUS
    <3> HIDE DEF t
    <3> QED  BY <2>1, <3>1, <3>2
  <2>2. CASE Lock(b) \/ AuthorizationLost(b)
    <3> DEFINE t == [session[b] EXCEPT !.epoch = 0, !.counters = NoFields]
    <3>1. session' = [session EXCEPT ![b] = t]
      BY <2>2 DEF Lock, AuthorizationLost, Cleared, FormsInv, KeysInv
    <3>2. /\ DOMAIN t = {"epoch", "unlocked", "ock", "counters"}
          /\ t.epoch = 0 /\ t.ock = session[b].ock
      BY DEF FormsInv, KeysInv
    <3> QED  BY <3>1, <3>2
  <2> QED  BY <2>1, <2>2
<1>3. /\ session' = [d \in Browsers |-> session'[d]] /\ session'[b] = t
      /\ \A d \in Browsers \ {b} : session'[d] = session[d]
  BY <1>2 DEF FormsInv, KeysInv
<1>4. KeysInv'
  BY <1>1, <1>2, <1>3 DEF FormsInv, KeysInv
<1>5. PICK answers : \E ended \in SUBSET Slots :
          answers \subseteq {row, Unauthorized} /\ Remounted(b, answers, ended)
  BY ViewsMountedAnew
<1>6. PICK ended \in SUBSET Slots : Remounted(b, answers, ended)
  BY <1>5
<1>7. ViewsInv'
  <2>1. screen'[b] = NoScreen /\ loads'[b] = answers
    BY <1>0, <1>6 DEF Remounted, ScreensInv
  <2>2. \A d \in Browsers \ {b} : screen'[d] = screen[d] /\ loads'[d] = loads[d]
    BY <1>0, <1>6 DEF Remounted, ScreensInv
  <2>3. \A answer \in answers \ {Unauthorized} : \A id \in Records :
            t.epoch # 0 => Legible(id, answer[id], writes, t.ock)
    BY <1>0, <1>2, <1>5, StoredIsLegible DEF FormsInv
  <2>4. GoodView(screen'[b], loads'[b], session'[b], writes')
    BY <1>1, <1>3, <2>1, <2>3, EmptyView
  <2> QED  BY <1>1, <1>3, <2>2, <2>4, OneViewMoves DEF FormsInv
<1>8. SavesInv'
  <2> DEFINE new(d, k) == IF d # b THEN job[d][k]
                          ELSE IF k \in ended \/ job[d][k] = NoJob THEN NoJob
                          ELSE [job[d][k] EXCEPT !.attached = FALSE]
  <2>1. job' = [d \in Browsers |-> [k \in Slots |-> new(d, k)]]
    BY <1>0, <1>6 DEF Remounted, JobsInv
  <2> HIDE DEF new
  <2>2. \A d \in Browsers, k \in Slots : job'[d][k] = new(d, k)
    BY <2>1
  <2>3. ASSUME NEW d \in Browsers, NEW k \in Slots
        PROVE  new(d, k) = NoJob \/ GoodSave(new(d, k), session'[d], writes, ock)
    <3> DEFINE j == job[d][k]
               n == [j EXCEPT !.attached = FALSE]
    <3>1. \/ j = NoJob
          \/ GoodSave(j, session[d], writes, ock) /\ DOMAIN j = JobFields
      BY <1>0 DEF FormsInv, SavesInv, JobsInv, GoodJob, WholeJob
    <3>2. CASE d # b
      BY <1>3, <3>1, <3>2 DEF new
    <3>3. CASE new(d, k) = NoJob
      BY <3>3
    <3>4. CASE d = b /\ j # NoJob /\ new(d, k) = n
      <4>1. /\ n.rest = j.rest /\ n.under = j.under /\ n.record = j.record /\ n.patch = j.patch
            /\ n.envelopes = j.envelopes /\ n.op = j.op /\ n.touched = j.touched
            /\ n.expected = j.expected /\ n.step = j.step /\ n.attached = FALSE /\ n.read = j.read
        BY <3>1, <3>4 DEF JobFields
      <4> HIDE DEF n
      <4>2. j.step = "checked" => (AsExpected(n, n.read.cell) <=> AsExpected(j, j.read.cell))
        BY <4>1 DEF AsExpected
      <4>3. GoodSave(n, session'[d], writes, ock)
        BY <3>1, <3>4, <4>1, <4>2 DEF GoodSave
      <4> QED  BY <3>4, <4>3
    <3> QED  BY <3>2, <3>3, <3>4 DEF new
  <2> QED  BY <1>1, <2>2, <2>3 DEF SavesInv
<1>9. WritesInv' /\ NoPlaceholderIsSaved'
  BY <1>1 DEF FormsInv, WritesInv, NoPlaceholderIsSaved
<1> QED  BY <1>4, <1>7, <1>8, <1>9 DEF FormsInv

\* Answers are shown as far as the keys of the session go, which is all of them.
LEMMA ArrivalKeepsForms ==
    ASSUME RevisionInv, FormsInv, NEW b \in Browsers, LoadArrives(b)
    PROVE  ViewsInv'
<1>0. /\ GoodView(screen[b], loads[b], session[b], writes) /\ GoodScreen(screen[b], row)
      /\ writes' = writes /\ session' = session /\ ScreensInv
      /\ \A w \in writes : Clean(w.envelope.value)
  BY DEF RevisionInv, FormsInv, ViewsInv, ScreensInv, LoadArrives, serverVars, WritesInv
<1>1. PICK answer \in loads[b] \ {Unauthorized} :
        LET ids == {id \in Records : answer[id].exists}
            rows == [id \in ids |-> Unprotect(b, id, answer[id])]
            draft == screen[b].draft
        IN /\ \/ screen' = screen
              \/ /\ screen' = [screen EXCEPT ![b].rows = rows,
                                  ![b].draft = IF draft = NoDraft THEN draft
                                               ELSE SyncDraft(draft, draft.topic, rows[draft.topic],
                                                              screen[b].visible)]
                 /\ draft # NoDraft => draft.topic \in ids
           /\ loads' = [loads EXCEPT ![b] = @ \ {answer}]
  BY DEF LoadArrives
<1> DEFINE ids == {id \in Records : answer[id].exists}
           rows == [id \in ids |-> Unprotect(b, id, answer[id])]
           draft == screen[b].draft
           visible == screen[b].visible
           copy == rows[draft.topic]
           synced == IF draft = NoDraft THEN draft ELSE SyncDraft(draft, draft.topic, copy, visible)
<1>2. loads' = [loads EXCEPT ![b] = loads[b] \ {answer}]
  BY <1>1
<1>3. \A d \in Browsers : loads'[d] = IF d = b THEN loads[b] \ {answer} ELSE loads[d]
  BY <1>0, <1>2 DEF ScreensInv
<1>4. CASE screen' = screen
  BY <1>0, <1>3, <1>4, OneViewMoves DEF FormsInv, GoodView
<1>5. ASSUME screen' = [screen EXCEPT ![b].rows = rows, ![b].draft = synced],
             draft # NoDraft => draft.topic \in ids
      PROVE  ViewsInv'
  <2>1. DOMAIN rows = ids /\ \A id \in ids : rows[id] = Unprotect(b, id, answer[id])
    OBVIOUS
  <2>2. \A id \in ids : id \in Records /\ answer[id].exists = TRUE
    BY <1>0, <1>1 DEF ScreensInv
  <2> HIDE DEF rows, synced
  <2>3. /\ screen'[b].rows = rows /\ screen'[b].draft = synced
        /\ screen'[b].form = screen[b].form /\ screen'[b].visible = screen[b].visible
        /\ \A d \in Browsers \ {b} : screen'[d] = screen[d]
    BY <1>0, <1>5 DEF ScreensInv, GoodScreen
  <2>4. ASSUME session[b].epoch # 0
        PROVE  /\ \A id \in DOMAIN rows : GoodCopy(id, rows[id], writes)
               /\ synced # NoDraft => synced.topic \in DOMAIN rows /\ GoodDraft(synced, writes)
    <3>1. \A id \in ids : Legible(id, answer[id], writes, session[b].ock)
      BY <1>0, <1>1, <2>2, <2>4 DEF GoodView
    <3>2. \A id \in DOMAIN rows : GoodCopy(id, rows[id], writes)
      <4> TAKE id \in DOMAIN rows
      <4> DEFINE r == answer[id]
      <4>1. r.exists = TRUE /\ Legible(id, r, writes, session[b].ock) /\ IsUnlocked(b)
        BY <2>1, <2>2, <2>4, <3>1 DEF IsUnlocked
      <4>2. rows[id] = Unprotect(b, id, r)
        BY <2>1
      <4> HIDE DEF r
      <4> QED  BY <4>1, <4>2, UnprotectedCopy
    <3>3. CASE draft = NoDraft
      BY <3>2, <3>3 DEF synced
    <3>4. CASE draft # NoDraft
      <4>1. GoodDraft(draft, writes) /\ draft.topic \in Topics /\ GoodCopy(draft.topic, copy, writes)
        BY <1>0, <1>5, <2>1, <2>2, <2>4, <3>2, <3>4 DEF GoodView, GoodDraft
      <4>2. GoodDraft(SyncDraft(draft, draft.topic, copy, visible), writes)
        <5> HIDE DEF draft, copy, visible
        <5> QED  BY <1>0, <3>4, <4>1, SyncedDraftIsGood
      <4>3. synced = SyncDraft(draft, draft.topic, copy, visible) /\ synced.topic = draft.topic
        BY <3>4, SyncedDraft DEF synced
      <4> QED  BY <1>5, <2>1, <3>2, <3>4, <4>2, <4>3
    <3> QED  BY <3>3, <3>4
  <2>5. GoodView(screen'[b], loads'[b], session[b], writes)
    BY <1>0, <1>3, <2>3, <2>4 DEF GoodView
  <2> QED  BY <1>0, <1>3, <2>3, <2>5, OneViewMoves DEF FormsInv
<1>6. \/ screen' = screen
      \/ /\ screen' = [screen EXCEPT ![b].rows = rows, ![b].draft = synced]
         /\ draft # NoDraft => draft.topic \in ids
  BY <1>1
<1> QED  BY <1>4, <1>5, <1>6

\* The dialog of a Topic goes, and its draft with what was typed.
LEMMA ClosedTopicIsGood ==
    ASSUME NEW s, NEW answers, NEW c, NEW W, GoodView(s, answers, c, W), GoodScreen(s, row),
           s.draft # NoDraft, \A w \in W : Clean(w.envelope.value)
    PROVE  GoodView(ClosedTopic(s), answers, c, W)
<1> DEFINE draft == s.draft
           id == draft.topic
           copy == s.rows[id]
           visible == FALSE
           synced == SyncDraft(draft, id, copy, visible)
           closed == ClosedTopic(s)
<1>1. closed = [s EXCEPT !.visible = FALSE, !.draft = synced]
  BY DEF ClosedTopic
<1>2. /\ closed.visible = FALSE /\ closed.draft = synced
      /\ closed.rows = s.rows /\ closed.form = s.form
  BY <1>1 DEF GoodScreen
<1>3. ASSUME c.epoch # 0 PROVE GoodDraft(synced, W) /\ synced.topic = id /\ id \in DOMAIN s.rows
  <2>1. /\ id \in DOMAIN s.rows /\ GoodCopy(id, copy, W)
        /\ GoodDraft(draft, W) /\ id \in Topics
    BY <1>3 DEF GoodView, GoodDraft
  <2>2. synced = SyncDraft(draft, id, copy, visible)
    OBVIOUS
  <2> HIDE DEF draft, id, copy, visible, synced
  <2>3. GoodDraft(SyncDraft(draft, id, copy, visible), W)
    BY <2>1, SyncedDraftIsGood
  <2>4. SyncDraft(draft, id, copy, visible).topic = id
    BY SyncedDraft
  <2> QED  BY <2>1, <2>2, <2>3, <2>4
<1> HIDE DEF synced, closed
<1>4. GoodView(closed, answers, c, W)
  BY <1>2, <1>3 DEF GoodView
<1> QED  BY <1>4 DEF closed

\* A form is opened for what is shown and holds what is typed.
LEMMA FormsKeepForms ==
    ASSUME RevisionInv, FormsInv, NEW b \in Browsers, FormStep(b)
    PROVE  ViewsInv'
<1>0. /\ GoodView(screen[b], loads[b], session[b], writes) /\ GoodScreen(screen[b], row)
      /\ ScreensInv /\ \A w \in writes : Clean(w.envelope.value)
  BY DEF RevisionInv, FormsInv, ViewsInv, ScreensInv, WritesInv
<1>1. writes' = writes /\ session' = session /\ loads' = loads
  BY DEF FormStep, OpenTask, TypeTask, OpenTopic, TypeTopic, CancelTopic, serverVars
<1>2. ASSUME \A d \in Browsers \ {b} : screen'[d] = screen[d],
             GoodView(screen'[b], loads[b], session[b], writes)
      PROVE  ViewsInv'
  BY <1>1, <1>2, OneViewMoves DEF FormsInv
<1>3. ASSUME NEW id \in Tasks, OpenTask(b, id) PROVE ViewsInv'
  <2> DEFINE copy == screen[b].rows[id]
             form == [record |-> id, value |-> Formed(copy), touched |-> {}]
  <2>1. /\ id \in DOMAIN screen[b].rows /\ session[b].epoch # 0
        /\ screen' = [screen EXCEPT ![b].form = form]
    BY <1>3 DEF OpenTask, CanEdit, IsUnlocked
  <2>2. GoodCopy(id, copy, writes) /\ id \in Records
    BY <1>0, <2>1 DEF GoodView, Records
  <2>3. form.record = id /\ form.value = Formed(copy)
    OBVIOUS
  <2>4. /\ Fields(id) \subseteq DOMAIN Formed(copy)
        /\ \A f \in Fields(id) : Formed(copy)[f] = copy.value[f]
    BY <2>2, FieldsAreListed DEF Formed, GoodCopy
  <2>5. GoodForm(form)
    BY <1>0, <2>2, <2>3, <2>4 DEF GoodForm, GoodCopy, StoredAs, Accepted
  <2> HIDE DEF form
  <2>6. /\ screen'[b].rows = screen[b].rows /\ screen'[b].draft = screen[b].draft
        /\ screen'[b].form = form /\ screen'[b].visible = screen[b].visible
        /\ \A d \in Browsers \ {b} : screen'[d] = screen[d]
    BY <1>0, <2>1 DEF ScreensInv, GoodScreen
  <2>7. GoodView(screen'[b], loads[b], session[b], writes)
    BY <1>0, <2>1, <2>5, <2>6 DEF GoodView
  <2> QED  BY <1>2, <2>6, <2>7
<1>4. ASSUME NEW f, NEW v \in Values, TypeTask(b, f, v) PROVE ViewsInv'
  <2>1. /\ screen[b].form # NoForm
        /\ screen' = [screen EXCEPT ![b].form.value[f] = v,
                                    ![b].form.touched = screen[b].form.touched \cup {f}]
    BY <1>4 DEF TypeTask
  <2>2. DOMAIN screen[b].form = {"record", "value", "touched"}
    BY <1>0, <2>1 DEF GoodScreen
  <2>3. /\ screen'[b].rows = screen[b].rows /\ screen'[b].draft = screen[b].draft
        /\ screen'[b].visible = screen[b].visible
        /\ screen'[b].form.record = screen[b].form.record
        /\ screen'[b].form.value = [screen[b].form.value EXCEPT ![f] = v]
        /\ \A d \in Browsers \ {b} : screen'[d] = screen[d]
    BY <1>0, <2>1, <2>2 DEF ScreensInv, GoodScreen
  <2>4. session[b].epoch # 0 /\ GoodForm(screen[b].form) /\ Clean(v)
    BY <1>0, <2>1, ScalarConstants DEF GoodView, Clean, ScalarConstants
  <2>5. \A g \in DOMAIN screen[b].form.value :
            screen'[b].form.value[g] = IF g = f THEN v ELSE screen[b].form.value[g]
    BY <2>3
  <2>6. Fields(screen[b].form.record) \subseteq DOMAIN screen[b].form.value
    BY <2>4 DEF GoodForm
  <2>7. GoodForm(screen'[b].form)
    BY <2>3, <2>4, <2>5, <2>6 DEF GoodForm
  <2>8. GoodView(screen'[b], loads[b], session[b], writes)
    BY <1>0, <2>3, <2>4, <2>7 DEF GoodView
  <2> QED  BY <1>2, <2>3, <2>8
<1>5. ASSUME NEW id \in Topics, OpenTopic(b, id) PROVE ViewsInv'
  <2> DEFINE copy == screen[b].rows[id]
             draft == screen[b].draft
             synced == SyncDraft(draft, id, copy, TRUE)
  <2>1. /\ id \in DOMAIN screen[b].rows /\ session[b].epoch # 0
        /\ screen' = [screen EXCEPT ![b].visible = TRUE, ![b].draft = synced]
    BY <1>5 DEF OpenTopic, CanEdit, IsUnlocked
  <2>2. GoodCopy(id, copy, writes) /\ id \in Records /\ (draft # NoDraft => GoodDraft(draft, writes))
    BY <1>0, <2>1 DEF GoodView, Records
  <2>3. GoodDraft(synced, writes) /\ synced.topic = id
    <3> DEFINE visible == TRUE
    <3>1. synced = SyncDraft(draft, id, copy, visible)
      OBVIOUS
    <3> HIDE DEF draft, copy, synced, visible
    <3>2. GoodDraft(SyncDraft(draft, id, copy, visible), writes)
      BY <1>0, <2>2, SyncedDraftIsGood
    <3>3. SyncDraft(draft, id, copy, visible).topic = id
      BY SyncedDraft
    <3> QED  BY <3>1, <3>2, <3>3
  <2> HIDE DEF synced
  <2>6. /\ screen'[b].rows = screen[b].rows /\ screen'[b].draft = synced
        /\ screen'[b].form = screen[b].form
        /\ \A d \in Browsers \ {b} : screen'[d] = screen[d]
    BY <1>0, <2>1 DEF ScreensInv, GoodScreen
  <2>7. GoodView(screen'[b], loads[b], session[b], writes)
    BY <1>0, <2>1, <2>3, <2>6 DEF GoodView
  <2> QED  BY <1>2, <2>6, <2>7
<1>6. ASSUME NEW f, NEW v \in Values, TypeTopic(b, f, v) PROVE ViewsInv'
  <2> DEFINE draft == screen[b].draft
  <2>1. /\ screen[b].visible = TRUE /\ f \in DOMAIN draft.value
        /\ screen' = [screen EXCEPT ![b].draft.value[f] = v,
                                    ![b].draft.touched = draft.touched \cup {f}]
    BY <1>0, <1>6 DEF TypeTopic, GoodScreen
  <2>2. DOMAIN draft = {"topic", "base", "value", "expected", "touched"} /\ draft # NoDraft
    BY <1>0, <2>1 DEF GoodScreen, NoDraft
  <2>3. /\ screen'[b].rows = screen[b].rows /\ screen'[b].form = screen[b].form
        /\ screen'[b].visible = screen[b].visible
        /\ DOMAIN screen'[b].draft = DOMAIN draft
        /\ screen'[b].draft.topic = draft.topic /\ screen'[b].draft.base = draft.base
        /\ screen'[b].draft.expected = draft.expected
        /\ screen'[b].draft.value = [draft.value EXCEPT ![f] = v]
        /\ screen'[b].draft.touched = draft.touched \cup {f}
        /\ \A d \in Browsers \ {b} : screen'[d] = screen[d]
    BY <1>0, <2>1, <2>2 DEF ScreensInv, GoodScreen
  <2>4. /\ session[b].epoch # 0 /\ GoodDraft(draft, writes) /\ draft.topic \in DOMAIN screen[b].rows
        /\ Clean(v)
    BY <1>0, <2>1, <2>2, ScalarConstants DEF GoodView, Clean, ScalarConstants
  <2> HIDE DEF draft
  <2>5. /\ DOMAIN screen'[b].draft.value = DOMAIN draft.value
        /\ \A g \in DOMAIN draft.value :
              screen'[b].draft.value[g] = IF g = f THEN v ELSE draft.value[g]
    BY <2>3
  <2>6. Fields(draft.topic) \subseteq DOMAIN draft.value
    BY <2>4 DEF GoodDraft
  <2>7. GoodDraft(screen'[b].draft, writes)
    BY <2>2, <2>3, <2>4, <2>5, <2>6 DEF GoodDraft
  <2>8. GoodView(screen'[b], loads[b], session[b], writes)
    BY <1>0, <2>3, <2>4, <2>7 DEF GoodView
  <2> QED  BY <1>2, <2>3, <2>8
<1>7. ASSUME CancelTopic(b) PROVE ViewsInv'
  <2>1. screen' = [screen EXCEPT ![b] = ClosedTopic(screen[b])] /\ screen[b].draft # NoDraft
    BY <1>0, <1>7 DEF CancelTopic, GoodScreen, NoDraft
  <2>2. GoodView(ClosedTopic(screen[b]), loads[b], session[b], writes)
    BY <1>0, <2>1, ClosedTopicIsGood
  <2>3. screen'[b] = ClosedTopic(screen[b]) /\ \A d \in Browsers \ {b} : screen'[d] = screen[d]
    BY <1>0, <2>1 DEF ScreensInv
  <2> QED  BY <1>2, <2>2, <2>3
<1> QED  BY <1>3, <1>4, <1>5, <1>6, <1>7 DEF FormStep

\* A browser that is admitted and unlocked has the newest key, so whatever its
\* queries are answered it can read.
LEMMA AskedIsLegible ==
    ASSUME TablesInv, KeysInv, WritesInv, NEW b \in Browsers, b \in admitted, session[b].epoch # 0
    PROVE  \A id \in Records : Legible(id, row[id], writes, session[b].ock)
<1>1. session[b].ock = ock
  BY DEF KeysInv
<1> QED  BY <1>1, StoredIsLegible

\* One more query is under way.
LEMMA AskedKeepsView ==
    ASSUME TablesInv, KeysInv, WritesInv, NEW b \in Browsers, NEW s, NEW answers,
           GoodView(s, answers, session[b], writes)
    PROVE  GoodView(s, answers \cup {Asked(b)}, session[b], writes)
<1>1. ASSUME session[b].epoch # 0, Asked(b) # Unauthorized
      PROVE  \A id \in Records : Legible(id, Asked(b)[id], writes, session[b].ock)
  <2>1. b \in admitted /\ Asked(b) = row
    BY <1>1 DEF Asked
  <2> QED  BY <1>1, <2>1, AskedIsLegible
<1> QED  BY <1>1 DEF GoodView

\* A save is answered: its form goes, stays, or is merged with the latest Topic.
LEMMA AnswerKeepsForms ==
    ASSUME RevisionInv, FormsInv, NEW b \in Browsers, NEW k \in Slots,
           Saved(b, k) \/ SaveFailed(b, k) \/ ReadLatest(b, k) \/ MergeLatest(b, k)
    PROVE  FormsInv'
<1> DEFINE j == job[b][k]
           s == screen[b]
           c == session[b]
<1>0. /\ JobsInv /\ ScreensInv /\ TablesInv /\ KeysInv /\ WritesInv
      /\ GoodView(s, loads[b], c, writes) /\ GoodScreen(s, row)
      /\ \A w \in writes : Clean(w.envelope.value)
  BY DEF RevisionInv, FormsInv, ViewsInv, ScreensInv, WritesInv
<1>1. /\ serverVars' = serverVars /\ session' = session /\ sealed' = sealed
      /\ writes' = writes /\ ock' = ock /\ admitted' = admitted
      /\ j.step # "idle"
  BY DEF history, Saved, SaveFailed, ReadLatest, MergeLatest, serverVars, JobStep
<1>2. KeysInv' /\ SameKeys /\ WritesInv' /\ NoPlaceholderIsSaved'
  BY <1>0, <1>1, SameSession DEF FormsInv, WritesInv, NoPlaceholderIsSaved
<1>3. j # NoJob /\ GoodJob(j, row) /\ GoodSave(j, c, writes, ock) /\ DOMAIN j = JobFields
  BY <1>1, <1>0, JobUnderWay DEF FormsInv, SavesInv, GoodJob, WholeJob
<1>4. SavesInv'
  <2>1. CASE Saved(b, k) \/ SaveFailed(b, k) \/ MergeLatest(b, k)
    <3> DEFINE none == NoJob
    <3>1. job' = [job EXCEPT ![b][k] = none] /\ none = NoJob
      BY <2>1 DEF Saved, SaveFailed, MergeLatest, Finish
    <3> HIDE DEF none
    <3> QED  BY <1>0, <1>1, <1>2, <3>1, OneSaveMoves DEF FormsInv
  <2>2. CASE ReadLatest(b, k)
    <3> DEFINE latest == [j EXCEPT !.step = "latest", !.read = row[j.record]]
    <3>1. job' = [job EXCEPT ![b][k] = latest] /\ b \in admitted /\ j.answer = "changed"
      BY <1>0, <2>2 DEF ReadLatest, MayReadLatest, JobsInv
    <3>2. j.record \in Records /\ row[j.record].exists = TRUE
      BY <1>3, <3>1 DEF GoodJob, WholeJob
    <3>3. c.epoch # 0 => Legible(j.record, row[j.record], writes, c.ock)
      BY <1>0, <3>1, <3>2, AskedIsLegible
    <3>4. /\ latest.rest = j.rest /\ latest.under = j.under /\ latest.record = j.record
          /\ latest.patch = j.patch /\ latest.envelopes = j.envelopes /\ latest.op = j.op
          /\ latest.touched = j.touched /\ latest.expected = j.expected
          /\ latest.step = "latest" /\ latest.read = row[j.record]
      BY <1>3 DEF JobFields
    <3> HIDE DEF latest, j, c
    <3>5. GoodSave(latest, c, writes, ock)
      BY <1>3, <3>2, <3>3, <3>4 DEF GoodSave
    <3>6. GoodSave(latest, session'[b], writes', ock)
      BY <1>1, <3>5 DEF c
    <3> QED  BY <1>0, <1>1, <1>2, <3>1, <3>6, OneSaveMoves DEF FormsInv
  <2> QED  BY <2>1, <2>2
<1>5. ViewsInv'
  <2>1. ASSUME NEW x, NEW S, GoodView(x, S, c, writes),
               screen' = [screen EXCEPT ![b] = x], loads' = [loads EXCEPT ![b] = S]
        PROVE  ViewsInv'
    <3>1. /\ screen'[b] = x /\ loads'[b] = S
          /\ \A d \in Browsers \ {b} : screen'[d] = screen[d] /\ loads'[d] = loads[d]
      BY <1>0, <2>1 DEF ScreensInv
    <3> QED  BY <1>1, <2>1, <3>1, OneViewMoves DEF FormsInv
  <2>2. CASE Saved(b, k)
    <3> DEFINE x == IF j.patch = NoFields \/ j.op = "create" THEN s
                    ELSE IF j.record \in Topics THEN ClosedTopic(s) ELSE [s EXCEPT !.form = NoForm]
    <3>1. CASE ~StillShown(b, j)
      BY <2>2, <3>1, <1>1, <1>2, SameViews DEF Saved, FormsInv
    <3>2. CASE StillShown(b, j)
      <4>1. screen' = [screen EXCEPT ![b] = x] /\ loads' = [loads EXCEPT ![b] = loads[b] \cup {Asked(b)}]
        BY <2>2, <3>2 DEF Saved
      <4>2. GoodView(x, loads[b], c, writes)
        <5>1. CASE x = s
          BY <1>0, <5>1
        <5>2. CASE j.op # "create" /\ j.record \in Topics /\ x = ClosedTopic(s)
          <6>1. s.draft # NoDraft
            BY <1>3, <3>2, <5>2 DEF StillShown, GoodJob, WholeJob
          <6> HIDE DEF s, c
          <6> QED  BY <1>0, <5>2, <6>1, ClosedTopicIsGood
        <5>3. CASE x = [s EXCEPT !.form = NoForm]
          <6>1. /\ x.rows = s.rows /\ x.form = NoForm /\ x.draft = s.draft /\ x.visible = s.visible
            BY <1>0, <5>3 DEF GoodScreen
          <6> HIDE DEF x
          <6> QED  BY <1>0, <6>1 DEF GoodView
        <5> QED  BY <5>1, <5>2, <5>3
      <4> HIDE DEF x
      <4>3. GoodView(x, loads[b] \cup {Asked(b)}, session[b], writes)
        BY <1>0, <4>2, AskedKeepsView
      <4> QED  BY <2>1, <4>1, <4>3
    <3> QED  BY <3>1, <3>2
  <2>3. CASE SaveFailed(b, k) \/ ReadLatest(b, k)
    BY <2>3, <1>1, <1>2, SameViews DEF SaveFailed, ReadLatest, FormsInv
  <2>4. CASE MergeLatest(b, k)
    <3> DEFINE copy == Unprotect(b, j.record, j.read)
               draft == s.draft
               id == j.record
               visible == s.visible
               synced == [SyncDraft(draft, id, copy, visible) EXCEPT !.expected = copy.revision]
               x == [s EXCEPT !.draft = synced]
    <3>1. CASE ~StillShown(b, j)
      BY <2>4, <3>1, <1>1, <1>2, SameViews DEF MergeLatest, FormsInv
    <3>2. CASE StillShown(b, j)
      <4>1. screen' = [screen EXCEPT ![b] = x] /\ loads' = [loads EXCEPT ![b] = loads[b]]
        BY <1>0, <2>4, <3>2 DEF MergeLatest, ScreensInv
      <4>2. j.step = "latest" /\ j.op = "update" /\ id \in Records /\ j.attached = TRUE
        BY <1>3, <2>4, <3>2 DEF MergeLatest, JobStep, GoodJob, WholeJob, StillShown
      <4>3. /\ x.rows = s.rows /\ x.form = s.form /\ x.visible = s.visible /\ x.draft = synced
        BY <1>0 DEF GoodScreen
      <4>4. ASSUME c.epoch # 0
            PROVE  synced # NoDraft => synced.topic \in DOMAIN s.rows /\ GoodDraft(synced, writes)
        <5>1. id \in Topics /\ j.read.exists = TRUE /\ Legible(id, j.read, writes, c.ock)
          BY <1>3, <4>2, <4>4 DEF GoodJob, WholeJob, GoodSave
        <5>2. draft # NoDraft /\ draft.topic = id
          BY <3>2, <4>2, <5>1 DEF StillShown
        <5>3. id \in DOMAIN s.rows /\ GoodDraft(draft, writes)
          BY <1>0, <4>4, <5>2 DEF GoodView
        <5>4. GoodCopy(id, copy, writes)
          <6> DEFINE r == j.read
          <6>1. IsUnlocked(b) /\ copy = Unprotect(b, id, r) /\ r.exists = TRUE
                /\ Legible(id, r, writes, session[b].ock)
            BY <4>4, <5>1 DEF IsUnlocked
          <6> HIDE DEF r, copy, id
          <6> QED  BY <6>1, UnprotectedCopy
        <5> DEFINE plain == SyncDraft(draft, id, copy, visible)
        <5>5. GoodDraft(synced, writes)
          <6> HIDE DEF draft, id, copy, visible
          <6> QED  BY <1>0, <5>1, <5>3, <5>4, SyncedDraftIsGood
        <5>6. synced.topic = id
          BY DEF SyncDraft
        <5> QED  BY <5>3, <5>5, <5>6
      <4> HIDE DEF x
      <4>5. GoodView(x, loads[b], c, writes)
        BY <1>0, <4>3, <4>4 DEF GoodView
      <4> QED  BY <2>1, <4>1, <4>5
    <3> QED  BY <3>1, <3>2
  <2> QED  BY <2>2, <2>3, <2>4
<1> QED  BY <1>2, <1>4, <1>5 DEF FormsInv

\* A query is asked with the newest key or answered 401.
LEMMA LoadKeepsForms ==
    ASSUME RevisionInv, FormsInv, NEW b \in Browsers, Load(b)
    PROVE  ViewsInv'
<1>1. /\ writes' = writes /\ session' = session /\ screen' = screen
      /\ loads' = [loads EXCEPT ![b] = loads[b] \cup {Asked(b)}]
  BY DEF Load, serverVars
<1>2. loads'[b] = loads[b] \cup {Asked(b)} /\ \A d \in Browsers \ {b} : loads'[d] = loads[d]
  BY <1>1 DEF RevisionInv, ScreensInv
<1>3. GoodView(screen[b], loads[b] \cup {Asked(b)}, session[b], writes)
  BY AskedKeepsView DEF RevisionInv, FormsInv, ViewsInv
<1>4. GoodView(screen'[b], loads'[b], session'[b], writes')
  BY <1>1, <1>2, <1>3
<1> QED  BY <1>1, <1>2, <1>4, OneViewMoves DEF FormsInv

\* A step of a view that leaves the saves alone.
LEMMA ViewKeepsForms ==
    ASSUME RevisionInv, FormsInv, NEW b \in Browsers, Load(b) \/ LoadArrives(b) \/ FormStep(b)
    PROVE  FormsInv'
<1>1. UNCHANGED <<serverVars, session, job, sealed>>
  BY DEF history, Load, LoadArrives, FormStep, OpenTask, TypeTask, OpenTopic, TypeTopic, CancelTopic
<1>2. ock' = ock /\ admitted' = admitted /\ writes' = writes /\ session' = session /\ job' = job
  BY <1>1 DEF serverVars
<1>3. KeysInv' /\ SameKeys
  BY <1>2, SameSession DEF FormsInv
<1>4. SavesInv' /\ WritesInv' /\ NoPlaceholderIsSaved'
  BY <1>1, <1>2, <1>3, SameSaves DEF FormsInv, WritesInv, NoPlaceholderIsSaved
<1>5. ViewsInv'
  BY LoadKeepsForms, ArrivalKeepsForms, FormsKeepForms
<1> QED  BY <1>3, <1>4, <1>5 DEF FormsInv

\* A new content key revokes every session: nobody who is admitted lacks it.
LEMMA RotateKeepsForms ==
    ASSUME FormsInv, Rotate
    PROVE  FormsInv'
<1>1. /\ ock' = ock + 1 /\ admitted' = {} /\ writes' = writes /\ sealed' = sealed
      /\ UNCHANGED <<session, screen, job, loads>>
  BY DEF history, Rotate
<1>2. ock \in Nat /\ 0..ock \subseteq 0..(ock + 1)
  BY DEF FormsInv, KeysInv
<1>3. KeysInv' /\ WritesInv'
  BY <1>1, <1>2 DEF FormsInv, KeysInv, WritesInv
<1>4. ViewsInv' /\ NoPlaceholderIsSaved'
  BY <1>1 DEF FormsInv, ViewsInv, NoPlaceholderIsSaved
<1>5. \A j, c, W : GoodSave(j, c, W, ock) => GoodSave(j, c, W, ock + 1)
  BY <1>2 DEF GoodSave
<1>6. SavesInv'
  BY <1>1, <1>5 DEF FormsInv, SavesInv
<1> QED  BY <1>3, <1>4, <1>6 DEF FormsInv

\* Every step keeps the invariant.
LEMMA NextKeepsForms ==
    ASSUME RevisionInv, FormsInv, [Next]_vars
    PROVE  FormsInv'
<1>1. ASSUME NEW b \in Browsers, Unlock(b) \/ Lock(b) \/ AuthorizationLost(b)
      PROVE  FormsInv'
  BY <1>1, MountKeepsForms
<1>2. ASSUME NEW b \in Browsers, Load(b) \/ LoadArrives(b) \/ FormStep(b) PROVE FormsInv'
  BY <1>2, ViewKeepsForms
<1>3. ASSUME NEW b \in Browsers, NEW k \in Slots, SaveStep(b, k) PROVE FormsInv'
  BY <1>3, BeginKeepsForms, SealKeepsForms, CheckKeepsForms, CommitKeepsForms, AnswerKeepsForms
     DEF SaveStep, RevisionInv
<1>4. CASE Rotate
  BY <1>4, RotateKeepsForms
<1>5. CASE UNCHANGED vars
  BY <1>5 DEF vars, history, serverVars, FormsInv, KeysInv, WritesInv, ViewsInv, SavesInv, NoPlaceholderIsSaved
<1> QED  BY <1>1, <1>2, <1>3, <1>4, <1>5 DEF Next

\* What is stored before the browsers come is text, sealed with the first key.
LEMMA InitEstablishesForms == Init => FormsInv
<1> SUFFICES ASSUME Init PROVE FormsInv
  OBVIOUS
<1>1. KeysInv
  BY DEF Init, KeysInv
<1>2. WritesInv
  <2>1. \A w : w \in writes <=> \E id \in Stored : \E f \in Fields(id) : w = Cell(Founding(id, f), 1)
    BY DEF Init
  <2>2. \A id, f : /\ Cell(Founding(id, f), 1).envelope.record = id
                   /\ Cell(Founding(id, f), 1).envelope.field = f
                   /\ Cell(Founding(id, f), 1).envelope.ock = 1
                   /\ Cell(Founding(id, f), 1).envelope.value = First
    BY DEF Cell, Founding, Envelope
  <2>3. Clean(First) /\ ock = 1
    BY ScalarConstants DEF Init, ScalarConstants, Clean
  <2>4. \A w \in writes : w.envelope.ock \in 0..ock /\ Clean(w.envelope.value)
    BY <2>1, <2>2, <2>3
  <2>5. \A v, w \in writes :
            v.envelope.record = w.envelope.record /\ v.envelope.field = w.envelope.field => v = w
    BY <2>1, <2>2
  <2> QED  BY <2>4, <2>5 DEF WritesInv
<1>3. ViewsInv
  <2>1. \A b \in Browsers : screen[b] = NoScreen /\ loads[b] = {}
    BY DEF Init
  <2> QED  BY <2>1, EmptyView DEF ViewsInv
<1>4. SavesInv /\ NoPlaceholderIsSaved
  BY DEF Init, SavesInv, NoPlaceholderIsSaved
<1> QED  BY <1>1, <1>2, <1>3, <1>4 DEF FormsInv

\* Views show what is stored and forms hold what was read or typed: a browser that
\* is unlocked and admitted has the newest key, and one that is not admitted is
\* answered nothing.
THEOREM FormsInvariance == Spec => []FormsInv
BY InitEstablishesForms, NextKeepsForms, RevisionInvariance, PTL DEF Spec

\* A placeholder for text the browser cannot read is never sealed in its place.
THEOREM PlaceholdersHold == Spec => []NoPlaceholderIsSaved
<1>1. FormsInv => NoPlaceholderIsSaved
  BY DEF FormsInv
<1> QED  BY <1>1, FormsInvariance, PTL
-----------------------------------------------------------------------------
(* Fields nobody has touched *)

\* Only a commit writes to the tables.
LEMMA CommitsChangeRows ==
    ASSUME [Next]_vars, row' # row
    PROVE  \E b \in Browsers, k \in Slots : Commit(b, k)
<1>1. ~Rotate /\ ~UNCHANGED vars
  BY DEF Rotate, vars, serverVars
<1>2. PICK b \in Browsers : \/ Unlock(b) \/ Lock(b) \/ AuthorizationLost(b)
                            \/ Load(b) \/ LoadArrives(b)
                            \/ FormStep(b)
                            \/ \E k \in Slots : SaveStep(b, k)
  BY <1>1 DEF Next
<1>3. ~Unlock(b) /\ ~Lock(b) /\ ~AuthorizationLost(b) /\ ~Load(b) /\ ~LoadArrives(b)
  BY DEF Unlock, Lock, AuthorizationLost, Load, LoadArrives, serverVars
<1>4. ~FormStep(b)
  BY DEF FormStep, OpenTask, TypeTask, OpenTopic, TypeTopic, CancelTopic, serverVars
<1>5. PICK k \in Slots : SaveStep(b, k)
  BY <1>2, <1>3, <1>4
<1>6. /\ ~SaveTask(b, k) /\ ~SaveTopic(b, k)
      /\ \A id \in Tasks : ~CompleteTask(b, k, id)
      /\ \A id \in Records, v \in Values : ~Create(b, k, id, v)
  BY DEF SaveTask, SaveTopic, CompleteTask, Create, serverVars
<1>7. ~Seal(b, k) /\ ~Check(b, k)
  BY DEF Seal, Check, serverVars
<1>8. ~Saved(b, k) /\ ~SaveFailed(b, k) /\ ~ReadLatest(b, k) /\ ~MergeLatest(b, k)
  BY DEF Saved, SaveFailed, ReadLatest, MergeLatest, serverVars
<1> QED  BY <1>5, <1>6, <1>7, <1>8 DEF SaveStep

\* What a commit puts in the place of other text its user has touched.
LEMMA CommitKeepsUntouched ==
    ASSUME RevisionInv, FormsInv, NEW b \in Browsers, NEW k \in Slots, Commit(b, k),
           NEW id \in Topics, row[id].exists, NEW f \in Fields(id),
           row'[id].cell[f].envelope.value # row[id].cell[f].envelope.value
    PROVE  /\ job[b][k] # NoJob /\ job[b][k].record = id
           /\ job[b][k].step = "checked" /\ job'[b][k] # job[b][k]
           /\ f \in job[b][k].touched
<1> DEFINE j == job[b][k]
           again == [j EXCEPT !.step = "sent"]
<1>0. JobsInv /\ TablesInv /\ WritesInv /\ id \in Records /\ row[id].exists = TRUE
  BY DEF RevisionInv, FormsInv, TablesInv, Records
<1>1. j.step = "checked"
  BY DEF Commit, JobStep
<1>2. j # NoJob /\ GoodJob(j, row) /\ GoodSave(j, session[b], writes, ock)
  BY <1>0, <1>1, JobUnderWay DEF FormsInv, SavesInv
<1>3. job'[b][k] # j
  <2>1. DOMAIN j = JobFields
    BY <1>2 DEF GoodJob, WholeJob
  <2>2. again.step = "sent" /\ \A answer : Answered(j, answer).step = "answered"
    BY <2>1 DEF JobFields, Answered
  <2>3. \/ job' = [job EXCEPT ![b][k] = again]
        \/ \E answer : job' = [job EXCEPT ![b][k] = Answered(j, answer)]
    BY <1>0 DEF Commit, JobsInv
  <2>4. job'[b][k] = again \/ \E answer : job'[b][k] = Answered(j, answer)
    <3> HIDE DEF j, again
    <3> QED  BY <1>0, <2>3 DEF JobsInv
  <2> QED  BY <1>1, <2>2, <2>4
<1>4. /\ j.op = "create" => row[j.record].exists # TRUE
      /\ row' = [row EXCEPT ![j.record] = Written(j)]
  BY <1>0 DEF Commit
<1>5. id = j.record /\ row'[id] = Written(j) /\ j.op = "update"
  BY <1>0, <1>2, <1>4 DEF TablesInv, GoodJob, WholeJob
<1> HIDE DEF j, again
<1>6. j.read = row[id] /\ AsExpected(j, row[id].cell)
  BY <1>1, <1>2, <1>5 DEF GoodJob, ReadIsCurrent, GoodSave
<1>7. /\ f \in DOMAIN j.envelopes
      /\ row'[id].cell[f].envelope.value = j.envelopes[f].value
  <2>1. row'[id].cell[f] = IF f \in Fresh(j) THEN Cell(j.envelopes[f], j.read.cell[f].revision + 1)
                           ELSE j.read.cell[f]
    BY <1>0, <1>5, <1>6 DEF Written
  <2> QED  BY <1>6, <2>1 DEF Fresh, Cell
<1>8. ASSUME f \notin j.touched PROVE FALSE
  <2>1. f \in DOMAIN j.expected /\ StoredAs(id, f, j.expected[f], j.patch[f], writes)
    BY <1>2, <1>5, <1>8 DEF GoodSave
  <2>2. j.expected[f] = row[id].cell[f].revision
    BY <1>6, <1>7, <2>1 DEF AsExpected
  <2>3. PICK w \in Accepted(id, f, writes) : w.revision = row[id].cell[f].revision
                                             /\ w.envelope.value = j.patch[f]
    BY <2>1, <2>2 DEF StoredAs
  <2>4. row[id].cell[f] \in Accepted(id, f, writes)
    BY <1>0 DEF TablesInv, ExactField
  <2>5. w = row[id].cell[f]
    BY <1>0, <2>3, <2>4 DEF WritesInv, Accepted
  <2>6. j.envelopes[f].value = j.patch[f]
    BY <1>2, <1>7 DEF GoodSave
  <2> QED  BY <1>7, <2>3, <2>5, <2>6
<1> QED  BY <1>1, <1>2, <1>3, <1>5, <1>8 DEF j

\* A save of a Topic changes the text of a field only if its user has changed it:
\* what was not touched is expected at the revision it was read, and a row is
\* locked from the check of that revision until it is written.
THEOREM UntouchedHold == Spec => UntouchedFieldsSurvive
<1> DEFINE Survive ==
      \A id \in Topics : row[id].exists => \A f \in Fields(id) :
          row'[id].cell[f].envelope.value # row[id].cell[f].envelope.value =>
             \E b \in Browsers, k \in Slots :
                /\ job[b][k] # NoJob /\ job[b][k].record = id
                /\ job[b][k].step = "checked" /\ job'[b][k] # job[b][k]
                /\ f \in job[b][k].touched
<1>1. ASSUME RevisionInv, FormsInv, [Next]_vars PROVE Survive
  <2> SUFFICES ASSUME NEW id \in Topics, row[id].exists, NEW f \in Fields(id),
                      row'[id].cell[f].envelope.value # row[id].cell[f].envelope.value
               PROVE  \E b \in Browsers, k \in Slots :
                         /\ job[b][k] # NoJob /\ job[b][k].record = id
                         /\ job[b][k].step = "checked" /\ job'[b][k] # job[b][k]
                         /\ f \in job[b][k].touched
    OBVIOUS
  <2>1. row' # row
    OBVIOUS
  <2>2. PICK b \in Browsers, k \in Slots : Commit(b, k)
    BY <1>1, <2>1, CommitsChangeRows
  <2> QED  BY <1>1, <2>2, CommitKeepsUntouched
<1>2. RevisionInv /\ FormsInv /\ [Next]_vars => [Survive]_vars
  BY <1>1
<1> QED  BY <1>2, RevisionInvariance, FormsInvariance, PTL DEF Spec, UntouchedFieldsSurvive
=============================================================================
