# A TLA+ verification of elderflow

Elderflow prepares and minutes the meetings of a small church board. Its server
(NestJS, PostgreSQL) stores protected text only as ciphertext; browsers encrypt,
edit a Meeting together over a WebSocket relay, shorten its stored history from
time to time ("compaction") and finally seal it ("completion"). Keys are kept by
people: a shared passphrase and a printed recovery secret open them, and two
operators together replace them in a "ceremony".

This directory holds TLA+ modules that model the program, the TLC configurations
that model-check them on small instances, and TLAPS proofs of what matters most
for every value of the constants. Source paths below are relative to `src/`;
`BE` stands for `backend/src`, `FE` for `frontend/src`.

## 1. The system

### 1.1 Components

| Component | Code | State it keeps | Module |
|---|---|---|---|
| Barrier coordinator | `BE/meetings/meeting-compaction-coordinator.ts` | in memory, per document: the open barrier, joined connections, counters of writers, timers, unsettled requests | `CompactionCoordinator` |
| Stored Meeting document | `BE/meetings/meeting-document.service.ts` | active snapshot, accepted updates, sequence, status of the Meeting | `MeetingDocument`, `MeetingLog` |
| Collaboration relay, tickets | `BE/meetings/meeting-collaboration-relay.service.ts`, `-ticket.service.ts` | rooms, sockets, missed heartbeats, tickets | `MeetingServer` |
| Meeting writes and completion | `BE/meetings/meetings.service.ts` | Meetings, agendas | `MeetingServer` (document), `Agenda` (agenda) |
| Collaboration client | `FE/e2ee/meeting-collaboration.ts`, `meeting-document-session.ts` | pending and sent updates, paused text, the replica (Y.Doc), author clock | `CollaborationClient` |
| Accounts, sessions, users, setup | `BE/auth`, `BE/users`, `BE/setup` | users with a session version, sessions, client epochs | `Accounts` |
| External sign-in | `BE/external-auth` | provider settings, links, login transactions | `ExternalSignIn` |
| Key ceremonies | `BE/e2ee/e2ee.service.ts` | key state, wrapped content keys, ceremonies | `KeyCeremony` |
| Scalar fields, Tasks, Topics | `BE/e2ee/e2ee-scalar.service.ts`, `BE/tasks`, `BE/topics`; `FE/e2ee/*-scalars.ts`, `scalar-session.ts` and the forms | sealed fields with revision, counters per session | `ScalarWrites` |
| Agenda, recurrence, sections | `BE/meetings`, `BE/recurrence`, `BE/agenda-sections`; `FE/api/domain.ts` | appearances with positions, skips, plans under way | `Agenda` |
| Protected text | `FE/e2ee/protected-text.ts`, `unlock-session.ts`, `auth/auth.ts` | keys of a tab, its epochs, lock state | `ProtectedText` |
| Meeting workspace | `FE/meetings/workspace/*` | phase, generation, pending writes of the open Meeting | `MeetingWorkspace` |
| Key vault | `FE/e2ee/crypto.ts` | none: what opens what | `KeyVault` |
| Pages | `FE/views/*` | forms, flags, drags, dialogs | `RecoveryPage`, `PreparationPage`, `AgendaPage` (on `PlannedAgenda`), `MembershipCard` (on `CardFields`), `MentionsPage`, `SetupPage`, `SettingsPage` |

`PROJECT.json` lists the parts one by one with their status, and the hazards
each at its line.

### 1.2 How they interact

A browser signs in, unlocks with the passphrase and registers a *client epoch*:
a signing key under which it seals. It asks for a ticket over HTTP and opens a
WebSocket. `authenticate` consumes the ticket and puts the socket into the room of the
document: from then on it belongs to the coordinator's `connections`, and to the
open barrier if there is one. An `update` frame is checked against the Meeting, passes
`prepareUpdate` and `beginCollaborationUpdate` and is stored in a transaction that
locks the Meeting row; it is then acknowledged to its author and broadcast.
Topics are added over HTTP; such a write is *external*: it aborts an open barrier,
and no barrier opens while it is at work.

A **compaction** starts when the sequence passes a multiple of 100. Every
connected client pauses, waits until its updates are acknowledged and reports
`compaction-drained`; the last report makes the server read the sequence and mark
the barrier ready; one client submits a replacement snapshot, and
`compactWorkspace` claims the barrier, validates and stores it in a transaction.

A **completion** runs through the same drain, then reads the sequence, announces
it, waits for everybody's confirmation, answers the waiting
`prepareCompletion` request, and seals the Meeting in the transaction of
`complete`, which re-checks claim and sequence. Every barrier ends by success, by a
failure report, by the disconnection of a participant, by a disturbing write or by a
timer (5 s; 30 s once a completion is finalized).

A **ceremony** replaces the passphrase, the recovery secret, the root key or the
content key: one operator proposes a candidate, a second one verifies it, either
activates it while both are present; all sessions are revoked by it.

After everything that may have changed the schedule of a **recurring Topic** the browser
asks for a plan and carries it out request by request.

### 1.3 What is hard here

* handlers interleave at every `await`, and what they read before is changed by
  others while they wait for the database, the cipher or a person;
* sockets join and leave during a round, also while a transaction commits;
* timers race transactions; the answer to COMMIT may be lost; the process may
  restart between two steps;
* two writers that exclude each other only through counters (HTTP writes) or a
  row lock (transactions), or that do not exclude each other at all and save the
  entity they read earlier (accounts, provider settings);
* promises and flags that some later event must settle;
* answers that reach a browser in another order than they were given, after the
  page was left, locked or signed out, or not at all;
* nonces that must not repeat whatever fails, overlaps or is sent again.

## 2. Modules

| Module | What it is |
|---|---|
| `CompactionCoordinator` | the coordinator class for one document: one action per method |
| `MeetingDocument` | the stored document with its row lock: one operator per transaction |
| `MeetingLog` | abstract specification: an append-only log sealed once |
| `MeetingServer` | composition: relay and HTTP handlers, split at their awaits, calling the two above |
| `CollaborationClient` | composition: the browsers' providers and replicas against the coordinator and a coarse server |
| `Accounts`, `ExternalSignIn`, `KeyCeremony`, `Access` | three services on the accounts they share, and their composition |
| `ScalarWrites` | browsers that seal fields, and the server that commits them |
| `Agenda` | agendas under concurrent requests and reconciliations |
| `KeyVault` | abstract specification of a ceremony: what opens what |
| `ProtectedText`, `MeetingWorkspace` | one browser tab: keys, and the open Meeting |
| `PlannedAgenda`, `PreparationPage`, `AgendaPage`, `CardFields`, `MembershipCard`, `RecoveryPage`, `SetupPage`, `MentionsPage`, `SettingsPage` | the views of that tab with their part of the server |
| `Browser` | composition of the tab and its views |
| `CoordinatorAndDocumentProofs`, `MeetingServerProofs`, `ScalarWritesProofs`, `AccessProofs`, `CollaborationClientProofs`, `AgendaProofs`, `TabProofs`, `BrowserProofs` | TLAPS proofs |
| `MC*` | instances for TLC |

### 2.1 CompactionCoordinator

`barrier` is the entry of `byDocument` (`NoBarrier` when absent), `connections` the
joined sockets, `collaborationWriters` and `externalWriters` the two counters,
`waiting` the barriers whose `beginCompletion` promise is pending, `captures` the
calls of `captureCompletionSequence` that wait for `readSequence`, and `released` the
outcome broadcast for each barrier. A method runs without yielding, so each is
one action; `captureCompletionSequence` is split at its only `await` into
`StartCapture`, `CaptureReads`, and `CaptureResumes` or `CaptureFails`. Methods that throw
or return early without a change are steps that leave everything unchanged, so
they need no action. The ghosts are `released` and `issued` (how many ids were drawn;
the code uses random UUIDs).

### 2.2 MeetingDocument

`appendUpdate` awaits only the database under the row lock and is one step.
Compaction and completion consult the coordinator while they hold the row, so
`LockMeeting`, the steps in `MeetingServer`, and `CommitCompaction` / `CommitCompletion` /
`Rollback` are separate and `rowLock` is state. Of an envelope the model keeps
client epoch, author clock and parent snapshot; signatures and contents are
not looked at by this code path beyond pure validation. `LatestClock` is
`latest?.authorClock ?? coveredClock`.

### 2.3 MeetingServer

A handler is cut at its awaits. `handler[c]` follows an update frame
(`checked` after `assertConnectionActive`, `writing` after the counter was raised,
`written` after the transaction), `requested` a compaction request, `reads` the
sequence read of `compactionDrained`, `preparing` the first transaction of
`prepareCompletion`, and `tx[b]` the transaction that claimed barrier `b`:

    claimed -> (entered) -> locked -> (persisted) -> committing -> committed -> done
        \________________ failed (rollback) ___________________/   -> done

`FailTx` from `committing` rolls back; with `CommitAckLoss` the commit takes effect and
its answer is lost. `RestartServer` empties everything in memory and rolls back open
transactions. Clients are free: an open socket may send any frame at any time,
also one the real client would not send.

`MeetingLog` promises a log that grows by one, per author clocks that grow by one
with it, and a seal after which nothing moves. `MeetingServer` implements it under
`length <- currentServerSequence`, `clocks <- [e \in Epochs |-> LatestClock(e)]`,
`sealed <- (status = "completed")`; compaction, which deletes the rows the clocks
were read from, must therefore map to a stutter.

### 2.4 CollaborationClient

`clients[c]` is the provider of a browser and its replica: `doc`, `sequence`, `parent`
and `clock` of the `MeetingDocumentSession`; `pending`, `sent`, `paused`
(`pausedPlaintext`), `held` (`barrierId`), `drained`, `mirror` (`barrierDocument`),
`online` (`authenticated`) and `link` (`socket`) of the provider. The two promise
chains are `jobs` (the `encryption` chain: encrypt, synchronize, recover) and
`inbox` with `busy` (the `incoming` chain: one frame at a time, which stays at the
head while its handler awaits a job or, in `post`, the answer to a compaction). Edits,
timers, disconnections and the jobs interleave with both. `bootstrap` reads the
document row (`ReadRow`) and then snapshot and updates (`ReadRows`); a
compaction may come in between. `rebasePending` and `recoverPendingWithFreshEpoch`
take one step once the workspace is read.

A text edit is an atom and a Y.Doc the set of edits it was given; Yjs merges in
any order. `log` keeps the envelope of each sequence, also after a compaction has
deleted its row, and `archive` the content of the active snapshot; both are
ciphertext to the server and appear here so that properties can speak of the text.

The server is the coordinator and the document of 2.1 and 2.2, with each frame
handled in one step except that an update is stored (`AcceptUpdate`) before it is
acknowledged and broadcast (`AnswerUpdate`), and that a compaction is claimed,
committed or rolled back, and answered separately. What `MeetingServer` examines
(authorization, writers counted across awaits, restarts) is left out; an HTTP document
write ends a barrier exactly as its timer does and is not an action of its own.

### 2.5 Accounts, ExternalSignIn, KeyCeremony, Access

`account`, `session` and `epoch` are tables; `request[r]` is a handler between two of its
steps with the entity it has read. TypeORM's `save` writes every column in which that
entity differs from the row, so `SaveAccount` puts back what others have changed
meanwhile, and inserts a row that is gone. A handler that holds a row lock or an
advisory lock is one step. `ExternalSignIn` adds the provider's row, links and
`flow`, the login transactions from start over the callback (consumed under a lock,
then the provider answers with any subject and address or refuses, then saved) to
the completion code. `KeyCeremony` adds the key state, the wrappers as pairs of root
and content key, and ceremonies; `Proposals` is what a browser can put together,
`OperationMatches` and `ContextMatches` are the server's checks. `Access` runs the three
on one set of accounts: a ceremony's activation revokes everybody's session, links and
ceremonies keep an account from being deleted, a restart ends the handlers of all.

### 2.6 ScalarWrites

`row` are the tables, `writes` the receipts of `e2ee_scalar_writes`, `session[b]` the sealing
session of a browser with a counter per record and field, `screen[b]` what its forms hold,
`job[b]` the saves under way and `sealed` (a history) every envelope that left the cipher. A
save is a job: it takes counters (`Counted`, before any await), waits for the cipher
(`Seal`), is checked under the row's lock (`Check`), committed (`Commit`) and answered. Locks,
unlocks, a new content key and a remount of the view come between any two of these.

A query of a session that was revoked is answered 401 (`Asked`, `Unauthorized`), which locks the browser and sends
it to the login (`AuthorizationLost`); so does the query after a save and the one for the latest Topic. The
proof of `NoPlaceholderIsSaved` rests on this: where an earlier form of the module let such a query be answered,
the prover could not close the step, and TLC found a run in which a browser that was still unlocked showed, and then
sealed, the placeholder for text under a content key it did not have.

### 2.7 Agenda

The tables are Meetings, Topics, appearances (`agenda[m][p]` with section, position and source),
`skips`, the positions of the sections and the additions that are known (`mutations`). Each browser has a request
`tx`, which locks row after row (`want`, `held`), works on what it then reads (`Work`, the outcome in `out`) and
commits later, and a `job` that reconciles recurring Topics after it: `FetchPlan` asks for the plan of the next Topic,
`NextMove` and `NextRemoval` carry it out request by request, and the server computes the plan again before it takes
a step of it (`Planned`, `WorkRemoveReconciled`). The plan of `recurrence.service.ts` is stated by what it
decides: when the Topic is due as the walk by date reaches each Meeting (`Due`), which Meetings get it (`Desires`), when
nothing is to be done about it (`Conflicts`), which appearance goes where (`Assigned`) and which are superfluous (`Removals`).

A lock that is held is waited for, as is one on a row that the outcome changes (`ChangedRows`); a deadlock is broken as PostgreSQL
does. Dates are numbers and a recurrence an `Interval`. `Legal` says what a database may hold at the start: agendas
that are numbered, appearances with identifiers of their own, and no scheduled one where its date was skipped.

### 2.8 One browser tab

JavaScript runs a handler to its next await: an action is a handler or what follows an
answer, and answers under way are in `calls`. A handler is an operator from a page to a page
(`Page`, `Become`), so that one may call another. Generations, which the code counts to
recognize late answers, are replaced by a flag of the call.

* `ProtectedText`: `text` holds the status, the keys, the epochs that were drawn, registered and
  held; `Unlock`, `Derived`, `Registered`, `UnlockAnswered` are the awaits of an attempt;
  `PerformLock` is what locks by hand, by time (`TimeoutLock`), from another tab (`RemoteLock`) or by a
  poll (`PollAnswered`); `Rotate` replaces an epoch.
* `MeetingWorkspace`: `ws` is the workspace of `core.ts`, `link` the provider as it is seen from
  outside. Loads go through a read on the server (`LoadRead`) and the arrival; `Refresh`, `Retry`,
  writes, completion and closing with its prompt follow `core.ts` method by method.
* `RecoveryPage`: the page with its poll, the worker that derives keys and the server's part of a
  ceremony; other operators act too. The keys are those of `KeyVault`.
* `PlannedAgenda`, `PreparationPage`, `AgendaPage`: the agenda of one Meeting as others change it;
  drags, selections, dialogs, durations and requests that are disabled by `pending` or overlap.
* `CardFields`, `MembershipCard`: a text and a choice that save themselves.
* `MentionsPage`, `SetupPage`, `SettingsPage`: what their names say, with their part of the server.

A start of the instance (`Starts`) says whether the tab is signed in and unlocked and how often
each thing may happen: a bound on every counter, and a story of its own. Every view is checked against
the locks, losses and sign-outs of `ProtectedText`.

`KeyVault` is the abstract specification behind `RecoveryPage`: `VaultSpec` has one step, a ceremony
of two operators that type secrets, verify and install. `VaultSpec` as a property of the `browser` run
says that all the steps of the page, late, repeated or interrupted, do no more than that.

## 3. Runs

| Run | Instance | Distinct states |
|---|---|---|
| `coordinator` | 2 connections (symmetric), 2 barriers, sequences 0..1, at most 1 writer of each kind | 475 368 |
| `completion` | 2 connections, 1 of them writing, completion by one user, sequence up to 1 | 2 317 798 |
| `compaction` | 2 writing connections with an epoch each (symmetric), 2 barriers, sequence up to 2, compaction after every update | 1 200 986 |
| `server` | 1 connection, 1 HTTP writer, completion and compaction, restarts, lost COMMIT answers, `FairSpec` | 159 604 |
| `access` | 14 starts; up to 3 accounts, 2 sessions, 2 handlers, 2 sign-ins, 2 ceremonies | 251 333 |
| `content` | 10 starts; 2 browsers, a Task, a Topic and a Topic update, 2 values and one that fits no padding | 150 050 |
| `agenda` | 12 starts; 2 browsers, 3 Meetings, 3 Topics, 2 sections | 180 992 |
| `browser` | 53 starts of one tab, the others being part of the server | 337 598 |
| `client` | 3 cases of 2 browsers | 737 822 |
| `expired_completion`, `client_extraction`, `client_convergence` | a counterexample is expected | |

**coordinator.** Every method is called by anyone in any order, with any argument. A
round needs two participants to be disturbed half way and two barriers for a
late answer to meet its successor; a third connection adds no new relation
between `drained`, `confirmed` and the participants, and the theorems of section 5 do
without the bound. `RoundsAreComplete` says that a round left behind was complete,
`BarrierExcludesExternalWriters` that the two kinds of writers exclude each other,
`FrozenCompletionIsStable` what a step may never do.

**completion.** `SealsWhatWasChecked`: between the check in the transaction and COMMIT nothing is
appended, and the sequence recorded with the completion is the number of accepted
updates. `CompletedIsImmutable`: after it no sequence, clock, snapshot or status changes.
One update suffices, as it may be before, between and after each step of the round; the
second connection joins, drains or leaves in the meantime.

**compaction.** `LogIsSound`: the rows kept are exactly those after the active snapshot, and
an author's clock is used once over all snapshots. `CompactionIsWhole`: a transaction that
may still commit owns the current barrier, and no snapshot is replaced once clients were
told that the compaction is off. Two barriers let an old one's steps meet a new one; no
completion is possible in this run, and no answer to COMMIT is lost.

**server.** `ImplementsLog` (refinement of `MeetingLog`), `CoordinatorIsTruthful` (a broadcast
"complete" means that the data were stored, and the counters equal the handlers at work),
`CoordinatorSpec`: every step of the server is a step or a stutter of the coordinator's own
specification, so that what is proved from `CoordinatorSpec` holds of the server. Under
`FairSpec`: `BarriersEnd` (whatever clients do or omit, a barrier is released and every
`prepareCompletion` is answered) and `CompletedMeetingIsLeft` (also by a socket that joins late).

**access.** The starts pair what may overlap: two setups; a role change, a profile change,
archiving and restoring under sessions and epochs that are being registered; settings that are
saved, tested, enabled and removed by handlers that read the row earlier; sign-ins that are
repeated, time out or meet such a change; ceremonies of two operators with a third account,
which expire, lose presence, are aborted or meet a browser that registers; an account removed while a
sign-in links it or a handler registers an epoch for it. `RevokedStaysRevoked`: a
session the guard admits was issued after the last revocation of its account - unless a handler
saved an older entity over it, which the code permits and the invariant names. `TablesStayWhole`:
the tables hold values of their types, one setup succeeds, its custodian has an account, and so has
everybody whom a link, a ceremony or an epoch names: removal decides between archiving and deleting from a
list of tables, while rows are written about the account by handlers that began before it (`ReferencesHold`).
Columns that a stale save sets back are of the right type: of these it says nothing. `SignInsAreSound`: no
sign-in by an untested configuration, one sign-in per transaction. `GenerationsAreSound`: two people
stand behind every generation, and whatever it replaced can still be read in it. Two handlers
are what a stale save needs; two ceremonies what a late approval needs.

**content.** `CounterSealsOneValue`: the nonce of a scalar is a counter per field; whatever overlaps, is
refused, lost or locked out, no counter seals two values, except in an epoch in which an encryption of that field
has failed. Values that fit no padding are typed in three starts, so the exception is met, and nothing but it
(6.4). `RevisionsAreExact`: revisions count what was
accepted, once. `UntouchedFieldsSurvive`: a form saved late leaves alone what its user has not
touched. `NoPlaceholderIsSaved`: the placeholder shown instead of locked text is never sealed. The
starts are two forms of one Topic; Task saves that overlap, lose their answer or are repeated;
locks and a new content key in between; creations; encryptions that fail between others. Locking wipes the
key memory at once; in the code an encryption in the middle of its work may then still end, with nobody to
send what it made, and the model lets it fail.

**agenda.** `AgendasAreWhole`: positions are 1, 2, ... in every section whatever overlapped.
`SkippedStaysSkipped`: a plan made before a date was skipped cannot put the Topic back.
`PlanIsCarriedOut`: the steps of a plan nobody disturbed do not stand in each other's way.
`SettledStays`: reconciliation takes away nothing that was added by hand, edited or belongs to a
begun Meeting, and a completed agenda is final. Three Meetings are needed for a move to have a
neighbour on both sides; two recurring Topics for plans that meet.

**browser.** `BrowserTypeOK` is the type invariant. `SealsWhileUnlocked`: a tab without
keys seals nothing, and one with keys seals under an epoch that the server knows and the next lock
revokes. `UnsavedIsGuarded` and `NoSilentLoss`: a tab with unsent edits asks before it is left, also
one that hears nothing of its collaboration any more, and so does one with an unsettled save, except where the page
already shows the completed Meeting (6.1); edits that are dropped are dropped by their writer or told.
`ShownIsCurrent`: an agenda at rest is the stored one, that of a Meeting unless its last load failed or, after a
retry, came in behind a refresh (6.1). `KeysAreKept` and `VaultSpec`: ceremonies, as the page makes them, lose no key.
`TakenForDoneIsDone`: where the page speaks of an approval, the ceremony that its button activates is
one its user has taken part in, and opens with what its approver typed; who is told that the setup is complete holds
the paper that opens it. Which ceremony the page *shows* meanwhile is another matter (6.2). `ReorderKeepsAgenda`: nothing falls out of an
agenda that is reordered from an old list. `ControlsComeBack`: whatever is disabled waits for an
answer that will come. `TypedIsStoredOnce`: what is typed is stored once, and over nothing that nobody
has seen, as long as its page is there; of text dropped by leaving the page nothing is said (6.4). Each start has as many of each operation as the story it tells needs, mostly two of
whatever a late answer can be confused with.

**client.** Three cases. *Reconnect*: one browser may lose its socket and use a second one around
a compaction. Three edits are needed: one stored before the compaction (its clock must not come
back), one waiting during it, and one of the other browser, whose acknowledgement starts it; the second
socket makes an update with a stale parent reach the server, the only way to the recovery with a
fresh epoch. *Completion*: one writes over an unreliable socket while the other completes; a compaction
at every update makes the writer meet the frozen completion with an update still waiting. *Refreshed*:
two compactions while a workspace is refreshed. `NoEditIsLost`: an edit is in its author's document,
and stored or still waiting there, through drains, releases, rebases, repetitions and recoveries.
`SnapshotHoldsLog`: a compaction archives exactly the updates it covers. `ClockSealsOnce`: one clock of an
epoch seals one envelope. `DrainedMeansSettled`: a participant counted as drained has nothing sealed or
being sealed. In all cases the last socket of a browser holds: what a browser does after it has
left for good is nobody's concern.

Further bounds: a connection has one update frame and one sequence read in the
server at a time (`ws` may deliver more; more handlers of one socket act like those of
another socket, which the runs have). `MaxSequence`, `MaxBarriers`, `MaxWriters`, `MaxCeremonies` and
the numbers of a start are guards of the actions that draw from them.
`CHECK_DEADLOCK FALSE` stands where an instance comes to its end: every connection
closed, every barrier drawn, every operation spent. A connection that was closed is not used again; a
reconnect is another member of `Connections`.

Four configurations beside the runs show disagreements of section 6 and are meant to be violated:
`MCScalarCounter.cfg` (module `MCScalarWrites`), `MCAgendaText.cfg` and `MCAgendaSchedule.cfg` (module `MCAgenda`),
`MCApproval.cfg` (module `MCBrowser`).

## 4. Fairness

`FairSpec` of `MeetingServer` has weak fairness for what the process itself owes, and for no client:

* a handler whose database call answers is resumed (Node's event loop), and every
  database call answers: PostgreSQL serves the row lock in turn, `SET LOCAL lock_timeout`
  and `statement_timeout` (`meetings.service.ts:93-94, 471`) end what it does not serve, and a failing
  statement is an answer too. Weak fairness per transaction and per handler is
  enough: the row is free again after finitely many steps of its holder;
* the timers of a barrier fire unless they are cleared;
* the heartbeat notices a dead socket and the reauthorization interval closes the
  sockets of a completed Meeting.

A client may never drain, never confirm, never submit, or stay silent. The browser models state no
fairness: that something disabled comes back is stated as the safety property that its answer is still
under way (`ControlsComeBack`), since a request may hang for as long as the network likes.

## 5. Proofs

TLAPS proves the following for every value of the constants: any finite set of connections, any users,
epochs, requests and bounds. The only assumptions are the named ones on the constants of the modules
(`CoordinatorConstants`, `DocumentConstants`, `ServerConstants`, `ClientConstants`, `SecretsAreTyped`, `RecoveryConstants`, `ScalarConstants`,
`AgendaConstants`; of `Access`
`AccountsConstants`, `StartsAreWhole`, `ExternalConstants`, `KeysAreNumbered`, `StartingKeys`), which TLC evaluates in the runs.

### 5.1 The coordinator (`CoordinatorAndDocumentProofs`)

    THEOREM Invariance == CoordinatorSpec => []IInv

The code decides that everybody has drained or confirmed by comparing *sizes*
(`drained.size === participants.size`). This is right only because drained and confirmed
connections are participants, so the invariant has to carry these inclusions
and the finiteness of the sets (`Core`, per barrier `GoodBarrier`); `SizesDecide`
then turns equal cardinalities into equal sets. `IInv` adds the types of the
remaining variables and `BarrierExcludesExternalWriters`, and `Core` also holds the
ledger of outcomes: ids drawn so far, released ids among them, the current one not
released. The proof has one lemma per action, and the action properties
`OutcomeIsFinal` and `FrozenCompletionIsStable` use the same lemmas.

`Invariance` gives `TypeCorrect`, `RoundsHold`, `UnsettledPrepareHolds`, `ExclusionHolds`
and `CurrentUnreleasedHolds`; the two action properties are `OutcomeIsFinalHolds` and
`FrozenCompletionHolds`. The environment is "any method at any time, with any argument" (a capture resumes
only after its read); 5.3 shows that the server's handlers are such an environment.

### 5.2 The stored document (`CoordinatorAndDocumentProofs`, second part)

`DocumentSpec` runs the write operations in any order. `LogIsSound` is not inductive: it says nothing of
a snapshot that claims to cover more than was accepted, or of a clock below the covered one, and
`compact()` could then delete rows and move `LatestClock` back. `LogInv` adds both. Two facts carry the proof:
`MaxOfInterval` (`ORDER BY authorClock DESC` over consecutive clocks is their end) and `CoveredAreLatest` (the clocks
that a compaction must report are the latest of every author). With them a compaction is a stutter of `MeetingLog`:

    THEOREM LogSoundHolds         == DocumentSpec => []LogIsSound
    THEOREM DocumentImplementsLog == DocumentSpec => ImplementsLog

### 5.3 The server (`MeetingServerProofs`)

Most steps run one method of the coordinator or write one row and leave the claimed transactions alone
(`PlainStep`), and a method does one of three things to the barrier: it stores a changed record, draws a new
barrier or releases the current one as aborted (`BarrierMoves`). Only the steps of `tx[b]` are taken one by one.

`BaseInv` is `IInv`, `LogInv` and the types with three facts of the composition: who takes part
has entered (`ParticipantsEntered`, so that `Join` meets only newcomers), the current barrier is the last one
drawn (`CurrentIsLast`), and a barrier that was claimed stays claimed and is never drawn again (`ClaimedOnce`), so
no second transaction can own it. From it follow the two refinements that carry 5.1 and 5.2 over:

    THEOREM ServerUsesCoordinator == Spec => CoordinatorSpec
    THEOREM ServerUsesDocument    == Spec => DocumentSpec

and with them `ServerKeepsLog` and `ServerImplementsLog`. Three more invariants, each inductive relative to `BaseInv`:

* `SealInv`: the holder of the row found the Meeting open, and what it checked is still current, since nobody else
  writes while the row is held. It gives `SealsHold` and `CompletedStaysHolds`;
* `WholeInv`: a compaction that may still commit owns the current barrier, as no timer and no disconnection
  releases a committing compaction. It gives `CompactionsHold`, under the hypothesis `~CommitAckLoss`: with a lost answer
  the server rolls back what PostgreSQL has stored, and clients hear "aborted" (which is no loss, as they resynchronize);
* `TruthInv` and `WritersAreCounted`: a transaction that committed has done what it will be announced for, and each counter is
  the number of handlers between its increment and its decrement. They give `CoordinatorTruthHolds`.

So every safety property of the runs `coordinator`, `completion`, `compaction` and `server` is a theorem.

### 5.4 The key vault (`TabProofs`, first part)

`VaultInv` says that the slots open with the known secrets to the present root key, and that every content key ever
used is wrapped for it. A ceremony either keeps root and wrappers (`KeepsRoot`) or wraps all of them again
(`ReplacesRoot`); that the secrets still fit follows from what the second operator's browser verified
(`SecretsConfirmed`). `VaultInvariant` gives `ReadableForever`, `SecretsStayGood` and `KeysKept`, for any number of ceremonies.

### 5.5 Protected fields (`ScalarWritesProofs`)

Three invariants, each inductive together with the ones before it.

* `RevisionInv`: a save is what `WholeJob` says, and a request that is checked will write over the row it has read
  (`ReadIsCurrent`). For an update this is so because `FOR UPDATE` lets one request at a time have the row
  (`OneWriter`). A creation locks nothing: two may be checked at once, but each seals all the fields of its record
  (`SealsAll`), and the second to commit finds the row and is refused. With it a commit adds one revision to each field
  (`OneMoreRevision`), which gives `RevisionsHold`.
* `NonceInv`: every counter that was taken is at most the one its session holds for the field (`Taken`), one that
  is still under way is nobody else's (`UnderWayAlone`), and what was sealed is not under way; all of this for the places
  (browser, epoch, record, field) whose counter was not deleted. A failed encryption deletes one, and the set
  `restarted` remembers which: `CountersHold` therefore says for any values, too large ones included, that a counter seals
  one value unless an encryption of that very field has failed in that very epoch (6.4).
* `FormsInv`: a browser that is unlocked and still admitted has the newest content key, since a rotation revokes
  every session (`KeysInv`); a revision of a field names one stored text (`WritesInv`); so every answer under way to an
  unlocked browser can be read (`Legible`), and a field of a form or a save that its user has not touched has the
  text that was stored as the revision the save expects (`GoodDraft`, `GoodSave`). It gives `PlaceholdersHold`, and with the
  check of the expected revisions under the row's lock the action property `UntouchedHold`.

`ScalarConstants` says that the three kinds of identifiers are disjoint, that placeholders are no values and that
what is stored at first fits. Nothing bounds browsers, records, slots or operations. So every safety
property of the run `content` is a theorem.

### 5.6 Accounts, sign-ins, ceremonies (`AccessProofs`)

One invariant per service, `AccessInv` their conjunction; what joins them is a session that a sign-in issues for an
account and the custodian that an activation names.

* `AccountsInv`: `RevokedStaysRevoked` compares versions and is not inductive, since handlers keep entities across
  their awaits. What is: whatever was read together, a version and the count of revocations at that time, is apart from the
  account of now by the same number of steps (`Dated`), in a token as in an entity that a handler still holds. Every action
  that raises a version raises the count, so `Dated` lasts (`AccountsMove`); only a stale save breaks it, and then the
  account is in `overwritten`. A custodian is an account, and nothing deletes it: `InstallationStaysWhole`.
  `ReferencesInvariance` adds the rows of the other services: whoever writes one checks the account in the same
  step, and a deletion finds it (`ReferencesHold`).
* `ExternalInv`: what is known of the provider's row is known whoever has read it and when (`GoodProvider`: a recorded test
  did pass, an enabled row is approved), so a save of an old row is as good as the row. A callback past its checks has a
  configuration equal to the transaction's (`GoodCallback`), a transaction waits for its code after its callback is over, and
  once it has signed in it is done or gone (`GoodFlow`). It gives `SignInsHold`.
* `CeremonyInv`: an open ceremony of the present generation holds a candidate that would leave no content key behind
  (`Succeeds`). It was checked when the ceremony began, and wrappers change only by an activation, which raises the
  generation; so the compare and swap of the generation is what `KeysStayReachable` rests on. With the ledger of who
  confirmed which candidate (`GoodAudit`) it gives `GenerationsHold`.

So every safety property of the run `access` is a theorem. `StartsAreWhole` and `StartingKeys` say that an instance begins
before its setup or with its custodian, and with first or once rotated keys; nothing bounds users, sessions, handlers,
transactions, ceremonies or operations.

### 5.7 The browsers of a Meeting (`CollaborationClientProofs`)

    THEOREM ClientInvariance == Spec => []Inv

`Inv` is one predicate of each browser, `ClientOK(c, r, in)` of its record and its inbox against the server, and
one of the server, `ServerOK`: `IInv` and `LogInv` of 5.1 and 5.2, `StoredOK` (what is logged, archived and still to be
answered) and `RoomOK` (participants have entered; the active snapshot is older than the open barrier). None of the
four properties is inductive:

* *Clocks* (`ClockOK`). A frame may still be under way when its text is sealed again, so what counts is everything of
  a browser's epochs in `pending`, in its socket and in the log: each clock at most `clock`, each rotation at most
  `rotation`. A server that has not seen these envelopes knows less, so a resynchronization must not take the clock from it.
* *Edits* (`EditOK`) are only taken out of `pending` for an acknowledgement, and that is true (`InboxOK`): the
  envelope was in the log when the frame was sent. What waits under a barrier is sealed when the barrier ends.
* *Drains* (`SettledOK`, `DrainOK`). A browser has drained only while it holds a barrier; a `drained` frame under way speaks
  of the barrier the browser still holds, or of one that is over. For this what ends a barrier at a browser has to be true
  as well: a `released` frame names a barrier that is no longer open, and an `authenticated` frame, after which a browser
  lets go of the barrier it held, names the open one (`InboxOK`, `HeldOK`).
* *Copies* (`ReadsOK`, `PostOK`). A copy of the document says which snapshot it was built on, and only while this is the
  active one must it hold the log up to its sequence (`RowOK` after the first read, `CopyOK` after the second): a
  compaction between the two reads leaves a short copy of an old snapshot, and `compact()` refuses it for its parent. From a
  copy of the active snapshot that goes up to the current sequence and holds nothing that is not logged follows
  `SnapshotHoldsLog`. `AwaitOK` ties a read to the handler that waits for it.

Every method of the provider keeps `ClientOK`, whatever it is called in (`FlushKeeps`, `SynchronizeKeeps`, `ReleaseKeeps`,
...), and a step of a browser is a composition of methods. Every step of the server moves the barrier in one of three ways
(`Moved`: it stays, goes with an outcome, or is the next one), the log and the snapshot in one direction
(`ServerMoves`), and says only what is true (`TrueFrames`); then a browser that stands by its clocks and its round keeps
`ClientOK` (`MovedKeeps`, `HeardKeeps`). So `SnapshotHolds`, `NoEditIsLostHolds`, `ClockSealsOnceHolds` and
`DrainedMeansSettledHolds` hold for any number of browsers, sockets, edits, barriers and fresh epochs, and every property
of the run `client` is a theorem. `ClientConstants` says that browsers have users, sockets and epochs of their own, and numbers
the transactions of compactions by their barriers.

### 5.8 Agendas (`AgendaProofs`)

    THEOREM AgendaInvariant == Spec => []Inv

None of the properties is inductive: a request reads, takes its locks, computes what it will write and commits later, and
other requests commit in between. `Inv` therefore also speaks of what is under way:

* `Apart`: no two requests hold the same lock, and an identifier that a request would give to an appearance is its own. It
  is on an agenda only if it is known in `mutations`, so that an addition that reaches the server twice adds once.
* `Good`, of each request against the tables as they are now. The agendas it will write are whole together with those it leaves alone,
  and each Meeting it writes is locked by it, so that these are still the agendas it has read (`GoodAgendas`). They keep every appearance
  that was there, except one that a user removes and those that the reconciliation may touch; they put no scheduled
  appearance where a date was skipped. A completion holds what the agenda shows, and the Topics it will write have its decisions
  (`GoodRows`). A move holds the row it moves and the Meeting this comes from (`GoodSource`).

What one request commits leaves `Good` of the others true (`OthersAfter`): it writes no Meeting that another has locked, and waits
for the holder of a row that it would change. A lock taken late may find the row changed; hence what a request read before is no part of
`Good`, and `Work` has to establish it (one lemma per operation, `Works`).

The numbers 1, 2, ... come from ranks: in a strict total order on n elements the ranks are 0 to n - 1, each taken once
(`RanksAreAll`). This is what `normalizeSectionPositions` computes (`NormalizedIs`), and what deleting a section does to the others. Of the plan only its
form is needed (`PlanIs`: its moves are to planned Meetings whose date is not skipped, from appearances that may be
moved): the request that carries it out is checked against the plan of that moment.

So `AgendasStayWhole` and `SkippedStaysOff` follow from `Inv`. The action properties need what a step may do: only a commit writes the tables
(`OnlyCommitsWrite`), only loose appearances leave an agenda without a user (`OnlyLooseLeave`), and a Meeting is
completed once, with its decisions (`CompletedOnce`). They give `PreservedStay`, `CompletedStays` and `SettledStay`, for any
number of browsers, Meetings, Topics, sections and operations.

### 5.9 The tab (`TabProofs`, `BrowserProofs`)

    THEOREM BrowserInvariant  == BrowserSpec => []BrowserInv
    THEOREM BrowserKeepsVault == BrowserSpec => VaultSpec

`VaultSpec` is the abstract specification: a ceremony is one step, made by two people at once. The page takes many: a form is
typed in, keys are derived, a candidate is started, read and approved by somebody else, activated; each with an answer that may
come late, to a page that has gone, to a tab that has locked, or after another ceremony has replaced the keys. `BrowserInv` is
`VaultInv` with

* `Ceremonial`, of the server's rows. The candidate of a row was made for the present key state (`FreshCandidate`) and is one the
  server accepts, or the row is of an earlier generation (`Outdated`), which no activation accepts any more. Who approved it
  typed the secrets that open it (`Agreed`).
* `Sound`, of the page. What a handler holds across an await was true when it read it: a candidate is fresh or outdated, a typed form
  is what the operators know unless the tab is refused by now, an approval that was sent opens what it approves. `Text` and `Call` say the same of the
  sealing epochs: an epoch is drawn for one use, so it is registered, held or revoked by one call at a time; a tab without keys holds none.
  `Workspace` says it of the open Meeting: what was read in plain text, by a load that is still on its way too, and a provider there are
  only with keys; a closed workspace shows and joins nothing and awaits no load; a completion that is still of its workspace finds it open.
* `Backend`: once the keys are replaced, the server does not admit the tab any more.

A handler is an operator from page to page, and most preserve `Sound` because they leave text and ceremonies alone (`Aside`).
Of the rest of the world a step either goes on (`GoesOn`: no key changes and rows only advance) or the keys are replaced
(`Replaced`: then everything made before is outdated); either keeps `Sound` of a page that did not move (`SoundGoesOn`, `SoundReplaced`).

The step that installs a candidate has to be the one ceremony `VaultSpec` allows: its row is of the present generation, hence fresh,
accepted and agreed to; every other step changes no vault variable. This gives the refinement, and with it and `KeysKept`

    THEOREM BrowserKeepsKeys     == BrowserSpec => []KeysAreKept
    THEOREM SealedUnderLiveEpoch == BrowserSpec => []SealsUnderLiveEpoch
    THEOREM LockedTabHoldsNothing == BrowserSpec => []SealsWhileUnlocked
    THEOREM ApprovalIsVerified   == BrowserSpec => []ApprovedIsVerified
    THEOREM SetupOpens           == BrowserSpec => []CompleteOpensInstallation
    THEOREM DoneIsDone           == BrowserSpec => []TakenForDoneIsDone

`SetupOpens` has its own invariant, `SetupInv`: the keys a setup page holds open with the paper it printed, and a page that is told of
success belongs to the tab whose keys were installed. `RecoveryConstants` says that there is a passphrase and a recovery secret to begin with.

Attempts at these proofs failed where the model was wrong, which was then corrected from the source. A refused request of any page, a completion
among them, locks the tab (`Denied`); the model had only some of them do so, and an unlocked tab could then seal under epochs that the
server had revoked. An answer to an approval may come when the page shows another ceremony, so `ApprovedIsVerified` speaks of the one it
remembers and its button activates (6.2). The answer to a completion belongs to the workspace that asked (`here`): the model let it change the one opened since. And a
load that resumes checks first whether it is still wanted (`Resume`, where two cases overlapped), and a ticket that is answered after the
provider has gone changes nothing (`TicketAnswered`).

### 5.10 Only model-checked

* Liveness under `FairSpec` (`BarriersEnd`, `CompletedMeetingIsLeft`): it needs `ENABLED` and fairness, which the prover
  does not handle.
* `PlanIsCarriedOut`: that the rest of a plan is the plan of what is left compares two results of a recursive walk, which
  takes an induction over the Meetings by date.
* What the views of the tab show and hold: `BrowserTypeOK`, `UnsavedIsGuarded`, `NoSilentLoss`, `ShownIsCurrent`,
  `ControlsComeBack`, `ReorderKeepsAgenda`, `TypedIsStoredOnce`. Each needs an invariant of its view across every handler of the others.
  `UnsavedIsGuarded` is no theorem for every start (6.1).

## 6. Findings

Disagreements between the code and its documentation, or behaviour a reviewer should know of. The
first three are runs; the others are shown by the property and the start named
(a start is written as in `MCBrowser`, with an unlocked tab unless it says otherwise), by a
configuration of their own, or by reading.

### 6.1 Meetings and their text

* `expired_completion`. The last claim check runs inside the transaction callback and
  COMMIT is sent after it. The deadline may pass in between: clients are told
  "aborted", the Meeting is completed. The security dossier says an expired
  transaction is forced to roll back.
* `client_extraction`. A user types and presses Complete before the socket is
  open. No connection is joined, so the claim is granted at once; the socket then
  joins the frozen barrier and synchronizes, and `completeWithMentions` looks only at
  connection, pause and sequence. The mentions come from a document whose
  last edits are not in the sealed Meeting, and these edits are discarded.
* `client_convergence`. The relay awaits a lookup between storing and answering an
  update, so answers can overtake each other. A browser that hears of its own
  update 2 first sets its sequence to 2 and takes the other's update 1 for a
  duplicate. It shows a different text until it resynchronizes for another reason.
* Two sequence reads of one barrier can be under way when a join restarts the round; the second
  replaces the announced sequence without clearing the confirmations. Nothing is lost, as the
  completion compares the sequence again.
* An update refused with `E2EE_COMPACTION_IN_PROGRESS` stays among the sent ones after the barrier
  (`FE/e2ee/meeting-collaboration.ts:515`) and waits for a reconnect.
* Workspace (`MeetingWorkspace`): a failed refresh forgets one that was asked for meanwhile
  (`core.ts:314-336`), as `workspace.spec.ts:86` accepts. After Retry the answer of a change that was asked before may
  refresh the Meeting first; the load of the retry, read earlier, is then shown in its place (`open`, `:297` loads without
  asking whether it is still wanted). The history field `failed` marks both until the next load, and `ShownIsCurrent` exempts
  them (`[visit, change, others, fault, retry]`). A superseded load of `open` publishes its text (`ShownTextIsCurrent`,
  `[visit, others]`). A refresh that read `in_progress` restarts a provider while the own completion is
  under way, and its end says "completed elsewhere" (`CompletingIsNotElsewhere`,
  `[visit, others, complete]`); so does a failing reconciliation after the completion (`domain.ts:1196`).
  The end of a completion publishes that nothing is pending while a form's update still waits for its refresh
  (`core.ts:367-419`); its text is part of the Meeting that is then shown, and `UnsavedIsGuarded` exempts just this
  (`[visit, save, complete]`, which the run has).
* The details form of a Meeting saves what it read: it overwrites notes of collaborators
  (`MeetingAgendaView.vue:196-225`) and, from the preparation, takes back a start
  (`meetings.service.ts:295`).

### 6.2 Keys

* An operator approves a ceremony; it is over, and another operator has begun the next one, before the
  page looks at the server again. `refreshActiveCeremony` takes over the new ceremony, in which this user has no
  part yet, and leaves `approved` as it was (`RecoveryView.vue:482-516`). Of a ceremony it has never opened the page then says
  "Everything was validated successfully. The change is ready to activate.", where it should ask for the
  approval: `ApprovalIsOfShown` is violated under `MCApproval.cfg`. What the button activates is the one the page remembers as its own,
  which the server refuses, as that is over: `ApprovedIsVerified` speaks of that identifier and holds, in the same start
  (`ApprovalStarts`) too.
* An attempt to unlock that is aborted while its epoch is being registered leaves the epoch registered
  (`LockedLeavesNoEpoch`, `[show, unlock, remote]`, locked; `protected-text.ts:84-97`). The late end of
  the aborted attempt says "locked" although a second attempt has unlocked (`:127`).
* A lock that follows another tab's closes the workspace instead of showing it locked
  (`LockedStaysReadable`, `[visit, remote]`, locked; `protected-text.ts:184-188`;
  docs/security/e2ee-key-slice-evidence.md:23, :26 say it stays readable).
* After an earlier content rotation a disclosed passphrase cannot be replaced: the candidate the browser
  makes is refused by its own check (`EverySituationCanBegin`, `[disclosed_key, mate 2]`; `crypto.ts:584-596`
  against :441-447; docs/security/e2ee-key-rotation-evidence.md:28-32, :39).
* The acknowledgement of custody can be bypassed: a situation chosen while a candidate is being made
  (`CustodyIsAcknowledged`, `[recovery, replace_recovery_secret, change_passphrase, ceremony]`; evidence :37).
* A start that is answered after a sign-out keeps the tab's presence (`PresenceNeedsUser`,
  `[recovery, lost_passphrase, ceremony, logout]`).
* A root rotation accepts a superseded recovery secret if both operators type it; the server cannot know.
* `RefuseIneligible`: the abort of a ceremony whose operator lost the role is rolled back with the
  exception that reports it; `e2ee.service.spec.ts:352-377` expects "aborted".
* The installation's passphrase may be one that was typed once: the fields stay open while the keys are
  made (`PassphraseWasConfirmed`, `[setup 2, edit]`; `SetupView.vue:104-122`). A page that found the installation
  set up offers no sign-in (`SignInIsOffered`, `[setup]`; `main.ts:24-27`, `installation.ts:14-21`).

### 6.3 Accounts and settings

* `update` and `updateProfile` save the entity they read before: a revoked session version, an archived
  account or an old role can come back. `RevokedStaysRevoked` names the case (`Stale`).
* A settings save that read its row before a removal brings the provider back
  (external-authentication.md:51 says it is gone). On the page, answers of a save and of another action
  overlap: it shows the earlier state (`SettingsAreCurrent`, `[settings, edit, save, change]`), links that
  were reset (`LinksAreCurrent`, `[settings, save, change, confirm]`), and drops a secret that was typed
  (`TypedSecretStays`, `[settings, edit 2, change]`).

### 6.4 Fields, Tasks, Topics

* A failed encryption deletes the counter of its field, which then starts again at 1 under the same nonce
  prefix (`scalar-session.ts:57`;
  docs/research/versioned-ciphertext-key-and-collaboration-formats.md:186): `CounterNeverRepeats` is violated under
  `MCScalarCounter.cfg`.
  `CounterSealsOneValue` in `content` has such failures and exempts the epoch and field they were in.
* A membership field at rest may show an older value than the agenda (`FieldsAreCurrent`,
  `[agenda, change 2, retype]`; `TextIsCurrent`, `[agenda, edit, retype]`, which `MembershipInlineText.spec.ts:33`
  accepts). Leaving within 600 ms of a key drops the text.
* A reload of the mentions takes a comment that is being written away (`DraftStays`), and an older
  list may win (`RowsAreCurrent`, `[mentions, edit, save, change 2, resolve]`; `MyMentionsView.vue:119-129`).

### 6.5 Agendas

* Preparation text does not protect its appearance: `contentEditedAt` is set when an update names its
  appearance (`meetings.service.ts:424-437`), which the provider never does (`meeting-collaboration.ts:386`); a change
  of date removes it (`MCAgendaText.cfg`; docs/adr/0006:3).
* A recurring Topic created where no Meeting is open is never scheduled (`MCAgendaSchedule.cfg`;
  `meeting-document-session.ts:326-335`; README.md:112).
* A Topic without a default position is taken away and added again at every reconciliation after
  something was appended to its section. Deleting a section leaves default sections behind at which the
  reconciliation of all Topics stops. Nothing in the pages restores a skipped date. Adding with a source
  Meeting takes two Meeting rows in either order and may deadlock (`meetings.service.ts:584-606`).
* On the pages: creating a Topic and adding it are two requests, and a retry after the second failed
  creates it twice; on the agenda page a second move made from the old list undoes the first, and the
  failure of a move, a participant or the details is shown nowhere; a duration whose save failed stays on
  the row (`ShownDurationIsReal`, `[prepare, minutes 2, fault 2]`, which `MeetingPreparationView.spec.ts:749` expects);
  the details form closes when another change ends (`SubmittedIsSent`, `[prepare, manage 2]`).

## 7. Not modelled, and why

* Envelope validation, codecs, cryptography: pure functions; an envelope is a record
  of what the state machines look at, and a signature that does not verify is a
  refused frame.
* Awareness (cursors): no state that anything else depends on.
* Ticket issuing: a random value in a map with an expiry; `consume` is modelled.
* Client: failing requests (a bootstrap fails only when a compaction overtakes it), reloads of the page
  (they start a new client), the document that is replaced under a live provider after a refused
  structural write (`FE/api/domain.ts:664`), a rebase in several steps (`FE/e2ee/meeting-collaboration.ts:537`). The last two are hazards
  of `PROJECT.json` with a note.
* Agenda: a plan is computed from one snapshot, where `recurrence.service.ts:52-74` reads Meetings, appearances and skips in
  several statements under READ COMMITTED: a plan that mixes two states can only be refused, or carried out request by
  request like one that is outdated. Months, section names, participants, suggestions' due dates, last-write-wins of whole Topic forms.
  Remove and add again of the same Topic on a page is not told apart.
* Notes that save themselves outside a workspace; the fields of the sign-in settings other than the
  secret; a provider test, which loads the page anew.
* Read-only services (dashboard, Topic history, lists), deployment updates and tours (one row, one
  statement), views that are a list and a form, wiring, scripts.
* Exchange between the tab and the collaboration client: `MeetingWorkspace` sees the provider as a link that
  joins, drops, has unsent edits, is paused and ends; `CollaborationClient` has its protocol.

## 8. What could follow

1. `CollaborationClient` with a replaced document and a rebase in steps.
2. Proofs for what the views of the tab show (`ShownIsCurrent`, `TypedIsStoredOnce`, `ControlsComeBack`, `ReorderKeepsAgenda`).
