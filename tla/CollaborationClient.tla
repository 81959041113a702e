------------------------- MODULE CollaborationClient -------------------------
(***************************************************************************)
(* The browsers of one Meeting: the collaboration provider                 *)
(* (frontend/src/e2ee/meeting-collaboration.ts) on top of its replica      *)
(* (meeting-document-session.ts), against the coordinator and the stored   *)
(* document.                                                               *)
(*                                                                         *)
(* A client has two chains of promises.  `encryption` (here `jobs`) runs   *)
(* encryptions, resynchronizations and recoveries one after the other;     *)
(* `incoming` handles frames one after the other and stands still (`busy`) *)
(* while the frame at the head of the inbox awaits a job or a request.     *)
(* Timers, edits and reads of the server interleave with both.             *)
(*                                                                         *)
(* A text edit is an atom; a Y.Doc is the set of edits it has been given,  *)
(* since Yjs merges in any order and buffers what comes early.  The other  *)
(* way round, a document is only complete if every edit was handed to it.  *)
(*                                                                         *)
(* The server is coarser than in MeetingServer, which is about its         *)
(* interleavings: a frame is handled in one step, except that the answer   *)
(* to an update (acknowledgement and broadcast) is a step of its own.      *)
(***************************************************************************)
EXTENDS CompactionCoordinator, MeetingDocument, Sequences, SequencesExt

CONSTANTS
    Clients,             \* browsers, each with a user of its own
    Present,             \* clients that are in the Meeting at the start
    MaxLinks,            \* bound: sockets of one client
    MaxRotations,        \* bound: fresh epochs of one client
    Cases                \* bounds: what may happen, see CaseType

\* One case: how often each client edits and its workspace is refreshed, who may
\* complete the Meeting, whose sockets may break (all but the last), how many
\* barriers are left, and the compaction interval (100 in the code).
CaseType ==
    [edits : [Clients -> Nat], refreshes : [Clients -> Nat], completers : SUBSET Clients,
     unreliable : SUBSET Clients, barriers : 0..MaxBarriers, interval : Nat \ {0}]

ASSUME ClientConstants ==
    /\ Users = Clients
    /\ \A k \in Cases : k \in CaseType
    /\ Present \subseteq Clients
    /\ MaxLinks \in Nat \ {0}
    /\ Connections = Clients \X (1..MaxLinks)
    /\ Epochs = Clients \X (0..MaxRotations)
    /\ Transactions = BarrierIds
    /\ Sequences = 0..MaxSequence
    /\ MaxRotations \in Nat

VARIABLES
    clients,    \* the provider and the replica of each client
    inbox,      \* frames that have reached, or will reach, a client in this order
    sockets,    \* life of each connection
    answers,    \* stored updates that are not yet acknowledged and broadcast
    log,        \* the envelope stored at each server sequence, since replaced or not
    archive,    \* content of the active snapshot
    extracted   \* edits the completing client extracted the mentions from

serverVars == <<coordinatorVars, documentVars, sockets, answers, log, archive, extracted>>
vars == <<serverVars, clients, inbox>>

ClientOf(p) == p[1]
EditsOf(envelopes) == [i \in DOMAIN envelopes |-> envelopes[i].edit]
Logged == ToSet(EditsOf(log))
NoLink == <<>>
NoEdit == <<>>
OpenStatuses == {"planned", "in_progress"}

Frame(type, id, sequence, envelope, code) ==
    [type |-> type, id |-> id, sequence |-> sequence, envelope |-> envelope, code |-> code]
NoEnvelope == [edit |-> NoEdit, epoch |-> NoEdit, clock |-> 0, parent |-> 0]
Rejected(code) == Frame("rejected", 0, 0, NoEnvelope, code)
BarrierFrame(b) == Frame("barrier", b.id, 0, NoEnvelope, b.intention)

NoRead == [sequence |-> 0, parent |-> 0, content |-> {}]
Job(kind, edit, awaited) ==
    [kind |-> kind, edit |-> edit, awaited |-> awaited, stage |-> "queued", read |-> NoRead]
NoPost == [step |-> "none", id |-> 0, sequence |-> 0, parent |-> 0, content |-> {}]

\* A workspace that was opened before the first edit.
NewClient(c, case) ==
    [link |-> NoLink, online |-> FALSE, stopped |-> FALSE,
     made |-> 0,
     doc |-> {}, sequence |-> 0, parent |-> InitialSnapshot, clock |-> 0, rotation |-> 0,
     jobs |-> <<>>, busy |-> FALSE, post |-> NoPost,
     pending |-> <<>>, sent |-> {}, paused |-> <<>>,
     held |-> 0, intention |-> "compaction", drained |-> FALSE, mirror |-> {},
     compacting |-> FALSE, trigger |-> 0, retry |-> 0, out |-> <<>>,
     edits |-> case.edits[c], refreshes |-> case.refreshes[c], interval |-> case.interval,
     completes |-> c \in case.completers, unreliable |-> c \in case.unreliable]

\* One that has joined and synchronized.
FirstLink(c) == <<c, 1>>
FirstLinks == {FirstLink(c) : c \in Present}
PresentClient(c, case) == [NewClient(c, case) EXCEPT !.link = FirstLink(c), !.online = TRUE]

Init ==
    /\ barrier = NoBarrier
    /\ connections = FirstLinks
    /\ collaborationWriters = 0
    /\ externalWriters = 0
    /\ captures = {}
    /\ waiting = {}
    /\ DocumentInit
    /\ status = "in_progress"
    /\ \E case \in Cases :
          /\ issued = MaxBarriers - case.barriers
          /\ released = [b \in BarrierIds |-> IF b <= issued THEN "aborted" ELSE "none"]
          /\ clients = [c \in Clients |-> IF c \in Present THEN PresentClient(c, case)
                                                         ELSE NewClient(c, case)]
    /\ inbox = [c \in Clients |-> <<>>]
    /\ sockets = [p \in Connections |-> IF p \in FirstLinks THEN "open" ELSE "new"]
    /\ answers = {}
    /\ log = <<>>
    /\ archive = {}
    /\ extracted = {}

-----------------------------------------------------------------------------
(* What the methods of the provider do to it *)

JobsOf(r, kind) == {i \in DOMAIN r.jobs : r.jobs[i].kind = kind}
Encrypting(r) == JobsOf(r, "encrypt") # {}
Synchronizing(r) == JobsOf(r, "sync") # {}
HasPendingChanges(r) == Encrypting(r) \/ r.pending # <<>> \/ r.sent # {} \/ r.paused # <<>>

Send(r, frame) ==
    IF r.link = NoLink THEN r ELSE [r EXCEPT !.out = Append(@, [frame |-> frame, link |-> r.link])]

Enqueue(r, job) == [r EXCEPT !.jobs = Append(@, job)]

\* The envelope of the n-th text that is sealed from here on.
Envelope(r, c, n, edit) ==
    [edit |-> edit, epoch |-> <<c, r.rotation>>, clock |-> r.clock + n, parent |-> r.parent]

\* createPendingDocumentUpdate
Seal(r, c, edit) ==
    [r EXCEPT !.clock = @ + 1, !.pending = Append(@, Envelope(r, c, 1, edit))]

\* Everything that waits is sealed again, in its order.
SealAgain(r, c) ==
    [r EXCEPT !.clock = @ + Len(r.pending), !.sent = {},
              !.pending = [i \in DOMAIN r.pending |-> Envelope(r, c, i, r.pending[i].edit)]]

\* One update is in flight at a time.
Flush(r) ==
    IF ~r.online \/ r.link = NoLink \/ r.sent # {} \/ r.pending = <<>> THEN r
    ELSE Send([r EXCEPT !.sent = {Head(r.pending)}],
              Frame("update", 0, 0, Head(r.pending), ""))

\* Mutant: encryptions under way are not waited for.
AcknowledgeWhileEncrypting(r) ==
    IF \/ r.held = 0 \/ r.drained \/ Synchronizing(r)
       \/ r.pending # <<>> \/ r.sent # {}
       \/ r.intention = "completion" /\ r.paused # <<>>
       \/ ~r.online \/ r.link = NoLink
    THEN r
    ELSE Send([r EXCEPT !.drained = TRUE], Frame("drained", r.held, 0, NoEnvelope, ""))

AcknowledgeBarrierWhenDrained(r) ==
    IF \/ r.held = 0 \/ r.drained \/ Synchronizing(r) \/ Encrypting(r)
       \/ r.pending # <<>> \/ r.sent # {}
       \/ r.intention = "completion" /\ r.paused # <<>>
       \/ ~r.online \/ r.link = NoLink
    THEN r
    ELSE Send([r EXCEPT !.drained = TRUE], Frame("drained", r.held, 0, NoEnvelope, ""))

StartBarrier(r, id, intention) ==
    IF r.held # 0 THEN r
    ELSE LET q == [r EXCEPT !.held = id, !.intention = intention, !.drained = FALSE,
                            !.mirror = r.doc]
         IN IF q.jobs = <<>> THEN AcknowledgeBarrierWhenDrained(q) ELSE q

\* Mutant: the text typed under the barrier is dropped when it ends.
ReleaseForgettingText(r) ==
    Flush([r EXCEPT !.paused = <<>>, !.held = 0, !.intention = "compaction",
                    !.drained = FALSE, !.mirror = {}, !.compacting = FALSE, !.trigger = 0])

\* releaseCompactionBarrier after its resynchronization
ReleaseBarrier(r) ==
    LET q == [r EXCEPT !.paused = <<>>, !.held = 0, !.intention = "compaction",
                       !.drained = FALSE, !.mirror = {}, !.compacting = FALSE, !.trigger = 0]
    IN IF r.paused = <<>> THEN Flush(q)
       ELSE [q EXCEPT !.jobs = @ \o [i \in DOMAIN r.paused |-> Job("encrypt", r.paused[i], FALSE)]]

\* rebasePending: the waiting updates are sealed again against the new parent.
RebasePending(r, c) == Flush(SealAgain(r, c))

\* An acknowledged update is taken out of those that wait.
Without(envelopes, x) ==
    IF x \in ToSet(envelopes) THEN RemoveAt(envelopes, CHOOSE i \in DOMAIN envelopes : envelopes[i] = x)
    ELSE envelopes

RequestCompaction(r, sequence) ==
    Send([r EXCEPT !.compacting = TRUE, !.trigger = sequence],
         Frame("request", 0, sequence, NoEnvelope, ""))

\* closed; also close() of the client itself.
Closed(r) ==
    [r EXCEPT !.link = NoLink, !.online = FALSE, !.compacting = FALSE, !.sent = {}]

\* reloadCanonical: the replica and everything that waits are discarded.
Discard(r) ==
    [r EXCEPT !.stopped = TRUE, !.link = NoLink, !.online = FALSE,
              !.sequence = 0, !.parent = InitialSnapshot, !.clock = 0, !.rotation = 0,
              !.jobs = <<>>, !.busy = FALSE, !.pending = <<>>, !.sent = {}, !.paused = <<>>,
              !.held = 0, !.intention = "compaction", !.drained = FALSE, !.mirror = {},
              !.compacting = FALSE, !.trigger = 0, !.retry = 0, !.out = <<>>]

-----------------------------------------------------------------------------
(* Steps of a client change its record and its inbox *)

Become(c, r) == clients' = [clients EXCEPT ![c] = r]
Pop(c) == inbox' = [inbox EXCEPT ![c] = Tail(@)]
Frames(c) == ~clients[c].busy /\ ~clients[c].stopped /\ inbox[c] # <<>>
Receives(c, type) == Frames(c) /\ Head(inbox[c]).type = type

Stop(c) ==
    /\ Become(c, Discard(clients[c]))
    /\ inbox' = [inbox EXCEPT ![c] = <<>>]

\* The handler of the frame awaits a job; the frame stays at the head.
Await(c, kind) ==
    /\ Become(c, [Enqueue(clients[c], Job(kind, NoEdit, TRUE)) EXCEPT !.busy = TRUE])
    /\ UNCHANGED inbox

-----------------------------------------------------------------------------
(* The user *)

\* The UI lets no one edit who is completing the Meeting.
IsCompleting(c) == barrier.intention = "completion" /\ barrier.owner = c

Edit(c) ==
    LET r == clients[c]
        e == <<c, r.made + 1>>
        q == [r EXCEPT !.made = @ + 1, !.doc = @ \cup {e}]
    IN /\ ~r.stopped
       /\ ~IsCompleting(c)
       /\ r.made < r.edits
       /\ Become(c, IF r.held = 0 THEN Enqueue(q, Job("encrypt", e, FALSE))
                    ELSE LET s == [q EXCEPT !.paused = Append(@, e)]
                         IN IF r.intention = "completion"
                            THEN Send(s, Frame("failed", r.held, 0, NoEnvelope, ""))
                            ELSE s)
       /\ UNCHANGED <<serverVars, inbox>>

\* The workspace is loaded again (after a structural change, or a reconnect).
Refresh(c) ==
    /\ ~clients[c].stopped
    /\ clients[c].refreshes > 0
    /\ Become(c, Enqueue([clients[c] EXCEPT !.refreshes = @ - 1], Job("sync", NoEdit, FALSE)))
    /\ UNCHANGED <<serverVars, inbox>>

\* connect: a ticket and a socket.
Connect(c, p) ==
    /\ ~clients[c].stopped
    /\ clients[c].link = NoLink
    /\ sockets[p] = "new"
    /\ ClientOf(p) = c
    /\ IF status = "completed"
       THEN Stop(c) /\ UNCHANGED sockets
       ELSE /\ Become(c, [clients[c] EXCEPT !.link = p])
            /\ sockets' = [sockets EXCEPT ![p] = "connecting"]
            /\ UNCHANGED inbox
    /\ UNCHANGED <<coordinatorVars, documentVars, answers, log, archive, extracted>>

\* The bound on sockets: the last one of a client holds.
CanBreak(c) ==
    clients[c].unreliable /\ \E p \in Connections : ClientOf(p) = c /\ sockets[p] = "new"

\* The socket breaks, or the browser goes offline.  Frames that had arrived
\* are still handled.
BreakLink(c) ==
    /\ CanBreak(c)
    /\ clients[c].link # NoLink
    /\ Become(c, Closed(clients[c]))
    /\ \E n \in (IF clients[c].busy THEN 1 ELSE 0)..Len(inbox[c]) :
          inbox' = [inbox EXCEPT ![c] = SubSeq(@, 1, n)]
    /\ UNCHANGED serverVars

-----------------------------------------------------------------------------
(* The encryption chain *)

HeadJob(c, kinds, stage) ==
    /\ clients[c].jobs # <<>>
    /\ Head(clients[c].jobs).kind \in kinds
    /\ Head(clients[c].jobs).stage = stage

SetJob(r, stage, read) ==
    [r EXCEPT !.jobs = <<[Head(r.jobs) EXCEPT !.stage = stage, !.read = read]>> \o Tail(r.jobs)]

Encrypt(c) ==
    LET r == clients[c]
        e == Head(r.jobs).edit
        q == [r EXCEPT !.jobs = Tail(@)]
    IN /\ HeadJob(c, {"encrypt"}, "queued")
       /\ Become(c, AcknowledgeBarrierWhenDrained(
             IF r.held # 0 /\ r.intention = "compaction"
             THEN [q EXCEPT !.paused = Append(@, e)]
             ELSE Flush(Seal(q, c, e))))
       /\ UNCHANGED <<serverVars, inbox>>

\* bootstrap: first the document row ...
ReadRow(c) ==
    /\ HeadJob(c, {"sync", "recover"}, "queued")
    /\ Become(c, SetJob(clients[c], "row", [sequence |-> currentServerSequence,
                                            parent |-> snapshot.id, content |-> archive]))
    /\ UNCHANGED <<serverVars, inbox>>

\* ... then the snapshot and its updates.  If a compaction came in between, the
\* updates are gone; the snapshot may just have been read before.
ReadRows(c) ==
    LET read == Head(clients[c].jobs).read
        rows == IF read.parent = snapshot.id THEN {log[u.sequence].edit : u \in updates} ELSE {}
    IN /\ HeadJob(c, {"sync", "recover"}, "row")
       /\ Become(c, SetJob(clients[c], "read", [read EXCEPT !.content = @ \cup rows]))
       /\ UNCHANGED <<serverVars, inbox>>

\* merge
Merge(r, read) ==
    [r EXCEPT !.doc = @ \cup read.content, !.sequence = read.sequence, !.parent = read.parent]

\* Mutant: the copy of the document is not replaced by the canonical state.
SynchronizeKeepingMirror(r, c, read) ==
    LET q == [Merge(r, read) EXCEPT !.jobs = Tail(@)]
    IN AcknowledgeBarrierWhenDrained(
          IF read.parent # r.parent /\ q.pending # <<>> THEN RebasePending(q, c) ELSE q)

\* Mutant: the own clock is taken from the server, which does not know the
\* envelopes that wait.
SynchronizeTakingServerClock(r, c, read) ==
    LET q == [Merge(r, read) EXCEPT !.jobs = Tail(@),
                                    !.clock = Cardinality({e \in read.content : e[1] = c}),
                                    !.mirror = IF r.held # 0 THEN read.content ELSE {}]
    IN AcknowledgeBarrierWhenDrained(
          IF read.parent # r.parent /\ q.pending # <<>> THEN RebasePending(q, c) ELSE q)

\* synchronize, once the workspace has been read
Synchronize(r, c, read) ==
    LET q == [Merge(r, read) EXCEPT !.jobs = Tail(@),
                                    !.mirror = IF r.held # 0 THEN read.content ELSE {}]
    IN AcknowledgeBarrierWhenDrained(
          IF read.parent # r.parent /\ q.pending # <<>> THEN RebasePending(q, c) ELSE q)

\* recoverPendingWithFreshEpoch, once the workspace has been read.  Nothing is
\* reported drained: the handler that waits for it holds up the frames, so that no
\* barrier starts while it is queued.
Recover(r, c, read) ==
    RebasePending([Merge(r, read) EXCEPT !.jobs = Tail(@), !.rotation = @ + 1, !.clock = 0], c)

-----------------------------------------------------------------------------
(* What a handler does after the job it awaited *)

Confirm(r, frame) ==
    IF HasPendingChanges(r) \/ Synchronizing(r) \/ r.sequence # frame.sequence THEN r
    ELSE Send(r, Frame("confirmed", frame.id, frame.sequence, NoEnvelope, ""))

\* createCompaction; the request is on its way.
PostSnapshot(r, frame) ==
    [r EXCEPT !.post = [step |-> "posted", id |-> frame.id, sequence |-> r.sequence,
                        parent |-> r.parent, content |-> r.mirror]]

Authenticated(r, frame) ==
    LET q == [r EXCEPT !.online = TRUE]
    IN Flush(IF q.held # 0 /\ frame.id # q.held THEN ReleaseBarrier(q) ELSE q)

Continue(r, frame) ==
    CASE frame.type = "authenticated" -> Authenticated(r, frame)
      [] frame.type = "sequence" -> Confirm(r, frame)
      [] frame.type = "released" -> ReleaseBarrier(r)
      [] frame.type = "ready" ->
            IF r.sequence = frame.sequence THEN PostSnapshot(r, frame)
            ELSE Send(r, Frame("failed", frame.id, 0, NoEnvelope, ""))
      [] OTHER -> r

\* The handler of the head frame ends, unless it now waits for the answer to
\* its snapshot.
EndHandler(c, r) ==
    IF r.post.step # "none"
    THEN Become(c, r) /\ UNCHANGED inbox
    ELSE Become(c, [r EXCEPT !.busy = FALSE]) /\ Pop(c)

ApplyRead(c) ==
    LET r == clients[c]
        job == Head(r.jobs)
        q == IF job.kind = "recover" THEN Recover(r, c, job.read) ELSE Synchronize(r, c, job.read)
    IN /\ HeadJob(c, {"sync", "recover"}, "read")
       /\ job.kind = "recover" => r.rotation < MaxRotations
       /\ IF job.awaited THEN EndHandler(c, Continue(q, Head(inbox[c])))
          ELSE Become(c, q) /\ UNCHANGED inbox
       /\ UNCHANGED serverVars

\* The snapshot row is gone and the request fails: the socket is closed and the
\* handler that waited gives up.
ReadFails(c) ==
    LET r == clients[c]
        q == [Closed(r) EXCEPT !.jobs = Tail(@)]
    IN /\ HeadJob(c, {"sync", "recover"}, "row")
       /\ Head(r.jobs).read.parent # snapshot.id
       /\ IF Head(r.jobs).awaited THEN EndHandler(c, q) ELSE Become(c, q) /\ UNCHANGED inbox
       /\ UNCHANGED serverVars

-----------------------------------------------------------------------------
(* Frames *)

ReceiveAuthenticated(c) ==
    /\ Receives(c, "authenticated")
    /\ Await(c, "sync")
    /\ UNCHANGED serverVars

ReceiveAcknowledged(c) ==
    LET r == clients[c]
        frame == Head(inbox[c])
        q == AcknowledgeBarrierWhenDrained(Flush(
                [r EXCEPT !.pending = Without(@, frame.envelope),
                          !.sent = @ \ {frame.envelope},
                          !.sequence = frame.sequence]))
    IN /\ Receives(c, "acknowledged")
       /\ Become(c, IF q.held = 0 /\ frame.sequence % r.interval = 0 /\ ~q.compacting
                    THEN RequestCompaction(q, frame.sequence) ELSE q)
       /\ Pop(c)
       /\ UNCHANGED serverVars

\* applyRemoteUpdate: a duplicate, the next one, or a gap, which the holder of a
\* barrier reports as long as it has a socket.
ReceiveUpdate(c) ==
    LET r == clients[c]
        frame == Head(inbox[c])
        e == frame.envelope.edit
    IN /\ Receives(c, "update")
       /\ CASE frame.sequence <= r.sequence -> Become(c, r) /\ Pop(c)
            [] frame.sequence = r.sequence + 1 ->
                  /\ Become(c, [r EXCEPT !.doc = @ \cup {e}, !.sequence = frame.sequence,
                                         !.mirror = IF r.held # 0 THEN @ \cup {e} ELSE @])
                  /\ Pop(c)
            [] OTHER ->
                  IF r.held # 0 /\ r.link # NoLink
                  THEN Become(c, Send(r, Frame("failed", r.held, 0, NoEnvelope, ""))) /\ Pop(c)
                  ELSE Await(c, "sync")
       /\ UNCHANGED serverVars

ReceiveBarrier(c) ==
    LET frame == Head(inbox[c])
    IN /\ Receives(c, "barrier")
       /\ Become(c, StartBarrier(clients[c], frame.id, frame.code))
       /\ Pop(c)
       /\ UNCHANGED serverVars

\* completion-sequence and compaction-ready of the barrier the client drained for
ReceiveRound(c) ==
    LET r == clients[c]
    IN /\ Receives(c, "sequence") \/ Receives(c, "ready")
       /\ IF r.held = Head(inbox[c]).id /\ r.drained THEN Await(c, "sync")
          ELSE Become(c, r) /\ Pop(c)
       /\ UNCHANGED serverVars

ReceiveReleased(c) ==
    LET r == clients[c]
        frame == Head(inbox[c])
    IN /\ Receives(c, "released")
       /\ CASE r.held # frame.id -> Become(c, r) /\ Pop(c)
            [] r.held = frame.id /\ frame.code = "completed" -> Stop(c)
            [] r.held = frame.id /\ frame.code = "compacted" -> Await(c, "sync")
            [] r.held = frame.id /\ frame.code = "aborted" -> Become(c, ReleaseBarrier(r)) /\ Pop(c)
       /\ UNCHANGED serverVars

\* A refused frame.  E2EE_COUNTER_REUSE and E2EE_UPDATE_REPLAY are not handled:
\* the status becomes "rejected" and the workspace is closed.
ReceiveRejected(c) ==
    LET r == clients[c]
        code == Head(inbox[c]).code
    IN /\ Receives(c, "rejected")
       /\ CASE code = "E2EE_COMPACTION_IN_PROGRESS" ->
                  /\ Become(c, [r EXCEPT !.compacting = FALSE, !.retry = r.trigger])
                  /\ Pop(c)
            [] code = "E2EE_COMPACTION_NOT_REQUIRED" ->
                  /\ Become(c, [r EXCEPT !.compacting = FALSE, !.trigger = 0])
                  /\ Pop(c)
            [] code \in {"E2EE_ENVELOPE_CONTEXT_INVALID", "E2EE_AUTHOR_CLOCK_GAP"} ->
                  Await(c, "recover")
            [] OTHER -> Stop(c)
       /\ UNCHANGED serverVars

\* The 500 ms timer set by E2EE_COMPACTION_IN_PROGRESS.
RetryCompaction(c) ==
    LET r == clients[c]
        q == [r EXCEPT !.retry = 0]
    IN /\ r.retry # 0
       /\ Become(c, IF r.online /\ r.held = 0 /\ ~r.compacting
                    THEN RequestCompaction(q, r.retry) ELSE q)
       /\ UNCHANGED <<serverVars, inbox>>

-----------------------------------------------------------------------------
(* The server sends frames *)

Hears(p) == sockets[p] = "open" /\ clients[ClientOf(p)].link = p

\* What the change of the barrier makes the relay broadcast.
Notices ==
    LET gone == barrier.id # 0 /\ released'[barrier.id] # released[barrier.id]
        new == barrier'.id # 0 /\ barrier'.id # barrier.id
        known == /\ barrier'.intention = "completion"
                 /\ barrier'.serverSequence \notin {NoSequence, barrier.serverSequence}
    IN (IF gone THEN <<Frame("released", barrier.id, 0, NoEnvelope, released'[barrier.id])>>
        ELSE <<>>)
       \o (IF new THEN <<BarrierFrame(barrier')>> ELSE <<>>)
       \o (IF known THEN <<Frame("sequence", barrier'.id, barrier'.serverSequence, NoEnvelope, "")>>
           ELSE <<>>)

\* The clients in the room get the notices, each after its own frames.
Broadcast(own) ==
    inbox' = [c \in Clients |->
                IF clients[c].link # NoLink /\ Hears(clients[c].link)
                THEN inbox[c] \o own[c] \o Notices ELSE inbox[c]]

Nothing == [c \in Clients |-> <<>>]
To(p, frame) == [Nothing EXCEPT ![ClientOf(p)] =
                    IF clients[ClientOf(p)].link = p THEN <<frame>> ELSE <<>>]

\* The ticket is consumed, the socket joins the room and the open barrier.
Authenticate(p) ==
    LET c == ClientOf(p)
    IN /\ sockets[p] = "connecting"
       /\ clients[c].link = p
       /\ status # "completed"
       /\ sockets' = [sockets EXCEPT ![p] = "open"]
       /\ Join(p)
       /\ inbox' = [inbox EXCEPT ![c] =
                       @ \o <<Frame("authenticated", barrier'.id, 0, NoEnvelope, "")>>
                         \o (IF Open THEN <<BarrierFrame(barrier)>> ELSE <<>>)]
       /\ UNCHANGED <<documentVars, clients, answers, log, archive, extracted>>

\* The relay notices that a socket is gone; what is still under way is lost
\* (LoseFrame).
RemoveSocket(p) ==
    LET c == ClientOf(p)
    IN /\ sockets[p] \in {"connecting", "open"}
       /\ \/ clients[c].link # p
          \/ sockets[p] = "open" /\ CanBreak(c)
          \/ sockets[p] = "connecting" /\ status = "completed"
       /\ sockets' = [sockets EXCEPT ![p] = "closed"]
       /\ Disconnected(p)
       /\ inbox' = [d \in Clients |->
                       IF clients[d].link # NoLink /\ clients[d].link # p /\ Hears(clients[d].link)
                       THEN inbox[d] \o Notices ELSE inbox[d]]
       /\ UNCHANGED <<documentVars, clients, answers, log, archive, extracted>>

-----------------------------------------------------------------------------
(* Frames of clients reach the server in order *)

\* The next frame of client c, on socket p.
Arrives(c, p, type) ==
    /\ clients[c].out # <<>>
    /\ Head(clients[c].out).link = p
    /\ Head(clients[c].out).frame.type = type
    /\ sockets[p] = "open"

Next1(c) == Head(clients[c].out).frame
Taken(c) == Become(c, [clients[c] EXCEPT !.out = Tail(@)])

\* A frame that reaches a socket before it is authenticated, or a closed one.
LoseFrame(c) ==
    /\ clients[c].out # <<>>
    /\ sockets[Head(clients[c].out).link] # "open"
    /\ Taken(c)
    /\ UNCHANGED <<serverVars, inbox>>

\* prepareUpdate lets the update pass.
Admit(p) ==
    /\ ~Frozen(barrier)
    /\ PrepareUpdate(p) \/ (p \notin barrier.drained /\ UNCHANGED coordinatorVars)

Row(x) == {u \in updates : u.epoch = x.epoch /\ u.clock = x.clock}

AcceptUpdate(c, p) ==
    LET x == Next1(c).envelope
    IN /\ Arrives(c, p, "update")
       /\ Admit(p)
       /\ AppendUpdate(x.epoch, x.clock, x.parent)
       /\ log' = Append(log, x)
       /\ answers' = answers \cup {[link |-> p, envelope |-> x, sequence |-> currentServerSequence']}
       /\ Taken(c)
       /\ Broadcast(Nothing)
       /\ UNCHANGED <<sockets, archive, extracted>>

\* An exact repetition of the author's latest update is answered like the first.
RepeatUpdate(c, p) ==
    LET x == Next1(c).envelope
    IN /\ Arrives(c, p, "update")
       /\ status # "completed"
       /\ rowLock = NoLock
       /\ x.parent = snapshot.id
       /\ \E u \in Row(x) : /\ log[u.sequence].edit = x.edit
                            /\ u.clock = LatestClock(x.epoch)
                            /\ answers' = answers \cup {[link |-> p, envelope |-> x,
                                                         sequence |-> u.sequence]}
       /\ Admit(p)
       /\ Taken(c)
       /\ Broadcast(Nothing)
       /\ UNCHANGED <<documentVars, sockets, log, archive, extracted>>

\* Why an update that was let pass is refused.
Refusal(x) ==
    IF x.parent # snapshot.id THEN {"E2EE_ENVELOPE_CONTEXT_INVALID"}
    ELSE IF Row(x) # {}
         THEN {"E2EE_COUNTER_REUSE" : u \in {v \in Row(x) : log[v.sequence].edit # x.edit}}
              \cup {"E2EE_UPDATE_REPLAY" : u \in {v \in Row(x) : log[v.sequence].edit = x.edit
                                                                  /\ v.clock # LatestClock(x.epoch)}}
         ELSE IF x.clock # LatestClock(x.epoch) + 1 THEN {"E2EE_AUTHOR_CLOCK_GAP"} ELSE {}

RefuseUpdate(c, p) ==
    /\ Arrives(c, p, "update")
    /\ rowLock = NoLock \/ Frozen(barrier)
    /\ IF status = "completed"
       THEN UNCHANGED coordinatorVars /\ Broadcast(To(p, Rejected("MEETING_COMPLETED_IMMUTABLE")))
       ELSE IF Frozen(barrier)
       THEN UNCHANGED coordinatorVars /\ Broadcast(To(p, Rejected("E2EE_COMPACTION_IN_PROGRESS")))
       ELSE /\ Admit(p)
            /\ \E code \in Refusal(Next1(c).envelope) : Broadcast(To(p, Rejected(code)))
    /\ Taken(c)
    /\ UNCHANGED <<documentVars, sockets, answers, log, archive, extracted>>

\* The relay, after its last lookup: acknowledgement and broadcast.
AnswerUpdate(a) ==
    LET frame(type) == Frame(type, 0, a.sequence, a.envelope, "")
    IN /\ answers' = answers \ {a}
       /\ inbox' = [c \in Clients |->
                      IF clients[c].link = NoLink \/ ~Hears(clients[c].link) THEN inbox[c]
                      ELSE Append(inbox[c],
                                  frame(IF clients[c].link = a.link THEN "acknowledged"
                                        ELSE "update"))]
       /\ UNCHANGED <<coordinatorVars, documentVars, clients, sockets, log, archive, extracted>>

TakeRequest(c, p) ==
    LET v == Next1(c).sequence
        needed == ~Open /\ snapshot.covered < v /\ v <= currentServerSequence
    IN /\ Arrives(c, p, "request")
       /\ IF status # "completed" /\ needed
          THEN /\ IF issued < MaxBarriers
                  THEN OpenCompaction(p, c, {q \in Connections : sockets[q] = "open"})
                  ELSE UNCHANGED coordinatorVars
               /\ Broadcast(Nothing)
          ELSE /\ UNCHANGED coordinatorVars
               /\ Broadcast(To(p, IF status = "completed" THEN Rejected("MEETING_COMPLETED_IMMUTABLE")
                                  ELSE IF Open THEN BarrierFrame(barrier)
                                  ELSE Rejected("E2EE_COMPACTION_NOT_REQUIRED")))
       /\ Taken(c)
       /\ UNCHANGED <<documentVars, sockets, answers, log, archive, extracted>>

TakeDrained(c, p) ==
    LET id == Next1(c).id
    IN /\ Arrives(c, p, "drained")
       /\ \/ Acknowledge(id, p) /\ barrier.intention = "compaction"
          \/ CompletionDrained(id, p)
          \/ ~CanAcknowledge(id, p) /\ UNCHANGED coordinatorVars
       /\ Taken(c)
       /\ Broadcast(Nothing)
       /\ UNCHANGED <<documentVars, sockets, answers, log, archive, extracted>>

TakeConfirmed(c, p) ==
    LET frame == Next1(c)
    IN /\ Arrives(c, p, "confirmed")
       /\ \/ ConfirmCompletion(frame.id, p, frame.sequence)
          \/ /\ ~(/\ barrier.id = frame.id /\ barrier.phase = "confirming"
                  /\ barrier.serverSequence = frame.sequence /\ p \in barrier.participants)
             /\ UNCHANGED coordinatorVars
       /\ Taken(c)
       /\ Broadcast(Nothing)
       /\ UNCHANGED <<documentVars, sockets, answers, log, archive, extracted>>

TakeFailed(c, p) ==
    LET id == Next1(c).id
    IN /\ Arrives(c, p, "failed")
       /\ Abort(id) \/ (barrier.id # id /\ UNCHANGED coordinatorVars)
       /\ Taken(c)
       /\ Broadcast(Nothing)
       /\ UNCHANGED <<documentVars, sockets, answers, log, archive, extracted>>

-----------------------------------------------------------------------------
(* Rounds and their end *)

\* compactionDrained, after everybody has drained: the compactor may begin.
BeginReplacement ==
    LET p == barrier.compactor
        there == sockets[p] = "open"
    IN /\ barrier.intention = "compaction"
       /\ barrier.phase = "draining"
       /\ AllDrained(barrier)
       /\ Ready(barrier.id, currentServerSequence, there)
       /\ Broadcast(IF there THEN To(p, Frame("ready", barrier.id, currentServerSequence,
                                               NoEnvelope, ""))
                    ELSE Nothing)
       /\ UNCHANGED <<documentVars, clients, sockets, answers, log, archive, extracted>>

PostStep(c, step) == Become(c, [clients[c] EXCEPT !.post.step = step])

\* compactWorkspace: claim the barrier, lock the Meeting ...
ClaimReplacement(c) ==
    LET post == clients[c].post
    IN /\ post.step = "posted"
       /\ IF barrier.id = post.id /\ barrier.phase = "ready" /\ barrier.owner = c
          THEN /\ Claim(c)
               /\ LockMeeting(post.id, OpenStatuses)
               /\ PostStep(c, "locked")
          ELSE UNCHANGED <<coordinatorVars, documentVars>> /\ PostStep(c, "refused")
       /\ UNCHANGED <<inbox, sockets, answers, log, archive, extracted>>

\* ... and replace the active snapshot, if the new one continues it.
CommitReplacement(c) ==
    LET post == clients[c].post
    IN /\ post.step = "locked"
       /\ post.parent = snapshot.id
       /\ post.sequence = currentServerSequence
       /\ ClaimHolds(post.id)
       /\ CommitCompaction(post.id)
       /\ Complete(post.id)
       /\ archive' = post.content
       /\ PostStep(c, "stored")
       /\ Broadcast(Nothing)
       /\ UNCHANGED <<sockets, answers, log, extracted>>

RollbackReplacement(c) ==
    LET post == clients[c].post
    IN /\ post.step = "locked"
       /\ Rollback(post.id)
       /\ Fail(post.id)
       /\ PostStep(c, "refused")
       /\ Broadcast(Nothing)
       /\ UNCHANGED <<sockets, answers, log, archive, extracted>>

\* The answer: acceptCompaction, or, as when the answer is lost, a failure.
ReplacementAnswered(c) ==
    LET r == clients[c]
        q == [r EXCEPT !.post = NoPost]
        fails == Send(q, Frame("failed", r.post.id, 0, NoEnvelope, ""))
    IN /\ r.post.step \in {"stored", "refused"}
       /\ \/ /\ r.post.step = "stored"
             /\ IF r.stopped THEN Become(c, q) /\ UNCHANGED inbox
                ELSE EndHandler(c, [q EXCEPT !.doc = @ \cup r.post.content,
                                             !.parent = r.post.id])
          \/ IF r.stopped THEN Become(c, q) /\ UNCHANGED inbox ELSE EndHandler(c, fails)
       /\ UNCHANGED serverVars

\* prepareCompletion of a client that may complete the Meeting.
PrepareCompletion(c) ==
    /\ clients[c].completes
    /\ ~clients[c].stopped
    /\ status = "in_progress"
    /\ BeginCompletion(c)
    /\ Broadcast(Nothing)
    /\ UNCHANGED <<documentVars, clients, sockets, answers, log, archive, extracted>>

ReadSequence ==
    \E k \in captures :
       /\ CaptureReads(k, currentServerSequence) \/ CaptureResumes(k)
       /\ Broadcast(Nothing)
       /\ UNCHANGED <<documentVars, clients, sockets, answers, log, archive, extracted>>

\* completeWithMentions: may the granted claim be used by this replica?
CanExtract(c) ==
    LET r == clients[c]
    IN /\ r.online /\ r.link # NoLink
       /\ r.held # 0 /\ r.intention = "completion"
       /\ r.sequence = barrier.serverSequence

Granted(c) == barrier.intention = "completion" /\ barrier.phase = "finalizing" /\ barrier.owner = c

\* The mentions are extracted from the local document and submitted.
SubmitCompletion(c) ==
    /\ Granted(c)
    /\ CanExtract(c)
    /\ extracted' = clients[c].doc
    /\ ClaimCompletionSubmission(c)
    /\ LockMeeting(barrier.id, {"in_progress"})
    /\ UNCHANGED <<clients, inbox, sockets, answers, log, archive>>

\* MEETING_COMPLETION_RETRY, or the user gives up: the claim is cancelled.
WithdrawCompletion(c) ==
    /\ Granted(c)
    /\ CancelCompletion(c)
    /\ Broadcast(Nothing)
    /\ UNCHANGED <<documentVars, clients, sockets, answers, log, archive, extracted>>

FinishCompletion ==
    LET id == barrier.id
    IN /\ barrier.intention = "completion"
       /\ barrier.phase = "committing"
       /\ \/ /\ ClaimHolds(id)
             /\ barrier.serverSequence = currentServerSequence
             /\ CommitCompletion(id, barrier.serverSequence)
             /\ Complete(id)
          \/ Rollback(id) /\ Fail(id)
       /\ Broadcast(Nothing)
       /\ UNCHANGED <<clients, sockets, answers, log, archive, extracted>>

\* The timer of the barrier; an HTTP write to the Meeting looks the same from
\* here.  (A completion that expires while it commits is the subject of
\* MeetingServer.)
Expire ==
    /\ barrier.phase # "committing"
    /\ Timeout
    /\ Broadcast(Nothing)
    /\ UNCHANGED <<documentVars, clients, sockets, answers, log, archive, extracted>>

-----------------------------------------------------------------------------
UserStep(c) == Edit(c) \/ Refresh(c) \/ BreakLink(c) \/ (\E p \in Connections : Connect(c, p))

JobStep(c) == Encrypt(c) \/ ReadRow(c) \/ ReadRows(c) \/ ApplyRead(c) \/ ReadFails(c)

FrameStep(c) ==
    \/ ReceiveAuthenticated(c) \/ ReceiveAcknowledged(c) \/ ReceiveUpdate(c)
    \/ ReceiveBarrier(c) \/ ReceiveRound(c) \/ ReceiveReleased(c) \/ ReceiveRejected(c)
    \/ RetryCompaction(c)

ArrivalStep(c) ==
    \/ LoseFrame(c)
    \/ \E p \in Connections :
          \/ AcceptUpdate(c, p) \/ RepeatUpdate(c, p) \/ RefuseUpdate(c, p)
          \/ TakeRequest(c, p) \/ TakeDrained(c, p) \/ TakeConfirmed(c, p) \/ TakeFailed(c, p)

RequestStep(c) ==
    \/ ClaimReplacement(c) \/ CommitReplacement(c) \/ RollbackReplacement(c)
    \/ ReplacementAnswered(c)
    \/ PrepareCompletion(c) \/ SubmitCompletion(c) \/ WithdrawCompletion(c)

Next ==
    \/ \E c \in Clients : UserStep(c) \/ JobStep(c) \/ FrameStep(c) \/ ArrivalStep(c) \/ RequestStep(c)
    \/ \E p \in Connections : Authenticate(p) \/ RemoveSocket(p)
    \/ \E a \in answers : AnswerUpdate(a)
    \/ BeginReplacement
    \/ ReadSequence
    \/ FinishCompletion
    \/ Expire

Spec == Init /\ [][Next]_vars

-----------------------------------------------------------------------------
(* Properties *)

\* The active snapshot holds exactly the edits it replaces: neither is one of
\* them missing, nor does text get in that its author has not sent yet (and
\* that is still sealed, counted and acknowledged on its own).
SnapshotHoldsLog == archive = {log[i].edit : i \in 1..snapshot.covered}

\* A participant that the server counts as drained has nothing sealed or being
\* sealed on its side: what its user still types waits as plaintext.  Otherwise
\* an update could arrive behind the sequence a compaction or a completion was
\* settled at, or be sealed against the snapshot about to be replaced.
DrainedMeansSettled ==
    \A p \in barrier.drained :
       LET r == clients[ClientOf(p)]
       IN r.link = p /\ ~r.stopped => r.pending = <<>> /\ ~Encrypting(r)

\* The mentions of a completed Meeting were extracted from exactly the text it
\* was sealed with.
ExtractionIsExact == status = "completed" => extracted = Logged

\* The edits that wait to be sealed or stored.
Waits(r) ==
    {r.pending[i].edit : i \in DOMAIN r.pending} \cup {r.paused[i] : i \in DOMAIN r.paused}
    \cup {r.jobs[i].edit : i \in JobsOf(r, "encrypt")}

\* While the Meeting is open no edit is lost between its author's document and
\* the log: it is stored, or it is still waiting to be sealed or sent.
NoEditIsLost ==
    \A c \in Clients :
       LET r == clients[c]
       IN ~r.stopped => \A n \in 1..r.made : <<c, n>> \in r.doc /\ <<c, n>> \in Logged \cup Waits(r)

\* The envelopes of a client that wait or are under way.
Sealed(r) ==
    ToSet(r.pending)
    \cup {r.out[i].frame.envelope : i \in {j \in DOMAIN r.out : r.out[j].frame.type = "update"}}

\* All envelopes that wait, are under way or were stored.
Envelopes == (UNION {Sealed(clients[c]) : c \in Clients}) \cup ToSet(log)

\* A clock of an epoch (the counter of the nonce) seals one text only, across
\* retries, rebases, recoveries and reconnects.
ClockSealsOnce ==
    \A x, y \in Envelopes : x.epoch = y.epoch /\ x.clock = y.clock => x = y

\* Nothing is under way any more.
Quiet ==
    /\ answers = {}
    /\ ~Open
    /\ \A c \in Clients :
          LET r == clients[c]
          IN /\ r.online /\ sockets[r.link] = "open"
             /\ r.jobs = <<>> /\ inbox[c] = <<>> /\ r.out = <<>> /\ r.retry = 0 /\ r.held = 0

\* When everybody is connected and nothing is under way, everybody has sent
\* what they wrote and shows the same text.
QuietMeansSynced ==
    Quiet => \A c \in Clients : clients[c].pending = <<>> /\ clients[c].doc = Logged
=============================================================================
