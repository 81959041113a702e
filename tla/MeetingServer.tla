---------------------------- MODULE MeetingServer ----------------------------
(***************************************************************************)
(* The backend around one Meeting document: the WebSocket relay            *)
(* (meeting-collaboration-relay.service.ts) and the HTTP requests of       *)
(* meetings.service.ts as they interleave on the Node event loop, calling  *)
(* the in-memory CompactionCoordinator and the stored MeetingDocument.     *)
(*                                                                         *)
(* A handler runs without interruption up to its next await; each such     *)
(* stretch is one action.  Clients are not trusted to follow the protocol: *)
(* an open connection may send any frame at any time.  An envelope is      *)
(* chosen when it is validated, since nothing depends on it earlier.       *)
(* Replies that change no state (a refused frame) are stuttering steps.    *)
(*                                                                         *)
(* Two bounds beside the constants: a connection has at most one update    *)
(* handler and at most one sequence read of compactionDrained under way.   *)
(* More of them behave like further connections.                           *)
(***************************************************************************)
EXTENDS CompactionCoordinator, MeetingDocument

CONSTANTS
    UserOf,              \* the authenticated user of a connection
    Completers,          \* superadmins, the Meeting leader and the minute taker
    Editors,             \* connections on which updates are sent
    ExternalRequests,    \* concurrent HTTP requests that write the document
    CompactionInterval,  \* 100 in the code
    CommitAckLoss,       \* may the answer to COMMIT get lost?
    Restarts,            \* may the process restart?
    PatchedStatuses      \* statuses that PATCH requests set

ASSUME ServerConstants ==
    /\ UserOf \in [Connections -> Users]
    /\ Completers \subseteq Users
    /\ Editors \subseteq Connections
    /\ IsFiniteSet(ExternalRequests)
    /\ Cardinality(Connections) <= MaxWriters
    /\ Cardinality(ExternalRequests) <= MaxWriters
    /\ CompactionInterval \in Nat \ {0}
    /\ Sequences = 0..MaxSequence
    /\ Transactions = BarrierIds
    /\ CommitAckLoss \in BOOLEAN
    /\ Restarts \in BOOLEAN
    /\ PatchedStatuses \subseteq {"planned", "in_progress"}

VARIABLES
    sockets,     \* life of each connection; each is used once
    handler,     \* the update handler of each connection
    requested,   \* connections whose compaction request passed its checks
    reads,       \* sequence reads of compactionDrained under way
    preparing,   \* users whose prepareCompletion passed its checks
    external,    \* the HTTP document writes
    tx,          \* the transaction that claimed each barrier
    closeTimer   \* the 250 ms timer of meetingCompleted is running

relayVars == <<sockets, handler, requested, reads, preparing, external, closeTimer>>
vars == <<coordinatorVars, documentVars, relayVars, tx>>

SocketStates == {"new", "consumed", "open", "closing", "closed"}
HandlerStates == {"idle", "checked", "writing", "written"}
ExternalStates == {"idle", "writing", "written"}
TxSteps == {"none", "claimed", "entered", "locked", "persisted", "committing",
            "committed", "failed", "done"}
Tx == [kind: Intentions \cup {"none"}, step: TxSteps, sequence: Sequences \cup {NoSequence}]
Read == [barrier: BarrierIds, connection: Connections, sequence: Sequences \cup {NoSequence}]

NoTx == [kind |-> "none", step |-> "none", sequence |-> NoSequence]
OpenSockets == {c \in Connections : sockets[c] = "open"}
Steps(b) == tx[b].step
InStep(b, kind, step) == tx[b].kind = kind /\ tx[b].step = step
GoTo(b, step) == tx' = [tx EXCEPT ![b].step = step]

Init ==
    /\ CoordinatorInit
    /\ DocumentInit
    /\ sockets = [c \in Connections |-> "new"]
    /\ handler = [c \in Connections |-> "idle"]
    /\ requested = {}
    /\ reads = {}
    /\ preparing = {}
    /\ external = [w \in ExternalRequests |-> "idle"]
    /\ tx = [b \in BarrierIds |-> NoTx]
    /\ closeTimer = FALSE

-----------------------------------------------------------------------------
(* Connections *)

\* The ticket of an authenticate frame is consumed (the status is read there).
ConsumeTicket(c) ==
    /\ sockets[c] = "new"
    /\ status # "completed"
    /\ sockets' = [sockets EXCEPT ![c] = "consumed"]
    /\ UNCHANGED <<coordinatorVars, documentVars, handler, requested, reads,
                   preparing, external, tx, closeTimer>>

\* Mutant: a second authenticate frame joins the connection again.
JoinRoomAgain(c) ==
    /\ sockets[c] \in {"consumed", "open"}
    /\ sockets' = [sockets EXCEPT ![c] = "open"]
    /\ Join(c)
    /\ UNCHANGED <<documentVars, handler, requested, reads, preparing, external,
                   tx, closeTimer>>

\* The socket enters the room and joins the barrier that may be open.
JoinRoom(c) ==
    /\ sockets[c] = "consumed"
    /\ sockets' = [sockets EXCEPT ![c] = "open"]
    /\ Join(c)
    /\ UNCHANGED <<documentVars, handler, requested, reads, preparing, external,
                   tx, closeTimer>>

\* The socket is gone before it joined.  (One that never gets as far as a valid
\* ticket stays "new": nothing else knows of it.)
CloseUnjoined(c) ==
    /\ sockets[c] = "consumed"
    /\ sockets' = [sockets EXCEPT ![c] = "closed"]
    /\ UNCHANGED <<coordinatorVars, documentVars, handler, requested, reads,
                   preparing, external, tx, closeTimer>>

\* close() by either side, before the close event.
StartClosing(c) ==
    /\ sockets[c] = "open"
    /\ sockets' = [sockets EXCEPT ![c] = "closing"]
    /\ UNCHANGED <<coordinatorVars, documentVars, handler, requested, reads,
                   preparing, external, tx, closeTimer>>

\* Mutant: the reauthorization rereads the user, but not the Meeting.
ReauthorizeUserOnly(c) == FALSE /\ StartClosing(c)

\* The periodic reauthorization finds the Meeting completed.
Reauthorize(c) == status = "completed" /\ StartClosing(c)

\* remove: the close event, or six missed heartbeats.
RemoveSocket(c) ==
    /\ sockets[c] \in {"open", "closing"}
    /\ sockets' = [sockets EXCEPT ![c] = "closed"]
    /\ Disconnected(c)
    /\ UNCHANGED <<documentVars, handler, requested, reads, preparing, external,
                   tx, closeTimer>>

\* meetingCompleted, 250 ms after the event.
CloseCompleted ==
    /\ closeTimer
    /\ closeTimer' = FALSE
    /\ sockets' = [c \in Connections |-> IF sockets[c] = "open" THEN "closing" ELSE sockets[c]]
    /\ UNCHANGED <<coordinatorVars, documentVars, handler, requested, reads,
                   preparing, external, tx>>

-----------------------------------------------------------------------------
(* An "update" frame: message, then appendWorkspaceUpdate for the relay *)

\* The frame arrives and assertConnectionActive reads the user and the Meeting.
ReceiveUpdate(c) ==
    /\ c \in Editors
    /\ sockets[c] = "open"
    /\ handler[c] = "idle"
    /\ status # "completed"
    /\ handler' = [handler EXCEPT ![c] = "checked"]
    /\ UNCHANGED <<coordinatorVars, documentVars, sockets, requested, reads,
                   preparing, external, tx, closeTimer>>

\* prepareUpdate and beginCollaborationUpdate let the write begin.  The socket
\* may have closed meanwhile; the handler goes on.
StartUpdate(c) ==
    /\ handler[c] = "checked"
    /\ handler' = [handler EXCEPT ![c] = "writing"]
    /\ AdmitUpdate(c)
    /\ UNCHANGED <<documentVars, sockets, requested, reads, preparing, external,
                   tx, closeTimer>>

\* E2EE_COMPACTION_IN_PROGRESS, or a malformed envelope after prepareUpdate.
RefuseUpdate(c) ==
    /\ handler[c] = "checked"
    /\ handler' = [handler EXCEPT ![c] = "idle"]
    /\ \/ PrepareUpdate(c)
       \/ (Frozen(barrier) \/ c \notin barrier.drained) /\ UNCHANGED coordinatorVars
    /\ UNCHANGED <<documentVars, sockets, requested, reads, preparing, external,
                   tx, closeTimer>>

\* The transaction: a new update is stored, or nothing is.
WriteUpdate(c) ==
    /\ handler[c] = "writing"
    /\ handler' = [handler EXCEPT ![c] = "written"]
    /\ \/ \E e \in Epochs, k \in 1..MaxSequence, parent \in SnapshotIds :
             AppendUpdate(e, k, parent)
       \/ rowLock = NoLock /\ UNCHANGED documentVars
    /\ UNCHANGED <<coordinatorVars, sockets, requested, reads, preparing, external,
                   tx, closeTimer>>

\* Mutant: the writer is not given back.
EndUpdateLeaking(c) ==
    /\ handler[c] = "written"
    /\ handler' = [handler EXCEPT ![c] = "idle"]
    /\ UNCHANGED <<coordinatorVars, documentVars, sockets, requested, reads, preparing,
                   external, tx, closeTimer>>

\* finally: endCollaborationUpdate.
EndUpdate(c) ==
    /\ handler[c] = "written"
    /\ handler' = [handler EXCEPT ![c] = "idle"]
    /\ EndCollaborationUpdate
    /\ UNCHANGED <<documentVars, sockets, requested, reads, preparing, external,
                   tx, closeTimer>>

-----------------------------------------------------------------------------
(* HTTP document writes: appendWorkspaceUpdate and addTopic(s) *)

BeginExternal(w) ==
    /\ external[w] = "idle"
    /\ external' = [external EXCEPT ![w] = "writing"]
    /\ BeginExternalUpdate
    /\ UNCHANGED <<documentVars, sockets, handler, requested, reads, preparing,
                   tx, closeTimer>>

WriteExternal(w) ==
    /\ external[w] = "writing"
    /\ external' = [external EXCEPT ![w] = "written"]
    /\ \/ \E e \in Epochs, k \in 1..MaxSequence, parent \in SnapshotIds :
             AppendUpdate(e, k, parent)
       \/ rowLock = NoLock /\ UNCHANGED documentVars
    /\ UNCHANGED <<coordinatorVars, sockets, handler, requested, reads, preparing,
                   tx, closeTimer>>

EndExternal(w) ==
    /\ external[w] = "written"
    /\ external' = [external EXCEPT ![w] = "idle"]
    /\ EndExternalUpdate
    /\ UNCHANGED <<documentVars, sockets, handler, requested, reads, preparing,
                   tx, closeTimer>>

\* PATCH /meetings/:id moves an open Meeting between its two open statuses.
ChangeStatus ==
    /\ \E s \in PatchedStatuses : UpdateMeeting(s)
    /\ UNCHANGED <<coordinatorVars, relayVars, tx>>

-----------------------------------------------------------------------------
(* The compaction barrier *)

\* requestCompaction up to its last await: no barrier is open, and the trigger
\* v is reached and not yet covered.
RequestCompaction(c) ==
    /\ sockets[c] = "open"
    /\ ~Open
    /\ status # "completed"
    /\ \E v \in 1..currentServerSequence : v % CompactionInterval = 0 /\ v > snapshot.covered
    /\ requested' = requested \cup {c}
    /\ UNCHANGED <<coordinatorVars, documentVars, sockets, handler, reads,
                   preparing, external, tx, closeTimer>>

\* ... and after it: open, unless a barrier or an HTTP write got there first.
OpenRequested(c) ==
    /\ c \in requested
    /\ requested' = requested \ {c}
    /\ IF externalWriters = 0 /\ ~Open /\ issued < MaxBarriers
       THEN OpenCompaction(c, UserOf[c], OpenSockets)
       ELSE UNCHANGED coordinatorVars
    /\ UNCHANGED <<documentVars, sockets, handler, reads, preparing, external,
                   tx, closeTimer>>

\* A "compaction-drained" frame; the last participant starts the sequence read.
DrainCompaction(c, id) ==
    /\ sockets[c] = "open"
    /\ \A r \in reads : r.connection # c
    /\ Acknowledge(id, c)
    /\ reads' = IF AllDrained(barrier')
                THEN reads \cup {[barrier |-> id, connection |-> c, sequence |-> NoSequence]}
                ELSE reads
    /\ UNCHANGED <<documentVars, sockets, handler, requested, preparing, external,
                   tx, closeTimer>>

ReadDrained(r) ==
    /\ r.sequence = NoSequence
    /\ reads' = (reads \ {r}) \cup {[r EXCEPT !.sequence = currentServerSequence]}
    /\ UNCHANGED <<coordinatorVars, documentVars, sockets, handler, requested,
                   preparing, external, tx, closeTimer>>

\* compactionDrained after its await: ready, unless the round was disturbed.
ResumeDrained(r) ==
    /\ r.sequence # NoSequence
    /\ reads' = reads \ {r}
    /\ IF barrier.id = r.barrier /\ barrier.phase = "draining" /\ AllDrained(barrier)
       THEN Ready(r.barrier, r.sequence, barrier.compactor \in OpenSockets)
       ELSE UNCHANGED coordinatorVars
    /\ UNCHANGED <<documentVars, sockets, handler, requested, preparing, external,
                   tx, closeTimer>>

\* A "compaction-failed" or "completion-failed" frame.
ReportFailure(c, id) ==
    /\ sockets[c] = "open"
    /\ Abort(id)
    /\ UNCHANGED <<documentVars, relayVars, tx>>

\* compactWorkspace claims the barrier.
SubmitCompaction(u) ==
    /\ Claim(u)
    /\ tx' = [tx EXCEPT ![barrier.id] = [kind |-> "compaction", step |-> "claimed",
                                         sequence |-> barrier.serverSequence]]
    /\ UNCHANGED <<documentVars, relayVars>>

LockCompaction(b) ==
    /\ InStep(b, "compaction", "claimed")
    /\ LockMeeting(b, {"planned", "in_progress"})
    /\ GoTo(b, "locked")
    /\ UNCHANGED <<coordinatorVars, relayVars>>

\* compact validates the proposed snapshot against the locked document, writes,
\* and assertClaim is called last.
PersistCompaction(b) ==
    /\ InStep(b, "compaction", "locked")
    /\ currentServerSequence = tx[b].sequence
    /\ ClaimHolds(b)
    /\ GoTo(b, "committing")
    /\ UNCHANGED <<coordinatorVars, documentVars, relayVars>>

-----------------------------------------------------------------------------
(* Completion *)

\* prepareCompletion: assertCompletionAllowed in a transaction of its own ...
CheckCompletion(u) ==
    /\ u \in Completers
    /\ status = "in_progress"
    /\ preparing' = preparing \cup {u}
    /\ UNCHANGED <<coordinatorVars, documentVars, sockets, handler, requested,
                   reads, external, tx, closeTimer>>

\* ... then beginCompletion, refused under a barrier or an HTTP write.
PrepareCompletion(u) ==
    /\ u \in preparing
    /\ preparing' = preparing \ {u}
    /\ IF externalWriters = 0 /\ ~Open /\ issued < MaxBarriers
       THEN BeginCompletion(u)
       ELSE UNCHANGED coordinatorVars
    /\ UNCHANGED <<documentVars, sockets, handler, requested, reads, external,
                   tx, closeTimer>>

\* Frames "completion-drained" and "completion-confirmed".
DrainCompletion(c, id) ==
    /\ sockets[c] = "open"
    /\ CompletionDrained(id, c)
    /\ UNCHANGED <<documentVars, relayVars, tx>>

Confirm(c, id, sequence) ==
    /\ sockets[c] = "open"
    /\ ConfirmCompletion(id, c, sequence)
    /\ UNCHANGED <<documentVars, relayVars, tx>>

\* readSequence, its continuation, and its failure.
ReadCapture(r) ==
    /\ CaptureReads(r, currentServerSequence)
    /\ UNCHANGED <<documentVars, relayVars, tx>>

ResumeCapture(r) ==
    /\ CaptureResumes(r)
    /\ UNCHANGED <<documentVars, relayVars, tx>>

FailCapture(r) ==
    /\ r.sequence = NoSequence
    /\ CaptureFails(r)
    /\ UNCHANGED <<documentVars, relayVars, tx>>

Cancel(u) ==
    /\ CancelCompletion(u)
    /\ UNCHANGED <<documentVars, relayVars, tx>>

BarrierTimeout ==
    /\ Timeout
    /\ UNCHANGED <<documentVars, relayVars, tx>>

\* complete claims the finalized barrier.
SubmitCompletion(u) ==
    /\ ClaimCompletionSubmission(u)
    /\ tx' = [tx EXCEPT ![barrier.id] = [kind |-> "completion", step |-> "claimed",
                                         sequence |-> barrier.serverSequence]]
    /\ UNCHANGED <<documentVars, relayVars>>

\* assertClaim at transaction entry.
EnterCompletion(b) ==
    /\ InStep(b, "completion", "claimed")
    /\ ClaimHolds(b)
    /\ GoTo(b, "entered")
    /\ UNCHANGED <<coordinatorVars, documentVars, relayVars>>

LockCompletion(b) ==
    /\ InStep(b, "completion", "entered")
    /\ LockMeeting(b, {"in_progress"})
    /\ GoTo(b, "locked")
    /\ UNCHANGED <<coordinatorVars, relayVars>>

\* Snapshots, decisions and mentions are written; then assertClaim and the
\* comparison of the claimed with the current sequence.
PersistCompletion(b) ==
    /\ InStep(b, "completion", "locked")
    /\ ClaimHolds(b)
    /\ currentServerSequence = tx[b].sequence
    /\ GoTo(b, "persisted")
    /\ UNCHANGED <<coordinatorVars, documentVars, relayVars>>

\* The last assertClaim; COMMIT is on its way.
ConfirmClaim(b) ==
    /\ InStep(b, "completion", "persisted")
    /\ ClaimHolds(b)
    /\ GoTo(b, "committing")
    /\ UNCHANGED <<coordinatorVars, documentVars, relayVars>>

-----------------------------------------------------------------------------
(* The end of a claimed transaction *)

\* COMMIT takes effect.  Its answer may be lost: then the service sees an error.
Commit(b) ==
    /\ Steps(b) = "committing"
    /\ IF tx[b].kind = "completion"
       THEN CommitCompletion(b, tx[b].sequence)
       ELSE CommitCompaction(b)
    /\ \E step \in {"committed"} \cup (IF CommitAckLoss THEN {"failed"} ELSE {}) : GoTo(b, step)
    /\ UNCHANGED <<coordinatorVars, relayVars>>

\* Any error before COMMIT: a failed check, a lost claim, a lock or statement
\* timeout, a lost connection.
FailTx(b) ==
    /\ Steps(b) \in {"claimed", "entered", "locked", "persisted", "committing"}
    /\ Rollback(b)
    /\ GoTo(b, "failed")
    /\ UNCHANGED <<coordinatorVars, relayVars>>

\* After the commit: a completion is announced (and its sockets are closed
\* 250 ms later), and the barrier is released.
FinishTx(b) ==
    /\ Steps(b) = "committed"
    /\ Complete(b)
    /\ closeTimer' = (closeTimer \/ tx[b].kind = "completion")
    /\ GoTo(b, "done")
    /\ UNCHANGED <<documentVars, sockets, handler, requested, reads, preparing, external>>

\* catch: fail.
AbandonTx(b) ==
    /\ Steps(b) = "failed"
    /\ Fail(b)
    /\ GoTo(b, "done")
    /\ UNCHANGED <<documentVars, relayVars>>

-----------------------------------------------------------------------------
\* The backend process dies and comes back: everything in memory is gone, open
\* transactions are rolled back, every socket is cut.
RestartServer ==
    /\ Restarts
    /\ Restart
    /\ rowLock' = NoLock
    /\ tx' = [b \in BarrierIds |-> IF tx[b] = NoTx THEN NoTx ELSE [tx[b] EXCEPT !.step = "done"]]
    /\ sockets' = [c \in Connections |-> IF sockets[c] = "new" THEN "new" ELSE "closed"]
    /\ handler' = [c \in Connections |-> "idle"]
    /\ requested' = {}
    /\ reads' = {}
    /\ preparing' = {}
    /\ external' = [w \in ExternalRequests |-> "idle"]
    /\ closeTimer' = FALSE
    /\ UNCHANGED <<status, currentServerSequence, completedServerSequence, snapshot, updates>>

SocketStep(c) ==
    \/ ConsumeTicket(c) \/ JoinRoom(c) \/ CloseUnjoined(c)
    \/ StartClosing(c) \/ Reauthorize(c) \/ RemoveSocket(c)

UpdateStep(c) ==
    \/ ReceiveUpdate(c) \/ StartUpdate(c) \/ RefuseUpdate(c)
    \/ WriteUpdate(c) \/ EndUpdate(c)

ExternalStep(w) == BeginExternal(w) \/ WriteExternal(w) \/ EndExternal(w)

FrameStep(c) ==
    \/ RequestCompaction(c)
    \/ OpenRequested(c)
    \/ \E id \in BarrierIds : DrainCompaction(c, id)
    \/ \E id \in BarrierIds : ReportFailure(c, id)
    \/ \E id \in BarrierIds : DrainCompletion(c, id)
    \/ \E id \in BarrierIds, s \in Sequences : Confirm(c, id, s)

RequestStep(u) ==
    \/ SubmitCompaction(u) \/ CheckCompletion(u) \/ PrepareCompletion(u)
    \/ SubmitCompletion(u) \/ Cancel(u)

ReadStep ==
    \/ \E r \in reads : ReadDrained(r) \/ ResumeDrained(r)
    \/ \E r \in captures : ReadCapture(r) \/ ResumeCapture(r) \/ FailCapture(r)

TxStep(b) ==
    \/ LockCompaction(b) \/ PersistCompaction(b)
    \/ EnterCompletion(b) \/ LockCompletion(b) \/ PersistCompletion(b) \/ ConfirmClaim(b)
    \/ Commit(b) \/ FailTx(b) \/ FinishTx(b) \/ AbandonTx(b)

Next ==
    \/ \E c \in Connections : SocketStep(c) \/ UpdateStep(c) \/ FrameStep(c)
    \/ \E w \in ExternalRequests : ExternalStep(w)
    \/ \E u \in Users : RequestStep(u)
    \/ \E b \in BarrierIds : TxStep(b)
    \/ ReadStep
    \/ BarrierTimeout
    \/ ChangeStatus
    \/ CloseCompleted
    \/ RestartServer

Spec == Init /\ [][Next]_vars

(***************************************************************************)
(* What the scheduling of the code justifies.  Node resumes every handler  *)
(* whose database call answers, and PostgreSQL answers or times out        *)
(* (lock_timeout and statement_timeout); timers fire; a closing socket is  *)
(* removed (close handshake or missed heartbeats); the reauthorization     *)
(* interval runs on every open socket.  Nothing is assumed of clients.     *)
(***************************************************************************)
Fairness ==
    /\ \A b \in BarrierIds : WF_vars(TxStep(b))
    /\ \A c \in Connections :
          /\ WF_vars(JoinRoom(c) \/ CloseUnjoined(c))
          /\ WF_vars(Reauthorize(c))
          /\ WF_vars(sockets[c] = "closing" /\ RemoveSocket(c))
          /\ WF_vars(StartUpdate(c) \/ RefuseUpdate(c))
          /\ WF_vars(WriteUpdate(c))
          /\ WF_vars(EndUpdate(c))
          /\ WF_vars(OpenRequested(c))
    /\ \A w \in ExternalRequests : WF_vars(WriteExternal(w)) /\ WF_vars(EndExternal(w))
    /\ \A u \in Users : WF_vars(PrepareCompletion(u))
    /\ WF_vars(ReadStep)
    /\ WF_vars(BarrierTimeout)
    /\ WF_vars(CloseCompleted)

FairSpec == Spec /\ Fairness

-----------------------------------------------------------------------------
(* Properties *)

\* The values of the variables this module adds.
ServerTypeOK ==
    /\ CoordinatorTypeOK
    /\ DocumentTypeOK
    /\ sockets \in [Connections -> SocketStates]
    /\ handler \in [Connections -> HandlerStates]
    /\ requested \in SUBSET Connections
    /\ reads \in SUBSET Read
    /\ preparing \in SUBSET Users
    /\ external \in [ExternalRequests -> ExternalStates]
    /\ tx \in [BarrierIds -> Tx]
    /\ closeTimer \in BOOLEAN

\* The counters that keep a completion from reading an unsettled sequence and a
\* barrier from opening under an HTTP write count exactly the handlers between
\* begin and end: no path leaks one (which would block every later completion)
\* or ends one twice.
WritersAreCounted ==
    /\ collaborationWriters = Cardinality({c \in Connections : handler[c] \in {"writing", "written"}})
    /\ externalWriters = Cardinality({w \in ExternalRequests : external[w] \in {"writing", "written"}})

\* From its claim to the end of its transaction a compaction keeps its barrier,
\* whatever timers, disconnects, joins and failure frames do meanwhile.
CompactionKeepsBarrier ==
    \A b \in BarrierIds :
        (tx[b].kind = "compaction" /\ Steps(b) # "done")
        => barrier.id = b /\ barrier.phase = "committing"

\* The Meeting row is held by exactly the transaction that is past its lock.
RowLockHasHolder ==
    \A b \in BarrierIds :
        rowLock = b <=> Steps(b) \in {"locked", "persisted", "committing"}

\* While a transaction is past its check of the sequence, the sequence is still
\* the claimed one: nothing slips in between the check and the commit.
CheckedSequenceIsCurrent ==
    \A b \in BarrierIds :
        Steps(b) \in {"persisted", "committing"} => currentServerSequence = tx[b].sequence

\* What is sealed or replaced is what was checked, and stays the last there is.
SealsWhatWasChecked == SealedAtCurrentSequence /\ CheckedSequenceIsCurrent

\* The outcome clients are told is true: "completed" only for a completed
\* Meeting, "compacted" only when a snapshot of this or a later barrier is
\* active.
OutcomeIsTrue ==
    \A b \in BarrierIds :
        /\ released[b] = "completed" => status = "completed"
        /\ released[b] = "compacted" => snapshot.id >= b

\* What the coordinator says of a success, and what it counts, is what has
\* happened and happens; a barrier that is said to be aborted may have been
\* carried out (ExpiredCompletionRollsBack).
CoordinatorIsTruthful == OutcomeIsTrue /\ WritersAreCounted

\* An aborted compaction left the active snapshot alone (without a lost answer
\* to COMMIT).
AbortedCompactionChangesNothing ==
    \A b \in BarrierIds : released[b] = "aborted" => snapshot.id # b

\* A compaction that is carried out has its barrier to the end, and one that was
\* aborted leaves no trace.
CompactionIsWhole == CompactionKeepsBarrier /\ AbortedCompactionChangesNothing

\* A completion whose barrier was released as aborted does not complete the
\* Meeting afterwards (docs/security/e2ee-mention-snapshots.md: the claim checks
\* "force an expired transaction to roll back").
ExpiredCompletionRollsBack ==
    [][\A b \in BarrierIds :
        (InStep(b, "completion", "committing") /\ released[b] = "aborted")
        => ~InStep(b, "completion", "committed")']_vars

\* No snapshot becomes active but the one of the claimed compaction barrier.
SnapshotChangesUnderBarrier ==
    [][snapshot' # snapshot
       => /\ barrier.id = snapshot'.id
          /\ barrier.phase = "committing"
          /\ barrier.intention = "compaction"]_vars

\* Every barrier is released in the end: nobody stays paused for good, also
\* when clients never drain, never confirm or never submit.
BarrierIsReleased ==
    \A id \in BarrierIds : (barrier.id = id) ~> (barrier.id # id)

\* Every prepareCompletion request is answered in the end.
PrepareIsAnswered ==
    \A id \in BarrierIds : (id \in waiting) ~> (id \notin waiting)

\* Whoever waits for a barrier, paused or for an answer, does not wait for good.
BarriersEnd == BarrierIsReleased /\ PrepareIsAnswered

\* A completed Meeting is left by every collaborator: also by a socket whose
\* ticket was consumed just before the completion and that joins after it.
CompletedMeetingIsLeft ==
    \A c \in Connections :
        (status = "completed" /\ sockets[c] \in {"consumed", "open", "closing"})
        ~> (sockets[c] = "closed")
=============================================================================
